--------------------------- MODULE PresenceTracker ---------------------------
(***************************************************************************)
(* What one Core knows of one contact (core/presence_tracker.cpp): is it   *)
(* online, which session of it answered, has the round trip been measured. *)
(*                                                                         *)
(* A contact is a record.  Deadlines are kept as the time left until they  *)
(* fall due, in seconds, never below 0; last_seen_ms is kept as its age.   *)
(* rtt is the session whose PONG was timed, 0 for rtt_ms < 0: the number   *)
(* of milliseconds is abstracted.  pending_nonce, attempts and retry_at_ms *)
(* are only read while awaiting_pong, so they form the record `probe',     *)
(* which is NoProbe when no PONG is awaited.  A handler that draws a       *)
(* random interval takes the interval as its last argument.                *)
(***************************************************************************)
EXTENDS Integers

CONSTANTS
    OnlineProbe,    \* seconds to the next probe of a contact that answers
    OfflineProbe    \* seconds to the next probe of a contact that does not

ASSUME ProbeAssumption ==
    /\ OnlineProbe \subseteq Nat \ {0} /\ OnlineProbe # {}
    /\ OfflineProbe \subseteq Nat \ {0} /\ OfflineProbe # {}

Attempts == 3       \* PINGs sent before a probe is given up
FirstRetry == 1     \* kept by emit_ping
NextRetry == 2      \* kept by tick after every repetition
ProbeTime == FirstRetry + (Attempts - 1) * NextRetry    \* from the first PING to giving up

Probes == [attempts : 0 .. Attempts, retry : 0 .. NextRetry, nonce : Nat]
Contacts ==
    [state : {"unknown", "online", "offline"}, session : Nat, age : Nat, rtt : Nat,
     next : Nat, probe : Probes]

NoProbe == [attempts |-> 0, retry |-> 0, nonce |-> 0]

\* A contact after the constructor and start(): never heard of, probed at once.
Unheard == [state |-> "unknown", session |-> 0, age |-> 0, rtt |-> 0,
            next |-> 0, probe |-> NoProbe]

Awaiting(p) == p.probe.attempts > 0

\* Mutated form: a packet that is no PONG cancels the probe as well.
CancelProbe(p, preserve, i) ==
    [p EXCEPT !.state = "online", !.age = 0, !.probe = NoProbe, !.next = i]

\* mark_online: only a PONG may cancel a probe that is under way.
MarkOnline(p, preserve, i) ==
    IF preserve /\ Awaiting(p)
    THEN [p EXCEPT !.state = "online", !.age = 0]
    ELSE [p EXCEPT !.state = "online", !.age = 0, !.probe = NoProbe, !.next = i]

\* on_packet, PING of session s: a contact that was never timed is probed at once.
OnPing(p, s, i) ==
    LET known == [p EXCEPT !.rtt = IF p.session # s THEN 0 ELSE p.rtt, !.session = s]
        q == MarkOnline(known, TRUE, i)
    IN  IF ~Awaiting(q) /\ q.rtt = 0 THEN [q EXCEPT !.next = 0] ELSE q

\* on_packet, PONG: only the answer to the PING under way counts.
OnPong(p, s, nonce, i) ==
    IF Awaiting(p) /\ nonce = p.probe.nonce
    THEN MarkOnline([p EXCEPT !.session = s, !.rtt = s], FALSE, i)
    ELSE p

\* on_packet, GOODBYE: of a session that is not (or no longer) known it is ignored.
OnGoodbye(p, s, i) ==
    IF p.session # 0 /\ p.session = s
    THEN [p EXCEPT !.state = "offline", !.rtt = 0, !.probe = NoProbe, !.next = i]
    ELSE p

OnAudio(p, i) == MarkOnline(p, TRUE, i)

-----------------------------------------------------------------------------
\* tick finds something to do for the contact.
Due(p) == IF Awaiting(p) THEN p.probe.retry = 0 ELSE p.next = 0

\* Mutated form: one attempt less than three.
GivesUpEarly(p) == Awaiting(p) /\ Due(p) /\ p.probe.attempts >= Attempts - 1

\* tick: the last attempt has not been answered in time.
GivesUp(p) == Awaiting(p) /\ Due(p) /\ p.probe.attempts >= Attempts

\* A contact that was never heard stays unknown.
GiveUp(p, i) ==
    [p EXCEPT !.state = IF p.state = "unknown" THEN "unknown" ELSE "offline",
              !.rtt = 0, !.probe = NoProbe, !.next = i]

\* Mutated form: the attempts are not counted.
RepeatUncounted(p) == [p EXCEPT !.probe.retry = NextRetry]

\* tick: the same PING once more.
Repeat(p) == [p EXCEPT !.probe.attempts = @ + 1, !.probe.retry = NextRetry]

\* emit_ping
EmitPing(p, nonce) ==
    [p EXCEPT !.probe = [attempts |-> 1, retry |-> FirstRetry, nonce |-> nonce]]

\* One second passes.  The age is only compared while the contact is shown online.
Left(n) == IF n = 0 THEN 0 ELSE n - 1
Later(p) ==
    [p EXCEPT !.next = Left(@), !.probe.retry = Left(@),
              !.age = IF p.state = "online" THEN @ + 1 ELSE 0]
=============================================================================
