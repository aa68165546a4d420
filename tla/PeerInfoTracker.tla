--------------------------- MODULE PeerInfoTracker ---------------------------
(***************************************************************************)
(* The exchange of latency profiles with one contact, seen from one Core   *)
(* (core/peer_info_tracker.cpp).  The own profile is sent as an INFO until *)
(* it is acknowledged, at most three times; a contact whose profile is     *)
(* missing is asked for it by a REQUEST, at most three times.              *)
(*                                                                         *)
(* A profile is abstracted to its revision: 0 is no profile (local_valid   *)
(* and remote.valid are false).  Deadlines are kept as the seconds left.   *)
(***************************************************************************)
EXTENDS Integers

InfoAttempts == 3
RequestAttempts == 3
Never == -1         \* request_at_ms = 0: no REQUEST is planned

\* info_retry_at_ms after the n-th INFO, request_at_ms after the n-th REQUEST
InfoWait(n) == IF n <= 2 THEN n ELSE 0
RequestWait(n) == IF n = 1 THEN 2 ELSE IF n = 2 THEN 5 ELSE Never
FirstRequest == 1

Unmet == [online |-> FALSE, session |-> 0, remote |-> 0, remoteSession |-> 0,
          rev |-> 0, acked |-> FALSE, exhausted |-> FALSE, awaiting |-> FALSE,
          attempts |-> 0, retry |-> 0, requests |-> 0, request |-> Never]

-----------------------------------------------------------------------------
\* set_local_profile with a profile that differs from the last: a new revision to send.
NewProfile(q) ==
    [q EXCEPT !.rev = @ + 1, !.awaiting = FALSE, !.attempts = 0,
              !.acked = FALSE, !.exhausted = FALSE,
              !.retry = IF q.online THEN 0 ELSE @]

Unsent(q) == [q EXCEPT !.awaiting = FALSE, !.acked = FALSE, !.exhausted = FALSE]

ClearRemote(q) ==
    [q EXCEPT !.remote = 0, !.remoteSession = 0, !.requests = 0, !.request = Never]

\* update_presence with a contact that is not online
SeenOffline(q) ==
    [Unsent(IF q.online \/ q.remote # 0 THEN ClearRemote(q) ELSE q)
        EXCEPT !.online = FALSE, !.session = 0]

\* The end of update_presence: a contact that came back is sent the profile and asked for its own.
Meet(q) ==
    LET asking == [q EXCEPT !.requests = 0,
                            !.request = IF q.session # 0 THEN FirstRequest ELSE Never]
    IN  IF q.rev = 0 THEN asking
        ELSE [asking EXCEPT !.awaiting = FALSE, !.attempts = 0, !.retry = 0]

\* Mutated form: a new session keeps what is known of the old one.
SeenOnlineKeeps(q, s) ==
    LET changed == s # 0 /\ s # q.session
        known == [q EXCEPT !.online = TRUE, !.session = IF s # 0 THEN s ELSE q.session]
    IN  IF changed \/ ~q.online THEN Meet(known) ELSE known

\* Mutated form: the voice of a contact, which has no session, counts as a new one.
SeenOnlineByVoice(q, s) ==
    LET changed == s # q.session
        base == IF changed THEN Unsent(ClearRemote(q)) ELSE q
        known == [base EXCEPT !.online = TRUE, !.session = IF s # 0 THEN s ELSE q.session]
    IN  IF changed \/ ~q.online THEN Meet(known) ELSE known

\* update_presence with a contact online in session s, 0 while only its voice was heard
SeenOnline(q, s) ==
    LET changed == s # 0 /\ s # q.session
        base == IF changed THEN Unsent(ClearRemote(q)) ELSE q
        known == [base EXCEPT !.online = TRUE, !.session = IF s # 0 THEN s ELSE q.session]
    IN  IF changed \/ ~q.online THEN Meet(known) ELSE known

-----------------------------------------------------------------------------
\* tick
InfoDue(q) ==
    /\ q.online /\ q.rev # 0 /\ ~q.acked /\ ~q.exhausted
    /\ ~q.awaiting \/ q.retry = 0

SendsInfo(q) == InfoDue(q) /\ (~q.awaiting \/ q.attempts < InfoAttempts)
SendsRequest(q) ==
    /\ q.online /\ q.remote = 0 /\ q.session # 0
    /\ q.request = 0 /\ q.requests < RequestAttempts
Busy(q) == InfoDue(q) \/ SendsRequest(q)

\* Mutated form: a repetition is not counted.
QueueUncounted(q) ==
    [q EXCEPT !.awaiting = TRUE, !.attempts = 1, !.retry = InfoWait(1)]

\* queue_info
QueueInfo(q) ==
    [q EXCEPT !.awaiting = TRUE, !.attempts = @ + 1, !.retry = InfoWait(q.attempts + 1)]

QueueRequest(q) ==
    [q EXCEPT !.requests = @ + 1, !.request = RequestWait(q.requests + 1)]

Ticked(q) ==
    LET sent == IF SendsInfo(q) THEN QueueInfo(q)
                ELSE IF InfoDue(q) THEN [q EXCEPT !.awaiting = FALSE, !.exhausted = TRUE]
                ELSE q
    IN  IF SendsRequest(q) THEN QueueRequest(sent) ELSE sent

-----------------------------------------------------------------------------
\* on_packet, INFO: of another session than the contact's it is ignored.
Accepts(q, s) == q.online /\ q.session \in {0, s}

Newer(q, r) == q.remote = 0 \/ r > q.remote

OnInfo(q, s, r) ==
    LET known == [q EXCEPT !.session = s]
    IN  IF ~Accepts(q, s) THEN q
        ELSE IF Newer(q, r)
        THEN [known EXCEPT !.remote = r, !.remoteSession = s, !.requests = 0, !.request = Never]
        ELSE known

\* A repeated INFO is acknowledged again, an older one is not.
Acks(q, s, r) == Accepts(q, s) /\ r >= q.remote

\* on_packet, ACK: only of the present revision of the present session `mine'
OnAck(q, mine, s, r) ==
    IF q.online /\ q.rev # 0 /\ s = mine /\ r = q.rev
    THEN [q EXCEPT !.awaiting = FALSE, !.attempts = 0, !.acked = TRUE, !.exhausted = FALSE]
    ELSE q

\* Mutated form: what was acknowledged once is not sent again.
AnswersUnlessAcked(q, s) == q.online /\ s = q.session /\ q.rev # 0 /\ ~q.acked

\* on_packet, REQUEST of the contact's session
Answers(q, s) == q.online /\ s = q.session /\ q.rev # 0
OnRequest(q, s) ==
    IF Answers(q, s)
    THEN QueueInfo([q EXCEPT !.acked = FALSE, !.exhausted = FALSE, !.attempts = 0])
    ELSE q

Passed(n) == IF n > 0 THEN n - 1 ELSE n
Later(q) == [q EXCEPT !.retry = Passed(@), !.request = Passed(@)]
=============================================================================
