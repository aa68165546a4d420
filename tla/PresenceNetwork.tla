--------------------------- MODULE PresenceNetwork ---------------------------
(***************************************************************************)
(* Two Cores that are each other's contact, and the UDP network between    *)
(* them.  The room receiver thread (core/application.cpp,                  *)
(* receive_room_udp_audio) owns the tracker: it calls tick in every round  *)
(* of its loop, on_packet or on_audio_packet for a datagram, shutdown when *)
(* it ends; so every call is one step of its Core.                         *)
(*                                                                         *)
(* A Core starts with a session id it never had before (presence_entropy), *)
(* and ends by a GOODBYE or without one.  The network may reorder, lose    *)
(* and duplicate datagrams: MaxLost and MaxDuplicated bound how many,       *)
(* MaxSpent how many duplicates, voice packets and sessions there are in    *)
(* all, and MaxDelayed how many datagrams may be under way while a second   *)
(* passes.  Two equal datagrams under way count as one, a duplicate is a    *)
(* datagram that is received and stays under way.  The loop waits at most   *)
(* 50 ms, so a second passes only when no running Core has anything left    *)
(* to do.                                                                   *)
(***************************************************************************)
EXTENDS PresenceTracker, FiniteSets

CONSTANTS
    Cores,            \* two of them
    LastSession,      \* session ids are 1 .. LastSession, handed out in order
    MaxLost, MaxDuplicated, MaxDelayed,
    MaxAudio,         \* voice packets sent
    MaxSpent          \* bound: sessions, duplicates and voice packets together

ASSUME NetworkAssumption ==
    /\ \E c, d \in Cores : c # d /\ Cores = {c, d}
    /\ LastSession \in Nat
    /\ {MaxLost, MaxDuplicated, MaxDelayed, MaxAudio, MaxSpent} \subseteq Nat

VARIABLES
    own,        \* own[c]: session_id_ of the Core, 0 while it does not run
    peer,       \* peer[c]: what c knows of the other Core
    net,        \* datagrams under way
    used,       \* sessions handed out
    lost, duplicated, audio,
    asked       \* history: the other Core's session when c's probe began

vars == <<own, peer, net, used, lost, duplicated, audio, asked>>

Other(c) == CHOOSE d \in Cores : d # c
Up(c) == own[c] # 0
Running == {c \in Cores : Up(c)}

Affordable == used + duplicated + audio < MaxSpent

Datagram(c, type, nonce) == [to |-> Other(c), type |-> type, session |-> own[c], nonce |-> nonce]

\* next_nonce: a number that nobody holds any more, or ever guesses.
NewNonce ==
    LET held == {m.nonce : m \in net} \cup {peer[c].probe.nonce : c \in Cores}
    IN  CHOOSE n \in 1 .. (Cardinality(held) + 1) : n \notin held

-----------------------------------------------------------------------------
Init ==
    /\ own = [c \in Cores |-> 0]
    /\ peer = [c \in Cores |-> Unheard]
    /\ net = {}
    /\ used = 0 /\ lost = 0 /\ duplicated = 0 /\ audio = 0
    /\ asked = [c \in Cores |-> 0]

\* A new PresenceTracker and its start().
Start(c) ==
    /\ ~Up(c) /\ used < LastSession /\ Affordable
    /\ used' = used + 1
    /\ own' = [own EXCEPT ![c] = used + 1]
    /\ peer' = [peer EXCEPT ![c] = Unheard]
    /\ asked' = [asked EXCEPT ![c] = 0]
    /\ UNCHANGED <<net, lost, duplicated, audio>>

\* shutdown() and the end of the process; with `crash' the process ends without it.
End(c, crash) ==
    /\ Up(c)
    /\ own' = [own EXCEPT ![c] = 0]
    /\ peer' = [peer EXCEPT ![c] = Unheard]
    /\ asked' = [asked EXCEPT ![c] = 0]
    /\ net' = IF crash THEN net ELSE net \cup {Datagram(c, "goodbye", 0)}
    /\ UNCHANGED <<used, lost, duplicated, audio>>

\* tick, for a contact that has something due
TickGiveUp(c, i) ==
    /\ Up(c) /\ GivesUp(peer[c])
    /\ peer' = [peer EXCEPT ![c] = GiveUp(@, i)]
    /\ asked' = [asked EXCEPT ![c] = 0]
    /\ UNCHANGED <<own, net, used, lost, duplicated, audio>>

TickRepeat(c) ==
    /\ Up(c) /\ Awaiting(peer[c]) /\ Due(peer[c]) /\ ~GivesUp(peer[c])
    /\ peer' = [peer EXCEPT ![c] = Repeat(@)]
    /\ net' = net \cup {Datagram(c, "ping", peer[c].probe.nonce)}
    /\ UNCHANGED <<own, used, lost, duplicated, audio, asked>>

TickProbe(c) ==
    /\ Up(c) /\ ~Awaiting(peer[c]) /\ Due(peer[c])
    /\ peer' = [peer EXCEPT ![c] = EmitPing(@, NewNonce)]
    /\ net' = net \cup {Datagram(c, "ping", NewNonce)}
    /\ asked' = [asked EXCEPT ![c] = own[Other(c)]]
    /\ UNCHANGED <<own, used, lost, duplicated, audio>>

Tick(c) == TickRepeat(c) \/ TickProbe(c) \/ \E i \in OfflineProbe : TickGiveUp(c, i)

-----------------------------------------------------------------------------
\* A datagram arrives; if `again', the network will deliver it once more.
Taken(m, again) ==
    /\ again => duplicated < MaxDuplicated /\ Affordable
    /\ duplicated' = IF again THEN duplicated + 1 ELSE duplicated
    /\ UNCHANGED <<own, used, lost, audio>>
Rest(m, again) == IF again THEN net ELSE net \ {m}

\* The tracker of c changes to p; a probe that is gone asks nobody.
Learn(c, p) ==
    /\ peer' = [peer EXCEPT ![c] = p]
    /\ asked' = [asked EXCEPT ![c] = IF Awaiting(p) THEN @ ELSE 0]

ReceivePing(m, again, i) ==
    /\ m.type = "ping" /\ Up(m.to) /\ Taken(m, again)
    /\ Learn(m.to, OnPing(peer[m.to], m.session, i))
    /\ net' = Rest(m, again) \cup {Datagram(m.to, "pong", m.nonce)}

ReceivePong(m, again, i) ==
    /\ m.type = "pong" /\ Up(m.to) /\ Taken(m, again)
    /\ Learn(m.to, OnPong(peer[m.to], m.session, m.nonce, i))
    /\ net' = Rest(m, again)

ReceiveGoodbye(m, again, i) ==
    /\ m.type = "goodbye" /\ Up(m.to) /\ Taken(m, again)
    /\ Learn(m.to, OnGoodbye(peer[m.to], m.session, i))
    /\ net' = Rest(m, again)

ReceiveAudio(m, again, i) ==
    /\ m.type = "audio" /\ Up(m.to) /\ Taken(m, again)
    /\ Learn(m.to, OnAudio(peer[m.to], i))
    /\ net' = Rest(m, again)

\* Nobody listens on the port.
ReceiveNobody(m) ==
    /\ ~Up(m.to)
    /\ net' = net \ {m}
    /\ UNCHANGED <<own, peer, used, lost, duplicated, audio, asked>>

Receive(m) ==
    \/ \E again \in BOOLEAN :
        \/ \E i \in OnlineProbe :
              ReceivePing(m, again, i) \/ ReceivePong(m, again, i) \/ ReceiveAudio(m, again, i)
        \/ \E i \in OfflineProbe : ReceiveGoodbye(m, again, i)
    \/ ReceiveNobody(m)

\* The sender thread sends a voice packet; it carries no session.
SendAudio(c) ==
    /\ Up(c) /\ audio < MaxAudio /\ Affordable
    /\ audio' = audio + 1
    /\ net' = net \cup {[Datagram(c, "audio", 0) EXCEPT !.session = 0]}
    /\ UNCHANGED <<own, peer, used, lost, duplicated, asked>>

Lose(m) ==
    /\ lost < MaxLost
    /\ lost' = lost + 1
    /\ net' = net \ {m}
    /\ UNCHANGED <<own, peer, used, duplicated, audio, asked>>

Quiet == Cardinality(net) <= MaxDelayed /\ \A c \in Running : ~Due(peer[c])

\* A second passes.
Elapse ==
    /\ Quiet
    /\ peer' = [c \in Cores |-> IF Up(c) THEN Later(peer[c]) ELSE peer[c]]
    /\ UNCHANGED <<own, net, used, lost, duplicated, audio, asked>>

Arrival == \E m \in net : Receive(m)

Next ==
    \/ \E c \in Cores :
        \/ Start(c) \/ End(c, TRUE) \/ End(c, FALSE)
        \/ TickRepeat(c) \/ TickProbe(c) \/ \E i \in OfflineProbe : TickGiveUp(c, i)
        \/ SendAudio(c)
    \/ Arrival
    \/ \E m \in net : Lose(m)
    \/ Elapse

Spec == Init /\ [][Next]_vars

\* The receiver loop goes on, what is not lost arrives, and time passes.
FairSpec ==
    /\ Spec
    /\ \A c \in Cores : WF_vars(Tick(c))
    /\ WF_vars(Arrival)
    /\ WF_vars(Elapse)

-----------------------------------------------------------------------------
Messages ==
    [to : Cores, type : {"ping", "pong", "goodbye", "audio"}, session : Nat, nonce : Nat]
TypeOK ==
    /\ own \in [Cores -> 0 .. LastSession]
    /\ peer \in [Cores -> Contacts]
    /\ net \in SUBSET Messages
    /\ used \in 0 .. LastSession
    /\ lost \in 0 .. MaxLost
    /\ duplicated \in 0 .. MaxDuplicated
    /\ audio \in 0 .. MaxAudio
    /\ asked \in [Cores -> 0 .. LastSession]

\* The round trip in the tooltip was timed with the session the contact is in now, not
\* with one before its restart; and only a contact that is online has one.
RttOfSession ==
    \A c \in Cores :
        peer[c].rtt # 0 => peer[c].rtt = peer[c].session /\ peer[c].state = "online"

\* A contact whose Core crashed is not shown online for ever: nothing that is lost,
\* delayed or repeated, and no GOODBYE that never came, puts off the end beyond the
\* next probe and the time its three attempts take (40 s in the code).
SilenceBounded ==
    \A c \in Cores : peer[c].state = "online" =>
        \E n \in OnlineProbe : peer[c].age <= n + ProbeTime

\* As long as no more than Attempts-1 datagrams are lost and nothing is late, a probe is
\* only given up when the session it was first sent to has ended.
LossTolerated ==
    [][\A c \in Cores :
        (\E i \in OfflineProbe : TickGiveUp(c, i)) =>
            asked[c] = 0 \/ asked[c] # own[Other(c)]]_vars

BothUp == \A c \in Cores : Up(c)
Settled ==
    \A c \in Cores : LET s == own[Other(c)] IN
        peer[c].state = "online" /\ peer[c].session = s /\ peer[c].rtt = s

\* When both Cores stay, both end up showing the other online, in its present session and
\* with a round trip, whatever was lost, repeated, reordered or left of earlier sessions.
\* Neither side's probe may keep cancelling the other's.
PresenceSettles == <>[]BothUp => <>[]Settled

\* The answers to one probe cannot keep the two Cores busy for ever.
Calms == []<>Quiet
=============================================================================
