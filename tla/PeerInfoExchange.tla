-------------------------- MODULE PeerInfoExchange --------------------------
(***************************************************************************)
(* Two Cores that exchange their latency profiles (core/application.cpp,   *)
(* synchronize_peer_info and receive_room_udp_audio) over UDP that loses,  *)
(* repeats and reorders datagrams.                                         *)
(*                                                                         *)
(* Presence is the environment, and weaker than what PresenceNetwork does: *)
(* a Core may notice the other at any time, as offline, as online in its   *)
(* present session, in an earlier one, or only by its voice.  The receiver *)
(* loop hands every change to update_presence before the tracker does      *)
(* anything else, so noticing and update_presence are one step.            *)
(***************************************************************************)
EXTENDS PeerInfoTracker, FiniteSets

CONSTANTS
    Cores,          \* two of them
    LastSession,    \* session ids of Core c are 1 .. LastSession[c], in order
    LastRevision,   \* changes of c's profile in one session: at most LastRevision[c]
    Voice,          \* may a Core be noticed by its voice before any PING
    MaxLost,        \* bound: datagrams lost, and seconds that some are late
    MaxDuplicated,
    MaxDelayed      \* bound: datagrams that are late at a time

ASSUME ExchangeAssumption ==
    /\ \E c, d \in Cores : c # d /\ Cores = {c, d}
    /\ LastSession \in [Cores -> Nat] /\ LastRevision \in [Cores -> Nat]
    /\ Voice \in BOOLEAN
    /\ {MaxLost, MaxDuplicated, MaxDelayed} \subseteq Nat

VARIABLES
    used,       \* used[c]: sessions c has had; the last is its present one
    up,         \* up[c]: the Core runs
    info,       \* info[c]: what c's tracker keeps of the other Core
    net,        \* datagrams under way
    lost, duplicated

vars == <<used, up, info, net, lost, duplicated>>

Other(c) == CHOOSE d \in Cores : d # c

Packet(c, type, s, r) == [to |-> Other(c), type |-> type, session |-> s, revision |-> r]
Info(c) == Packet(c, "info", used[c], info[c].rev)
Request(c) == Packet(c, "request", used[c], 1)
Ack(c, m) == Packet(c, "ack", m.session, m.revision)

-----------------------------------------------------------------------------
Init ==
    /\ used = [c \in Cores |-> 0]
    /\ up = [c \in Cores |-> FALSE]
    /\ info = [c \in Cores |-> Unmet]
    /\ net = {}
    /\ lost = 0 /\ duplicated = 0

Start(c) ==
    /\ ~up[c] /\ used[c] < LastSession[c]
    /\ used' = [used EXCEPT ![c] = @ + 1]
    /\ up' = [up EXCEPT ![c] = TRUE]
    /\ info' = [info EXCEPT ![c] = Unmet]
    /\ UNCHANGED <<net, lost, duplicated>>

End(c) ==
    /\ up[c]
    /\ up' = [up EXCEPT ![c] = FALSE]
    /\ info' = [info EXCEPT ![c] = Unmet]
    /\ UNCHANGED <<used, net, lost, duplicated>>

Notice(c, q) ==
    /\ up[c]
    /\ info' = [info EXCEPT ![c] = q]
    /\ UNCHANGED <<used, up, net, lost, duplicated>>

NoticeOffline(c) == info[c].online /\ Notice(c, SeenOffline(info[c]))

NoticeOnline(c, s) ==
    /\ s # info[c].session \/ ~info[c].online
    /\ s = 0 => Voice
    /\ Notice(c, SeenOnline(info[c], s))

\* set_local_profile with a profile that changed
ChangeProfile(c) ==
    /\ up[c] /\ info[c].rev < LastRevision[c]
    /\ info' = [info EXCEPT ![c] = NewProfile(@)]
    /\ UNCHANGED <<used, up, net, lost, duplicated>>

Tick(c) ==
    /\ up[c] /\ Busy(info[c])
    /\ info' = [info EXCEPT ![c] = Ticked(@)]
    /\ net' = net \cup (IF SendsInfo(info[c]) THEN {Info(c)} ELSE {})
                  \cup (IF SendsRequest(info[c]) THEN {Request(c)} ELSE {})
    /\ UNCHANGED <<used, up, lost, duplicated>>

-----------------------------------------------------------------------------
\* A datagram reaches a Core that runs; if `again', it will arrive once more.
Taken(m, again) ==
    /\ up[m.to]
    /\ again => duplicated < MaxDuplicated
    /\ duplicated' = IF again THEN duplicated + 1 ELSE duplicated
    /\ UNCHANGED <<used, up, lost>>
Rest(m, again) == IF again THEN net ELSE net \ {m}

ReceiveInfo(m, again) ==
    /\ m.type = "info" /\ Taken(m, again)
    /\ info' = [info EXCEPT ![m.to] = OnInfo(@, m.session, m.revision)]
    /\ net' = Rest(m, again) \cup
              (IF Acks(info[m.to], m.session, m.revision) THEN {Ack(m.to, m)} ELSE {})

ReceiveAck(m, again) ==
    /\ m.type = "ack" /\ Taken(m, again)
    /\ info' = [info EXCEPT ![m.to] = OnAck(@, used[m.to], m.session, m.revision)]
    /\ net' = Rest(m, again)

ReceiveRequest(m, again) ==
    /\ m.type = "request" /\ Taken(m, again)
    /\ info' = [info EXCEPT ![m.to] = OnRequest(@, m.session)]
    /\ net' = Rest(m, again) \cup (IF Answers(info[m.to], m.session) THEN {Info(m.to)} ELSE {})

ReceiveNobody(m) ==
    /\ ~up[m.to]
    /\ net' = net \ {m}
    /\ UNCHANGED <<used, up, info, lost, duplicated>>

Receive(m) ==
    \/ \E again \in BOOLEAN :
        ReceiveInfo(m, again) \/ ReceiveAck(m, again) \/ ReceiveRequest(m, again)
    \/ ReceiveNobody(m)

Lose(m) ==
    /\ lost < MaxLost
    /\ lost' = lost + 1
    /\ net' = net \ {m}
    /\ UNCHANGED <<used, up, info, duplicated>>

\* The loop looks after the trackers every 50 ms: nothing due is left when a second passes.
\* A second by which datagrams are late counts as a loss: an attempt may fall into it.
Elapse ==
    /\ Cardinality(net) <= MaxDelayed
    /\ \A c \in Cores : up[c] => ~Busy(info[c])
    /\ net # {} => lost < MaxLost
    /\ lost' = IF net = {} THEN lost ELSE lost + 1
    /\ info' = [c \in Cores |-> Later(info[c])]
    /\ UNCHANGED <<used, up, net, duplicated>>

Arrival == \E m \in net : Receive(m)

Next ==
    \/ \E c \in Cores :
        \/ Start(c) \/ End(c) \/ ChangeProfile(c) \/ Tick(c)
        \/ NoticeOffline(c)
        \/ \E s \in 0 .. used[Other(c)] : NoticeOnline(c, s)
    \/ Arrival
    \/ \E m \in net : Lose(m)
    \/ Elapse

Spec == Init /\ [][Next]_vars

\* The receiver loop goes on, what is not lost arrives, and time passes.
FairSpec ==
    /\ Spec
    /\ \A c \in Cores : WF_vars(Tick(c))
    /\ WF_vars(Arrival)
    /\ WF_vars(Elapse)

-----------------------------------------------------------------------------
Records ==
    [online : BOOLEAN, session : Nat, remote : Nat, remoteSession : Nat, rev : Nat,
     acked : BOOLEAN, exhausted : BOOLEAN, awaiting : BOOLEAN,
     attempts : 0 .. InfoAttempts, retry : 0 .. 2,
     requests : 0 .. RequestAttempts, request : Never .. 5]

TypeOK ==
    /\ used \in [Cores -> Nat] /\ \A c \in Cores : used[c] <= LastSession[c]
    /\ up \in [Cores -> BOOLEAN]
    /\ info \in [Cores -> Records]
    /\ net \in SUBSET [to : Cores, type : {"info", "ack", "request"},
                       session : Nat, revision : Nat]
    /\ lost \in 0 .. MaxLost /\ duplicated \in 0 .. MaxDuplicated

\* The profile that enters the latency estimate belongs to the session the contact is in,
\* never to one before its restart, in whatever order INFO and presence arrive.
ProfileOfSession ==
    \A c \in Cores : info[c].remote # 0 =>
        info[c].online /\ info[c].remoteSession = info[c].session

\* While a contact stays online in one session, what is known of its profile is neither
\* taken back to an earlier revision by a reordered or repeated INFO nor forgotten when only
\* its voice is heard.
NoStepBack ==
    [][\A c \in Cores :
        (info[c].online /\ info'[c].online /\ info'[c].session = info[c].session)
            => info'[c].remote >= info[c].remote]_vars

\* When both Cores stay and notice each other, each ends up with the other's last profile,
\* if no more datagrams are lost than the three attempts allow for.
Noticed ==
    \A c \in Cores : up[c] /\ info[c].online /\ info[c].session = used[Other(c)]
ProfilesKnown ==
    \A c \in Cores : info[c].remote = info[Other(c)].rev
ProfilesSettle == <>[]Noticed => <>[]ProfilesKnown

\* The exchange ends: Cores "exchange compact, acknowledged audio profiles only when
\* needed" (CHANGELOG.md).  Once presence changes no more, no datagram is sent any more,
\* even if the contact never answers.
PresenceSame ==
    \A c \in Cores :
        info'[c].online = info[c].online /\ info'[c].session = info[c].session
ExchangeEnds == <>[][PresenceSame]_vars => <>[](net = {})
=============================================================================
