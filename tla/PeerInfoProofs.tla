--------------------------- MODULE PeerInfoProofs ---------------------------
(***************************************************************************)
(* Proofs about the exchange of latency profiles, for every number of      *)
(* restarts, revisions and lost, duplicated and delayed datagrams.         *)
(***************************************************************************)
EXTENDS PeerInfoExchange, TLAPS

\* What is known of a contact's profile is of the session the contact is in, and that
\* session is known: an INFO from a contact that was only heard brings its session along.
OfSession(q) ==
    q.remote # 0 => q.online /\ q.session # 0 /\ q.remoteSession = q.session

\* A tracker that may send an INFO and does not wait for its ACK has not sent one yet, so
\* three attempts are never exceeded.
Unstarted(q) ==
    (q.online /\ q.rev # 0 /\ ~q.acked /\ ~q.exhausted /\ ~q.awaiting) => q.attempts = 0

Sound(q) == q \in Records /\ OfSession(q) /\ Unstarted(q)

LEMMA UnmetSound == Sound(Unmet)
  BY DEF Sound, Unmet, Records, OfSession, Unstarted, Never, InfoAttempts, RequestAttempts

LEMMA NewProfileSound ==
    ASSUME NEW q, Sound(q)
    PROVE  Sound(NewProfile(q)) /\ NewProfile(q).remote = q.remote
<1> DEFINE wait == IF q.online THEN 0 ELSE q.retry
           r == [q EXCEPT !.rev = q.rev + 1, !.awaiting = FALSE, !.attempts = 0,
                          !.acked = FALSE, !.exhausted = FALSE, !.retry = wait]
<1>1. q \in Records /\ wait \in 0 .. 2 /\ q.rev + 1 \in Nat /\ 0 \in 0 .. InfoAttempts
  BY DEF Sound, Records, InfoAttempts
<1>2. NewProfile(q) = r
  BY <1>1 DEF NewProfile, Records
<1> HIDE DEF wait
<1>3. r \in Records
  BY <1>1 DEF Records
<1>4. r.remote = q.remote /\ r.remoteSession = q.remoteSession /\ r.online = q.online
      /\ r.session = q.session /\ r.attempts = 0
  BY <1>1 DEF Records
<1>5. QED
  BY <1>2, <1>3, <1>4 DEF Sound, OfSession, Unstarted

LEMMA ClearRemoteTyped ==
    ASSUME NEW q \in Records
    PROVE  /\ ClearRemote(q) \in Records
           /\ ClearRemote(q).remote = 0
<1>1. Never \in Never .. 5 /\ 0 \in 0 .. RequestAttempts /\ 0 \in Nat
  BY DEF Never, RequestAttempts
<1>2. ClearRemote(q) \in Records
  BY <1>1 DEF Records, ClearRemote
<1>3. QED
  BY <1>2 DEF Records, ClearRemote

LEMMA UnsentTyped ==
    ASSUME NEW q \in Records
    PROVE  /\ Unsent(q) \in Records
           /\ Unsent(q).remote = q.remote
  BY DEF Records, Unsent

LEMMA SeenOfflineSound ==
    ASSUME NEW q, Sound(q)
    PROVE  Sound(SeenOffline(q)) /\ ~SeenOffline(q).online
<1> DEFINE cleared == IF q.online \/ q.remote # 0 THEN ClearRemote(q) ELSE q
<1>1. cleared \in Records /\ cleared.remote = 0
  BY ClearRemoteTyped DEF Sound, Records
<1>2. Unsent(cleared) \in Records /\ Unsent(cleared).remote = 0
  BY <1>1, UnsentTyped
<1> HIDE DEF cleared
<1>3. SeenOffline(q) = [Unsent(cleared) EXCEPT !.online = FALSE, !.session = 0]
  BY DEF SeenOffline, cleared
<1>4. SeenOffline(q) \in Records
  BY <1>2, <1>3 DEF Records
<1>5. SeenOffline(q).remote = 0 /\ ~SeenOffline(q).online
  BY <1>2, <1>3 DEF Records
<1>6. QED
  BY <1>4, <1>5 DEF Sound, OfSession, Unstarted

\* Meeting a contact plans a REQUEST and starts the INFO anew; what is known stays.
LEMMA MeetTyped ==
    ASSUME NEW q \in Records
    PROVE  /\ Meet(q) \in Records
           /\ Meet(q).remote = q.remote /\ Meet(q).remoteSession = q.remoteSession
           /\ Meet(q).online = q.online /\ Meet(q).session = q.session
           /\ Unstarted(Meet(q))
<1> DEFINE planned == IF q.session # 0 THEN FirstRequest ELSE Never
           asking == [q EXCEPT !.requests = 0, !.request = planned]
<1>0. planned \in Never .. 5 /\ 0 \in 0 .. RequestAttempts /\ 0 \in 0 .. InfoAttempts
      /\ 0 \in 0 .. 2
  BY DEF FirstRequest, Never, RequestAttempts, InfoAttempts
<1> HIDE DEF planned
<1>1. asking \in Records
  BY <1>0 DEF Records
<1>2. /\ asking.remote = q.remote /\ asking.remoteSession = q.remoteSession
      /\ asking.online = q.online /\ asking.session = q.session /\ asking.rev = q.rev
  BY DEF Records
<1> HIDE DEF asking
<1>3. Meet(q) = IF q.rev = 0 THEN asking
                ELSE [asking EXCEPT !.awaiting = FALSE, !.attempts = 0, !.retry = 0]
  BY <1>2 DEF Meet, asking, planned
<1>4. CASE q.rev = 0
  BY <1>1, <1>2, <1>3, <1>4 DEF Unstarted
<1>5. CASE q.rev # 0
  <2> DEFINE again == [asking EXCEPT !.awaiting = FALSE, !.attempts = 0, !.retry = 0]
  <2>1. again \in Records
    BY <1>0, <1>1 DEF Records
  <2>2. /\ again.remote = asking.remote /\ again.remoteSession = asking.remoteSession
        /\ again.online = asking.online /\ again.session = asking.session
        /\ again.attempts = 0
    BY <1>1 DEF Records
  <2>3. QED
    BY <1>2, <1>3, <1>5, <2>1, <2>2 DEF Unstarted
<1>6. QED
  BY <1>4, <1>5

LEMMA SeenOnlineSound ==
    ASSUME NEW q, Sound(q), NEW s \in Nat
    PROVE  /\ Sound(SeenOnline(q, s))
           /\ q.online /\ SeenOnline(q, s).session = q.session
                  => SeenOnline(q, s).remote = q.remote
<1> DEFINE changed == s # 0 /\ s # q.session
           base == IF changed THEN Unsent(ClearRemote(q)) ELSE q
           known == [base EXCEPT !.online = TRUE, !.session = IF s # 0 THEN s ELSE q.session]
<1>1. q \in Records /\ OfSession(q) /\ Unstarted(q) /\ q.session \in Nat
  BY DEF Sound, Records
<1>2. base \in Records /\ (changed => base.remote = 0) /\ (~changed => base = q)
  BY <1>1, ClearRemoteTyped, UnsentTyped
<1> HIDE DEF base, changed
<1>3. known \in Records
  BY <1>1, <1>2 DEF Records
<1>4. /\ known.online = TRUE /\ known.session = IF s # 0 THEN s ELSE q.session
      /\ known.remote = base.remote /\ known.remoteSession = base.remoteSession
      /\ known.rev = base.rev /\ known.acked = base.acked /\ known.exhausted = base.exhausted
      /\ known.awaiting = base.awaiting /\ known.attempts = base.attempts
  BY <1>2 DEF Records
<1>5. OfSession(known)
  BY <1>1, <1>2, <1>4 DEF OfSession, changed
<1> HIDE DEF known
<1>6. SeenOnline(q, s) = IF changed \/ ~q.online THEN Meet(known) ELSE known
  BY DEF SeenOnline, known, base, changed
<1>7. CASE changed \/ ~q.online
  <2>1. q.online => SeenOnline(q, s).session # q.session
    BY <1>3, <1>4, <1>6, <1>7, MeetTyped DEF changed
  <2>2. Sound(SeenOnline(q, s))
    BY <1>3, <1>5, <1>6, <1>7, MeetTyped DEF Sound, OfSession
  <2>3. QED
    BY <2>1, <2>2
<1>8. CASE ~changed /\ q.online
  <2>1. Unstarted(known)
    BY <1>1, <1>2, <1>4, <1>8 DEF Unstarted
  <2>2. QED
    BY <1>2, <1>3, <1>4, <1>5, <1>6, <1>8, <2>1 DEF Sound
<1>9. QED
  BY <1>7, <1>8

\* What is done about the own profile leaves alone what is known of the contact's.
SameRemote(q, r) ==
    /\ r.remote = q.remote /\ r.remoteSession = q.remoteSession
    /\ r.online = q.online /\ r.session = q.session

LEMMA QueueInfoSound ==
    ASSUME NEW q \in Records, q.attempts < InfoAttempts
    PROVE  /\ QueueInfo(q) \in Records /\ SameRemote(q, QueueInfo(q))
           /\ Unstarted(QueueInfo(q))
           /\ QueueInfo(q).requests = q.requests
<1> DEFINE n == q.attempts + 1
           r == [q EXCEPT !.awaiting = TRUE, !.attempts = n, !.retry = InfoWait(n)]
<1>1. q.attempts \in Int /\ 0 <= q.attempts
  BY DEF Records
<1>2. n \in 0 .. InfoAttempts
  BY <1>1 DEF InfoAttempts
<1>3. InfoWait(n) \in 0 .. 2
  BY <1>1, <1>2 DEF InfoWait
<1>4. QueueInfo(q) = r
  BY DEF QueueInfo, Records
<1> HIDE DEF n
<1>5. r \in Records
  BY <1>2, <1>3 DEF Records
<1>6. SameRemote(q, r) /\ r.awaiting = TRUE /\ r.requests = q.requests
  BY DEF Records, SameRemote
<1>7. QED
  BY <1>4, <1>5, <1>6 DEF Unstarted

LEMMA QueueRequestTyped ==
    ASSUME NEW q \in Records, q.requests < RequestAttempts
    PROVE  /\ QueueRequest(q) \in Records /\ SameRemote(q, QueueRequest(q))
           /\ Unstarted(q) => Unstarted(QueueRequest(q))
<1> DEFINE n == q.requests + 1
           r == [q EXCEPT !.requests = n, !.request = RequestWait(n)]
<1>1. q.requests \in Int /\ 0 <= q.requests
  BY DEF Records
<1>2. n \in 0 .. RequestAttempts
  BY <1>1 DEF RequestAttempts
<1>3. RequestWait(n) \in Never .. 5
  BY <1>1, <1>2 DEF RequestWait, Never
<1>4. QueueRequest(q) = r
  BY DEF QueueRequest, Records
<1> HIDE DEF n
<1>5. r \in Records
  BY <1>2, <1>3 DEF Records
<1>6. /\ SameRemote(q, r) /\ r.rev = q.rev /\ r.acked = q.acked
      /\ r.exhausted = q.exhausted /\ r.awaiting = q.awaiting /\ r.attempts = q.attempts
  BY DEF Records, SameRemote
<1>7. QED
  BY <1>4, <1>5, <1>6 DEF Unstarted, SameRemote

\* A change that keeps what is known of the contact keeps a sound record sound.
LEMMA SameRemoteSound ==
    ASSUME NEW q, NEW r, Sound(q), SameRemote(q, r), r \in Records, Unstarted(r)
    PROVE  Sound(r)
  BY DEF Sound, SameRemote, OfSession

LEMMA TickedSound ==
    ASSUME NEW q, Sound(q)
    PROVE  Sound(Ticked(q)) /\ SameRemote(q, Ticked(q))
<1> DEFINE sent == IF SendsInfo(q) THEN QueueInfo(q)
                   ELSE IF InfoDue(q) THEN [q EXCEPT !.awaiting = FALSE, !.exhausted = TRUE]
                   ELSE q
<1>0. q \in Records /\ Unstarted(q)
  BY DEF Sound
<1>1. Sound(sent) /\ SameRemote(q, sent) /\ sent.requests = q.requests
  <2>1. CASE SendsInfo(q)
    <3>1. q.attempts < InfoAttempts
      BY <1>0, <2>1 DEF SendsInfo, InfoDue, Unstarted, InfoAttempts
    <3>2. QED
      BY <1>0, <2>1, <3>1, QueueInfoSound, SameRemoteSound
  <2>2. CASE ~SendsInfo(q) /\ InfoDue(q)
    <3> DEFINE r == [q EXCEPT !.awaiting = FALSE, !.exhausted = TRUE]
    <3>1. r \in Records
      BY <1>0 DEF Records
    <3>2. SameRemote(q, r) /\ r.exhausted = TRUE /\ r.requests = q.requests
      BY <1>0 DEF Records, SameRemote
    <3> HIDE DEF r
    <3>3. Sound(r)
      BY <3>1, <3>2, SameRemoteSound DEF Unstarted
    <3>4. sent = r
      BY <2>2 DEF r
    <3>5. QED
      BY <3>2, <3>3, <3>4
  <2>3. CASE ~SendsInfo(q) /\ ~InfoDue(q)
    BY <2>3 DEF SameRemote
  <2>4. QED
    BY <2>1, <2>2, <2>3
<1> HIDE DEF sent
<1>2. Ticked(q) = IF SendsRequest(q) THEN QueueRequest(sent) ELSE sent
  BY DEF Ticked, sent
<1>3. CASE SendsRequest(q)
  <2>1. sent \in Records /\ Unstarted(sent) /\ sent.requests < RequestAttempts
    BY <1>1, <1>3 DEF Sound, SendsRequest
  <2>2. QueueRequest(sent) \in Records /\ SameRemote(sent, QueueRequest(sent))
        /\ Unstarted(QueueRequest(sent))
    BY <2>1, QueueRequestTyped
  <2>3. SameRemote(q, QueueRequest(sent))
    BY <1>1, <2>2 DEF SameRemote
  <2>4. QED
    BY <1>2, <1>3, <2>2, <2>3, SameRemoteSound
<1>4. QED
  BY <1>1, <1>2, <1>3

-----------------------------------------------------------------------------
\* An INFO of the contact's session moves the known revision forward only.
LEMMA OnInfoSound ==
    ASSUME NEW q, Sound(q), NEW s \in Nat \ {0}, NEW r \in Nat
    PROVE  /\ Sound(OnInfo(q, s, r))
           /\ OnInfo(q, s, r).remote >= q.remote
<1> DEFINE known == [q EXCEPT !.session = s]
           newer == [known EXCEPT !.remote = r, !.remoteSession = s, !.requests = 0,
                                  !.request = Never]
<1>0. q \in Records /\ OfSession(q) /\ Unstarted(q) /\ q.remote \in Nat
  BY DEF Sound, Records
<1>1. known \in Records
  BY <1>0 DEF Records
<1>2. /\ known.session = s /\ known.remote = q.remote /\ known.online = q.online
      /\ known.remoteSession = q.remoteSession
      /\ known.rev = q.rev /\ known.acked = q.acked /\ known.exhausted = q.exhausted
      /\ known.awaiting = q.awaiting /\ known.attempts = q.attempts
  BY <1>0 DEF Records
<1> HIDE DEF known
<1>3. Never \in Never .. 5 /\ 0 \in 0 .. RequestAttempts
  BY DEF Never, RequestAttempts
<1>4. newer \in Records
  BY <1>1, <1>3 DEF Records
<1>5. /\ newer.session = s /\ newer.remote = r /\ newer.online = q.online
      /\ newer.remoteSession = s
      /\ newer.rev = q.rev /\ newer.acked = q.acked /\ newer.exhausted = q.exhausted
      /\ newer.awaiting = q.awaiting /\ newer.attempts = q.attempts
  BY <1>1, <1>2 DEF Records
<1> HIDE DEF newer
<1>6. OnInfo(q, s, r) = IF ~Accepts(q, s) THEN q ELSE IF Newer(q, r) THEN newer ELSE known
  BY DEF OnInfo, newer, known
<1>7. CASE ~Accepts(q, s)
  BY <1>0, <1>6, <1>7
<1>8. CASE Accepts(q, s) /\ Newer(q, r)
  <2>1. q.online
    BY <1>8 DEF Accepts
  <2>2. Sound(newer)
    BY <1>0, <1>4, <1>5, <2>1 DEF Sound, OfSession, Unstarted
  <2>3. r >= q.remote
    BY <1>0, <1>8 DEF Newer
  <2>4. QED
    BY <1>5, <1>6, <1>8, <2>2, <2>3
<1>9. CASE Accepts(q, s) /\ ~Newer(q, r)
  <2>1. q.online /\ q.session \in {0, s}
    BY <1>9 DEF Accepts
  <2>2. OfSession(known)
    BY <1>0, <1>2, <2>1 DEF OfSession
  <2>3. Sound(known)
    BY <1>0, <1>1, <1>2, <2>2 DEF Sound, Unstarted
  <2>4. QED
    BY <1>0, <1>2, <1>6, <1>9, <2>3
<1>10. QED
  BY <1>7, <1>8, <1>9

LEMMA OnAckSound ==
    ASSUME NEW q, Sound(q), NEW mine, NEW s, NEW r
    PROVE  Sound(OnAck(q, mine, s, r)) /\ SameRemote(q, OnAck(q, mine, s, r))
<1> DEFINE done == [q EXCEPT !.awaiting = FALSE, !.attempts = 0, !.acked = TRUE,
                             !.exhausted = FALSE]
<1>0. q \in Records /\ 0 \in 0 .. InfoAttempts
  BY DEF Sound, InfoAttempts
<1>1. done \in Records
  BY <1>0 DEF Records
<1>2. SameRemote(q, done) /\ done.acked = TRUE
  BY <1>0 DEF Records, SameRemote
<1> HIDE DEF done
<1>3. Sound(done)
  BY <1>1, <1>2, SameRemoteSound DEF Unstarted
<1>4. OnAck(q, mine, s, r) = done \/ OnAck(q, mine, s, r) = q
  BY DEF OnAck, done
<1>5. QED
  BY <1>2, <1>3, <1>4 DEF SameRemote

LEMMA OnRequestSound ==
    ASSUME NEW q, Sound(q), NEW s
    PROVE  Sound(OnRequest(q, s)) /\ SameRemote(q, OnRequest(q, s))
<1> DEFINE again == [q EXCEPT !.acked = FALSE, !.exhausted = FALSE, !.attempts = 0]
<1>0. q \in Records /\ 0 \in 0 .. InfoAttempts
  BY DEF Sound, InfoAttempts
<1>1. again \in Records
  BY <1>0 DEF Records
<1>2. SameRemote(q, again) /\ again.attempts = 0
  BY <1>0 DEF Records, SameRemote
<1> HIDE DEF again
<1>3. QueueInfo(again) \in Records /\ SameRemote(again, QueueInfo(again))
      /\ Unstarted(QueueInfo(again))
  BY <1>1, <1>2, QueueInfoSound DEF InfoAttempts
<1>4. SameRemote(q, QueueInfo(again))
  BY <1>2, <1>3 DEF SameRemote
<1>5. Sound(QueueInfo(again))
  BY <1>3, <1>4, SameRemoteSound
<1>6. OnRequest(q, s) = QueueInfo(again) \/ OnRequest(q, s) = q
  BY DEF OnRequest, again
<1>7. QED
  BY <1>4, <1>5, <1>6 DEF SameRemote

LEMMA LaterSound ==
    ASSUME NEW q, Sound(q)
    PROVE  Sound(Later(q)) /\ SameRemote(q, Later(q))
<1>0. q \in Records /\ Unstarted(q)
  BY DEF Sound
<1>1. Passed(q.retry) \in 0 .. 2 /\ Passed(q.request) \in Never .. 5
  BY <1>0 DEF Passed, Records, Never
<1> DEFINE r == [q EXCEPT !.retry = Passed(q.retry), !.request = Passed(q.request)]
<1>2. r \in Records
  BY <1>0, <1>1 DEF Records
<1>3. /\ SameRemote(q, r) /\ r.rev = q.rev /\ r.acked = q.acked
      /\ r.exhausted = q.exhausted /\ r.awaiting = q.awaiting /\ r.attempts = q.attempts
  BY <1>0 DEF Records, SameRemote
<1>4. Later(q) = r
  BY <1>0 DEF Later, Records
<1> HIDE DEF r
<1>5. Unstarted(r)
  BY <1>0, <1>3 DEF Unstarted, SameRemote
<1>6. QED
  BY <1>2, <1>3, <1>4, <1>5, SameRemoteSound

-----------------------------------------------------------------------------
\* The inductive invariant: sound trackers, and no datagram without a session, because
\* only a Core that runs sends and only with its own session or one it was sent.
Numbered ==
    /\ \A c \in Cores : up[c] => used[c] # 0
    /\ \A m \in net : m.session # 0
IInv == TypeOK /\ (\A c \in Cores : Sound(info[c])) /\ Numbered

\* One step of NoStepBack
Forward ==
    \A c \in Cores :
        (info[c].online /\ info'[c].online /\ info'[c].session = info[c].session)
            => info'[c].remote >= info[c].remote

\* The record r may follow q without a step back.
Follows(q, r) ==
    (q.online /\ r.online /\ r.session = q.session) => r.remote >= q.remote

Datagrams == [to : Cores, type : {"info", "ack", "request"}, session : Nat, revision : Nat]

LEMMA OtherIsACore == \A c \in Cores : Other(c) \in Cores
<1>1. TAKE c \in Cores
<1>2. PICK a \in Cores, b \in Cores : a # b /\ Cores = {a, b}
  BY ExchangeAssumption
<1>3. \E d \in Cores : d # c
  BY <1>1, <1>2
<1>4. QED
  BY <1>3 DEF Other

\* A step of one Core's tracker to a sound record that follows the last keeps both facts.
LEMMA OneTracker ==
    ASSUME IInv, NEW c \in Cores, NEW q, Sound(q), Follows(info[c], q),
           info' = [info EXCEPT ![c] = q]
    PROVE  /\ info' \in [Cores -> Records]
           /\ \A d \in Cores : Sound(info'[d])
           /\ Forward
<1>1. info \in [Cores -> Records] /\ \A d \in Cores : Sound(info[d])
  BY DEF IInv, TypeOK
<1>2. q \in Records
  BY DEF Sound
<1>3. info'[c] = q /\ \A d \in Cores \ {c} : info'[d] = info[d]
  BY <1>1
<1>4. \A d \in Cores : info[d].remote \in Nat
  BY <1>1 DEF Records
<1>5. \A d \in Cores : info[d].remote >= info[d].remote
  BY <1>4
<1>6. info' \in [Cores -> Records]
  BY <1>1, <1>2
<1>7. \A d \in Cores : Sound(info'[d])
  BY <1>1, <1>3
<1>8. Forward
  BY <1>3, <1>5 DEF Forward, Follows
<1>9. QED
  BY <1>6, <1>7, <1>8

LEMMA SameRemoteFollows ==
    ASSUME NEW q, NEW r, Sound(q), r.remote = q.remote
    PROVE  Follows(q, r)
<1>1. q.remote \in Nat
  BY DEF Sound, Records
<1>2. QED
  BY <1>1 DEF Follows

\* The datagrams a Core that runs may send
LEMMA SentTyped ==
    ASSUME IInv, NEW c \in Cores, up[c]
    PROVE  /\ Info(c) \in Datagrams /\ Info(c).session # 0
           /\ Request(c) \in Datagrams /\ Request(c).session # 0
           /\ \A m \in Datagrams : m.session # 0 =>
                  Ack(c, m) \in Datagrams /\ Ack(c, m).session # 0
<1>1. used[c] \in Nat /\ used[c] # 0 /\ info[c].rev \in Nat /\ Other(c) \in Cores
  BY OtherIsACore DEF IInv, TypeOK, Numbered, Records
<1>2. QED
  BY <1>1 DEF Info, Request, Ack, Packet, Datagrams

LEMMA NetTyped == TypeOK => net \in SUBSET Datagrams
  BY DEF TypeOK, Datagrams

\* Counting a repetition keeps the bound.
LEMMA TakenTyped ==
    ASSUME IInv, NEW m \in net, NEW again \in BOOLEAN, Taken(m, again)
    PROVE  /\ duplicated' \in 0 .. MaxDuplicated /\ used' = used /\ up' = up /\ lost' = lost
           /\ Rest(m, again) \in SUBSET Datagrams /\ Rest(m, again) \subseteq net
           /\ m \in Datagrams /\ m.to \in Cores /\ up[m.to] /\ m.session # 0
<1>1. duplicated \in Nat /\ MaxDuplicated \in Nat /\ duplicated <= MaxDuplicated
  BY ExchangeAssumption DEF IInv, TypeOK
<1>2. duplicated' \in 0 .. MaxDuplicated
  BY <1>1 DEF Taken
<1>3. m \in Datagrams /\ m.session # 0
  BY NetTyped DEF IInv, Numbered
<1>4. QED
  BY <1>2, <1>3, NetTyped DEF Taken, Rest, IInv, Datagrams

-----------------------------------------------------------------------------
LEMMA InitIInv == Init => IInv
<1> SUFFICES ASSUME Init
             PROVE  IInv
  OBVIOUS
<1>1. Sound(Unmet) /\ Unmet \in Records
  BY UnmetSound DEF Sound
<1>2. TypeOK
  BY <1>1, ExchangeAssumption DEF Init, TypeOK
<1>3. QED
  BY <1>1, <1>2 DEF Init, IInv, Numbered

\* A step that touches neither sessions nor the network's counters
LEMMA TrackerStep ==
    ASSUME IInv, NEW c \in Cores, NEW q, Sound(q), Follows(info[c], q),
           info' = [info EXCEPT ![c] = q],
           UNCHANGED <<used, up, net, lost, duplicated>>
    PROVE  IInv' /\ Forward
<1>1. /\ info' \in [Cores -> Records]
      /\ \A d \in Cores : Sound(info'[d])
      /\ Forward
  BY OneTracker
<1>2. TypeOK'
  BY <1>1 DEF IInv, TypeOK
<1>3. QED
  BY <1>1, <1>2 DEF IInv, Numbered

LEMMA StartStep ==
    ASSUME IInv, NEW c \in Cores, Start(c)
    PROVE  IInv' /\ Forward
<1>1. Sound(Unmet) /\ ~Unmet.online
  BY UnmetSound DEF Unmet
<1>2. /\ info' \in [Cores -> Records]
      /\ \A d \in Cores : Sound(info'[d])
      /\ Forward
  BY <1>1, OneTracker DEF Start, Follows
<1>3. /\ used \in [Cores -> Nat] /\ used[c] < LastSession[c] /\ LastSession[c] \in Nat
      /\ up \in [Cores -> BOOLEAN]
  BY ExchangeAssumption DEF IInv, TypeOK, Start
<1>4. used' \in [Cores -> Nat] /\ used'[c] = used[c] + 1
      /\ (\A d \in Cores \ {c} : used'[d] = used[d])
      /\ up' \in [Cores -> BOOLEAN] /\ (\A d \in Cores \ {c} : up'[d] = up[d])
  BY <1>3 DEF Start
<1>5. used'[c] <= LastSession[c] /\ used'[c] # 0
  BY <1>3, <1>4
<1>6. \A d \in Cores : used'[d] <= LastSession[d]
  BY <1>4, <1>5 DEF IInv, TypeOK
<1>7. TypeOK'
  BY <1>2, <1>4, <1>6 DEF IInv, TypeOK, Start
<1>8. Numbered'
  BY <1>4, <1>5 DEF IInv, Numbered, Start
<1>9. QED
  BY <1>2, <1>7, <1>8 DEF IInv

LEMMA EndStep ==
    ASSUME IInv, NEW c \in Cores, End(c)
    PROVE  IInv' /\ Forward
<1>1. Sound(Unmet) /\ ~Unmet.online
  BY UnmetSound DEF Unmet
<1>2. /\ info' \in [Cores -> Records]
      /\ \A d \in Cores : Sound(info'[d])
      /\ Forward
  BY <1>1, OneTracker DEF End, Follows
<1>3. up' \in [Cores -> BOOLEAN] /\ \A d \in Cores : up'[d] => up[d]
  BY DEF IInv, TypeOK, End
<1>4. TypeOK'
  BY <1>2, <1>3 DEF IInv, TypeOK, End
<1>5. QED
  BY <1>2, <1>3, <1>4 DEF IInv, Numbered, End

LEMMA NoticeStep ==
    ASSUME IInv, NEW c \in Cores,
           NoticeOffline(c) \/ \E s \in 0 .. used[Other(c)] : NoticeOnline(c, s)
    PROVE  IInv' /\ Forward
<1>1. Sound(info[c])
  BY DEF IInv
<1>2. CASE NoticeOffline(c)
  <2>1. Sound(SeenOffline(info[c])) /\ Follows(info[c], SeenOffline(info[c]))
    BY <1>1, SeenOfflineSound DEF Follows
  <2>2. QED
    BY <1>2, <2>1, TrackerStep DEF NoticeOffline, Notice
<1>3. CASE \E s \in 0 .. used[Other(c)] : NoticeOnline(c, s)
  <2>1. PICK s \in 0 .. used[Other(c)] : NoticeOnline(c, s)
    BY <1>3
  <2>2. s \in Nat
    BY <2>1
  <2>3. Sound(SeenOnline(info[c], s))
    BY <1>1, <2>2, SeenOnlineSound
  <2>4. Follows(info[c], SeenOnline(info[c], s))
    <3>1. info[c].remote \in Nat
      BY <1>1 DEF Sound, Records
    <3>2. QED
      BY <1>1, <2>2, <3>1, SeenOnlineSound DEF Follows
  <2>5. QED
    BY <2>1, <2>3, <2>4, TrackerStep DEF NoticeOnline, Notice
<1>4. QED
  BY <1>2, <1>3

LEMMA ChangeStep ==
    ASSUME IInv, NEW c \in Cores, ChangeProfile(c)
    PROVE  IInv' /\ Forward
<1>1. Sound(info[c])
  BY DEF IInv
<1>2. Sound(NewProfile(info[c])) /\ Follows(info[c], NewProfile(info[c]))
  BY <1>1, NewProfileSound, SameRemoteFollows
<1>3. QED
  BY <1>2, TrackerStep DEF ChangeProfile

LEMMA TickStep ==
    ASSUME IInv, NEW c \in Cores, Tick(c)
    PROVE  IInv' /\ Forward
<1>1. Sound(info[c])
  BY DEF IInv
<1>2. Sound(Ticked(info[c])) /\ Follows(info[c], Ticked(info[c]))
  BY <1>1, TickedSound, SameRemoteFollows DEF SameRemote
<1>3. info' = [info EXCEPT ![c] = Ticked(info[c])]
  BY DEF Tick
<1>4. /\ info' \in [Cores -> Records]
      /\ \A d \in Cores : Sound(info'[d])
      /\ Forward
  BY <1>2, <1>3, OneTracker
<1>5. net' \in SUBSET Datagrams /\ \A m \in net' : m.session # 0
  <2>1. /\ Info(c) \in Datagrams /\ Info(c).session # 0
        /\ Request(c) \in Datagrams /\ Request(c).session # 0
    BY SentTyped DEF Tick
  <2>2. net \in SUBSET Datagrams /\ \A m \in net : m.session # 0
    BY NetTyped DEF IInv, Numbered
  <2>3. net' \subseteq net \cup {Info(c), Request(c)}
    BY DEF Tick
  <2>4. QED
    BY <2>1, <2>2, <2>3
<1>6. TypeOK'
  BY <1>4, <1>5 DEF IInv, TypeOK, Tick, Datagrams
<1>7. QED
  BY <1>4, <1>5, <1>6 DEF IInv, Numbered, Tick

\* An arrival that changes the receiver's tracker to q and sends at most r
LEMMA ArrivalStep ==
    ASSUME IInv, NEW m \in net, NEW again \in BOOLEAN, Taken(m, again),
           NEW q, Sound(q), Follows(info[m.to], q),
           info' = [info EXCEPT ![m.to] = q],
           NEW r, r \in Datagrams, r.session # 0, net' \subseteq Rest(m, again) \cup {r}
    PROVE  IInv' /\ Forward
<1>1. /\ duplicated' \in 0 .. MaxDuplicated /\ used' = used /\ up' = up /\ lost' = lost
      /\ Rest(m, again) \in SUBSET Datagrams /\ Rest(m, again) \subseteq net
      /\ m.to \in Cores
  BY TakenTyped
<1>2. /\ info' \in [Cores -> Records]
      /\ \A d \in Cores : Sound(info'[d])
      /\ Forward
  BY <1>1, OneTracker
<1>3. net' \in SUBSET Datagrams /\ \A n \in net' : n.session # 0
  BY <1>1 DEF IInv, Numbered
<1>4. TypeOK'
  BY <1>1, <1>2, <1>3 DEF IInv, TypeOK, Datagrams
<1>5. QED
  BY <1>1, <1>2, <1>3, <1>4 DEF IInv, Numbered

LEMMA ReceiveInfoStep ==
    ASSUME IInv, NEW m \in net, NEW again \in BOOLEAN, ReceiveInfo(m, again)
    PROVE  IInv' /\ Forward
<1> DEFINE c == m.to
           q == OnInfo(info[c], m.session, m.revision)
<1>1. Taken(m, again) /\ m \in Datagrams /\ c \in Cores /\ up[c] /\ m.session # 0
  BY TakenTyped DEF ReceiveInfo
<1>2. Sound(info[c]) /\ m.session \in Nat \ {0} /\ m.revision \in Nat
  BY <1>1 DEF IInv, Datagrams
<1>3. Sound(q) /\ Follows(info[c], q)
  BY <1>2, OnInfoSound DEF Follows
<1>4. Ack(c, m) \in Datagrams /\ Ack(c, m).session # 0
  BY <1>1, SentTyped
<1>5. info' = [info EXCEPT ![c] = q] /\ net' \subseteq Rest(m, again) \cup {Ack(c, m)}
  BY DEF ReceiveInfo
<1> HIDE DEF q
<1>6. QED
  BY <1>1, <1>3, <1>4, <1>5, ArrivalStep

LEMMA ReceiveAckStep ==
    ASSUME IInv, NEW m \in net, NEW again \in BOOLEAN, ReceiveAck(m, again)
    PROVE  IInv' /\ Forward
<1> DEFINE c == m.to
           q == OnAck(info[c], used[c], m.session, m.revision)
<1>1. Taken(m, again) /\ m \in Datagrams /\ c \in Cores /\ m.session # 0
  BY TakenTyped DEF ReceiveAck
<1>2. Sound(info[c])
  BY <1>1 DEF IInv
<1>3. Sound(q) /\ Follows(info[c], q)
  BY <1>2, OnAckSound, SameRemoteFollows DEF SameRemote
<1>4. info' = [info EXCEPT ![c] = q] /\ net' \subseteq Rest(m, again) \cup {m}
  BY DEF ReceiveAck
<1> HIDE DEF q
<1>5. QED
  BY <1>1, <1>3, <1>4, ArrivalStep

LEMMA ReceiveRequestStep ==
    ASSUME IInv, NEW m \in net, NEW again \in BOOLEAN, ReceiveRequest(m, again)
    PROVE  IInv' /\ Forward
<1> DEFINE c == m.to
           q == OnRequest(info[c], m.session)
<1>1. Taken(m, again) /\ c \in Cores /\ up[c]
  BY TakenTyped DEF ReceiveRequest
<1>2. Sound(info[c])
  BY <1>1 DEF IInv
<1>3. Sound(q) /\ Follows(info[c], q)
  BY <1>2, OnRequestSound, SameRemoteFollows DEF SameRemote
<1>4. Info(c) \in Datagrams /\ Info(c).session # 0
  BY <1>1, SentTyped
<1>5. info' = [info EXCEPT ![c] = q] /\ net' \subseteq Rest(m, again) \cup {Info(c)}
  BY DEF ReceiveRequest
<1> HIDE DEF q
<1>6. QED
  BY <1>1, <1>3, <1>4, <1>5, ArrivalStep

\* Losing a datagram, or sending it to nobody, leaves the trackers alone.
LEMMA GoneStep ==
    ASSUME IInv, NEW m \in net, ReceiveNobody(m) \/ Lose(m)
    PROVE  IInv' /\ Forward
<1>1. lost \in Nat /\ MaxLost \in Nat /\ lost <= MaxLost
  BY ExchangeAssumption DEF IInv, TypeOK
<1>2. lost' \in 0 .. MaxLost
  BY <1>1 DEF ReceiveNobody, Lose
<1>3. net' \subseteq net /\ UNCHANGED <<used, up, info, duplicated>>
  BY DEF ReceiveNobody, Lose
<1>4. TypeOK'
  BY <1>2, <1>3 DEF IInv, TypeOK
<1>5. \A c \in Cores : info[c].remote \in Nat
  BY DEF IInv, TypeOK, Records
<1>6. Forward
  BY <1>3, <1>5 DEF Forward
<1>7. QED
  BY <1>3, <1>4, <1>6 DEF IInv, Numbered

LEMMA ElapseStep ==
    ASSUME IInv, Elapse
    PROVE  IInv' /\ Forward
<1>1. \A c \in Cores : info'[c] = Later(info[c]) /\ Sound(info[c])
  BY DEF IInv, Elapse
<1>2. \A c \in Cores : Sound(info'[c]) /\ SameRemote(info[c], info'[c])
  BY <1>1, LaterSound
<1>3. info' \in [Cores -> Records]
  BY <1>2 DEF Elapse, Sound
<1>4. lost \in Nat /\ MaxLost \in Nat /\ lost <= MaxLost
  BY ExchangeAssumption DEF IInv, TypeOK
<1>5. lost' \in 0 .. MaxLost
  <2>1. CASE net = {}
    BY <1>4, <2>1 DEF Elapse
  <2>2. CASE net # {}
    BY <1>4, <2>2 DEF Elapse
  <2>3. QED
    BY <2>1, <2>2
<1>6. TypeOK'
  BY <1>3, <1>5 DEF IInv, TypeOK, Elapse
<1>7. \A c \in Cores : info[c].remote \in Nat
  BY DEF IInv, TypeOK, Records
<1>8. Forward
  BY <1>2, <1>7 DEF Forward, SameRemote
<1>9. QED
  BY <1>2, <1>6, <1>8 DEF IInv, Numbered, Elapse

LEMMA Stutter == ASSUME IInv, UNCHANGED vars PROVE IInv' /\ Forward
<1>1. \A c \in Cores : info[c].remote \in Nat
  BY DEF IInv, TypeOK, Records
<1>2. QED
  BY <1>1 DEF IInv, TypeOK, Numbered, Forward, vars

LEMMA NextIInv == IInv /\ [Next]_vars => IInv' /\ Forward
<1> SUFFICES ASSUME IInv, [Next]_vars
             PROVE  IInv' /\ Forward
  OBVIOUS
<1>1. ASSUME NEW c \in Cores,
             \/ Start(c) \/ End(c) \/ ChangeProfile(c) \/ Tick(c) \/ NoticeOffline(c)
             \/ \E s \in 0 .. used[Other(c)] : NoticeOnline(c, s)
      PROVE  IInv' /\ Forward
  BY <1>1, StartStep, EndStep, ChangeStep, TickStep, NoticeStep
<1>2. ASSUME NEW m \in net, Receive(m)
      PROVE  IInv' /\ Forward
  BY <1>2, ReceiveInfoStep, ReceiveAckStep, ReceiveRequestStep, GoneStep DEF Receive
<1>3. ASSUME NEW m \in net, Lose(m)
      PROVE  IInv' /\ Forward
  BY <1>3, GoneStep
<1>4. QED
  BY <1>1, <1>2, <1>3, ElapseStep, Stutter DEF Next, Arrival

\* The types of both trackers and of all datagrams hold always: neither three INFOs nor
\* three REQUESTs are exceeded.
THEOREM TypeCorrect == Spec => []TypeOK
<1>1. IInv => TypeOK
  BY DEF IInv
<1>2. QED
  BY <1>1, InitIInv, NextIInv, PTL DEF Spec

\* The profile a Core uses for a contact is always one of the contact's shown session.
THEOREM ProfileBelongs == Spec => []ProfileOfSession
<1>1. IInv => ProfileOfSession
  BY DEF IInv, Sound, OfSession, ProfileOfSession
<1>2. QED
  BY <1>1, InitIInv, NextIInv, PTL DEF Spec

\* Within a session the known revision never goes back, however INFOs are repeated and
\* reordered.
THEOREM NeverStepsBack == Spec => NoStepBack
<1>1. IInv /\ [Next]_vars => [Forward]_vars
  BY NextIInv
<1>2. Spec => [][Forward]_vars
  BY <1>1, InitIInv, NextIInv, PTL DEF Spec
<1>3. QED
  BY <1>2 DEF NoStepBack, Forward
=============================================================================
