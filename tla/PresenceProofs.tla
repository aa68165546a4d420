--------------------------- MODULE PresenceProofs ---------------------------
(***************************************************************************)
(* Proofs about presence, for every probe interval and every number of     *)
(* sessions and of lost, duplicated, delayed and voice datagrams; the last *)
(* theorem is about the losses that a probe survives.                      *)
(***************************************************************************)
EXTENDS PresenceNetwork, FiniteSetTheorems, TLAPS

\* Seconds until the probe under way is given up
Remaining(p) == p.probe.retry + (Attempts - p.probe.attempts) * NextRetry

\* No probe lasts longer than ProbeTime.
ProbeBounded(p) == Awaiting(p) => Remaining(p) <= ProbeTime

\* The age of a contact shown online and what is left of the wait for its next sign of
\* life add up to no more than one interval and one probe.
Dated(p) ==
    p.state = "online" =>
        \E n \in OnlineProbe :
            IF Awaiting(p) THEN p.age + Remaining(p) <= n + ProbeTime ELSE p.age + p.next <= n

Timed(p) == p.rtt # 0 => p.rtt = p.session /\ p.state = "online"

Sound(p) == p \in Contacts /\ ProbeBounded(p) /\ Dated(p) /\ Timed(p)

-----------------------------------------------------------------------------
LEMMA IntervalsAreNaturals ==
    /\ \A n \in OnlineProbe : n \in Nat
    /\ \A n \in OfflineProbe : n \in Nat
  BY ProbeAssumption

LEMMA NoProbeTyped == NoProbe \in Probes /\ NoProbe.attempts = 0
  BY DEF NoProbe, Probes, Attempts, NextRetry

LEMMA UnheardSound == Sound(Unheard)
  BY DEF Sound, Unheard, NoProbe, Contacts, Probes, ProbeBounded, Dated, Timed, Awaiting,
         Attempts, NextRetry

\* Being heard keeps a contact sound, whether a probe is under way or not.
LEMMA MarkOnlineSound ==
    ASSUME NEW p \in Contacts, ProbeBounded(p), p.rtt # 0 => p.rtt = p.session,
           NEW preserve \in BOOLEAN, NEW i \in OnlineProbe
    PROVE  /\ Sound(MarkOnline(p, preserve, i))
           /\ MarkOnline(p, preserve, i).rtt = p.rtt
<1>1. i \in Nat
  BY IntervalsAreNaturals
<1>2. CASE preserve /\ Awaiting(p)
  <2> DEFINE q == MarkOnline(p, preserve, i)
  <2>1. q = [p EXCEPT !.state = "online", !.age = 0]
    BY <1>2 DEF MarkOnline
  <2> HIDE DEF q
  <2>2. /\ q \in Contacts
        /\ q.state = "online" /\ q.age = 0 /\ q.rtt = p.rtt
        /\ q.session = p.session /\ q.probe = p.probe
    <3>1. q \in Contacts
      BY <2>1 DEF Contacts
    <3>2. QED
      BY <2>1, <3>1 DEF Contacts
  <2>3. Awaiting(q) /\ Remaining(q) = Remaining(p) /\ Remaining(q) <= ProbeTime
    BY <1>2, <2>2 DEF Awaiting, Remaining, ProbeBounded
  <2>4. Remaining(q) \in Int /\ ProbeTime \in Int
    BY <2>2 DEF Remaining, ProbeTime, Contacts, Probes, Attempts, NextRetry, FirstRetry
  <2>5. q.age + Remaining(q) <= i + ProbeTime
    BY <1>1, <2>2, <2>3, <2>4
  <2>6. QED
    BY <2>2, <2>3, <2>5 DEF Sound, ProbeBounded, Dated, Timed, q
<1>3. CASE ~(preserve /\ Awaiting(p))
  <2> DEFINE q == MarkOnline(p, preserve, i)
  <2>1. q = [p EXCEPT !.state = "online", !.age = 0, !.probe = NoProbe, !.next = i]
    BY <1>3 DEF MarkOnline
  <2> HIDE DEF q
  <2>2. /\ q \in Contacts
        /\ q.state = "online" /\ q.age = 0 /\ q.rtt = p.rtt
        /\ q.session = p.session /\ q.probe = NoProbe /\ q.next = i
    <3>1. q \in Contacts
      BY <1>1, <2>1, NoProbeTyped DEF Contacts
    <3>2. QED
      BY <2>1, <3>1 DEF Contacts
  <2>3. ~Awaiting(q)
    BY <2>2, NoProbeTyped DEF Awaiting
  <2>4. q.age + q.next <= i
    BY <1>1, <2>2
  <2>5. QED
    BY <2>2, <2>3, <2>4 DEF Sound, ProbeBounded, Dated, Timed, q
<1>4. QED
  BY <1>2, <1>3

LEMMA OnPingSound ==
    ASSUME NEW p \in Contacts, Sound(p), NEW s \in Nat, NEW i \in OnlineProbe
    PROVE  Sound(OnPing(p, s, i))
<1> DEFINE known == [p EXCEPT !.rtt = IF p.session # s THEN 0 ELSE p.rtt, !.session = s]
           q == MarkOnline(known, TRUE, i)
<1>1. known \in Contacts /\ known.probe = p.probe
      /\ (known.rtt # 0 => known.rtt = known.session)
  BY DEF Contacts, Sound, Timed
<1>2. ProbeBounded(known)
  BY <1>1 DEF Sound, ProbeBounded, Awaiting, Remaining
<1>3. Sound(q)
  BY <1>1, <1>2, MarkOnlineSound
<1>4. OnPing(p, s, i) = IF ~Awaiting(q) /\ q.rtt = 0 THEN [q EXCEPT !.next = 0] ELSE q
  BY DEF OnPing
<1> HIDE DEF q
<1>5. ASSUME ~Awaiting(q)
      PROVE  Sound([q EXCEPT !.next = 0])
  <2> DEFINE r == [q EXCEPT !.next = 0]
  <2>1. q \in Contacts /\ q.age \in Nat /\ q.next \in Nat
    BY <1>3 DEF Sound, Contacts
  <2>2. r \in Contacts /\ r.next = 0 /\ r.state = q.state /\ r.age = q.age
        /\ r.rtt = q.rtt /\ r.session = q.session /\ r.probe = q.probe
    BY <2>1 DEF Contacts
  <2> HIDE DEF r
  <2>3. ~Awaiting(r)
    BY <1>5, <2>2 DEF Awaiting
  <2>4. ASSUME r.state = "online"
        PROVE  \E n \in OnlineProbe : r.age + r.next <= n
    <3>1. PICK n \in OnlineProbe : q.age + q.next <= n
      BY <1>3, <1>5, <2>2, <2>4 DEF Sound, Dated
    <3>2. n \in Nat
      BY IntervalsAreNaturals
    <3>3. r.age + r.next <= n
      BY <2>1, <2>2, <3>1, <3>2
    <3>4. QED
      BY <3>3
  <2>5. QED
    BY <1>3, <2>2, <2>3, <2>4 DEF Sound, ProbeBounded, Dated, Timed, r
<1>6. QED
  BY <1>3, <1>4, <1>5

LEMMA OnPongSound ==
    ASSUME NEW p \in Contacts, Sound(p), NEW s \in Nat, NEW nonce \in Nat,
           NEW i \in OnlineProbe
    PROVE  Sound(OnPong(p, s, nonce, i))
<1> DEFINE known == [p EXCEPT !.session = s, !.rtt = s]
<1>1. known \in Contacts /\ known.probe = p.probe /\ known.rtt = known.session
  BY DEF Contacts
<1>2. ProbeBounded(known)
  BY <1>1 DEF Sound, ProbeBounded, Awaiting, Remaining
<1>3. Sound(MarkOnline(known, FALSE, i))
  BY <1>1, <1>2, MarkOnlineSound
<1>4. QED
  BY <1>3 DEF OnPong

\* A contact that is no longer probed and not shown online is sound.
LEMMA QuietSound ==
    ASSUME NEW p \in Contacts, p.state # "online", p.rtt = 0, p.probe = NoProbe
    PROVE  Sound(p)
  BY DEF Sound, ProbeBounded, Dated, Timed, Awaiting, NoProbe

LEMMA OnGoodbyeSound ==
    ASSUME NEW p \in Contacts, Sound(p), NEW s \in Nat, NEW i \in OfflineProbe
    PROVE  Sound(OnGoodbye(p, s, i))
<1> DEFINE q == [p EXCEPT !.state = "offline", !.rtt = 0, !.probe = NoProbe, !.next = i]
<1>1. i \in Nat
  BY IntervalsAreNaturals
<1>2. q \in Contacts /\ q.state = "offline" /\ q.rtt = 0 /\ q.probe = NoProbe
  BY <1>1, NoProbeTyped DEF Contacts
<1>3. Sound(q)
  BY <1>2, QuietSound
<1>4. QED
  BY <1>3 DEF OnGoodbye

LEMMA GiveUpSound ==
    ASSUME NEW p \in Contacts, NEW i \in OfflineProbe
    PROVE  Sound(GiveUp(p, i))
<1>1. i \in Nat
  BY IntervalsAreNaturals
<1>2. /\ GiveUp(p, i) \in Contacts /\ GiveUp(p, i).state # "online"
      /\ GiveUp(p, i).rtt = 0 /\ GiveUp(p, i).probe = NoProbe
  BY <1>1, NoProbeTyped DEF GiveUp, Contacts
<1>3. QED
  BY <1>2, QuietSound

\* A repetition neither lengthens nor shortens the probe.
LEMMA RepeatSound ==
    ASSUME NEW p \in Contacts, Sound(p), Awaiting(p), Due(p), ~GivesUp(p)
    PROVE  Sound(Repeat(p))
<1>1. p.probe \in Probes /\ p.probe.attempts \in 0 .. 3 /\ p.probe.retry = 0
      /\ p.probe.attempts < 3 /\ p.probe.nonce \in Nat
  BY DEF Contacts, Probes, Due, GivesUp, Attempts
<1>2. /\ Repeat(p) \in Contacts /\ Repeat(p).state = p.state /\ Repeat(p).age = p.age
      /\ Repeat(p).rtt = p.rtt /\ Repeat(p).session = p.session
      /\ Repeat(p).probe.attempts = p.probe.attempts + 1 /\ Repeat(p).probe.retry = 2
  <2> DEFINE again == [p.probe EXCEPT !.attempts = p.probe.attempts + 1, !.retry = NextRetry]
  <2>1. again \in Probes
    <3>1. p.probe.attempts + 1 \in 0 .. Attempts /\ NextRetry \in 0 .. NextRetry
      BY <1>1 DEF Attempts, NextRetry
    <3>2. QED
      BY <1>1, <3>1 DEF Probes
  <2>2. again.attempts = p.probe.attempts + 1 /\ again.retry = 2
    BY <1>1 DEF Probes, NextRetry
  <2>3. Repeat(p) = [p EXCEPT !.probe = again]
    BY DEF Repeat, Contacts, Probes
  <2> HIDE DEF again
  <2>4. Repeat(p) \in Contacts
    BY <2>1, <2>3 DEF Contacts
  <2>5. QED
    BY <2>2, <2>3, <2>4 DEF Contacts
<1>3. Awaiting(Repeat(p)) /\ Remaining(Repeat(p)) = Remaining(p)
  BY <1>1, <1>2 DEF Awaiting, Remaining, Attempts, NextRetry
<1>4. QED
  BY <1>2, <1>3 DEF Sound, ProbeBounded, Dated, Timed

LEMMA EmitPingSound ==
    ASSUME NEW p \in Contacts, Sound(p), ~Awaiting(p), Due(p), NEW nonce \in Nat
    PROVE  Sound(EmitPing(p, nonce))
<1> DEFINE q == EmitPing(p, nonce)
<1>1. /\ q \in Contacts /\ q.state = p.state /\ q.age = p.age /\ q.rtt = p.rtt
      /\ q.session = p.session /\ q.probe.attempts = 1 /\ q.probe.retry = 1
  BY DEF EmitPing, Contacts, Probes, Attempts, NextRetry, FirstRetry
<1>2. p.next = 0 /\ p.age \in Nat
  BY DEF Due, Contacts
<1> HIDE DEF q
<1>3. Awaiting(q) /\ Remaining(q) = 5 /\ ProbeTime = 5
  BY <1>1 DEF Awaiting, Remaining, ProbeTime, Attempts, NextRetry, FirstRetry
<1>4. ASSUME q.state = "online"
      PROVE  \E n \in OnlineProbe : q.age + Remaining(q) <= n + ProbeTime
  <2>1. PICK n \in OnlineProbe : p.age + p.next <= n
    BY <1>1, <1>4 DEF Sound, Dated
  <2>2. n \in Nat
    BY IntervalsAreNaturals
  <2>3. q.age + Remaining(q) <= n + ProbeTime
    BY <1>1, <1>2, <1>3, <2>1, <2>2
  <2>4. QED
    BY <2>3
<1>5. QED
  BY <1>1, <1>3, <1>4 DEF Sound, ProbeBounded, Dated, Timed, q

\* While nothing is due, a second that passes adds to the age what it takes off the wait.
LEMMA LaterSound ==
    ASSUME NEW p \in Contacts, Sound(p), ~Due(p)
    PROVE  Sound(Later(p))
<1> DEFINE q == Later(p)
<1>1. p.probe \in Probes /\ p.next \in Nat /\ p.age \in Nat
      /\ p.probe.retry \in 0 .. 2 /\ p.probe.attempts \in 0 .. 3 /\ p.probe.nonce \in Nat
  BY DEF Contacts, Probes, Attempts, NextRetry
<1>2. Left(p.next) \in Nat /\ Left(p.probe.retry) \in 0 .. 2
  BY <1>1 DEF Left
<1>3. /\ q \in Contacts /\ q.state = p.state /\ q.rtt = p.rtt /\ q.session = p.session
      /\ q.next = Left(p.next) /\ q.probe.retry = Left(p.probe.retry)
      /\ q.probe.attempts = p.probe.attempts
      /\ q.age = IF p.state = "online" THEN p.age + 1 ELSE 0
  <2> DEFINE less == [p.probe EXCEPT !.retry = Left(p.probe.retry)]
             age == IF p.state = "online" THEN p.age + 1 ELSE 0
  <2>1. less \in Probes /\ age \in Nat
    BY <1>1, <1>2 DEF Probes, Attempts, NextRetry
  <2>2. less.attempts = p.probe.attempts /\ less.retry = Left(p.probe.retry)
    BY <1>1 DEF Probes
  <2>3. q = [p EXCEPT !.next = Left(p.next), !.probe = less, !.age = age]
    BY DEF Later, Contacts, Probes
  <2> HIDE DEF less, age, q
  <2>4. q \in Contacts
    BY <1>2, <2>1, <2>3 DEF Contacts
  <2>5. /\ q.state = p.state /\ q.rtt = p.rtt /\ q.session = p.session
        /\ q.next = Left(p.next) /\ q.probe = less /\ q.age = age
    BY <2>3, <2>4 DEF Contacts
  <2>6. QED
    BY <2>2, <2>4, <2>5 DEF age
<1> HIDE DEF q
<1>4. CASE Awaiting(p)
  <2>1. p.probe.retry \in 1 .. 2
    BY <1>1, <1>4 DEF Due
  <2>2. Awaiting(q) /\ Remaining(q) = Remaining(p) - 1
    BY <1>1, <1>3, <1>4, <2>1 DEF Awaiting, Remaining, Left, Attempts, NextRetry
  <2>3. Remaining(p) \in Int /\ ProbeTime \in Int
    BY <1>1 DEF Remaining, ProbeTime, Attempts, NextRetry, FirstRetry
  <2>4. ProbeBounded(q)
    BY <1>4, <2>2, <2>3 DEF Sound, ProbeBounded
  <2>5. ASSUME q.state = "online"
        PROVE  \E n \in OnlineProbe : q.age + Remaining(q) <= n + ProbeTime
    <3>1. PICK n \in OnlineProbe : p.age + Remaining(p) <= n + ProbeTime
      BY <1>3, <1>4, <2>5 DEF Sound, Dated
    <3>2. q.age = p.age + 1
      BY <1>3, <2>5
    <3>3. q.age + Remaining(q) = p.age + Remaining(p)
      BY <1>1, <2>2, <2>3, <3>2
    <3>4. QED
      BY <3>1, <3>3
  <2>6. QED
    BY <1>3, <2>2, <2>4, <2>5 DEF Sound, Dated, Timed, q
<1>5. CASE ~Awaiting(p)
  <2>1. p.next # 0 /\ q.next = p.next - 1 /\ ~Awaiting(q)
    BY <1>1, <1>3, <1>5 DEF Due, Left, Awaiting
  <2>2. ASSUME q.state = "online"
        PROVE  \E n \in OnlineProbe : q.age + q.next <= n
    <3>1. PICK n \in OnlineProbe : p.age + p.next <= n
      BY <1>3, <1>5, <2>2 DEF Sound, Dated
    <3>2. q.age + q.next = p.age + p.next
      BY <1>1, <1>3, <2>1, <2>2
    <3>3. QED
      BY <3>1, <3>2
  <2>3. QED
    BY <1>3, <2>1, <2>2 DEF Sound, ProbeBounded, Dated, Timed, q
<1>6. QED
  BY <1>4, <1>5
-----------------------------------------------------------------------------
\* The inductive invariant: the types, finitely many datagrams, and sound contacts.
IInv ==
    /\ TypeOK
    /\ IsFiniteSet(net)
    /\ \A c \in Cores : Sound(peer[c])

LEMMA CoresFinite == IsFiniteSet(Cores)
<1>1. PICK c, d \in Cores : Cores = {c, d}
  BY NetworkAssumption
<1>2. IsFiniteSet({c} \cup {d})
  BY FS_Singleton, FS_Union
<1>3. Cores = {c} \cup {d}
  BY <1>1
<1>4. QED
  BY <1>2, <1>3

LEMMA OtherIsCore == \A c \in Cores : Other(c) \in Cores /\ Other(c) # c
  BY NetworkAssumption DEF Other

\* There is always a number that nobody holds.
LEMMA NewNonceFound ==
    ASSUME IsFiniteSet(net)
    PROVE  NewNonce \in Nat
<1> DEFINE held == {m.nonce : m \in net} \cup {peer[c].probe.nonce : c \in Cores}
           k == Cardinality(held)
<1>1. IsFiniteSet({m.nonce : m \in net}) /\ IsFiniteSet({peer[c].probe.nonce : c \in Cores})
  <2> DEFINE f == [m \in net |-> m.nonce]
             g == [c \in Cores |-> peer[c].probe.nonce]
             F == {m.nonce : m \in net}
             G == {peer[c].probe.nonce : c \in Cores}
  <2>1. f \in Surjection(net, F)
    BY DEF Surjection
  <2>2. g \in Surjection(Cores, G)
    BY DEF Surjection
  <2> HIDE DEF f, g, F, G
  <2>3. IsFiniteSet(F)
    BY <2>1, FS_Surjection
  <2>4. IsFiniteSet(G)
    BY <2>2, CoresFinite, FS_Surjection
  <2>5. QED
    BY <2>3, <2>4 DEF F, G
<1>2. IsFiniteSet(held)
  BY <1>1, FS_Union
<1> HIDE DEF held
<1>3. k \in Nat
  BY <1>2, FS_CardinalityType
<1>4. ASSUME 1 .. (k + 1) \subseteq held PROVE FALSE
  <2>1. Cardinality(1 .. (k + 1)) <= k
    BY <1>2, <1>4, FS_Subset
  <2>2. Cardinality(1 .. (k + 1)) = k + 1
    BY <1>3, FS_Interval
  <2>3. QED
    BY <1>3, <2>1, <2>2
<1>5. \E n \in 1 .. (k + 1) : n \notin held
  BY <1>4
<1>6. NewNonce = CHOOSE n \in 1 .. (k + 1) : n \notin held
  BY DEF NewNonce, held
<1>7. QED
  BY <1>3, <1>5, <1>6

LEMMA DatagramTyped ==
    ASSUME TypeOK, NEW c \in Cores, NEW nonce \in Nat,
           NEW type \in {"ping", "pong", "goodbye", "audio"}
    PROVE  Datagram(c, type, nonce) \in Messages
<1>1. own[c] \in Nat
  BY NetworkAssumption DEF TypeOK
<1>2. QED
  BY <1>1, OtherIsCore DEF Datagram, Messages

LEMMA InitIInv == Init => IInv
<1> SUFFICES ASSUME Init PROVE IInv
  OBVIOUS
<1>1. Unheard \in Contacts
  BY UnheardSound DEF Sound
<1>2. TypeOK
  BY <1>1, NetworkAssumption DEF Init, TypeOK
<1>3. IsFiniteSet(net)
  BY FS_EmptySet DEF Init
<1>4. \A c \in Cores : Sound(peer[c])
  BY UnheardSound DEF Init
<1>5. QED
  BY <1>2, <1>3, <1>4 DEF IInv

\* A datagram more or less leaves finitely many.
LEMMA NetFinite ==
    ASSUME IsFiniteSet(net), NEW m
    PROVE  IsFiniteSet(net \cup {m}) /\ IsFiniteSet(net \ {m})
  BY FS_AddElement, FS_RemoveElement

\* A Core starts or ends, or its tick has something to do.
LEMMA CoreStepKeepsIInv ==
    ASSUME IInv, NEW c \in Cores
    PROVE  /\ Start(c) \/ End(c, TRUE) \/ End(c, FALSE) => IInv'
           /\ TickRepeat(c) \/ TickProbe(c) => IInv'
           /\ \A i \in OfflineProbe : TickGiveUp(c, i) => IInv'
           /\ SendAudio(c) => IInv'
<1> USE NetworkAssumption
<1>1. TypeOK /\ IsFiniteSet(net) /\ peer \in [Cores -> Contacts] /\ Sound(peer[c])
  BY DEF IInv, TypeOK
<1>2. Unheard \in Contacts /\ Sound(Unheard)
  BY UnheardSound DEF Sound
<1>3. ASSUME Start(c) PROVE IInv'
  <2>1. TypeOK'
    BY <1>1, <1>2, <1>3 DEF Start, TypeOK
  <2>2. \A d \in Cores : Sound(peer'[d])
    BY <1>1, <1>2, <1>3 DEF Start, IInv
  <2>3. QED
    BY <1>1, <1>3, <2>1, <2>2 DEF Start, IInv
<1>4. ASSUME NEW crash \in BOOLEAN, End(c, crash) PROVE IInv'
  <2>1. Datagram(c, "goodbye", 0) \in Messages
    BY <1>1, DatagramTyped
  <2>2. TypeOK'
    BY <1>1, <1>2, <1>4, <2>1 DEF End, TypeOK
  <2>3. \A d \in Cores : Sound(peer'[d])
    BY <1>1, <1>2, <1>4 DEF End, IInv
  <2>4. IsFiniteSet(net')
    BY <1>1, <1>4, NetFinite DEF End
  <2>5. QED
    BY <2>2, <2>3, <2>4 DEF IInv
<1>5. ASSUME TickRepeat(c) PROVE IInv'
  <2>1. Sound(Repeat(peer[c]))
    BY <1>1, <1>5, RepeatSound DEF TickRepeat
  <2>2. peer[c].probe.nonce \in Nat
    BY <1>1 DEF Contacts, Probes
  <2>3. Datagram(c, "ping", peer[c].probe.nonce) \in Messages
    BY <1>1, <2>2, DatagramTyped
  <2>4. Repeat(peer[c]) \in Contacts
    BY <2>1 DEF Sound
  <2>5. TypeOK'
    BY <1>1, <1>5, <2>3, <2>4 DEF TickRepeat, TypeOK
  <2>6. \A d \in Cores : Sound(peer'[d])
    BY <1>1, <1>5, <2>1 DEF TickRepeat, IInv
  <2>7. IsFiniteSet(net')
    BY <1>1, <1>5, NetFinite DEF TickRepeat
  <2>8. QED
    BY <2>5, <2>6, <2>7 DEF IInv
<1>6. ASSUME TickProbe(c) PROVE IInv'
  <2>1. NewNonce \in Nat
    BY <1>1, NewNonceFound
  <2>2. Sound(EmitPing(peer[c], NewNonce))
    BY <1>1, <1>6, <2>1, EmitPingSound DEF TickProbe
  <2>3. Datagram(c, "ping", NewNonce) \in Messages
    BY <1>1, <2>1, DatagramTyped
  <2>4. EmitPing(peer[c], NewNonce) \in Contacts
    BY <2>2 DEF Sound
  <2>5. own[Other(c)] \in 0 .. LastSession
    BY <1>1, OtherIsCore DEF TypeOK
  <2>6. TypeOK'
    BY <1>1, <1>6, <2>3, <2>4, <2>5 DEF TickProbe, TypeOK
  <2>7. \A d \in Cores : Sound(peer'[d])
    BY <1>1, <1>6, <2>2 DEF TickProbe, IInv
  <2>8. IsFiniteSet(net')
    BY <1>1, <1>6, NetFinite DEF TickProbe
  <2>9. QED
    BY <2>6, <2>7, <2>8 DEF IInv
<1>7. ASSUME NEW i \in OfflineProbe, TickGiveUp(c, i) PROVE IInv'
  <2>1. Sound(GiveUp(peer[c], i)) /\ GiveUp(peer[c], i) \in Contacts
    BY <1>1, GiveUpSound DEF Sound
  <2>2. TypeOK'
    BY <1>1, <1>7, <2>1 DEF TickGiveUp, TypeOK
  <2>3. \A d \in Cores : Sound(peer'[d])
    BY <1>1, <1>7, <2>1 DEF TickGiveUp, IInv
  <2>4. QED
    BY <1>1, <1>7, <2>2, <2>3 DEF TickGiveUp, IInv
<1>8. ASSUME SendAudio(c) PROVE IInv'
  <2> DEFINE m == [Datagram(c, "audio", 0) EXCEPT !.session = 0]
  <2>1. m \in Messages
    BY <1>1, DatagramTyped DEF Messages
  <2>2. TypeOK'
    BY <1>1, <1>8, <2>1 DEF SendAudio, TypeOK
  <2>3. IsFiniteSet(net')
    BY <1>1, <1>8, NetFinite DEF SendAudio
  <2>4. QED
    BY <1>8, <2>2, <2>3 DEF SendAudio, IInv
<1>9. QED
  BY <1>3, <1>4, <1>5, <1>6, <1>7, <1>8

\* What a datagram changes: its receiver learns, and at most one answer is sent.
LEMMA LearnKeepsIInv ==
    ASSUME IInv, NEW m \in net, NEW again \in BOOLEAN, Taken(m, again),
           NEW p, Sound(p), Learn(m.to, p),
           \/ net' = Rest(m, again)
           \/ \E answer \in Messages : net' = Rest(m, again) \cup {answer}
    PROVE  IInv'
<1> USE NetworkAssumption
<1>1. TypeOK /\ IsFiniteSet(net) /\ m \in Messages /\ m.to \in Cores /\ p \in Contacts
  BY DEF IInv, TypeOK, Messages, Sound
<1>2. Rest(m, again) \subseteq Messages /\ IsFiniteSet(Rest(m, again))
  BY <1>1, NetFinite DEF Rest, TypeOK
<1>3. net' \subseteq Messages /\ IsFiniteSet(net')
  BY <1>2, FS_AddElement
<1>4. duplicated' \in 0 .. MaxDuplicated
  BY <1>1 DEF Taken, TypeOK
<1>5. TypeOK'
  BY <1>1, <1>3, <1>4 DEF Taken, Learn, TypeOK
<1>6. \A d \in Cores : Sound(peer'[d])
  BY <1>1 DEF Learn, IInv, TypeOK
<1>7. QED
  BY <1>3, <1>5, <1>6 DEF IInv

LEMMA ReceiveKeepsIInv ==
    ASSUME IInv, NEW m \in net, Receive(m)
    PROVE  IInv'
<1>1. /\ m \in Messages /\ m.to \in Cores /\ m.session \in Nat /\ m.nonce \in Nat
      /\ peer[m.to] \in Contacts /\ Sound(peer[m.to]) /\ TypeOK
  BY DEF IInv, TypeOK, Messages
<1>2. ASSUME NEW again \in BOOLEAN, NEW i \in OnlineProbe, ReceivePing(m, again, i)
      PROVE  IInv'
  <2>1. Sound(OnPing(peer[m.to], m.session, i))
    BY <1>1, OnPingSound
  <2>2. Datagram(m.to, "pong", m.nonce) \in Messages
    BY <1>1, DatagramTyped
  <2>3. QED
    BY <1>2, <2>1, <2>2, LearnKeepsIInv DEF ReceivePing
<1>3. ASSUME NEW again \in BOOLEAN, NEW i \in OnlineProbe, ReceivePong(m, again, i)
      PROVE  IInv'
  <2>1. Sound(OnPong(peer[m.to], m.session, m.nonce, i))
    BY <1>1, OnPongSound
  <2>2. QED
    BY <1>3, <2>1, LearnKeepsIInv DEF ReceivePong
<1>4. ASSUME NEW again \in BOOLEAN, NEW i \in OnlineProbe, ReceiveAudio(m, again, i)
      PROVE  IInv'
  <2>1. Sound(OnAudio(peer[m.to], i))
    BY <1>1, MarkOnlineSound DEF OnAudio, Sound, Timed
  <2>2. QED
    BY <1>4, <2>1, LearnKeepsIInv DEF ReceiveAudio
<1>5. ASSUME NEW again \in BOOLEAN, NEW i \in OfflineProbe, ReceiveGoodbye(m, again, i)
      PROVE  IInv'
  <2>1. Sound(OnGoodbye(peer[m.to], m.session, i))
    BY <1>1, OnGoodbyeSound
  <2>2. QED
    BY <1>5, <2>1, LearnKeepsIInv DEF ReceiveGoodbye
<1>6. ASSUME ReceiveNobody(m)
      PROVE  IInv'
  <2>1. IsFiniteSet(net') /\ net' \subseteq net
    BY <1>6, NetFinite DEF ReceiveNobody, IInv
  <2>2. QED
    BY <1>6, <2>1 DEF ReceiveNobody, IInv, TypeOK
<1>7. QED
  BY <1>2, <1>3, <1>4, <1>5, <1>6 DEF Receive

LEMMA LoseKeepsIInv ==
    ASSUME IInv, NEW m \in net, Lose(m)
    PROVE  IInv'
<1>1. IsFiniteSet(net') /\ net' \subseteq net
  BY NetFinite DEF Lose, IInv
<1>2. TypeOK'
  BY <1>1, NetworkAssumption DEF Lose, IInv, TypeOK
<1>3. QED
  BY <1>1, <1>2 DEF Lose, IInv

LEMMA ElapseKeepsIInv ==
    ASSUME IInv, Elapse
    PROVE  IInv'
<1>1. TypeOK /\ peer \in [Cores -> Contacts]
  BY DEF IInv, TypeOK
<1>2. ASSUME NEW c \in Cores
      PROVE  Sound(peer'[c])
  <2>1. CASE Up(c)
    <3>1. Sound(peer[c]) /\ peer[c] \in Contacts /\ ~Due(peer[c])
      BY <1>1, <2>1 DEF IInv, Elapse, Quiet, Running
    <3>2. QED
      BY <2>1, <3>1, LaterSound DEF Elapse
  <2>2. CASE ~Up(c)
    BY <2>2 DEF Elapse, IInv
  <2>3. QED
    BY <2>1, <2>2
<1>3. peer' \in [Cores -> Contacts]
  BY <1>2 DEF Elapse, Sound
<1>4. TypeOK'
  BY <1>1, <1>3 DEF Elapse, TypeOK
<1>5. QED
  BY <1>2, <1>4 DEF Elapse, IInv

LEMMA NextIInv == IInv /\ [Next]_vars => IInv'
<1> SUFFICES ASSUME IInv, [Next]_vars PROVE IInv'
  OBVIOUS
<1>1. CASE UNCHANGED vars
  BY <1>1 DEF vars, IInv, TypeOK
<1>2. CASE Next
  BY <1>2, CoreStepKeepsIInv, ReceiveKeepsIInv, LoseKeepsIInv, ElapseKeepsIInv
     DEF Next, Arrival
<1>3. QED
  BY <1>1, <1>2

LEMMA AlwaysIInv == Spec => []IInv
  BY InitIInv, NextIInv, PTL DEF Spec

-----------------------------------------------------------------------------
\* The records of both contacts, the datagrams and the budgets keep their types, in
\* every handler of the tracker (presence_tracker.cpp).
THEOREM TypeCorrect == Spec => []TypeOK
<1>1. IInv => TypeOK
  BY DEF IInv
<1>2. QED
  BY AlwaysIInv, <1>1, PTL

\* The round trip shown was timed with the session shown (on_packet).
THEOREM RoundTripOfSession == Spec => []RttOfSession
<1>1. IInv => RttOfSession
  BY DEF IInv, Sound, Timed, RttOfSession
<1>2. QED
  BY AlwaysIInv, <1>1, PTL

\* However many datagrams are lost, late or repeated, a contact is not shown online for
\* longer than an interval and a probe after it was last heard (tick, mark_online).
THEOREM SilenceIsBounded == Spec => []SilenceBounded
<1>1. IInv => SilenceBounded
  <2> SUFFICES ASSUME IInv, NEW c \in Cores, peer[c].state = "online"
               PROVE  \E n \in OnlineProbe : peer[c].age <= n + ProbeTime
    BY DEF SilenceBounded
  <2>1. /\ peer[c] \in Contacts /\ Dated(peer[c]) /\ peer[c].age \in Nat
        /\ peer[c].next \in Nat /\ peer[c].probe \in Probes
    BY DEF IInv, Sound, Contacts
  <2>2. ProbeTime = 5 /\ Remaining(peer[c]) \in Nat
    BY <2>1 DEF ProbeTime, Remaining, Probes, Attempts, FirstRetry, NextRetry
  <2>3. PICK n \in OnlineProbe :
            IF Awaiting(peer[c]) THEN peer[c].age + Remaining(peer[c]) <= n + ProbeTime
                                 ELSE peer[c].age + peer[c].next <= n
    BY <2>1 DEF Dated
  <2>4. n \in Nat
    BY IntervalsAreNaturals
  <2>5. peer[c].age <= n + ProbeTime
    BY <2>1, <2>2, <2>3, <2>4
  <2>6. QED
    BY <2>5
<1>2. QED
  BY AlwaysIInv, <1>1, PTL
-----------------------------------------------------------------------------
(* Losses.  Nothing is late: a second passes only when nothing is under way.                  *)

\* The probe of c was begun in the session that the other Core still has.
Probing(c) == Up(c) /\ Awaiting(peer[c]) /\ asked[c] # 0 /\ asked[c] = own[Other(c)]

\* A PING of the probe or its answer is on the way.
Leads(m, c) ==
    /\ m.nonce = peer[c].probe.nonce
    /\ (m.type = "ping" /\ m.to = Other(c)) \/ (m.type = "pong" /\ m.to = c)
UnderWay(c) == \E m \in net : Leads(m, c)

\* Each attempt that was not answered, and is not to be, cost a datagram.
Charged(c) ==
    Probing(c) =>
        /\ peer[c].probe.attempts <= lost + 1
        /\ peer[c].probe.retry = 0 \/ ~UnderWay(c) => peer[c].probe.attempts <= lost

LossInv == \A c \in Cores : own[c] <= used /\ asked[c] <= used /\ Charged(c)

LEMMA OtherIs ==
    ASSUME NEW c \in Cores, NEW d \in Cores
    PROVE  /\ Other(c) \in Cores /\ Other(c) # c /\ Other(Other(c)) = c
           /\ d # c => d = Other(c)
<1>1. Other(c) \in Cores /\ Other(c) # c
  BY OtherIsCore
<1>2. Other(Other(c)) \in Cores /\ Other(Other(c)) # Other(c)
  BY <1>1, OtherIsCore
<1>3. PICK a \in Cores, b \in Cores : Cores = {a, b}
  BY NetworkAssumption
<1>4. QED
  BY <1>1, <1>2, <1>3

LEMMA CountsAre ==
    ASSUME IInv
    PROVE  /\ used \in Nat /\ lost \in Nat
           /\ \A c \in Cores : /\ own[c] \in Nat /\ asked[c] \in Nat /\ peer[c] \in Contacts
                               /\ peer[c].probe.attempts \in Nat
                               /\ peer[c].probe.attempts > 0 <=> Awaiting(peer[c])
  BY NetworkAssumption DEF IInv, TypeOK, Contacts, Probes, Awaiting, Attempts

\* A step that leaves a probe and what leads to its answer alone
LEMMA ChargedKept ==
    ASSUME IInv, LossInv, NEW c \in Cores, lost' = lost,
           Probing(c)' => /\ Probing(c) /\ peer'[c].probe = peer[c].probe
                          /\ UnderWay(c) => UnderWay(c)'
    PROVE  Charged(c)'
  BY DEF LossInv, Charged

\* What a datagram teaches ends the probe or leaves it as it was.
LEMMA LearntProbe ==
    ASSUME NEW p \in Contacts, NEW s, NEW nonce, NEW i
    PROVE  /\ Awaiting(OnPing(p, s, i)) => OnPing(p, s, i).probe = p.probe
           /\ Awaiting(OnPong(p, s, nonce, i)) =>
                  OnPong(p, s, nonce, i) = p /\ nonce # p.probe.nonce
           /\ Awaiting(OnGoodbye(p, s, i)) => OnGoodbye(p, s, i) = p
           /\ Awaiting(OnAudio(p, i)) => OnAudio(p, i).probe = p.probe
<1>1. ASSUME NEW q, q.probe = NoProbe PROVE ~Awaiting(q)
  BY <1>1 DEF Awaiting, NoProbe
<1>2. ASSUME NEW q \in Contacts, NEW preserve \in BOOLEAN
      PROVE  \/ preserve /\ Awaiting(q) /\ MarkOnline(q, preserve, i).probe = q.probe
             \/ MarkOnline(q, preserve, i).probe = NoProbe /\ ~(preserve /\ Awaiting(q))
  BY DEF MarkOnline, Contacts
<1>3. Awaiting(OnAudio(p, i)) => OnAudio(p, i).probe = p.probe
  BY <1>1, <1>2 DEF OnAudio
<1>4. Awaiting(OnGoodbye(p, s, i)) => OnGoodbye(p, s, i) = p
  <2> DEFINE q == [p EXCEPT !.state = "offline", !.rtt = 0, !.probe = NoProbe, !.next = i]
  <2>1. q.probe = NoProbe
    BY DEF Contacts
  <2>2. OnGoodbye(p, s, i) = p \/ OnGoodbye(p, s, i) = q
    BY DEF OnGoodbye
  <2> HIDE DEF q
  <2>3. QED
    BY <1>1, <2>1, <2>2
<1>5. Awaiting(OnPong(p, s, nonce, i)) => OnPong(p, s, nonce, i) = p /\ nonce # p.probe.nonce
  <2> DEFINE known == [p EXCEPT !.session = s, !.rtt = s]
             q == MarkOnline(known, FALSE, i)
  <2>1. q.probe = NoProbe
    BY DEF MarkOnline, Contacts
  <2>2. OnPong(p, s, nonce, i) = IF Awaiting(p) /\ nonce = p.probe.nonce THEN q ELSE p
    BY DEF OnPong
  <2> HIDE DEF q
  <2>3. QED
    BY <1>1, <2>1, <2>2
<1>6. Awaiting(OnPing(p, s, i)) => OnPing(p, s, i).probe = p.probe
  <2> DEFINE known == [p EXCEPT !.rtt = IF p.session # s THEN 0 ELSE p.rtt, !.session = s]
             q == MarkOnline(known, TRUE, i)
  <2>1. known.probe = p.probe
    BY DEF Contacts
  <2>2. IF Awaiting(known) THEN q.probe = p.probe ELSE q.probe = NoProbe
    BY <2>1 DEF MarkOnline, Contacts
  <2>3. OnPing(p, s, i) = q \/ OnPing(p, s, i) = [q EXCEPT !.next = 0]
    BY DEF OnPing
  <2>4. [q EXCEPT !.next = 0].probe = q.probe
    BY DEF MarkOnline, Contacts
  <2> HIDE DEF q, known
  <2>5. OnPing(p, s, i).probe = q.probe
    BY <2>3, <2>4
  <2>6. QED
    BY <1>1, <2>2, <2>5
<1>7. QED
  BY <1>3, <1>4, <1>5, <1>6

\* Of a datagram that is taken the one or the other Core learns; if it led to the answer of the
\* other's probe, its own answer does.
LEMMA LearnCharged ==
    ASSUME IInv, LossInv, NEW m \in net, NEW again \in BOOLEAN, NEW p, Learn(m.to, p),
           Taken(m, again), Rest(m, again) \subseteq net',
           Awaiting(p) => p.probe = peer[m.to].probe,
           m.type = "pong" /\ m.nonce = peer[m.to].probe.nonce => ~Awaiting(p),
           m.type = "ping" => Datagram(m.to, "pong", m.nonce) \in net'
    PROVE  LossInv'
<1>1. m.to \in Cores /\ UNCHANGED <<own, used, lost>>
  BY DEF IInv, TypeOK, Messages, Taken
<1>2. /\ peer \in [Cores -> Contacts] /\ asked \in [Cores -> 0 .. LastSession]
      /\ peer'[m.to] = p /\ \A d \in Cores : d # m.to => peer'[d] = peer[d] /\ asked'[d] = asked[d]
      /\ asked'[m.to] = IF Awaiting(p) THEN asked[m.to] ELSE 0
  BY <1>1 DEF IInv, TypeOK, Learn
<1>3. ASSUME NEW c \in Cores PROVE own'[c] <= used' /\ asked'[c] <= used'
  BY <1>1, <1>2, CountsAre DEF LossInv
<1>4. ASSUME NEW c \in Cores, Probing(c)'
      PROVE  /\ Probing(c) /\ peer'[c].probe = peer[c].probe
             /\ UnderWay(c) => UnderWay(c)'
  <2>1. peer'[c].probe = peer[c].probe /\ Awaiting(peer'[c]) /\ asked'[c] = asked[c]
    BY <1>2, <1>4 DEF Probing
  <2>2. Probing(c)
    BY <1>1, <1>4, <2>1 DEF Probing, Up, Awaiting
  <2>3. ASSUME NEW n \in net, Leads(n, c) PROVE UnderWay(c)'
    <3>1. CASE n \in Rest(m, again)
      BY <2>1, <2>3, <3>1 DEF Leads, UnderWay
    <3>2. CASE n = m
      <4>1. m.type = "ping" /\ m.to = Other(c)
        BY <1>2, <2>1, <2>3, <3>2 DEF Leads
      <4>2. Datagram(m.to, "pong", m.nonce).to = c
        BY <4>1, OtherIs DEF Datagram
      <4>3. Leads(Datagram(m.to, "pong", m.nonce), c)'
        BY <1>1, <2>1, <2>3, <3>2, <4>2 DEF Leads, Datagram
      <4>4. Datagram(m.to, "pong", m.nonce) \in net'
        BY <4>1
      <4>5. QED
        BY <1>1, <4>3, <4>4 DEF UnderWay, Datagram
    <3>3. QED
      BY <3>1, <3>2 DEF Rest
  <2>4. QED
    BY <2>1, <2>2, <2>3 DEF UnderWay
<1>5. ASSUME NEW c \in Cores PROVE Charged(c)'
  BY <1>1, <1>4, ChargedKept
<1>6. QED
  BY <1>3, <1>5 DEF LossInv

LEMMA ReceiveCharged == ASSUME IInv, LossInv, NEW m \in net, Receive(m) PROVE LossInv'
<1>1. m.to \in Cores /\ peer[m.to] \in Contacts
  BY DEF IInv, TypeOK, Messages
<1>2. ASSUME NEW again \in BOOLEAN, NEW i \in OnlineProbe, ReceivePing(m, again, i)
      PROVE  LossInv'
  <2> DEFINE p == OnPing(peer[m.to], m.session, i)
  <2>1. Awaiting(p) => p.probe = peer[m.to].probe
    BY <1>1, LearntProbe
  <2>2. /\ Learn(m.to, p) /\ Taken(m, again) /\ m.type = "ping"
        /\ net' = Rest(m, again) \cup {Datagram(m.to, "pong", m.nonce)}
    BY <1>2 DEF ReceivePing
  <2> HIDE DEF p
  <2>3. QED
    BY <2>1, <2>2, LearnCharged
<1>3. ASSUME NEW again \in BOOLEAN, NEW i \in OnlineProbe, ReceivePong(m, again, i)
      PROVE  LossInv'
  <2> DEFINE p == OnPong(peer[m.to], m.session, m.nonce, i)
  <2>1. Awaiting(p) => p.probe = peer[m.to].probe /\ m.nonce # peer[m.to].probe.nonce
    BY <1>1, LearntProbe
  <2>2. Learn(m.to, p) /\ Taken(m, again) /\ m.type = "pong" /\ net' = Rest(m, again)
    BY <1>3 DEF ReceivePong
  <2> HIDE DEF p
  <2>3. QED
    BY <2>1, <2>2, LearnCharged
<1>4. ASSUME NEW again \in BOOLEAN, NEW i \in OnlineProbe, ReceiveAudio(m, again, i)
      PROVE  LossInv'
  <2> DEFINE p == OnAudio(peer[m.to], i)
  <2>1. Awaiting(p) => p.probe = peer[m.to].probe
    BY <1>1, LearntProbe
  <2>2. Learn(m.to, p) /\ Taken(m, again) /\ m.type = "audio" /\ net' = Rest(m, again)
    BY <1>4 DEF ReceiveAudio
  <2> HIDE DEF p
  <2>3. QED
    BY <2>1, <2>2, LearnCharged
<1>5. ASSUME NEW again \in BOOLEAN, NEW i \in OfflineProbe, ReceiveGoodbye(m, again, i)
      PROVE  LossInv'
  <2> DEFINE p == OnGoodbye(peer[m.to], m.session, i)
  <2>1. Awaiting(p) => p.probe = peer[m.to].probe
    BY <1>1, LearntProbe
  <2>2. Learn(m.to, p) /\ Taken(m, again) /\ m.type = "goodbye" /\ net' = Rest(m, again)
    BY <1>5 DEF ReceiveGoodbye
  <2> HIDE DEF p
  <2>3. QED
    BY <2>1, <2>2, LearnCharged
<1>6. ASSUME ReceiveNobody(m) PROVE LossInv'
  <2>1. own[m.to] = 0 /\ UNCHANGED <<own, peer, used, lost, asked>>
    BY <1>6 DEF ReceiveNobody, Up
  <2>2. ASSUME NEW c \in Cores PROVE ~Probing(c)'
    BY <1>1, <2>1, OtherIs DEF Probing, Up
  <2>3. QED
    BY <2>1, <2>2 DEF LossInv, Charged
<1>7. QED
  BY <1>2, <1>3, <1>4, <1>5, <1>6 DEF Receive

\* A Core that starts has a new session, so it is nobody's whose probe is under way.
LEMMA CoreCharged ==
    ASSUME IInv, LossInv, NEW d \in Cores
    PROVE  /\ Start(d) => LossInv'
           /\ \A crash \in BOOLEAN : End(d, crash) => LossInv'
           /\ \A i \in OfflineProbe : TickGiveUp(d, i) => LossInv'
           /\ SendAudio(d) => LossInv'
<1>1. /\ used \in Nat /\ lost \in Nat /\ peer \in [Cores -> Contacts]
      /\ own \in [Cores -> 0 .. LastSession] /\ asked \in [Cores -> 0 .. LastSession]
      /\ \A c \in Cores : own[c] \in Nat /\ asked[c] \in Nat /\ own[c] <= used /\ asked[c] <= used
  BY CountsAre DEF LossInv, IInv, TypeOK
<1>2. ASSUME Start(d) PROVE LossInv'
  <2>1. /\ used' = used + 1 /\ own' = [own EXCEPT ![d] = used + 1]
        /\ asked' = [asked EXCEPT ![d] = 0]
    BY <1>2 DEF Start
  <2>2. ASSUME NEW c \in Cores PROVE own'[c] <= used' /\ asked'[c] <= used'
    BY <1>1, <2>1
  <2>3. ASSUME NEW c \in Cores PROVE ~Probing(c)'
    <3>1. CASE c = d
      BY <1>1, <2>1, <3>1 DEF Probing
    <3>2. CASE c # d
      <4>1. d = Other(c) /\ asked'[c] = asked[c] /\ own'[d] = used + 1
        BY <1>1, <2>1, <3>2, OtherIs
      <4>2. asked[c] # used + 1
        BY <1>1
      <4>3. QED
        BY <4>1, <4>2 DEF Probing
    <3>3. QED
      BY <3>1, <3>2
  <2>4. QED
    BY <2>2, <2>3 DEF LossInv, Charged
<1>3. ASSUME NEW crash \in BOOLEAN, End(d, crash) PROVE LossInv'
  <2>1. used' = used /\ own' = [own EXCEPT ![d] = 0] /\ asked' = [asked EXCEPT ![d] = 0]
    BY <1>3 DEF End
  <2>2. ASSUME NEW c \in Cores PROVE own'[c] <= used' /\ asked'[c] <= used'
    BY <1>1, <2>1
  <2>3. ASSUME NEW c \in Cores PROVE ~Probing(c)'
    BY <1>1, <2>1, OtherIs DEF Probing
  <2>4. QED
    BY <2>2, <2>3 DEF LossInv, Charged
<1>4. ASSUME NEW i \in OfflineProbe, TickGiveUp(d, i) PROVE LossInv'
  <2>1. /\ UNCHANGED <<own, used, lost, net>> /\ asked' = [asked EXCEPT ![d] = 0]
        /\ \A c \in Cores : c # d => peer'[c] = peer[c]
    BY <1>1, <1>4 DEF TickGiveUp
  <2>2. ASSUME NEW c \in Cores PROVE own'[c] <= used' /\ asked'[c] <= used'
    BY <1>1, <2>1
  <2>3. ASSUME NEW c \in Cores PROVE Charged(c)'
    <3>1. CASE c = d
      BY <1>1, <2>1, <3>1 DEF Charged, Probing
    <3>2. CASE c # d
      BY <1>1, <2>1, <3>2, ChargedKept DEF Probing, Up, UnderWay, Leads
    <3>3. QED
      BY <3>1, <3>2
  <2>4. QED
    BY <2>2, <2>3 DEF LossInv
<1>5. ASSUME SendAudio(d) PROVE LossInv'
  <2>1. UNCHANGED <<own, used, lost, peer, asked>> /\ net \subseteq net'
    BY <1>5 DEF SendAudio
  <2>2. ASSUME NEW c \in Cores PROVE Charged(c)'
    BY <2>1, ChargedKept DEF Probing, Up, UnderWay, Leads
  <2>3. QED
    BY <1>1, <2>1, <2>2 DEF LossInv
<1>6. QED
  BY <1>2, <1>3, <1>4, <1>5

\* The PING that was just sent for a probe can still bring its answer.
LEMMA PingLeads ==
    ASSUME NEW c \in Cores, NEW n, Datagram(c, "ping", n) \in net', peer'[c].probe.nonce = n
    PROVE  UnderWay(c)'
<1> DEFINE m == Datagram(c, "ping", n)
<1>1. m.type = "ping" /\ m.to = Other(c) /\ m.nonce = n
  BY DEF Datagram
<1>2. m \in net'
  OBVIOUS
<1> HIDE DEF m
<1>3. QED
  BY <1>1, <1>2 DEF UnderWay, Leads

LEMMA ProbeCharged == ASSUME IInv, LossInv, NEW d \in Cores, TickProbe(d) PROVE LossInv'
<1>1. /\ used \in Nat /\ lost \in Nat /\ peer \in [Cores -> Contacts]
      /\ asked \in [Cores -> 0 .. LastSession]
      /\ \A c \in Cores : own[c] \in Nat /\ asked[c] \in Nat /\ own[c] <= used /\ asked[c] <= used
  BY CountsAre DEF LossInv, IInv, TypeOK
<1> DEFINE n == NewNonce
<1>2. /\ UNCHANGED <<own, used, lost>> /\ peer' = [peer EXCEPT ![d] = EmitPing(peer[d], n)]
      /\ net' = net \cup {Datagram(d, "ping", n)} /\ asked' = [asked EXCEPT ![d] = own[Other(d)]]
  BY DEF TickProbe
<1> HIDE DEF n
<1>3. ASSUME NEW c \in Cores PROVE own'[c] <= used' /\ asked'[c] <= used'
  BY <1>1, <1>2, OtherIs
<1>4. ASSUME NEW c \in Cores PROVE Charged(c)'
  <2>1. CASE c = d
    <3>1. peer'[c].probe = [attempts |-> 1, retry |-> FirstRetry, nonce |-> n]
      BY <1>1, <1>2, <2>1 DEF EmitPing, Contacts
    <3>2. peer'[c].probe.attempts = 1 /\ peer'[c].probe.retry # 0 /\ peer'[c].probe.nonce = n
      BY <3>1 DEF FirstRetry
    <3>3. UnderWay(c)'
      <4>1. Datagram(c, "ping", n) \in net'
        BY <1>2, <2>1
      <4>2. QED
        BY <3>2, <4>1, PingLeads
    <3>4. 1 <= lost' + 1
      BY <1>1, <1>2
    <3>5. QED
      BY <3>2, <3>3, <3>4 DEF Charged
  <2>2. CASE c # d
    <3>1. peer'[c] = peer[c] /\ asked'[c] = asked[c] /\ net \subseteq net'
      BY <1>1, <1>2, <2>2
    <3>2. QED
      BY <1>2, <3>1, ChargedKept DEF Probing, Up, UnderWay, Leads
  <2>3. QED
    BY <2>1, <2>2
<1>5. QED
  BY <1>3, <1>4 DEF LossInv

\* The attempt before has cost its datagram when the next one is made.
LEMMA RepeatCharged == ASSUME IInv, LossInv, NEW d \in Cores, TickRepeat(d) PROVE LossInv'
<1>1. /\ used \in Nat /\ lost \in Nat /\ peer \in [Cores -> Contacts]
      /\ \A c \in Cores : own[c] \in Nat /\ asked[c] \in Nat /\ own[c] <= used /\ asked[c] <= used
  BY CountsAre DEF LossInv, IInv, TypeOK
<1> DEFINE n == peer[d].probe.nonce
<1>2. /\ UNCHANGED <<own, used, lost, asked>> /\ peer' = [peer EXCEPT ![d] = Repeat(peer[d])]
      /\ net' = net \cup {Datagram(d, "ping", n)}
      /\ Up(d) /\ Awaiting(peer[d]) /\ peer[d].probe.retry = 0
  BY DEF TickRepeat, Due
<1>3. ASSUME NEW c \in Cores PROVE Charged(c)'
  <2>1. CASE c = d
    <3>1. peer[d].probe \in Probes /\ peer[d].probe.attempts \in Nat
      BY <1>1 DEF Contacts, Probes, Attempts
    <3>2. peer'[d] = Repeat(peer[d])
      BY <1>1, <1>2
    <3>3. /\ Repeat(peer[d]).probe.attempts = peer[d].probe.attempts + 1
          /\ Repeat(peer[d]).probe.retry = NextRetry /\ Repeat(peer[d]).probe.nonce = n
      BY <1>1, <3>1 DEF Repeat, Contacts, Probes
    <3>4. UnderWay(d)'
      <4>1. peer'[d].probe.nonce = n /\ Datagram(d, "ping", n) \in net'
        BY <1>2, <3>2, <3>3
      <4>2. QED
        BY <4>1, PingLeads
    <3>5. ASSUME Probing(d)' PROVE peer[d].probe.attempts <= lost
      BY <1>2, <3>5 DEF LossInv, Charged, Probing, Up
    <3>6. Probing(d)' => peer'[d].probe.attempts <= lost' + 1
      BY <1>1, <1>2, <3>1, <3>2, <3>3, <3>5
    <3>7. peer'[d].probe.retry # 0
      BY <3>2, <3>3 DEF NextRetry
    <3>8. QED
      BY <2>1, <3>4, <3>6, <3>7 DEF Charged
  <2>2. CASE c # d
    <3>1. peer'[c] = peer[c] /\ net \subseteq net'
      BY <1>1, <1>2, <2>2
    <3>2. QED
      BY <1>2, <3>1, ChargedKept DEF Probing, Up, UnderWay, Leads
  <2>3. QED
    BY <2>1, <2>2
<1>4. QED
  BY <1>1, <1>2, <1>3 DEF LossInv

LEMMA LoseCharged == ASSUME IInv, LossInv, NEW m \in net, Lose(m) PROVE LossInv'
<1>1. UNCHANGED <<own, used, peer, asked>> /\ lost' = lost + 1 /\ lost \in Nat
  BY CountsAre DEF Lose
<1>2. ASSUME NEW c \in Cores PROVE Charged(c)'
  <2>1. peer[c].probe.attempts \in Nat
    BY CountsAre
  <2>2. Probing(c)' => Probing(c)
    BY <1>1 DEF Probing, Up
  <2>3. Probing(c) => peer[c].probe.attempts <= lost + 1
    BY DEF LossInv, Charged
  <2>4. lost + 1 <= lost' /\ lost + 1 <= lost' + 1
    BY <1>1
  <2>5. Probing(c)' => peer'[c].probe.attempts <= lost' /\ peer'[c].probe.attempts <= lost' + 1
    BY <1>1, <2>1, <2>2, <2>3
  <2>6. QED
    BY <2>5 DEF Charged
<1>3. QED
  BY <1>1, <1>2 DEF LossInv

\* A second passes: what was sent has been received or lost.
LEMMA ElapseCharged == ASSUME IInv, LossInv, MaxDelayed = 0, Elapse PROVE LossInv'
<1>1. UNCHANGED <<own, net, used, lost, asked>> /\ lost \in Nat /\ peer \in [Cores -> Contacts]
  BY CountsAre DEF Elapse, IInv, TypeOK
<1>2. net = {}
  <2>1. IsFiniteSet(net) /\ Cardinality(net) <= 0 /\ Cardinality(net) \in Nat
    BY FS_CardinalityType DEF Elapse, Quiet, IInv
  <2>2. QED
    BY <2>1, FS_EmptySet
<1>3. ASSUME NEW c \in Cores PROVE Charged(c)'
  <2> SUFFICES ASSUME Probing(c)'
               PROVE  peer'[c].probe.attempts <= lost /\ peer'[c].probe.attempts <= lost + 1
    BY <1>1 DEF Charged
  <2>1. Up(c) /\ peer'[c] = Later(peer[c])
    BY <1>1 DEF Probing, Up, Elapse
  <2>2. peer'[c].probe.attempts = peer[c].probe.attempts
    BY <1>1, <2>1 DEF Later, Contacts, Probes
  <2>3. Probing(c)
    BY <1>1, <2>1, <2>2 DEF Probing, Up, Awaiting
  <2>4. peer[c].probe.attempts <= lost /\ peer[c].probe.attempts \in Nat
    BY <1>2, <2>3, CountsAre DEF LossInv, Charged, UnderWay
  <2>5. QED
    BY <1>1, <2>2, <2>4
<1>4. QED
  BY <1>1, <1>3 DEF LossInv

LEMMA NextLossInv == ASSUME MaxDelayed = 0, IInv, LossInv, [Next]_vars PROVE LossInv'
<1>1. CASE UNCHANGED vars
  BY <1>1 DEF vars, LossInv, Charged, Probing, Up, UnderWay, Leads
<1>2. CASE Arrival
  BY <1>2, ReceiveCharged DEF Arrival
<1>3. CASE \E c \in Cores :
              \/ Start(c) \/ End(c, TRUE) \/ End(c, FALSE)
              \/ TickRepeat(c) \/ TickProbe(c) \/ \E i \in OfflineProbe : TickGiveUp(c, i)
              \/ SendAudio(c)
  BY <1>3, CoreCharged, ProbeCharged, RepeatCharged
<1>4. QED
  BY <1>1, <1>2, <1>3, LoseCharged, ElapseCharged DEF Next

\* As long as fewer datagrams are lost than a probe has attempts, and nothing is late, a Core that
\* goes on running is never given up (tick), whatever is duplicated, reordered or restarted.
THEOREM NobodyGivenUp ==
    ASSUME MaxLost < Attempts, MaxDelayed = 0
    PROVE  Spec => LossTolerated
<1>1. Init => LossInv
  <2> SUFFICES ASSUME Init PROVE LossInv
    OBVIOUS
  <2>1. \A c \in Cores : own[c] = 0 /\ asked[c] = 0 /\ used = 0
    BY DEF Init
  <2>2. QED
    BY <2>1 DEF LossInv, Charged, Probing
<1>2. IInv /\ LossInv /\ [Next]_vars => LossInv'
  BY NextLossInv
<1>3. ASSUME IInv, LossInv, NEW c \in Cores, \E i \in OfflineProbe : TickGiveUp(c, i)
      PROVE  asked[c] = 0 \/ asked[c] # own[Other(c)]
  <2>1. Up(c) /\ Awaiting(peer[c]) /\ peer[c].probe.retry = 0 /\ peer[c].probe.attempts >= Attempts
    BY <1>3 DEF TickGiveUp, GivesUp, Due
  <2>2. lost \in Nat /\ lost <= MaxLost /\ MaxLost \in Nat /\ peer[c].probe.attempts \in Nat
    BY <1>3, CountsAre, NetworkAssumption DEF IInv, TypeOK
  <2>3. Probing(c) => peer[c].probe.attempts <= lost
    BY <1>3, <2>1 DEF LossInv, Charged
  <2>4. ~Probing(c)
    BY <2>1, <2>2, <2>3 DEF Attempts
  <2>5. QED
    BY <2>1, <2>4 DEF Probing
<1>4. IInv /\ LossInv =>
          [\A c \in Cores : (\E i \in OfflineProbe : TickGiveUp(c, i)) =>
                                asked[c] = 0 \/ asked[c] # own[Other(c)]]_vars
  BY <1>3
<1>5. QED
  BY <1>1, <1>2, <1>4, AlwaysIInv, PTL DEF Spec, LossTolerated
=============================================================================
