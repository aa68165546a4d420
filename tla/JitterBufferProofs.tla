------------------------- MODULE JitterBufferProofs -------------------------
(***************************************************************************)
(* Proofs about the jitter buffer, for every threshold, capacity, restart  *)
(* gap, packet size and pop size.                                          *)
(***************************************************************************)
EXTENDS JitterStats, SequenceTheorems, FiniteSetTheorems, WellFoundedInduction, TLAPS

\* Numbers that promote_locked may stop at
Number == 0 .. (LastSequence + 1)

\* `frames' is an unbroken stretch of the stream that ends where packet e starts.
EndsAt(frames, e) ==
    \A i \in 1 .. Len(frames) : frames[i] = FrameStart[e] - Len(frames) + i - 1

\* Every nonempty set of naturals has a least element.
LEMMA LeastNatural ==
    ASSUME NEW S \in SUBSET Nat, S # {}
    PROVE  \E n \in S : \A m \in S : n <= m
<1> DEFINE Segments == {0 .. n : n \in S}
<1>1. Segments \subseteq FiniteSubsetsOf(Nat)
  <2>1. SUFFICES ASSUME NEW n \in S PROVE 0 .. n \in FiniteSubsetsOf(Nat)
    OBVIOUS
  <2>2. n \in Nat /\ n \in Int
    OBVIOUS
  <2>3. IsFiniteSet(0 .. n)
    BY <2>2, FS_Interval
  <2>4. 0 .. n \in SUBSET Nat
    BY <2>2
  <2>5. QED
    BY <2>3, <2>4 DEF FiniteSubsetsOf
<1>2. Segments # {}
  OBVIOUS
<1>3. PICK x \in Segments : \A y \in Segments : ~(<<y, x>> \in StrictSubsetOrdering(Nat))
  BY <1>1, <1>2, FS_StrictSubsetOrderingWellFounded, WFMin
<1>4. PICK n \in S : x = 0 .. n
  OBVIOUS
<1>5. ASSUME NEW m \in S, m < n PROVE FALSE
  <2>1. 0 .. m \in Segments /\ 0 .. m \subseteq x /\ 0 .. m # x
    BY <1>4, <1>5
  <2>2. <<0 .. m, x>> \in StrictSubsetOrdering(Nat)
    BY <2>1, <1>4 DEF StrictSubsetOrdering
  <2>3. QED
    BY <2>1, <2>2, <1>3
<1>6. QED
  BY <1>5

\* The loop of promote_locked stops at a number whose packet does not wait, and every
\* number before it was waiting.
LEMMA NextHoleFound ==
    ASSUME NEW e \in Number, NEW waiting \in SUBSET Packet
    PROVE  /\ NextHole(e, waiting) \in e .. (LastSequence + 1)
           /\ NextHole(e, waiting) \notin waiting
           /\ e .. (NextHole(e, waiting) - 1) \subseteq waiting
<1> DEFINE Free == {n \in e .. (LastSequence + 1) : n \notin waiting}
<1>1. LastSequence + 1 \in Free
  BY JitterAssumption DEF Number, Packet
<1>2. Free \subseteq Nat
  BY JitterAssumption DEF Number
<1>3. PICK n \in Free : \A m \in Free : n <= m
  BY <1>1, <1>2, LeastNatural
<1>4. e .. (n - 1) \subseteq waiting
  BY <1>3, JitterAssumption DEF Number
<1>5. QED
  BY <1>3, <1>4 DEF NextHole

\* The first packet that waits is one of those that wait.
LEMMA MinFound ==
    ASSUME NEW S \in SUBSET Nat, S # {}
    PROVE  Min(S) \in S /\ \A s \in S : Min(S) <= s
  BY LeastNatural DEF Min

\* The frames of a run of packets are an unbroken stretch of the stream.
LEMMA FramesOfRun ==
    ASSUME NEW a \in Number, NEW b \in Number, a <= b
    PROVE  /\ Frames(a, b) \in Seq(Position)
           /\ Len(Frames(a, b)) = FrameStart[b] - FrameStart[a]
           /\ FrameStart[b] - FrameStart[a] \in Nat
           /\ EndsAt(Frames(a, b), b)
<1>1. /\ FrameStart[a] \in Nat /\ FrameStart[b] \in Nat
      /\ FrameStart[LastSequence + 1] \in Nat
      /\ FrameStart[a] <= FrameStart[b] /\ FrameStart[b] <= FrameStart[LastSequence + 1]
  BY JitterAssumption DEF Number
<1>2. \A i \in 1 .. (FrameStart[b] - FrameStart[a]) : FrameStart[a] + i - 1 \in Position
  BY <1>1 DEF Position
<1>3. QED
  BY <1>1, <1>2 DEF Frames, EndsAt

\* Keeping the newest frames bounds the ring and only cuts the stretch at its old end.
LEMMA NewestOfStretch ==
    ASSUME NEW frames \in Seq(Position), NEW e \in Number, EndsAt(frames, e)
    PROVE  /\ Newest(frames) \in Seq(Position)
           /\ Len(Newest(frames)) <= MaxFrames
           /\ Len(Newest(frames)) <= Len(frames)
           /\ EndsAt(Newest(frames), e)
<1>1. CASE Len(frames) <= MaxFrames
  BY <1>1 DEF Newest
<1>2. CASE ~(Len(frames) <= MaxFrames)
  <2> DEFINE m == Len(frames) - MaxFrames + 1
  <2>1. Len(frames) \in Nat /\ m \in Int /\ MaxFrames \in Nat
    BY JitterAssumption
  <2>2. m >= 1 /\ Len(frames) - m + 1 = MaxFrames
    BY <1>2, <2>1
  <2>3. \A i \in m .. Len(frames) : frames[i] \in Position
    BY <2>1, <2>2
  <2>4. Newest(frames) = SubSeq(frames, m, Len(frames))
    BY <1>2 DEF Newest
  <2> HIDE DEF m
  <2>5. /\ SubSeq(frames, m, Len(frames)) \in Seq(Position)
        /\ Len(SubSeq(frames, m, Len(frames))) = IF m <= Len(frames) THEN Len(frames) - m + 1 ELSE 0
        /\ \A i \in 1 .. Len(frames) - m + 1 : SubSeq(frames, m, Len(frames))[i] = frames[m + i - 1]
    BY <2>1, <2>3, SubSeqProperties
  <2>6. Len(Newest(frames)) = MaxFrames
    BY <2>1, <2>2, <2>4, <2>5, JitterAssumption
  <2>7. FrameStart[e] \in Nat
    BY JitterAssumption DEF Number
  <2>8. ASSUME NEW i \in 1 .. MaxFrames
        PROVE  Newest(frames)[i] = FrameStart[e] - MaxFrames + i - 1
    <3>1. Newest(frames)[i] = frames[m + i - 1]
      BY <2>2, <2>4, <2>5
    <3>2. m + i - 1 \in 1 .. Len(frames)
      BY <2>1, <2>2
    <3>3. frames[m + i - 1] = FrameStart[e] - Len(frames) + (m + i - 1) - 1
      BY <3>2 DEF EndsAt
    <3>4. /\ i \in Int /\ m \in Int /\ Len(frames) \in Int /\ MaxFrames \in Int
          /\ FrameStart[e] \in Int /\ MaxFrames = Len(frames) - m + 1
      BY <2>1, <2>2, <2>7
    <3>5. FrameStart[e] - Len(frames) + (m + i - 1) - 1 = FrameStart[e] - MaxFrames + i - 1
      BY <3>4
    <3>6. QED
      BY <3>1, <3>3, <3>5
  <2>9. QED
    BY <1>2, <2>1, <2>4, <2>5, <2>6, <2>8 DEF EndsAt
<1>3. QED
  BY <1>1, <1>2

\* Two adjacent stretches make one.
LEMMA StretchesJoin ==
    ASSUME NEW r \in Seq(Position), NEW a \in Number, NEW b \in Number, a <= b,
           EndsAt(r, a)
    PROVE  /\ r \o Frames(a, b) \in Seq(Position)
           /\ Len(r \o Frames(a, b)) = Len(r) + FrameStart[b] - FrameStart[a]
           /\ EndsAt(r \o Frames(a, b), b)
<1>1. /\ Frames(a, b) \in Seq(Position)
      /\ Len(Frames(a, b)) = FrameStart[b] - FrameStart[a]
      /\ FrameStart[b] - FrameStart[a] \in Nat
      /\ EndsAt(Frames(a, b), b)
  BY FramesOfRun
<1>2. FrameStart[a] \in Nat /\ FrameStart[b] \in Nat /\ Len(r) \in Nat
  BY JitterAssumption DEF Number
<1>3. /\ r \o Frames(a, b) \in Seq(Position)
      /\ Len(r \o Frames(a, b)) = Len(r) + Len(Frames(a, b))
      /\ \A i \in 1 .. Len(r) + Len(Frames(a, b)) : (r \o Frames(a, b))[i] =
             IF i <= Len(r) THEN r[i] ELSE Frames(a, b)[i - Len(r)]
  BY <1>1, ConcatProperties
<1>4. \A i \in 1 .. Len(r) + Len(Frames(a, b)) :
         (r \o Frames(a, b))[i] = FrameStart[b] - (Len(r) + Len(Frames(a, b))) + i - 1
  <2> DEFINE f == Frames(a, b)
  <2> HIDE DEF f
  <2>1. SUFFICES ASSUME NEW i \in 1 .. Len(r) + Len(f)
                 PROVE  (r \o f)[i] = FrameStart[b] - (Len(r) + Len(f)) + i - 1
    BY DEF f
  <2>2. Len(f) \in Nat /\ Len(f) = FrameStart[b] - FrameStart[a]
    BY <1>1 DEF f
  <2>3. CASE i <= Len(r)
    <3>1. (r \o f)[i] = r[i]
      BY <1>3, <2>3 DEF f
    <3>2. i \in 1 .. Len(r)
      BY <1>2, <2>2, <2>3
    <3>3. r[i] = FrameStart[a] - Len(r) + i - 1
      BY <3>2 DEF EndsAt
    <3>4. QED
      BY <1>2, <2>2, <3>1, <3>3
  <2>4. CASE ~(i <= Len(r))
    <3>1. (r \o f)[i] = f[i - Len(r)]
      BY <1>3, <2>4 DEF f
    <3>2. i - Len(r) \in 1 .. Len(f)
      BY <1>2, <2>2, <2>4
    <3>3. f[i - Len(r)] = FrameStart[b] - Len(f) + (i - Len(r)) - 1
      BY <1>1, <3>2 DEF EndsAt, f
    <3>4. QED
      BY <1>2, <2>2, <3>1, <3>3
  <2>5. QED
    BY <2>3, <2>4
<1>5. QED
  BY <1>1, <1>2, <1>3, <1>4 DEF EndsAt

-----------------------------------------------------------------------------
\* The inductive invariant: the properties that are checked, and that a buffer without a
\* sequence holds nothing.
IInv ==
    /\ TypeOK
    /\ PendingInWindow
    /\ ReadyFits
    /\ ReadyContiguous
    /\ NeverReplayed
    /\ have \/ ready = <<>>

\* What promotion does to a buffer whose packets wait at or after e, and whose ready
\* frames end where e starts.
LEMMA PromoteStep ==
    ASSUME NEW e \in Packet, NEW waiting \in SUBSET Packet, NEW r \in Seq(Position),
           EndsAt(r, e), \A s \in waiting : e <= s,
           Promote(e, waiting, r)
    PROVE  /\ expected' \in (e + 1) .. (LastSequence + 1)
           /\ pending' \subseteq waiting
           /\ \A s \in pending' : expected' < s
           /\ ready' \in Seq(Position)
           /\ ReadyFits'
           /\ ReadyContiguous'
           /\ Len(ready') <= Len(r) + FrameStart[expected'] - FrameStart[e]
           /\ FrameStart[expected'] \in Nat /\ FrameStart[e] \in Nat
<1> DEFINE n == NextHole(e + 1, waiting)
<1>1. e \in Number /\ e + 1 \in Number /\ e \in Nat
  BY JitterAssumption DEF Number, Packet
<1>2. n \in (e + 1) .. (LastSequence + 1) /\ n \notin waiting
  BY <1>1, NextHoleFound
<1>3. n \in Number /\ e <= n /\ n \in Nat /\ n = expected'
  BY <1>1, <1>2, JitterAssumption DEF Number, Promote
<1> HIDE DEF n
<1>4. pending' = waiting \ (e .. (n - 1)) /\ ready' = Newest(r \o Frames(e, n))
  BY DEF Promote, n
<1>5. ASSUME NEW s \in pending' PROVE n < s
  <2>1. s \in waiting /\ s \notin e .. (n - 1) /\ e <= s /\ s # n
    BY <1>2, <1>4
  <2>2. s \in Int /\ n \in Int /\ e \in Int
    BY <1>1, <1>3, <2>1 DEF Packet
  <2>3. QED
    BY <2>1, <2>2
<1>6. /\ r \o Frames(e, n) \in Seq(Position)
      /\ Len(r \o Frames(e, n)) = Len(r) + FrameStart[n] - FrameStart[e]
      /\ EndsAt(r \o Frames(e, n), n)
  BY <1>1, <1>3, StretchesJoin
<1>7. /\ ready' \in Seq(Position)
      /\ Len(ready') <= MaxFrames
      /\ Len(ready') <= Len(r) + FrameStart[n] - FrameStart[e]
      /\ EndsAt(ready', n)
  BY <1>3, <1>4, <1>6, NewestOfStretch
<1>8. FrameStart[n] \in Nat /\ FrameStart[e] \in Nat
  BY <1>1, <1>3, JitterAssumption DEF Number
<1>9. QED
  BY <1>2, <1>3, <1>4, <1>5, <1>7, <1>8 DEF ReadyFits, ReadyContiguous, EndsAt

\* A window that moves forward still covers what it covered at its upper end.
LEMMA WindowAdvances ==
    ASSUME NEW t \in Int, NEW e \in Int, NEW n \in Int, NEW gap \in Int, t <= e + gap, e <= n
    PROVE  t <= n + gap
  OBVIOUS

\* An accepted packet keeps the invariant of the buffer it is accepted into.
LEMMA AcceptStep ==
    ASSUME NEW s \in Packet, NEW e \in Packet, NEW waiting \in SUBSET Packet,
           NEW r \in Seq(Position),
           EndsAt(r, e), Len(r) <= MaxFrames,
           \A t \in waiting : e < t /\ t <= e + RestartGap,
           e <= s, s <= e + RestartGap,
           Accept(s, e, waiting, r)
    PROVE  /\ expected' \in e .. (LastSequence + 1)
           /\ have' = TRUE
           /\ pending' \subseteq Packet
           /\ PendingInWindow'
           /\ ready' \in Seq(Position)
           /\ ReadyFits'
           /\ ReadyContiguous'
           /\ Len(ready') <= Len(r) + FrameStart[expected'] - FrameStart[e]
           /\ FrameStart[expected'] \in Nat /\ FrameStart[e] \in Nat
<1>1. e \in Nat /\ s \in Nat /\ LastSequence \in Nat /\ RestartGap \in Nat /\ e \in Number
  BY JitterAssumption DEF Number, Packet
<1>2. have' = TRUE
  BY DEF Accept
<1>3. CASE s = e /\ Promote(e, waiting, r)
  <2>1. \A t \in waiting : e <= t
    BY <1>1 DEF Packet
  <2>2. /\ expected' \in (e + 1) .. (LastSequence + 1)
        /\ pending' \subseteq waiting
        /\ \A t \in pending' : expected' < t
        /\ ready' \in Seq(Position)
        /\ ReadyFits'
        /\ ReadyContiguous'
        /\ Len(ready') <= Len(r) + FrameStart[expected'] - FrameStart[e]
        /\ FrameStart[expected'] \in Nat /\ FrameStart[e] \in Nat
    BY <1>3, <2>1, PromoteStep
  <2>3. expected' \in Nat /\ e <= expected' /\ expected' <= LastSequence + 1
    BY <1>1, <2>2
  <2>4. ASSUME NEW t \in pending' PROVE t <= expected' + RestartGap
    <3>1. t \in Int /\ t <= e + RestartGap
      BY <2>2 DEF Packet
    <3>2. e \in Int /\ RestartGap \in Int /\ expected' \in Int
      BY <1>1, <2>3
    <3>3. e <= expected'
      BY <2>3
    <3>4. QED
      BY <3>1, <3>2, <3>3, WindowAdvances
  <2>5. PendingInWindow'
    BY <1>2, <2>2, <2>4 DEF PendingInWindow
  <2>6. expected' \in e .. (LastSequence + 1)
    BY <1>1, <2>3
  <2>7. pending' \subseteq Packet
    BY <2>2
  <2>8. QED
    BY <1>2, <2>2, <2>5, <2>6, <2>7
<1>4. CASE s # e /\ expected' = e /\ pending' = waiting \cup {s} /\ ready' = r
  <2>1. FrameStart[e] \in Nat
    BY <1>1, JitterAssumption DEF Number
  <2>2. \A t \in pending' : expected' < t /\ t <= expected' + RestartGap
    BY <1>1, <1>4 DEF Packet
  <2>3. EndsAt(r, e) => ReadyContiguous'
    BY <1>4 DEF EndsAt, ReadyContiguous
  <2>4. e \in e .. (LastSequence + 1)
    BY <1>1 DEF Packet
  <2>5. QED
    BY <1>1, <1>2, <1>4, <2>1, <2>2, <2>3, <2>4 DEF PendingInWindow, ReadyFits
<1>5. QED
  BY <1>3, <1>4 DEF Accept

\* A push keeps the invariant; <1>5 is the case of a packet that (re)starts the session.
LEMMA PushKeepsIInv ==
    ASSUME IInv, NEW s \in Packet, Push(s)
    PROVE  IInv'
<1>1. /\ s \in Nat /\ expected \in Nat /\ cursor \in Nat /\ LastSequence \in Nat
      /\ RestartGap \in Nat /\ MaxFrames \in Nat
  BY JitterAssumption DEF IInv, TypeOK, Packet
<1>2. s \in Number /\ FrameStart[s] \in Nat
  BY <1>1, JitterAssumption DEF Number, Packet
<1>3. <<>> \in Seq(Position) /\ Len(<<>>) = 0
  OBVIOUS
<1>4. EndsAt(<<>>, s)
  BY <1>3 DEF EndsAt
<1>5. ASSUME Accept(s, s, {}, <<>>), cursor' = 0, UNCHANGED missing, started' \in BOOLEAN
      PROVE  IInv'
  <2>1. /\ expected' \in s .. (LastSequence + 1)
        /\ have' = TRUE
        /\ pending' \subseteq Packet
        /\ PendingInWindow'
        /\ ready' \in Seq(Position)
        /\ ReadyFits'
        /\ ReadyContiguous'
        /\ Len(ready') <= Len(<<>>) + FrameStart[expected'] - FrameStart[s]
        /\ FrameStart[expected'] \in Nat /\ FrameStart[s] \in Nat
    <3>1. {} \in SUBSET Packet /\ s <= s /\ s <= s + RestartGap /\ Len(<<>>) <= MaxFrames
      BY <1>1, <1>3
    <3>2. \A t \in {} : s < t /\ t <= s + RestartGap
      OBVIOUS
    <3>3. QED
      BY <1>3, <1>4, <1>5, <3>1, <3>2, AcceptStep
  <2>2. TypeOK'
    BY <1>1, <1>5, <2>1 DEF IInv, TypeOK
  <2>3. NeverReplayed'
    BY <1>3, <1>5, <2>1 DEF NeverReplayed
  <2>4. QED
    BY <2>1, <2>2, <2>3 DEF IInv
<1>6. CASE PushFirst(s)
  <2>1. pending = {} /\ ready = <<>> /\ cursor = 0
    BY <1>6 DEF IInv, PushFirst, PendingInWindow, NeverReplayed
  <2>2. QED
    BY <1>5, <1>6, <2>1 DEF PushFirst, IInv, TypeOK
<1>7. CASE PushRestart(s)
  BY <1>5, <1>7 DEF PushRestart
<1>8. CASE PushInWindow(s)
  <2>1. /\ have /\ expected <= s /\ s <= expected + RestartGap
        /\ Accept(s, expected, pending, ready)
        /\ UNCHANGED <<started, missing, cursor>>
    BY <1>1, <1>8 DEF PushInWindow, Far
  <2>2. expected \in Packet
    BY <1>1, <2>1 DEF Packet
  <2>3. /\ pending \in SUBSET Packet /\ ready \in Seq(Position)
        /\ EndsAt(ready, expected) /\ Len(ready) <= MaxFrames
        /\ \A t \in pending : expected < t /\ t <= expected + RestartGap
    BY DEF IInv, TypeOK, ReadyContiguous, EndsAt, ReadyFits, PendingInWindow
  <2>4. /\ expected' \in expected .. (LastSequence + 1)
        /\ have' = TRUE
        /\ pending' \subseteq Packet
        /\ PendingInWindow'
        /\ ready' \in Seq(Position)
        /\ ReadyFits'
        /\ ReadyContiguous'
        /\ Len(ready') <= Len(ready) + FrameStart[expected'] - FrameStart[expected]
        /\ FrameStart[expected'] \in Nat /\ FrameStart[expected] \in Nat
    BY <2>1, <2>2, <2>3, AcceptStep
  <2>5. TypeOK'
    BY <1>1, <2>1, <2>4 DEF IInv, TypeOK
  <2>6. cursor + Len(ready) <= FrameStart[expected]
    BY DEF IInv, NeverReplayed
  <2>7. Len(ready) \in Nat /\ Len(ready') \in Nat
    BY <2>3, <2>4
  <2>8. cursor' + Len(ready') <= FrameStart[expected']
    BY <1>1, <2>1, <2>4, <2>6, <2>7
  <2>9. QED
    BY <2>4, <2>5, <2>8 DEF IInv, NeverReplayed
<1>9. CASE PushRejected(s)
  BY <1>9 DEF PushRejected, vars, IInv, TypeOK, PendingInWindow, ReadyFits, ReadyContiguous,
              NeverReplayed
<1>10. QED
  BY <1>6, <1>7, <1>8, <1>9 DEF Push

\* Playing the oldest ready frames keeps the invariant: the cursor moves to the frame
\* after the last one played.
LEMMA PopCopyKeepsIInv ==
    ASSUME IInv, PopCopy
    PROVE  IInv'
<1> DEFINE n == IF missing < Len(ready) THEN missing ELSE Len(ready)
<1>1. /\ ready \in Seq(Position) /\ Len(ready) \in Nat /\ missing \in Nat
      /\ missing > 0 /\ ready # <<>> /\ Len(ready) > 0
  BY DEF IInv, TypeOK, PopCopy
<1>2. n \in 1 .. Len(ready) /\ missing - n \in Nat
  BY <1>1
<1>3. /\ missing' = missing - n /\ ready' = SubSeq(ready, n + 1, Len(ready))
      /\ cursor' = ready[n] + 1 /\ UNCHANGED <<expected, have, pending, started>>
  BY DEF PopCopy
<1> HIDE DEF n
<1>4. /\ ready' \in Seq(Position)
      /\ Len(ready') = IF n + 1 <= Len(ready) THEN Len(ready) - (n + 1) + 1 ELSE 0
      /\ \A i \in 1 .. Len(ready) - (n + 1) + 1 : ready'[i] = ready[n + 1 + i - 1]
  <2>1. \A i \in (n + 1) .. Len(ready) : ready[i] \in Position
    BY <1>1, <1>2
  <2>2. n + 1 \in Int /\ Len(ready) \in Int
    BY <1>1, <1>2
  <2>3. QED
    BY <1>3, <2>1, <2>2, SubSeqProperties
<1>5. n \in Int /\ Len(ready) \in Int /\ n >= 1 /\ n <= Len(ready)
  BY <1>1, <1>2
<1>6. Len(ready') = Len(ready) - n
  BY <1>4, <1>5
<1>7. FrameStart[expected] \in Nat
  BY JitterAssumption DEF IInv, TypeOK
<1>8. ready[n] = FrameStart[expected] - Len(ready) + n - 1 /\ ready[n] \in Position
  BY <1>1, <1>2 DEF IInv, ReadyContiguous
<1>9. cursor' = FrameStart[expected] - Len(ready) + n
  BY <1>3, <1>5, <1>7, <1>8
<1>10. cursor' \in Nat
  BY <1>3, <1>8, JitterAssumption DEF Position
<1>11. TypeOK'
  BY <1>2, <1>3, <1>4, <1>10 DEF IInv, TypeOK
<1>12. ReadyContiguous'
  <2>1. SUFFICES ASSUME NEW i \in 1 .. Len(ready')
                 PROVE  ready'[i] = FrameStart[expected] - Len(ready') + i - 1
    BY <1>3 DEF ReadyContiguous
  <2>2. ready'[i] = ready[n + 1 + i - 1] /\ n + 1 + i - 1 \in 1 .. Len(ready)
    BY <1>4, <1>5, <1>6
  <2>3. ready[n + 1 + i - 1] = FrameStart[expected] - Len(ready) + (n + 1 + i - 1) - 1
    BY <2>2 DEF IInv, ReadyContiguous
  <2>4. QED
    BY <1>5, <1>6, <1>7, <2>2, <2>3
<1>13. have
  BY <1>1 DEF IInv
<1>14. NeverReplayed'
  BY <1>3, <1>5, <1>6, <1>7, <1>9, <1>13 DEF NeverReplayed
<1>15. ReadyFits'
  BY <1>5, <1>6, JitterAssumption DEF IInv, ReadyFits
<1>16. QED
  BY <1>3, <1>11, <1>12, <1>13, <1>14, <1>15 DEF IInv, PendingInWindow

\* Giving up a hole keeps the invariant: playback goes on with the first packet that
\* waits, which is ahead of everything that was played.
LEMMA PopSkipGapKeepsIInv ==
    ASSUME IInv, PopSkipGap
    PROVE  IInv'
<1> DEFINE e == Min(Waiting)
<1>1. /\ Waiting # {} /\ Waiting \subseteq pending /\ pending \subseteq Packet
      /\ Waiting \subseteq Nat
  <2>1. Waiting # {}
    BY DEF PopSkipGap
  <2>2. Waiting \subseteq pending
    BY DEF Waiting
  <2>3. pending \subseteq Packet
    BY DEF IInv, TypeOK
  <2>4. Packet \subseteq Nat
    BY DEF Packet
  <2>5. QED
    BY <2>1, <2>2, <2>3, <2>4
<1>2. e \in Waiting /\ \A s \in Waiting : e <= s
  BY <1>1, MinFound
<1>3. Promote(e, Waiting, <<>>) /\ UNCHANGED <<have, started, missing, cursor>> /\ have
      /\ ready = <<>>
  BY DEF PopSkipGap
<1> HIDE DEF e
<1>4. /\ e \in Packet /\ e \in Nat /\ expected \in Nat /\ RestartGap \in Nat
      /\ LastSequence \in Nat /\ cursor \in Nat
  BY <1>1, <1>2, JitterAssumption DEF IInv, TypeOK, Packet
<1>5. expected < e
  BY <1>1, <1>2 DEF IInv, PendingInWindow
<1>6. <<>> \in Seq(Position) /\ Len(<<>>) = 0 /\ EndsAt(<<>>, e)
  BY DEF EndsAt
<1>7. /\ expected' \in (e + 1) .. (LastSequence + 1)
      /\ pending' \subseteq Waiting
      /\ \A s \in pending' : expected' < s
      /\ ready' \in Seq(Position)
      /\ ReadyFits'
      /\ ReadyContiguous'
      /\ Len(ready') <= Len(<<>>) + FrameStart[expected'] - FrameStart[e]
      /\ FrameStart[expected'] \in Nat /\ FrameStart[e] \in Nat
  BY <1>1, <1>2, <1>3, <1>4, <1>6, PromoteStep
<1>8. expected' \in Int /\ expected <= expected' /\ expected' \in 0 .. (LastSequence + 1)
  BY <1>4, <1>5, <1>7
<1>9. ASSUME NEW s \in pending' PROVE s <= expected' + RestartGap
  <2>1. s \in Int /\ s <= expected + RestartGap
    BY <1>1, <1>7 DEF IInv, PendingInWindow
  <2>2. expected \in Int /\ RestartGap \in Int
    BY <1>4
  <2>3. QED
    BY <1>8, <2>1, <2>2, WindowAdvances
<1>10. PendingInWindow'
  BY <1>3, <1>7, <1>9 DEF PendingInWindow
<1>11. TypeOK'
  BY <1>1, <1>3, <1>7, <1>8 DEF IInv, TypeOK
<1>12. FrameStart[expected] < FrameStart[e] /\ FrameStart[expected] \in Nat
  BY <1>4, <1>5, JitterAssumption DEF Packet
<1>13. cursor <= FrameStart[expected]
  <2>1. cursor + Len(ready) <= FrameStart[expected] /\ Len(ready) = 0
    BY <1>3, <1>6 DEF IInv, NeverReplayed
  <2>2. QED
    BY <1>4, <1>12, <2>1
<1>14. Len(ready') \in Nat
  BY <1>7
<1>15. cursor + Len(ready') <= FrameStart[expected']
  BY <1>4, <1>6, <1>7, <1>12, <1>13, <1>14
<1>16. NeverReplayed'
  BY <1>3, <1>15 DEF NeverReplayed
<1>17. QED
  BY <1>3, <1>7, <1>10, <1>11, <1>16 DEF IInv

\* The invariant holds initially.
LEMMA InitIInv == Init => IInv
<1> SUFFICES ASSUME Init PROVE IInv
  OBVIOUS
<1>1. /\ ready = <<>> /\ Len(ready) = 0 /\ ready \in Seq(Position)
      /\ expected = 0 /\ cursor = 0 /\ pending = {}
  BY DEF Init
<1>2. FrameStart[0] \in Nat /\ LastSequence \in Nat /\ MaxFrames \in Nat
  BY JitterAssumption
<1>3. TypeOK
  <2>1. 0 \in 0 .. (LastSequence + 1) /\ 0 \in Nat /\ {} \subseteq Packet /\ FALSE \in BOOLEAN
    BY <1>2
  <2>2. QED
    BY <1>1, <2>1 DEF Init, TypeOK
<1>4. QED
  BY <1>1, <1>2, <1>3 DEF IInv, PendingInWindow, ReadyFits, ReadyContiguous, NeverReplayed

\* Every step keeps the invariant.
LEMMA NextIInv == IInv /\ [Next]_vars => IInv'
<1> SUFFICES ASSUME IInv, [Next]_vars PROVE IInv'
  OBVIOUS
<1> USE DEF IInv, TypeOK, PendingInWindow, ReadyFits, ReadyContiguous, NeverReplayed
<1>1. ASSUME NEW s \in Packet, Push(s) PROVE IInv'
  BY <1>1, PushKeepsIInv
<1>2. ASSUME NEW n \in PopSizes, PopStartupSilence(n) PROVE IInv'
  BY <1>2 DEF PopStartupSilence, vars
<1>3. ASSUME NEW n \in PopSizes, PopBegin(n) PROVE IInv'
  BY <1>3, JitterAssumption DEF PopBegin
<1>4. CASE PopCopy
  BY <1>4, PopCopyKeepsIInv
<1>5. CASE PopSkipGap
  BY <1>5, PopSkipGapKeepsIInv
<1>6. CASE PopUnderrun
  BY <1>6 DEF PopUnderrun
<1>7. CASE Reset
  <2>1. UNCHANGED missing /\ cursor' = 0 /\ expected' = 0 /\ pending' = {} /\ ready' = <<>>
        /\ have' = FALSE /\ started' = FALSE
    BY <1>7 DEF Reset
  <2>2. FrameStart[0] \in Nat /\ LastSequence \in Nat /\ MaxFrames \in Nat
    BY JitterAssumption
  <2>3. ready' \in Seq(Position) /\ Len(ready') = 0
    BY <2>1
  <2>4. 0 \in 0 .. (LastSequence + 1) /\ 0 \in Nat /\ {} \subseteq Packet
    BY <2>2
  <2>5. TypeOK'
    BY <2>1, <2>3, <2>4
  <2>6. PendingInWindow' /\ ReadyFits' /\ ReadyContiguous' /\ NeverReplayed'
    BY <2>1, <2>2, <2>3
  <2>7. QED
    BY <2>1, <2>5, <2>6
<1>8. CASE UNCHANGED vars
  BY <1>8 DEF vars
<1>9. QED
  BY <1>1, <1>2, <1>3, <1>4, <1>5, <1>6, <1>7, <1>8 DEF Next, PopLoop

\* The jitter buffer keeps its inductive invariant in every state.
LEMMA AlwaysIInv == Spec => []IInv
<1>1. QED
  BY InitIInv, NextIInv, PTL DEF Spec

\* Type correctness of the jitter buffer.
THEOREM TypeCorrect == Spec => []TypeOK
<1>1. IInv => TypeOK
  BY DEF IInv
<1>2. QED
  BY <1>1, AlwaysIInv, PTL

\* pending_packets_ never holds a stale packet, nor one more than kSequenceRestartPacketGap
\* ahead, for every delivery order of the network.
THEOREM PendingStaysInWindow == Spec => []PendingInWindow
<1>1. IInv => PendingInWindow
  BY DEF IInv
<1>2. QED
  BY <1>1, AlwaysIInv, PTL

\* The ring never holds more than maximum_buffer_frames_.
THEOREM RingNeverOverflows == Spec => []ReadyFits
<1>1. IInv => ReadyFits
  BY DEF IInv
<1>2. QED
  BY <1>1, AlwaysIInv, PTL

\* What is ready to be played is always one unbroken stretch of the stream, and it never
\* contains a frame that was already played or passed.
THEOREM PlayedInOrderOnce == Spec => []InOrderOnce
<1>1. IInv => InOrderOnce
  BY DEF IInv, InOrderOnce
<1>2. QED
  BY <1>1, AlwaysIInv, PTL

-----------------------------------------------------------------------------
(* The buffer implements OrderedPlayout *)

Kept(r, waiting) == {r[i] : i \in 1 .. Len(r)} \cup UNION {FramesOf(s) : s \in waiting}
HeldFrames == Kept(ready, pending)

\* The oldest position in a stretch of n frames that ends where packet e starts
OldestAt(e, n) == FrameStart[e] - n

LEMMA StretchSet ==
    ASSUME NEW r \in Seq(Position), NEW e \in Number, EndsAt(r, e)
    PROVE  {r[i] : i \in 1 .. Len(r)} = OldestAt(e, Len(r)) .. (FrameStart[e] - 1)
<1>1. Len(r) \in Nat /\ FrameStart[e] \in Nat
  BY JitterAssumption DEF Number
<1>2. ASSUME NEW i \in 1 .. Len(r) PROVE r[i] \in OldestAt(e, Len(r)) .. (FrameStart[e] - 1)
  BY <1>1 DEF EndsAt, OldestAt
<1>3. ASSUME NEW f \in OldestAt(e, Len(r)) .. (FrameStart[e] - 1)
      PROVE  \E i \in 1 .. Len(r) : r[i] = f
  <2> DEFINE i == f - OldestAt(e, Len(r)) + 1
  <2>1. i \in 1 .. Len(r) /\ FrameStart[e] - Len(r) + i - 1 = f
    BY <1>1 DEF OldestAt
  <2>2. QED
    BY <2>1 DEF EndsAt
<1>4. QED
  BY <1>2, <1>3

\* Everything that is held is at or behind the oldest ready frame; what waits is behind all
\* that is ready.
LEMMA KeptBounds ==
    ASSUME NEW r \in Seq(Position), NEW e \in Number, EndsAt(r, e),
           NEW waiting \in SUBSET Packet, \A s \in waiting : e < s
    PROVE  /\ \A f \in Kept(r, waiting) : f \in Int /\ OldestAt(e, Len(r)) <= f
           /\ \A s \in waiting : \A f \in FramesOf(s) : f \in Int /\ FrameStart[e] <= f
<1>1. Len(r) \in Nat /\ FrameStart[e] \in Nat
  BY JitterAssumption DEF Number
<1>2. ASSUME NEW s \in waiting, NEW f \in FramesOf(s)
      PROVE  f \in Int /\ FrameStart[e] <= f
  <2>1. s \in Number /\ e < s
    BY JitterAssumption DEF Number, Packet
  <2>2. FrameStart[e] < FrameStart[s] /\ FrameStart[s] \in Nat
    BY <2>1, JitterAssumption DEF Number
  <2>3. QED
    BY <1>1, <2>2 DEF FramesOf
<1>3. \A f \in OldestAt(e, Len(r)) .. (FrameStart[e] - 1) :
         f \in Int /\ OldestAt(e, Len(r)) <= f
  BY <1>1 DEF OldestAt
<1>4. OldestAt(e, Len(r)) <= FrameStart[e]
  BY <1>1 DEF OldestAt
<1>5. ASSUME NEW f \in Kept(r, waiting) PROVE f \in Int /\ OldestAt(e, Len(r)) <= f
  <2>1. CASE f \in {r[i] : i \in 1 .. Len(r)}
    BY <1>3, <2>1, StretchSet
  <2>2. CASE \E s \in waiting : f \in FramesOf(s)
    <3>1. f \in Int /\ FrameStart[e] <= f
      BY <1>2, <2>2
    <3>2. QED
      BY <1>1, <1>4, <3>1 DEF OldestAt
  <2>3. QED
    BY <2>1, <2>2 DEF Kept
<1>6. QED
  BY <1>2, <1>5

\* Promotion drops frames at the old end only.
LEMMA PromoteStores ==
    ASSUME NEW e \in Packet, NEW waiting \in SUBSET Packet, NEW r \in Seq(Position),
           EndsAt(r, e), \A s \in waiting : e <= s,
           Promote(e, waiting, r)
    PROVE  /\ \A f \in Kept(r, waiting) \ HeldFrames' : \A g \in HeldFrames' : f < g
           /\ \A g \in HeldFrames' : g \in Int /\ OldestAt(e, Len(r)) <= g
<1>1. /\ expected' \in (e + 1) .. (LastSequence + 1)
      /\ pending' \subseteq waiting /\ \A s \in pending' : expected' < s
      /\ ready' \in Seq(Position) /\ ReadyContiguous'
      /\ Len(ready') <= Len(r) + FrameStart[expected'] - FrameStart[e]
      /\ FrameStart[expected'] \in Nat /\ FrameStart[e] \in Nat
  BY PromoteStep
<1>2. /\ e \in Number /\ expected' \in Number /\ EndsAt(ready', expected')
      /\ e \in Nat /\ expected' \in Nat /\ e < expected'
  BY <1>1, JitterAssumption DEF Packet, Number, ReadyContiguous, EndsAt
<1>3. pending' = waiting \ (e .. (expected' - 1))
  BY DEF Promote
<1> DEFINE n == expected'
           low == OldestAt(n, Len(ready'))
<1>4. /\ Len(r) \in Nat /\ Len(ready') \in Nat /\ low \in Int
      /\ low = FrameStart[n] - Len(ready') /\ OldestAt(e, Len(r)) \in Int
      /\ OldestAt(e, Len(r)) <= low
  BY <1>1 DEF OldestAt
<1>5. \A g \in HeldFrames' : g \in Int /\ low <= g
  <2>1. pending' \in SUBSET Packet
    BY <1>1
  <2>2. QED
    BY <1>1, <1>2, <2>1, KeptBounds DEF HeldFrames
<1>6. low .. (FrameStart[n] - 1) \subseteq HeldFrames'
  BY <1>1, <1>2, StretchSet DEF HeldFrames, Kept
<1>7. ASSUME NEW f \in Kept(r, waiting) \ HeldFrames' PROVE f \in Int /\ f < low
  <2>1. f \in Int /\ f < FrameStart[n]
    <3>1. CASE f \in {r[i] : i \in 1 .. Len(r)}
      <4>1. f \in OldestAt(e, Len(r)) .. (FrameStart[e] - 1)
        BY <1>2, <3>1, StretchSet
      <4>2. FrameStart[e] < FrameStart[n]
        BY <1>2, JitterAssumption DEF Number
      <4>3. QED
        BY <1>1, <1>4, <4>1, <4>2
    <3>2. CASE \E s \in waiting : f \in FramesOf(s)
      <4>1. PICK s \in waiting : f \in FramesOf(s)
        BY <3>2
      <4>2. s \notin pending'
        BY <4>1 DEF HeldFrames, Kept
      <4>3. s \in Nat /\ s + 1 \in Number /\ s \in Number /\ s \in e .. (n - 1)
        <5>1. s \in Packet /\ s \in e .. (n - 1)
          BY <1>3, <4>2
        <5>2. LastSequence \in Nat
          BY JitterAssumption
        <5>3. s \in Nat /\ s + 1 \in Nat /\ s <= LastSequence
          BY <5>1, <5>2 DEF Packet
        <5>4. QED
          BY <5>1, <5>2, <5>3 DEF Number
      <4>4. s + 1 = n \/ s + 1 < n
        <5>1. n \in Nat
          BY <1>2
        <5>2. s \in Nat /\ s <= n - 1
          BY <4>3
        <5> HIDE DEF n
        <5>3. QED
          BY <5>1, <5>2
      <4>5. /\ FrameStart[s + 1] \in Nat /\ FrameStart[s] \in Nat
            /\ FrameStart[s + 1] <= FrameStart[n]
        BY <1>1, <1>2, <4>3, <4>4, JitterAssumption DEF Number
      <4>6. QED
        BY <1>1, <4>1, <4>5 DEF FramesOf
    <3>3. QED
      BY <3>1, <3>2 DEF Kept
  <2>2. f \notin low .. (FrameStart[n] - 1)
    BY <1>6
  <2>3. QED
    BY <1>1, <1>4, <2>1, <2>2
<1> HIDE DEF n, low
<1>8. QED
  BY <1>4, <1>5, <1>7

LEMMA HeldIs ==
    HeldFrames = {ready[i] : i \in 1 .. Len(ready)} \cup UNION {FramesOf(s) : s \in pending}
  BY DEF HeldFrames, Kept

\* A packet that starts a session is all the buffer then holds.
LEMMA SessionStarts ==
    ASSUME NEW s \in Packet, Accept(s, s, {}, <<>>), cursor' = 0
    PROVE  Playout!Restart
<1>1. s \in Nat /\ s \in Number /\ Promote(s, {}, <<>>)
  BY JitterAssumption DEF Accept, Packet, Number
<1>2. <<>> \in Seq(Position) /\ Len(<<>>) = 0 /\ EndsAt(<<>>, s)
  BY DEF EndsAt
<1>3. /\ expected' \in (s + 1) .. (LastSequence + 1) /\ pending' = {}
      /\ ready' \in Seq(Position) /\ ReadyContiguous'
      /\ Len(ready') <= Len(<<>>) + FrameStart[expected'] - FrameStart[s]
      /\ FrameStart[expected'] \in Nat /\ FrameStart[s] \in Nat
  <2>1. {} \in SUBSET Packet /\ \A t \in {} : s <= t
    OBVIOUS
  <2>2. /\ expected' \in (s + 1) .. (LastSequence + 1) /\ pending' \subseteq {}
        /\ ready' \in Seq(Position) /\ ReadyContiguous'
        /\ Len(ready') <= Len(<<>>) + FrameStart[expected'] - FrameStart[s]
        /\ FrameStart[expected'] \in Nat /\ FrameStart[s] \in Nat
    BY <1>1, <1>2, <2>1, PromoteStep
  <2>3. QED
    BY <2>2
<1>4. expected' = s + 1
  <2>1. s + 1 \in Number
    BY <1>1, JitterAssumption DEF Packet, Number
  <2>2. expected' = NextHole(s + 1, {})
    BY <1>1 DEF Promote
  <2>3. s + 1 .. (expected' - 1) \subseteq {}
    BY <2>1, <2>2, NextHoleFound
  <2>4. expected' \in Int /\ s + 1 <= expected'
    BY <1>1, <1>3
  <2> DEFINE n == expected'
  <2>5. n \in Int /\ s + 1 <= n /\ s + 1 \notin (s + 1) .. (n - 1)
    BY <2>3, <2>4
  <2> HIDE DEF n
  <2>6. n = s + 1
    BY <1>1, <2>5
  <2>7. QED
    BY <2>6 DEF n
<1>5. HeldFrames' = OldestAt(expected', Len(ready')) .. (FrameStart[expected'] - 1)
  <2>1. expected' \in Number /\ EndsAt(ready', expected')
    BY <1>1, <1>3, <1>4, JitterAssumption DEF Number, ReadyContiguous, EndsAt, Packet
  <2>2. QED
    BY <1>3, <2>1, StretchSet DEF HeldFrames, Kept
<1>6. HeldFrames' \subseteq FramesOf(s)
  <2>1. OldestAt(expected', Len(ready')) \in Int /\ FrameStart[s] <= OldestAt(expected', Len(ready'))
    BY <1>2, <1>3 DEF OldestAt
  <2>2. QED
    BY <1>3, <1>4, <1>5, <2>1 DEF FramesOf
<1>7. \E p \in {FramesOf(t) : t \in Packet} \cup {{}} : HeldFrames' \subseteq p
  BY <1>6
<1>8. QED
  BY <1>7, HeldIs DEF Playout!Restart, HeldFrames, Kept

\* A packet within the window adds frames that playback has not passed.
LEMMA WindowStores ==
    ASSUME IInv, NEW s \in Packet, PushInWindow(s)
    PROVE  Playout!Store
<1>1. /\ have /\ s >= expected /\ cursor' = cursor
      /\ Accept(s, expected, pending, ready)
  BY DEF PushInWindow
<1>2. /\ expected \in Nat /\ s \in Nat /\ LastSequence \in Nat /\ expected \in Packet
      /\ cursor \in Nat /\ expected \in Number
  BY <1>1, JitterAssumption DEF IInv, TypeOK, Packet, Number
<1>3. /\ pending \in SUBSET Packet /\ ready \in Seq(Position) /\ EndsAt(ready, expected)
      /\ \A t \in pending : expected < t
      /\ FrameStart[expected] \in Nat /\ Len(ready) \in Nat
  BY <1>2, JitterAssumption DEF IInv, TypeOK, ReadyContiguous, EndsAt, PendingInWindow, Number
<1>4. cursor <= OldestAt(expected, Len(ready)) /\ OldestAt(expected, Len(ready)) \in Int
  BY <1>2, <1>3 DEF IInv, NeverReplayed, OldestAt
<1>5. CASE Promote(expected, pending, ready)
  <2>1. \A t \in pending : expected <= t
    BY <1>2, <1>3 DEF Packet
  <2>2. /\ \A f \in HeldFrames \ HeldFrames' : \A g \in HeldFrames' : f < g
        /\ \A g \in HeldFrames' : g \in Int /\ OldestAt(expected, Len(ready)) <= g
    BY <1>2, <1>3, <1>5, <2>1, PromoteStores DEF HeldFrames
  <2>3. \A g \in HeldFrames' : g >= cursor
    BY <1>2, <1>4, <2>2
  <2>4. QED
    BY <1>1, <2>2, <2>3 DEF Playout!Store, Playout!OldestFirst, Playout!Gone, HeldFrames, Kept
<1>6. CASE s # expected /\ pending' = pending \cup {s} /\ ready' = ready
  <2>1. HeldFrames' = HeldFrames \cup FramesOf(s)
    BY <1>6 DEF HeldFrames, Kept
  <2>2. FrameStart[s] \in Nat /\ FrameStart[expected] <= FrameStart[s]
    BY <1>1, <1>2, <1>3, JitterAssumption DEF Packet
  <2>3. \A f \in FramesOf(s) : f >= cursor
    BY <1>2, <1>3, <1>4, <2>2 DEF FramesOf, OldestAt
  <2>4. QED
    BY <1>1, <2>1, <2>3 DEF Playout!Store, Playout!OldestFirst, Playout!Gone, HeldFrames, Kept
<1>7. QED
  BY <1>1, <1>5, <1>6 DEF Accept

\* Skipping a hole drops what does not fit, oldest first.
LEMMA SkipStores ==
    ASSUME IInv, PopSkipGap
    PROVE  Playout!Store
<1> DEFINE e == Min(Waiting)
<1>1. /\ pending \in SUBSET Packet /\ ready = <<>> /\ cursor' = cursor /\ have
      /\ expected \in Nat /\ expected \in Number /\ cursor \in Nat
      /\ \A t \in pending : t \in Nat /\ expected < t
      /\ Promote(e, Waiting, <<>>) /\ Waiting # {}
  BY JitterAssumption DEF PopSkipGap, IInv, TypeOK, PendingInWindow, Packet, Number
<1>2. Waiting = pending
  BY <1>1 DEF Waiting
<1>3. e \in pending /\ \A t \in pending : e <= t
  BY <1>1, <1>2, MinFound
<1> HIDE DEF e
<1>4. <<>> \in Seq(Position) /\ Len(<<>>) = 0 /\ EndsAt(<<>>, e)
  BY DEF EndsAt
<1>5. /\ \A f \in HeldFrames \ HeldFrames' : \A g \in HeldFrames' : f < g
      /\ \A g \in HeldFrames' : g \in Int /\ OldestAt(e, Len(<<>>)) <= g
  <2>1. HeldFrames = Kept(<<>>, pending)
    BY <1>1 DEF HeldFrames
  <2>2. QED
    BY <1>1, <1>2, <1>3, <1>4, <2>1, PromoteStores
<1>6. cursor <= OldestAt(e, Len(<<>>)) /\ OldestAt(e, Len(<<>>)) \in Int
  <2>1. e \in Number /\ expected < e
    BY <1>1, <1>3, JitterAssumption DEF Packet, Number
  <2>2. /\ FrameStart[expected] \in Nat /\ FrameStart[e] \in Nat
        /\ FrameStart[expected] < FrameStart[e]
    BY <1>1, <2>1, JitterAssumption DEF Number
  <2>3. cursor <= FrameStart[expected]
    BY <1>1, <1>4, <2>2 DEF IInv, NeverReplayed
  <2>4. QED
    BY <1>1, <1>4, <2>2, <2>3 DEF OldestAt
<1>7. \A g \in HeldFrames' : g >= cursor
  BY <1>1, <1>5, <1>6
<1>8. QED
  BY <1>1, <1>5, <1>7 DEF Playout!Store, Playout!OldestFirst, Playout!Gone, HeldFrames, Kept

LEMMA MaxOfInterval ==
    ASSUME NEW a \in Int, NEW b \in Int, a <= b
    PROVE  Playout!Max(a .. b) = b
<1>1. b \in a .. b /\ \A y \in a .. b : b >= y
  OBVIOUS
<1>2. \A x \in a .. b : (\A y \in a .. b : x >= y) => x = b
  BY <1>1
<1>3. QED
  BY <1>1, <1>2 DEF Playout!Max

\* Playing takes the oldest frames, and the cursor stops behind the last of them.
LEMMA CopyPlays ==
    ASSUME IInv, PopCopy
    PROVE  Playout!Play
<1> DEFINE n == IF missing < Len(ready) THEN missing ELSE Len(ready)
           low == OldestAt(expected, Len(ready))
<1>1. /\ ready \in Seq(Position) /\ Len(ready) \in Nat /\ missing \in Nat
      /\ missing > 0 /\ ready # <<>> /\ Len(ready) > 0
  BY DEF IInv, TypeOK, PopCopy
<1>2. n \in 1 .. Len(ready) /\ n \in Int
  BY <1>1
<1>3. /\ ready' = SubSeq(ready, n + 1, Len(ready)) /\ cursor' = ready[n] + 1
      /\ UNCHANGED <<expected, pending>>
  BY DEF PopCopy
<1> HIDE DEF n
<1>4. /\ expected \in Number /\ FrameStart[expected] \in Nat /\ EndsAt(ready, expected)
      /\ pending \in SUBSET Packet /\ \A t \in pending : expected < t
  BY JitterAssumption DEF IInv, TypeOK, ReadyContiguous, EndsAt, PendingInWindow, Number
<1>5. cursor' = low + n
  <2>1. ready[n] = FrameStart[expected] - Len(ready) + n - 1
    BY <1>2, <1>4 DEF EndsAt
  <2>2. QED
    BY <1>1, <1>2, <1>3, <1>4, <2>1 DEF OldestAt
<1>6. ready' \in Seq(Position) /\ EndsAt(ready', expected) /\ Len(ready') = Len(ready) - n
  <2>1. IInv'
    BY PopCopyKeepsIInv
  <2>2. \A i \in (n + 1) .. Len(ready) : ready[i] \in Position
    BY <1>1, <1>2
  <2>3. Len(ready') = IF n + 1 <= Len(ready) THEN Len(ready) - (n + 1) + 1 ELSE 0
    BY <1>1, <1>2, <1>3, <2>2, SubSeqProperties
  <2>4. Len(ready') = Len(ready) - n
    BY <1>1, <1>2, <2>3
  <2>5. ready' \in Seq(Position) /\ EndsAt(ready', expected')
    BY <2>1 DEF IInv, TypeOK, ReadyContiguous, EndsAt
  <2>6. QED
    BY <1>3, <2>4, <2>5
<1> DEFINE end == FrameStart[expected]
           waits == UNION {FramesOf(t) : t \in pending}
<1>7. /\ low \in Int /\ end \in Int /\ low + n <= end /\ n >= 1
      /\ OldestAt(expected, Len(ready')) = low + n
  BY <1>1, <1>2, <1>4, <1>6 DEF OldestAt
<1>8. HeldFrames = (low .. (end - 1)) \cup waits
  BY <1>1, <1>4, StretchSet DEF HeldFrames, Kept
<1>9. HeldFrames' = ((low + n) .. (end - 1)) \cup waits
  BY <1>3, <1>4, <1>6, <1>7, StretchSet DEF HeldFrames, Kept
<1>10. \A f \in waits : f \in Int /\ end <= f
  BY <1>1, <1>4, KeptBounds
<1> HIDE DEF low, end, waits
<1>11. /\ HeldFrames' \subseteq HeldFrames
       /\ HeldFrames \ HeldFrames' = low .. (low + n - 1)
       /\ \A g \in HeldFrames' : g \in Int /\ low + n <= g
  BY <1>2, <1>7, <1>8, <1>9, <1>10
<1>12. /\ HeldFrames \ HeldFrames' # {}
       /\ \A f \in HeldFrames \ HeldFrames' : \A g \in HeldFrames' : f < g
       /\ cursor' = Playout!Max(HeldFrames \ HeldFrames') + 1
  <2>1. low + n - 1 \in Int /\ low <= low + n - 1
    BY <1>2, <1>7
  <2>2. Playout!Max(low .. (low + n - 1)) = low + n - 1
    BY <1>7, <2>1, MaxOfInterval
  <2>3. low \in low .. (low + n - 1)
    BY <1>7, <2>1
  <2>4. \A f \in low .. (low + n - 1) : \A g \in HeldFrames' : f < g
    BY <1>2, <1>7, <1>11
  <2>5. cursor' = (low + n - 1) + 1
    BY <1>2, <1>5, <1>7
  <2>6. QED
    BY <1>11, <2>2, <2>3, <2>4, <2>5
<1>13. QED
  BY <1>11, <1>12 DEF Playout!Play, Playout!OldestFirst, Playout!Gone, HeldFrames, Kept

LEMMA NextPlayout == IInv /\ [Next]_vars => [Playout!Next]_Playout!vars
<1> SUFFICES ASSUME IInv, [Next]_vars PROVE [Playout!Next]_Playout!vars
  OBVIOUS
<1> USE DEF Playout!Next
<1>1. ASSUME NEW s \in Packet, PushFirst(s) PROVE Playout!Restart
  <2>1. pending = {} /\ ready = <<>> /\ cursor = 0
    BY <1>1 DEF IInv, PushFirst, PendingInWindow, NeverReplayed
  <2>2. QED
    BY <1>1, <2>1, SessionStarts DEF PushFirst
<1>2. ASSUME NEW s \in Packet, PushRestart(s) PROVE Playout!Restart
  BY <1>2, SessionStarts DEF PushRestart
<1>3. ASSUME NEW s \in Packet, PushInWindow(s) PROVE Playout!Store
  BY <1>3, WindowStores
<1>4. CASE UNCHANGED <<pending, ready, cursor>>
  BY <1>4 DEF Playout!vars
<1>5. CASE PopCopy
  BY <1>5, CopyPlays
<1>6. CASE PopSkipGap
  BY <1>6, SkipStores
<1>7. CASE PopUnderrun
  <2>1. Waiting = pending
    <3>1. expected \in Int /\ \A s \in pending : s \in Int /\ expected < s
      BY DEF IInv, TypeOK, PendingInWindow, Packet
    <3>2. QED
      BY <3>1 DEF Waiting
  <2>2. pending = {}
    BY <1>7, <2>1 DEF PopUnderrun
  <2>3. QED
    BY <1>4, <1>7, <2>2 DEF PopUnderrun
<1>8. CASE Reset
  <2>1. HeldFrames' = {} /\ cursor' = 0
    <3>1. pending' = {} /\ ready' = <<>> /\ cursor' = 0 /\ 1 .. Len(<<>>) = {}
      BY <1>8 DEF Reset
    <3>2. QED
      BY <3>1 DEF HeldFrames, Kept
  <2>2. QED
    BY <2>1 DEF Playout!Restart, HeldFrames, Kept
<1>9. QED
  BY <1>1, <1>2, <1>3, <1>4, <1>5, <1>6, <1>7, <1>8
     DEF Next, Push, PushRejected, PopStartupSilence, PopBegin, PopLoop, vars

\* The ring, the map of pending packets and the packet numbers come down to an ordered playout:
\* the oldest frames are played or dropped first, nothing behind what was played is kept, and
\* only a new session of the sender begins anew (JitterBuffer::push, pop_into, reset).
THEOREM Implements == Spec => ImplementsPlayout
<1>1. Init => Playout!Init
  <2>1. Init => ready = <<>> /\ pending = {} /\ cursor = 0 /\ 1 .. Len(<<>>) = {}
    BY DEF Init
  <2>2. QED
    BY <2>1 DEF Playout!Init
<1>2. QED
  BY <1>1, NextPlayout, AlwaysIInv, PTL DEF Spec, ImplementsPlayout, Playout!Spec

-----------------------------------------------------------------------------
(* The counters *)

\* The frames of the packets in w
AllOf(w) == UNION {FramesOf(s) : s \in w}

LEMMA FramesFinite ==
    ASSUME NEW w \in SUBSET Packet
    PROVE  /\ IsFiniteSet(w) /\ Cardinality(w) \in Nat
           /\ IsFiniteSet(AllOf(w)) /\ Cardinality(AllOf(w)) \in Nat
<1>1. LastSequence \in Nat /\ FrameStart[LastSequence + 1] \in Nat
  BY JitterAssumption
<1>2. IsFiniteSet(Packet) /\ IsFiniteSet(Position)
  <2>1. 0 \in Int /\ LastSequence \in Int /\ FrameStart[LastSequence + 1] - 1 \in Int
    BY <1>1
  <2>2. IsFiniteSet(0 .. LastSequence)
    BY <2>1, FS_Interval
  <2>3. IsFiniteSet(0 .. (FrameStart[LastSequence + 1] - 1))
    BY <2>1, FS_Interval
  <2>4. QED
    BY <2>2, <2>3 DEF Packet, Position
<1>3. AllOf(w) \subseteq Position
  <2> SUFFICES ASSUME NEW s \in w, NEW f \in FramesOf(s) PROVE f \in Position
    BY DEF AllOf
  <2>1. s \in Number /\ s + 1 \in Number /\ s \in Nat
    BY <1>1 DEF Packet, Number
  <2>2. /\ FrameStart[s] \in Nat /\ FrameStart[s + 1] \in Nat
        /\ FrameStart[s + 1] <= FrameStart[LastSequence + 1]
    BY <1>1, <2>1, JitterAssumption DEF Number
  <2>3. QED
    BY <1>1, <2>2 DEF FramesOf, Position
<1>4. QED
  BY <1>2, <1>3, FS_Subset, FS_CardinalityType

LEMMA PacketsApart ==
    ASSUME NEW s \in Packet, NEW t \in Packet, s < t
    PROVE  FramesOf(s) \cap FramesOf(t) = {}
<1>1. s + 1 \in Number /\ t \in Number /\ t + 1 \in Number /\ s \in Nat /\ t \in Nat /\ s \in Number
  BY JitterAssumption DEF Packet, Number
<1>2. /\ FrameStart[s + 1] \in Nat /\ FrameStart[t] \in Nat /\ FrameStart[s + 1] <= FrameStart[t]
      /\ FrameStart[s] \in Nat /\ FrameStart[t + 1] \in Nat
  <2>1. s + 1 = t \/ s + 1 < t
    BY <1>1
  <2>2. QED
    BY <1>1, <2>1, JitterAssumption DEF Number
<1>3. QED
  BY <1>2 DEF FramesOf

LEMMA PacketAdded ==
    ASSUME NEW w \in SUBSET Packet, NEW s \in Packet, s \notin w
    PROVE  /\ Cardinality(w \cup {s}) = Cardinality(w) + 1
           /\ Cardinality(AllOf(w \cup {s})) = Cardinality(AllOf(w)) + Size(s)
           /\ Size(s) \in Nat
<1>1. s \in Nat /\ s \in Number /\ s + 1 \in Number
  BY JitterAssumption DEF Packet, Number
<1>2. FrameStart[s] \in Nat /\ FrameStart[s + 1] \in Nat /\ FrameStart[s] < FrameStart[s + 1]
  BY <1>1, JitterAssumption DEF Number
<1>3. AllOf(w \cup {s}) = AllOf(w) \cup FramesOf(s)
  BY DEF AllOf
<1>4. AllOf(w) \cap FramesOf(s) = {}
  <2> SUFFICES ASSUME NEW t \in w PROVE FramesOf(t) \cap FramesOf(s) = {}
    BY DEF AllOf
  <2>1. t \in Packet /\ t \in Nat /\ t # s
    BY DEF Packet
  <2>2. t < s \/ s < t
    BY <1>1, <2>1
  <2>3. QED
    BY <2>1, <2>2, PacketsApart
<1>5. IsFiniteSet(FramesOf(s)) /\ Cardinality(FramesOf(s)) = Size(s)
  <2>1. FrameStart[s] \in Int /\ FrameStart[s + 1] - 1 \in Int
    BY <1>2
  <2>2. IsFiniteSet(FrameStart[s] .. (FrameStart[s + 1] - 1))
    BY <2>1, FS_Interval
  <2>3. Cardinality(FrameStart[s] .. (FrameStart[s + 1] - 1)) =
            IF FrameStart[s] > FrameStart[s + 1] - 1 THEN 0
            ELSE (FrameStart[s + 1] - 1) - FrameStart[s] + 1
    BY <2>1, FS_Interval
  <2>4. QED
    BY <1>2, <2>2, <2>3 DEF FramesOf, Size
<1>6. IsFiniteSet(AllOf(w)) /\ IsFiniteSet(w) /\ Cardinality(AllOf(w)) \in Nat /\ Size(s) \in Nat
  BY <1>2, FramesFinite DEF Size
<1>7. Cardinality(AllOf(w) \cup FramesOf(s)) = Cardinality(AllOf(w)) + Size(s)
  <2>1. Cardinality(AllOf(w) \cup FramesOf(s)) =
            Cardinality(AllOf(w)) + Cardinality(FramesOf(s)) - Cardinality(AllOf(w) \cap FramesOf(s))
    BY <1>5, <1>6, FS_Union
  <2>2. Cardinality(AllOf(w) \cap FramesOf(s)) = 0
    BY <1>4, FS_EmptySet
  <2>3. QED
    BY <1>5, <1>6, <2>1, <2>2
<1>8. QED
  BY <1>3, <1>6, <1>7, FS_AddElement

\* The frames of a run of packets, as a set
LEMMA FramesOfRunSet ==
    ASSUME NEW a \in Number, NEW b \in Number, a <= b
    PROVE  AllOf(a .. (b - 1)) = FrameStart[a] .. (FrameStart[b] - 1)
<1>1. /\ a \in Nat /\ b \in Nat /\ LastSequence \in Nat
      /\ FrameStart[a] \in Nat /\ FrameStart[b] \in Nat
  BY JitterAssumption DEF Number
<1>2. ASSUME NEW t \in a .. (b - 1), NEW f \in FramesOf(t)
      PROVE  f \in FrameStart[a] .. (FrameStart[b] - 1)
  <2>1. /\ t \in Number /\ t + 1 \in Number /\ t \in Nat
        /\ (t = a \/ a < t) /\ (t + 1 = b \/ t + 1 < b)
    BY <1>1 DEF Number
  <2>2. /\ FrameStart[a] <= FrameStart[t] /\ FrameStart[t + 1] <= FrameStart[b]
        /\ FrameStart[t] \in Nat /\ FrameStart[t + 1] \in Nat
    BY <1>1, <2>1, JitterAssumption DEF Number
  <2>3. QED
    BY <1>1, <2>2 DEF FramesOf
<1>3. ASSUME NEW f \in FrameStart[a] .. (FrameStart[b] - 1)
      PROVE  \E t \in a .. (b - 1) : f \in FramesOf(t)
  <2> DEFINE S == {m \in Number : a <= m /\ f < FrameStart[m]}
  <2>1. S \in SUBSET Nat /\ b \in S
    BY <1>1 DEF Number
  <2>2. PICK m \in S : \A k \in S : m <= k
    BY <2>1, LeastNatural
  <2>3. m \in Nat /\ m <= b /\ a <= m /\ m # a /\ m \in Number /\ f < FrameStart[m]
    BY <1>1, <1>3, <2>1, <2>2 DEF Number
  <2>4. m - 1 \in Number /\ m - 1 \in a .. (b - 1) /\ m - 1 + 1 = m
    BY <1>1, <2>3 DEF Number
  <2>5. m - 1 \notin S
    BY <1>1, <2>2, <2>3
  <2>6. FrameStart[m - 1] <= f
    <3>1. FrameStart[m - 1] \in Nat /\ f \in Int
      BY <2>4, JitterAssumption DEF Number
    <3>2. ~(f < FrameStart[m - 1])
      BY <1>1, <2>3, <2>4, <2>5
    <3>3. QED
      BY <3>1, <3>2
  <2>7. f \in FramesOf(m - 1)
    <3>1. FrameStart[m - 1] \in Nat /\ FrameStart[m] \in Nat /\ f \in Int
      BY <2>3, <2>4, JitterAssumption DEF Number
    <3>2. QED
      BY <2>3, <2>4, <2>6, <3>1 DEF FramesOf
  <2>8. QED
    BY <2>4, <2>7
<1>4. QED
  BY <1>2, <1>3 DEF AllOf

LEMMA RunRemoved ==
    ASSUME NEW w \in SUBSET Packet, NEW a \in Number, NEW b \in Number, a <= b,
           a .. (b - 1) \subseteq w
    PROVE  /\ Cardinality(w \ (a .. (b - 1))) = Cardinality(w) - (b - a)
           /\ Cardinality(AllOf(w \ (a .. (b - 1)))) =
                  Cardinality(AllOf(w)) - (FrameStart[b] - FrameStart[a])
<1> DEFINE run == a .. (b - 1)
<1>1. /\ a \in Nat /\ b \in Nat /\ FrameStart[a] \in Nat /\ FrameStart[b] \in Nat
      /\ FrameStart[a] <= FrameStart[b]
  BY JitterAssumption DEF Number
<1>2. IsFiniteSet(w) /\ IsFiniteSet(AllOf(w))
  BY FramesFinite
<1>3. Cardinality(run) = b - a
  <2>1. a \in Int /\ b - 1 \in Int
    BY <1>1
  <2>2. Cardinality(run) = IF a > b - 1 THEN 0 ELSE (b - 1) - a + 1
    BY <2>1, FS_Interval
  <2>3. QED
    BY <1>1, <2>2
<1>4. Cardinality(w \ run) = Cardinality(w) - (b - a)
  <2>1. w \cap run = run
    OBVIOUS
  <2>2. Cardinality(w \ run) = Cardinality(w) - Cardinality(w \cap run)
    BY <1>2, FS_Difference
  <2>3. QED
    BY <1>3, <2>1, <2>2
<1>5. AllOf(run) = FrameStart[a] .. (FrameStart[b] - 1)
  BY FramesOfRunSet
<1>6. Cardinality(AllOf(run)) = FrameStart[b] - FrameStart[a]
  <2>1. FrameStart[a] \in Int /\ FrameStart[b] - 1 \in Int
    BY <1>1
  <2>2. Cardinality(AllOf(run)) =
            IF FrameStart[a] > FrameStart[b] - 1 THEN 0 ELSE (FrameStart[b] - 1) - FrameStart[a] + 1
    BY <1>5, <2>1, FS_Interval
  <2>3. QED
    BY <1>1, <2>2
<1>7. AllOf(w \ run) = AllOf(w) \ AllOf(run)
  <2>1. ASSUME NEW s \in w \ run, NEW t \in run PROVE FramesOf(s) \cap FramesOf(t) = {}
    <3>1. s \in Packet /\ t \in Packet /\ s # t
      OBVIOUS
    <3>2. s < t \/ t < s
      BY <3>1 DEF Packet
    <3>3. QED
      BY <3>1, <3>2, PacketsApart
  <2>2. AllOf(w \ run) \cap AllOf(run) = {}
    BY <2>1 DEF AllOf
  <2>3. AllOf(w) = AllOf(w \ run) \cup AllOf(run)
    BY DEF AllOf
  <2>4. QED
    BY <2>2, <2>3
<1>8. Cardinality(AllOf(w) \ AllOf(run)) = Cardinality(AllOf(w)) - (FrameStart[b] - FrameStart[a])
  <2>1. AllOf(w) \cap AllOf(run) = AllOf(run)
    BY DEF AllOf
  <2>2. Cardinality(AllOf(w) \ AllOf(run)) =
            Cardinality(AllOf(w)) - Cardinality(AllOf(w) \cap AllOf(run))
    BY <1>2, FS_Difference
  <2>3. QED
    BY <1>6, <2>1, <2>2
<1>9. QED
  BY <1>4, <1>7, <1>8
\* What the ring drops is what does not fit into it.
LEMMA OverflowIs ==
    ASSUME NEW k \in Nat, NEW a \in Number, NEW b \in Number
    PROVE  /\ Overflow(k, a, b) = IF k + FrameStart[b] - FrameStart[a] <= MaxFrames THEN 0
                                  ELSE k + FrameStart[b] - FrameStart[a] - MaxFrames
           /\ Overflow(k, a, b) \in Nat
<1> DEFINE x == k + FrameStart[b] - FrameStart[a] - MaxFrames
           top == IF x <= 0 THEN 0 ELSE x
<1>1. /\ FrameStart[a] \in Nat /\ FrameStart[b] \in Nat /\ MaxFrames \in Nat
  BY JitterAssumption DEF Number
<1>2. x \in Int
  BY <1>1
<1>3. x <= 0 <=> k + FrameStart[b] - FrameStart[a] <= MaxFrames
  BY <1>1
<1>4. Overflow(k, a, b) = Max({0, x})
  BY DEF Overflow
<1> HIDE DEF x
<1>5. Max({0, x}) = top
  <2>1. top \in {0, x} /\ \A y \in {0, x} : top >= y
    BY <1>2
  <2>2. ASSUME NEW m \in {0, x}, \A y \in {0, x} : m >= y PROVE m = top
    BY <1>2, <2>2
  <2>3. QED
    BY <2>1, <2>2 DEF Max
<1>6. top \in Nat
  BY <1>2
<1>7. QED
  BY <1>3, <1>4, <1>5, <1>6 DEF x

\* What promotion leaves in the ring, and which packets it takes from those that wait.
LEMMA PromoteCounts ==
    ASSUME NEW e \in Packet, NEW w \in SUBSET Packet, NEW r \in Seq(Position),
           EndsAt(r, e), \A t \in w : e <= t,
           Promote(e, w, r)
    PROVE  /\ expected' \in Number /\ e < expected' /\ expected' \in Nat
           /\ Len(ready') = Len(r) + FrameStart[expected'] - FrameStart[e]
                                - Overflow(Len(r), e, expected')
           /\ pending' = w \ (e .. (expected' - 1))
           /\ (e + 1) .. (expected' - 1) \subseteq w
<1> DEFINE n == NextHole(e + 1, w)
<1>1. e \in Number /\ e + 1 \in Number /\ e \in Nat
  BY JitterAssumption DEF Number, Packet
<1>2. n \in (e + 1) .. (LastSequence + 1) /\ (e + 1) .. (n - 1) \subseteq w
  BY <1>1, NextHoleFound
<1>3. n \in Number /\ e < n /\ e <= n /\ n \in Nat /\ n = expected'
  BY <1>1, <1>2, JitterAssumption DEF Number, Promote
<1>4. pending' = w \ (e .. (n - 1)) /\ ready' = Newest(r \o Frames(e, n))
  BY DEF Promote
<1> HIDE DEF n
<1> DEFINE all == r \o Frames(e, n)
<1>5. /\ all \in Seq(Position) /\ Len(all) = Len(r) + FrameStart[n] - FrameStart[e]
  BY <1>1, <1>3, StretchesJoin
<1>6. /\ FrameStart[e] \in Nat /\ FrameStart[n] \in Nat /\ MaxFrames \in Nat /\ Len(r) \in Nat
  BY <1>1, <1>3, JitterAssumption DEF Number
<1>7. /\ Overflow(Len(r), e, n) =
             IF Len(r) + FrameStart[n] - FrameStart[e] <= MaxFrames THEN 0
             ELSE Len(r) + FrameStart[n] - FrameStart[e] - MaxFrames
  BY <1>1, <1>3, <1>6, OverflowIs
<1> HIDE DEF all
<1>8. Len(Newest(all)) = IF Len(all) <= MaxFrames THEN Len(all) ELSE MaxFrames
  <2>1. CASE Len(all) <= MaxFrames
    BY <2>1 DEF Newest
  <2>2. CASE ~(Len(all) <= MaxFrames)
    <3> DEFINE m == Len(all) - MaxFrames + 1
    <3>0. Len(all) \in Nat /\ MaxFrames \in Nat /\ MaxFrames > 0
      BY <1>5, JitterAssumption
    <3>1. Len(all) \in Nat /\ m \in Int /\ m >= 1 /\ Len(all) - m + 1 = MaxFrames /\ m <= Len(all)
      BY <2>2, <3>0
    <3>2. \A i \in m .. Len(all) : all[i] \in Position
      BY <1>5, <3>1
    <3>3. Newest(all) = SubSeq(all, m, Len(all))
      BY <2>2 DEF Newest
    <3> HIDE DEF m
    <3>4. Len(SubSeq(all, m, Len(all))) = IF m <= Len(all) THEN Len(all) - m + 1 ELSE 0
      BY <3>1, <3>2, SubSeqProperties
    <3>5. QED
      BY <2>2, <3>1, <3>3, <3>4
  <2>3. QED
    BY <2>1, <2>2
<1>9. Len(ready') = Len(r) + FrameStart[n] - FrameStart[e] - Overflow(Len(r), e, n)
  <2>1. ready' = Newest(all)
    BY <1>4 DEF all
  <2>2. QED
    BY <1>5, <1>6, <1>7, <1>8, <2>1
<1>10. QED
  BY <1>2, <1>3, <1>4, <1>9

\* What an accepted packet adds to what is held, and to the packets that are accounted for.
LEMMA AcceptCounts ==
    ASSUME NEW s \in Packet, NEW e \in Packet, NEW w \in SUBSET Packet,
           NEW r \in Seq(Position),
           EndsAt(r, e), \A t \in w : e < t, s \notin w,
           Accept(s, e, w, r),
           NEW over, over = IF s = e THEN Overflow(Len(r), e, expected') ELSE 0
    PROVE  /\ over \in Nat /\ Size(s) \in Nat
           /\ Len(ready') + Cardinality(AllOf(pending')) =
                  Len(r) + Cardinality(AllOf(w)) + Size(s) - over
           /\ (expected' - e) + Cardinality(pending') = Cardinality(w) + 1
           /\ expected' \in Nat
<1>1. /\ e \in Nat /\ s \in Nat /\ e \in Number /\ e + 1 \in Number /\ Len(r) \in Nat
  BY JitterAssumption DEF Number, Packet
<1>2. /\ Cardinality(w) \in Nat /\ Cardinality(AllOf(w)) \in Nat
      /\ Cardinality(w \cup {s}) = Cardinality(w) + 1
      /\ Cardinality(AllOf(w \cup {s})) = Cardinality(AllOf(w)) + Size(s)
      /\ Size(s) \in Nat
  BY FramesFinite, PacketAdded
<1>3. CASE s = e /\ Promote(e, w, r)
  <2> DEFINE n == expected'
  <2>1. \A t \in w : e <= t
    BY <1>1 DEF Packet
  <2>2. /\ n \in Number /\ e < n /\ n \in Nat
        /\ Len(ready') = Len(r) + FrameStart[n] - FrameStart[e] - Overflow(Len(r), e, n)
        /\ pending' = w \ (e .. (n - 1))
        /\ (e + 1) .. (n - 1) \subseteq w
    BY <1>3, <2>1, PromoteCounts
  <2>3. over = Overflow(Len(r), e, n) /\ over \in Nat
    BY <1>1, <1>3, <2>2, OverflowIs
  <2> HIDE DEF n
  <2>4. pending' = w \ ((e + 1) .. (n - 1))
    <3>1. \A i \in e .. (n - 1) : i = e \/ i \in (e + 1) .. (n - 1)
      BY <1>1, <2>2
    <3>2. (e + 1) .. (n - 1) \subseteq e .. (n - 1)
      BY <1>1, <2>2
    <3>3. e \notin w
      BY <1>3
    <3>4. QED
      BY <2>2, <3>1, <3>2, <3>3
  <2>5. e + 1 <= n
    BY <1>1, <2>2
  <2>6. /\ Cardinality(pending') = Cardinality(w) - (n - (e + 1))
        /\ Cardinality(AllOf(pending')) = Cardinality(AllOf(w)) - (FrameStart[n] - FrameStart[e + 1])
    <3> DEFINE a == e + 1
    <3>1. a \in Number /\ n \in Number /\ a <= n /\ a .. (n - 1) \subseteq w
      BY <1>1, <2>2, <2>5
    <3>2. pending' = w \ (a .. (n - 1))
      BY <2>4
    <3> HIDE DEF a
    <3>3. /\ Cardinality(w \ (a .. (n - 1))) = Cardinality(w) - (n - a)
          /\ Cardinality(AllOf(w \ (a .. (n - 1)))) =
                 Cardinality(AllOf(w)) - (FrameStart[n] - FrameStart[a])
      BY <3>1, RunRemoved
    <3>4. QED
      BY <3>2, <3>3 DEF a
  <2>7. FrameStart[n] \in Nat /\ FrameStart[e] \in Nat /\ FrameStart[e + 1] \in Nat
    BY <1>1, <2>2, JitterAssumption DEF Number
  <2>8. Len(ready') + Cardinality(AllOf(pending')) =
            Len(r) + Cardinality(AllOf(w)) + Size(s) - over
    <3>1. Size(s) = FrameStart[e + 1] - FrameStart[e]
      BY <1>3 DEF Size
    <3>2. Len(ready') = Len(r) + FrameStart[n] - FrameStart[e] - over
      BY <2>2, <2>3
    <3>3. Cardinality(AllOf(w)) \in Nat /\ over \in Nat /\ Len(r) \in Nat
      BY <1>1, <1>2, <2>3
    <3>4. QED
      BY <2>6, <2>7, <3>1, <3>2, <3>3
  <2>9. (n - e) + Cardinality(pending') = Cardinality(w) + 1
    BY <1>1, <1>2, <2>2, <2>6
  <2>10. QED
    BY <1>2, <2>2, <2>3, <2>8, <2>9 DEF n
<1>4. CASE s # e /\ expected' = e /\ pending' = w \cup {s} /\ ready' = r
  <2>1. over = 0 /\ Len(ready') = Len(r) /\ expected' - e = 0
    BY <1>1, <1>4
  <2>2. Cardinality(pending') = Cardinality(w) + 1
    BY <1>2, <1>4
  <2>3. Cardinality(AllOf(pending')) = Cardinality(AllOf(w)) + Size(s)
    BY <1>2, <1>4
  <2>4. QED
    BY <1>1, <1>2, <1>4, <2>1, <2>2, <2>3
<1>5. QED
  BY <1>3, <1>4 DEF Accept

\* Giving up a hole leaves what is held as it was, but for what does not fit the ring.
LEMMA SkipCounts ==
    ASSUME NEW e \in Packet, NEW w \in SUBSET Packet, e \in w, \A t \in w : e <= t,
           Promote(e, w, <<>>)
    PROVE  /\ Overflow(0, e, expected') \in Nat
           /\ Len(ready') + Cardinality(AllOf(pending')) =
                  Cardinality(AllOf(w)) - Overflow(0, e, expected')
           /\ expected' + Cardinality(pending') = e + Cardinality(w)
           /\ expected' \in Nat
<1> DEFINE n == expected'
<1>1. e \in Nat /\ e \in Number
  BY JitterAssumption DEF Number, Packet
<1>2. <<>> \in Seq(Position) /\ Len(<<>>) = 0 /\ EndsAt(<<>>, e)
  BY DEF EndsAt
<1>3. /\ n \in Number /\ e < n /\ n \in Nat
      /\ Len(ready') = Len(<<>>) + FrameStart[n] - FrameStart[e] - Overflow(Len(<<>>), e, n)
      /\ pending' = w \ (e .. (n - 1))
      /\ (e + 1) .. (n - 1) \subseteq w
  BY <1>2, PromoteCounts
<1> HIDE DEF n
<1>4. Overflow(0, e, n) \in Nat /\ Cardinality(w) \in Nat /\ Cardinality(AllOf(w)) \in Nat
  BY <1>1, <1>3, OverflowIs, FramesFinite
<1>5. e .. (n - 1) \subseteq w
  <2>1. \A i \in e .. (n - 1) : i = e \/ i \in (e + 1) .. (n - 1)
    BY <1>1, <1>3
  <2>2. QED
    BY <1>3, <2>1
<1>6. e <= n
  BY <1>1, <1>3
<1>7. /\ Cardinality(pending') = Cardinality(w) - (n - e)
      /\ Cardinality(AllOf(pending')) = Cardinality(AllOf(w)) - (FrameStart[n] - FrameStart[e])
  BY <1>1, <1>3, <1>5, <1>6, RunRemoved
<1>8. FrameStart[n] \in Nat /\ FrameStart[e] \in Nat
  BY <1>1, <1>3, JitterAssumption DEF Number
<1>9. /\ Len(ready') + Cardinality(AllOf(pending')) = Cardinality(AllOf(w)) - Overflow(0, e, n)
      /\ n + Cardinality(pending') = e + Cardinality(w)
  BY <1>1, <1>2, <1>3, <1>4, <1>7, <1>8
<1>10. QED
  BY <1>3, <1>4, <1>9 DEF n
\* What each kind of call adds to the balance
LEMMA AddAccepted ==
    ASSUME NEW a \in Int, NEW b \in Int, NEW c \in Int,
           NEW before \in [frames : Int, packets : Int],
           Add([packets_pushed |-> a, frames_pushed |-> b, overflow_dropped |-> c], before)
    PROVE  balance' = [frames |-> before.frames + b - c, packets |-> before.packets + a]
<1> DEFINE gain == [packets_pushed |-> a, frames_pushed |-> b, overflow_dropped |-> c]
<1>1. DOMAIN gain = {"packets_pushed", "frames_pushed", "overflow_dropped"}
  OBVIOUS
<1>2. gain["packets_pushed"] = a /\ gain["frames_pushed"] = b /\ gain["overflow_dropped"] = c
  OBVIOUS
<1>3. balance' = [frames |-> before.frames + b + 0 - 0 - c, packets |-> before.packets + a + 0]
  <2>1. Add(gain, before)
    OBVIOUS
  <2> HIDE DEF gain
  <2>2. QED
    BY <1>1, <1>2, <2>1 DEF Add
<1>4. before.frames \in Int /\ before.packets \in Int
  OBVIOUS
<1>5. QED
  BY <1>3, <1>4

LEMMA AddRendered ==
    ASSUME NEW a \in Int, NEW before \in [frames : Int, packets : Int],
           Add([rendered_frames |-> a], before)
    PROVE  balance' = [frames |-> before.frames - a, packets |-> before.packets]
<1> DEFINE gain == [rendered_frames |-> a]
<1>1. DOMAIN gain = {"rendered_frames"} /\ gain["rendered_frames"] = a
  OBVIOUS
<1>2. balance' = [frames |-> before.frames + 0 + 0 - a - 0, packets |-> before.packets + 0 + 0]
  <2>1. Add(gain, before)
    OBVIOUS
  <2> HIDE DEF gain
  <2>2. QED
    BY <1>1, <2>1 DEF Add
<1>3. before.frames \in Int /\ before.packets \in Int
  OBVIOUS
<1>4. QED
  BY <1>2, <1>3

LEMMA AddSilence ==
    ASSUME NEW a \in Int, NEW b \in Int, NEW before \in [frames : Int, packets : Int],
           Add([underrun_frames |-> a, rendered_frames |-> b], before)
    PROVE  balance' = [frames |-> before.frames + a - b, packets |-> before.packets]
<1> DEFINE gain == [underrun_frames |-> a, rendered_frames |-> b]
<1>1. DOMAIN gain = {"underrun_frames", "rendered_frames"}
  OBVIOUS
<1>2. gain["underrun_frames"] = a /\ gain["rendered_frames"] = b
  OBVIOUS
<1>3. balance' = [frames |-> before.frames + 0 + a - b - 0, packets |-> before.packets + 0 + 0]
  <2>1. Add(gain, before)
    OBVIOUS
  <2> HIDE DEF gain
  <2>2. QED
    BY <1>1, <1>2, <2>1 DEF Add
<1>4. before.frames \in Int /\ before.packets \in Int
  OBVIOUS
<1>5. QED
  BY <1>3, <1>4

LEMMA AddSkipped ==
    ASSUME NEW a \in Int, NEW b \in Int, NEW before \in [frames : Int, packets : Int],
           Add([sequence_gaps |-> a, overflow_dropped |-> b], before)
    PROVE  balance' = [frames |-> before.frames - b, packets |-> before.packets + a]
<1> DEFINE gain == [sequence_gaps |-> a, overflow_dropped |-> b]
<1>1. DOMAIN gain = {"sequence_gaps", "overflow_dropped"}
  OBVIOUS
<1>2. gain["sequence_gaps"] = a /\ gain["overflow_dropped"] = b
  OBVIOUS
<1>3. balance' = [frames |-> before.frames + 0 + 0 - 0 - b, packets |-> before.packets + 0 + a]
  <2>1. Add(gain, before)
    OBVIOUS
  <2> HIDE DEF gain
  <2>2. QED
    BY <1>1, <1>2, <2>1 DEF Add
<1>4. before.frames \in Int /\ before.packets \in Int
  OBVIOUS
<1>5. QED
  BY <1>3, <1>4

\* The inductive invariant of the counters: during a call the frames it has taken out of the
\* ring are not counted as rendered yet.
Counted ==
    /\ IInv
    /\ balance \in [frames : Int, packets : Int] /\ asked \in Nat /\ first \in Nat
    /\ Idle => asked = 0
    /\ balance.frames = Held + asked - missing
    /\ PacketsAccounted

LEMMA HeldTypes ==
    ASSUME IInv
    PROVE  /\ Held = Len(ready) + Cardinality(AllOf(pending))
           /\ Held \in Nat /\ Len(ready) \in Nat /\ missing \in Nat /\ expected \in Nat
           /\ Cardinality(pending) \in Nat /\ Cardinality(AllOf(pending)) \in Nat
<1>1. pending \in SUBSET Packet /\ Len(ready) \in Nat /\ missing \in Nat /\ expected \in Nat
  BY JitterAssumption DEF IInv, TypeOK
<1>2. Cardinality(pending) \in Nat /\ Cardinality(AllOf(pending)) \in Nat
  BY <1>1, FramesFinite
<1>3. Held = Len(ready) + Cardinality(AllOf(pending))
  BY DEF Held, AllOf
<1>4. QED
  BY <1>1, <1>2, <1>3

\* Each step of the counted buffer is a step of the buffer.
LEMMA CountedStep == StatsNext => Next
  BY DEF StatsNext, CountPush, CountPushFirst, CountPushRestart, CountPushInWindow,
         CountPushRejected, CountStartupSilence, CountPopBegin, CountPopCopy, CountPopSkipGap,
         CountPopUnderrun, CountReset, Next, Push, PopLoop

\* A packet that is accepted into a buffer whose balance is before
LEMMA AcceptBalances ==
    ASSUME NEW s \in Packet, NEW e \in Packet, NEW w \in SUBSET Packet,
           NEW r \in Seq(Position), EndsAt(r, e), \A t \in w : e < t, s \notin w,
           Accept(s, e, w, r),
           NEW before \in [frames : Int, packets : Int],
           before.frames = Len(r) + Cardinality(AllOf(w)),
           NEW start \in Nat, before.packets = (e - start) + Cardinality(w),
           CountAccepted(s, e, Len(r), before)
    PROVE  /\ balance' \in [frames : Int, packets : Int]
           /\ balance'.frames = Held'
           /\ balance'.packets = (expected' - start) + Cardinality(pending')
<1> DEFINE over == IF s = e THEN Overflow(Len(r), e, expected') ELSE 0
<1>1. /\ over \in Nat /\ Size(s) \in Nat
      /\ Len(ready') + Cardinality(AllOf(pending')) =
             Len(r) + Cardinality(AllOf(w)) + Size(s) - over
      /\ (expected' - e) + Cardinality(pending') = Cardinality(w) + 1
      /\ expected' \in Nat
  BY AcceptCounts
<1>2. Add([packets_pushed |-> 1, frames_pushed |-> Size(s), overflow_dropped |-> over], before)
  BY DEF CountAccepted
<1> HIDE DEF over
<1>3. 1 \in Int /\ Size(s) \in Int /\ over \in Int
  BY <1>1
<1>4. balance' = [frames |-> before.frames + Size(s) - over, packets |-> before.packets + 1]
  BY <1>2, <1>3, AddAccepted
<1>5. Held' = Len(ready') + Cardinality(AllOf(pending'))
  BY DEF Held, AllOf
<1>6. before.frames \in Int /\ before.packets \in Int
  OBVIOUS
<1>7. balance' \in [frames : Int, packets : Int]
  BY <1>1, <1>4, <1>6
<1>8. balance'.frames = Held'
  <2>1. balance'.frames = before.frames + Size(s) - over
    BY <1>4
  <2>2. QED
    BY <1>1, <1>5, <2>1
<1>9. balance'.packets = (expected' - start) + Cardinality(pending')
  <2>1. balance'.packets = before.packets + 1
    BY <1>4
  <2>2. e \in Nat /\ Cardinality(w) \in Nat
    BY JitterAssumption, FramesFinite DEF Packet
  <2> DEFINE n == expected'
             c == Cardinality(pending')
             d == Cardinality(w)
  <2>3. (n - e) + c = d + 1 /\ n \in Nat
    BY <1>1
  <2>4. pending' \in SUBSET Packet
    <3>1. CASE Promote(e, w, r)
      BY <3>1 DEF Promote
    <3>2. CASE pending' = w \cup {s}
      BY <3>2
    <3>3. QED
      BY <3>1, <3>2 DEF Accept
  <2>5. c \in Nat /\ d \in Nat
    BY <2>2, <2>4, FramesFinite
  <2> HIDE DEF n, c, d
  <2>6. (n - start) + c = ((e - start) + d) + 1
    BY <2>2, <2>3, <2>5
  <2>7. QED
    BY <2>1, <2>6 DEF n, c, d
<1>10. QED
  BY <1>7, <1>8, <1>9

LEMMA PushBalances ==
    ASSUME Counted, IInv', NEW s \in Packet, CountPush(s)
    PROVE  Counted'
<1>1. /\ balance \in [frames : Int, packets : Int] /\ asked \in Nat /\ first \in Nat
      /\ balance.frames = Held + asked - missing
      /\ balance.packets = (expected - first) + Cardinality(pending)
      /\ IInv /\ (Idle => asked = 0)
  BY DEF Counted, PacketsAccounted
<1>2. /\ Held = Len(ready) + Cardinality(AllOf(pending))
      /\ Held \in Nat /\ Len(ready) \in Nat /\ missing \in Nat /\ expected \in Nat
      /\ Cardinality(pending) \in Nat /\ Cardinality(AllOf(pending)) \in Nat
  BY <1>1, HeldTypes
<1>3. /\ <<>> \in Seq(Position) /\ Len(<<>>) = 0 /\ EndsAt(<<>>, s)
      /\ {} \in SUBSET Packet /\ Cardinality({}) = 0 /\ AllOf({}) = {}
  BY FS_EmptySet DEF EndsAt, AllOf
<1>4. ASSUME Idle PROVE balance.frames = Held /\ asked = 0
  BY <1>1, <1>2, <1>4 DEF Idle
<1>5. ASSUME Idle, Accept(s, s, {}, <<>>), CountAccepted(s, s, 0, Discarded), first' = s,
             UNCHANGED <<asked, missing>>
      PROVE  Counted'
  <2>1. /\ Discarded \in [frames : Int, packets : Int] /\ s \in Nat
        /\ Discarded.frames = 0 /\ Discarded.packets = 0
    <3>1. balance.frames - Held = 0 /\ s \in Nat
      BY <1>2, <1>4, <1>5 DEF Packet
    <3>2. Discarded = [frames |-> 0, packets |-> 0]
      BY <3>1 DEF Discarded
    <3>3. QED
      BY <3>1, <3>2
  <2>2. /\ Discarded.frames = Len(<<>>) + Cardinality(AllOf({}))
        /\ Discarded.packets = (s - s) + Cardinality({})
    <3>1. s - s = 0 /\ 0 + 0 = 0
      BY <2>1
    <3>2. Cardinality(AllOf({})) = Cardinality({})
      BY <1>3, Zenon
    <3>3. QED
      BY <1>3, <2>1, <3>1, <3>2
  <2>3. \A t \in {} : s < t
    OBVIOUS
  <2>4. CountAccepted(s, s, Len(<<>>), Discarded)
    BY <1>3, <1>5
  <2>5. /\ balance' \in [frames : Int, packets : Int]
        /\ balance'.frames = Held'
        /\ balance'.packets = (expected' - s) + Cardinality(pending')
    BY <1>3, <1>5, <2>1, <2>2, <2>3, <2>4, AcceptBalances
  <2>6. missing' = 0 /\ asked' = 0
    BY <1>4, <1>5 DEF Idle
  <2>7. balance'.frames = Held' + asked' - missing'
    BY <2>5, <2>6
  <2>8. QED
    BY <1>5, <2>1, <2>5, <2>6, <2>7 DEF Counted, PacketsAccounted
<1>6. CASE CountPushFirst(s)
  <2>1. pending = {} /\ ready = <<>> /\ Idle
    BY <1>1, <1>6 DEF IInv, CountPushFirst, PushFirst, PendingInWindow
  <2>2. QED
    BY <1>3, <1>5, <1>6, <2>1 DEF CountPushFirst, PushFirst
<1>7. CASE CountPushRestart(s)
  BY <1>5, <1>7 DEF CountPushRestart, PushRestart
<1>8. CASE CountPushInWindow(s)
  <2>1. /\ Idle /\ s >= expected /\ s \notin pending
        /\ Accept(s, expected, pending, ready)
        /\ CountAccepted(s, expected, Len(ready), balance)
        /\ UNCHANGED <<asked, first, missing>>
    BY <1>8 DEF CountPushInWindow, PushInWindow
  <2>2. expected \in Packet
    BY <1>2, <2>1, JitterAssumption DEF Packet
  <2>3. /\ pending \in SUBSET Packet /\ ready \in Seq(Position) /\ EndsAt(ready, expected)
        /\ \A t \in pending : expected < t
    BY <1>1 DEF IInv, TypeOK, ReadyContiguous, EndsAt, PendingInWindow
  <2>4. balance.frames = Len(ready) + Cardinality(AllOf(pending))
    BY <1>2, <1>4, <2>1
  <2>5. /\ balance' \in [frames : Int, packets : Int]
        /\ balance'.frames = Held'
        /\ balance'.packets = (expected' - first) + Cardinality(pending')
    BY <1>1, <2>1, <2>2, <2>3, <2>4, AcceptBalances
  <2>6. missing' = 0 /\ asked' = 0
    BY <1>4, <2>1 DEF Idle
  <2>7. balance'.frames = Held' + asked' - missing'
    BY <2>5, <2>6
  <2>8. QED
    BY <1>1, <2>1, <2>5, <2>6, <2>7 DEF Counted, PacketsAccounted
<1>9. CASE CountPushRejected(s)
  BY <1>9 DEF CountPushRejected, PushRejected, vars, statVars, Counted, PacketsAccounted, Held,
              Idle
<1>10. QED
  BY <1>6, <1>7, <1>8, <1>9 DEF CountPush
LEMMA PopBalances ==
    ASSUME Counted, IInv', CountPopCopy \/ CountPopSkipGap \/ CountPopUnderrun
    PROVE  Counted'
<1>1. /\ balance \in [frames : Int, packets : Int] /\ asked \in Nat /\ first \in Nat
      /\ balance.frames = Held + asked - missing
      /\ balance.packets = (expected - first) + Cardinality(pending)
      /\ IInv
  BY DEF Counted, PacketsAccounted
<1>2. /\ Held = Len(ready) + Cardinality(AllOf(pending))
      /\ Held \in Nat /\ Len(ready) \in Nat /\ missing \in Nat /\ expected \in Nat
      /\ Cardinality(pending) \in Nat /\ Cardinality(AllOf(pending)) \in Nat
  BY <1>1, HeldTypes
<1>3. /\ pending \in SUBSET Packet /\ ready \in Seq(Position)
      /\ \A t \in pending : expected < t
      /\ balance.frames \in Int /\ balance.packets \in Int
  BY <1>1 DEF IInv, TypeOK, PendingInWindow
<1>4. Held' = Len(ready') + Cardinality(AllOf(pending'))
  BY DEF Held, AllOf
<1>5. CASE CountPopCopy
  <2> DEFINE n == IF missing < Len(ready) THEN missing ELSE Len(ready)
             left == missing - n
             paid == IF left = 0 THEN asked ELSE 0
  <2>1. /\ missing > 0 /\ ready # <<>>
        /\ missing' = left /\ ready' = SubSeq(ready, n + 1, Len(ready))
        /\ UNCHANGED <<expected, pending, first>>
    BY <1>5 DEF CountPopCopy, PopCopy
  <2>2. Add([rendered_frames |-> paid], balance) /\ asked' = IF left = 0 THEN 0 ELSE asked
    BY <1>5, <2>1 DEF CountPopCopy
  <2>3. n \in Nat /\ n <= Len(ready) /\ left \in Nat /\ n <= missing /\ paid \in Int
    BY <1>1, <1>2
  <2>4. Len(ready') = Len(ready) - n
    <3> HIDE DEF n
    <3>1. n + 1 \in Int /\ n + 1 >= 1 /\ Len(ready) \in Int
      BY <1>2, <2>3
    <3>2. \A i \in (n + 1) .. Len(ready) : ready[i] \in Position
      BY <1>2, <1>3, <2>3
    <3>3. Len(SubSeq(ready, n + 1, Len(ready))) =
              IF n + 1 <= Len(ready) THEN Len(ready) - (n + 1) + 1 ELSE 0
      BY <3>1, <3>2, SubSeqProperties
    <3>4. QED
      BY <1>2, <2>1, <2>3, <3>3
  <2>5. left = missing - n
    OBVIOUS
  <2> HIDE DEF n, left
  <2>6. balance' = [frames |-> balance.frames - paid, packets |-> balance.packets]
    BY <1>1, <2>2, <2>3, AddRendered
  <2>7. Held' = Held - n
    BY <1>2, <1>4, <2>1, <2>3, <2>4
  <2>8. /\ asked' \in Nat /\ asked' - missing' + paid = asked - left
        /\ (missing' = 0 => asked' = 0)
    <3>1. CASE left = 0
      BY <1>1, <2>1, <2>2, <3>1
    <3>2. CASE left # 0
      BY <1>1, <2>1, <2>2, <2>3, <3>2
    <3>3. QED
      BY <3>1, <3>2
  <2> HIDE DEF paid
  <2>9. /\ balance' \in [frames : Int, packets : Int]
        /\ balance'.frames = balance.frames - paid /\ balance'.packets = balance.packets
    BY <1>3, <2>3, <2>6
  <2>10. balance'.frames = Held' + asked' - missing'
    <3> DEFINE p == asked'
               q == missing'
               h == Held'
    <3>1. p \in Nat /\ q \in Nat /\ h \in Int /\ p - q + paid = asked - left /\ h = Held - n
      BY <1>2, <2>1, <2>3, <2>7, <2>8
    <3> HIDE DEF p, q, h
    <3>2. balance.frames - paid = h + p - q
      <4> DEFINE b == balance.frames
                 k == Held
      <4>1. b \in Int /\ k \in Int /\ b = k + asked - missing /\ h = k - n
        BY <1>1, <1>2, <1>3, <3>1
      <4>2. asked \in Int /\ missing \in Int /\ n \in Int /\ left \in Int /\ paid \in Int
        BY <1>1, <1>2, <2>3
      <4> HIDE DEF b, k
      <4>3. b - paid = h + p - q
        BY <2>5, <3>1, <4>1, <4>2
      <4>4. QED
        BY <4>3 DEF b
    <3>3. QED
      BY <2>9, <3>2 DEF p, q, h
  <2>11. balance'.packets = (expected' - first') + Cardinality(pending')
    BY <1>1, <2>1, <2>9
  <2>12. QED
    BY <1>1, <2>1, <2>8, <2>9, <2>10, <2>11 DEF Counted, PacketsAccounted, Idle
<1>6. CASE CountPopSkipGap
  <2> DEFINE e == Min(Waiting)
  <2>1. /\ missing > 0 /\ ready = <<>> /\ Waiting # {}
        /\ Promote(e, Waiting, <<>>)
        /\ UNCHANGED <<missing, asked, first>>
        /\ Add([sequence_gaps |-> e - expected, overflow_dropped |-> Overflow(0, e, expected')],
               balance)
    BY <1>6 DEF CountPopSkipGap, PopSkipGap
  <2>2. Waiting = pending
    <3>1. \A t \in pending : t \in Int
      BY <1>3 DEF Packet
    <3>2. \A t \in pending : t >= expected
      BY <1>2, <1>3, <3>1
    <3>3. QED
      BY <3>2 DEF Waiting
  <2>3. e \in pending /\ (\A t \in pending : e <= t) /\ e \in Packet /\ e \in Nat
    <3>1. pending \in SUBSET Nat
      BY <1>3 DEF Packet
    <3>2. QED
      BY <1>3, <2>1, <2>2, <3>1, MinFound
  <2> HIDE DEF e
  <2> DEFINE over == Overflow(0, e, expected')
  <2>4. /\ over \in Nat
        /\ Len(ready') + Cardinality(AllOf(pending')) = Cardinality(AllOf(pending)) - over
        /\ expected' + Cardinality(pending') = e + Cardinality(pending)
        /\ expected' \in Nat
    BY <1>3, <2>1, <2>2, <2>3, SkipCounts
  <2>5. Add([sequence_gaps |-> e - expected, overflow_dropped |-> over], balance)
    BY <2>1
  <2> HIDE DEF over
  <2>6. e - expected \in Int /\ over \in Int
    BY <1>2, <2>3, <2>4
  <2>7. balance' = [frames |-> balance.frames - over, packets |-> balance.packets + (e - expected)]
    BY <1>1, <2>5, <2>6, AddSkipped
  <2>8. /\ balance' \in [frames : Int, packets : Int]
        /\ balance'.frames = balance.frames - over
        /\ balance'.packets = balance.packets + (e - expected)
    BY <1>3, <2>6, <2>7
  <2>9. Held' = Held - over
    <3>1. Len(ready) = 0
      BY <2>1
    <3>2. Held = Cardinality(AllOf(pending))
      BY <1>2, <3>1
    <3>3. QED
      BY <1>4, <2>4, <3>2
  <2>10. balance'.frames = Held' + asked' - missing'
    <3>1. asked' = asked /\ missing' = missing
      BY <2>1
    <3>2. balance.frames - over = (Held - over) + asked - missing
      BY <1>1, <1>2, <2>6
    <3>3. QED
      BY <2>8, <2>9, <3>1, <3>2
  <2>11. balance'.packets = (expected' - first') + Cardinality(pending')
    <3> DEFINE n == expected'
               c == Cardinality(pending')
               d == Cardinality(pending)
    <3>1. pending' \in SUBSET Packet
      BY <1>3, <2>1, <2>2 DEF Promote
    <3>2. c \in Nat /\ d \in Nat /\ n \in Nat /\ n + c = e + d
      BY <1>2, <2>4, <3>1, FramesFinite
    <3>3. balance.packets = (expected - first) + d
      BY <1>1
    <3> HIDE DEF n, c, d
    <3>4. balance.packets + (e - expected) = (n - first) + c
      <4> DEFINE b == balance.packets
      <4>1. b \in Int /\ b = (expected - first) + d
        BY <1>3, <3>3
      <4>2. expected \in Int /\ first \in Int /\ e \in Int
        BY <1>1, <1>2, <2>3
      <4> HIDE DEF b
      <4>3. b + (e - expected) = (n - first) + c
        BY <3>2, <4>1, <4>2
      <4>4. QED
        BY <4>3 DEF b
    <3>5. first' = first
      BY <2>1
    <3>6. QED
      BY <2>8, <3>4, <3>5 DEF n, c, d
  <2>12. QED
    BY <1>1, <2>1, <2>8, <2>10, <2>11 DEF Counted, PacketsAccounted, Idle
<1>7. CASE CountPopUnderrun
  <2>1. /\ missing > 0 /\ ready = <<>> /\ Waiting = {} /\ missing' = 0 /\ asked' = 0
        /\ pending' = {} /\ UNCHANGED <<expected, ready, first>>
        /\ Add([underrun_frames |-> missing, rendered_frames |-> asked], balance)
    BY <1>7 DEF CountPopUnderrun, PopUnderrun
  <2>2. pending = {}
    BY <1>2, <1>3, <2>1 DEF Waiting, Packet
  <2>3. balance' = [frames |-> balance.frames + missing - asked, packets |-> balance.packets]
    <3>1. missing \in Int /\ asked \in Int
      BY <1>1, <1>2
    <3>2. QED
      BY <1>1, <2>1, <3>1, AddSilence
  <2>4. /\ balance' \in [frames : Int, packets : Int]
        /\ balance'.frames = balance.frames + missing - asked
        /\ balance'.packets = balance.packets
    BY <1>1, <1>2, <1>3, <2>3
  <2>5. Held' = Held /\ Cardinality(pending') = Cardinality(pending)
    BY <1>2, <1>4, <2>1, <2>2
  <2>6. balance'.frames = Held' + asked' - missing'
    BY <1>1, <1>2, <1>3, <2>1, <2>4, <2>5
  <2>7. balance'.packets = (expected' - first') + Cardinality(pending')
    BY <1>1, <2>1, <2>4, <2>5
  <2>8. QED
    BY <1>1, <2>1, <2>4, <2>6, <2>7 DEF Counted, PacketsAccounted
<1>8. QED
  BY <1>5, <1>6, <1>7

LEMMA InitCounted == StatsInit => Counted
<1> SUFFICES ASSUME StatsInit PROVE Counted
  OBVIOUS
<1>1. Init /\ balance = [frames |-> 0, packets |-> 0] /\ asked = 0 /\ first = 0
  BY DEF StatsInit, Balanced
<1>2. IInv
  BY <1>1, InitIInv
<1>3. pending = {} /\ ready = <<>> /\ expected = 0 /\ missing = 0
  BY <1>1 DEF Init
<1>4. Cardinality({}) = 0 /\ UNION {FramesOf(s) : s \in {}} = {} /\ Len(<<>>) = 0
  BY FS_EmptySet
<1>5. Held = 0
  <2>1. UNION {FramesOf(s) : s \in pending} = {}
    BY <1>3
  <2>2. Cardinality(UNION {FramesOf(s) : s \in pending}) = Cardinality({})
    BY <2>1, Zenon
  <2>3. QED
    BY <1>3, <1>4, <2>2 DEF Held
<1>6. QED
  BY <1>1, <1>2, <1>3, <1>4, <1>5 DEF Counted, PacketsAccounted

LEMMA NextCounted == Counted /\ [StatsNext]_<<vars, statVars>> => Counted'
<1> SUFFICES ASSUME Counted, [StatsNext]_<<vars, statVars>> PROVE Counted'
  OBVIOUS
<1>1. IInv'
  <2>1. IInv /\ [Next]_vars
    BY CountedStep DEF Counted, vars
  <2>2. QED
    BY <2>1, NextIInv
<1>2. /\ balance \in [frames : Int, packets : Int] /\ asked \in Nat /\ first \in Nat
      /\ balance.frames = Held + asked - missing
      /\ balance.packets = (expected - first) + Cardinality(pending)
      /\ IInv /\ (Idle => asked = 0)
      /\ balance.frames \in Int /\ balance.packets \in Int
  BY DEF Counted, PacketsAccounted
<1>3. Held \in Nat /\ missing \in Nat
  BY <1>2, HeldTypes
<1>4. ASSUME NEW s \in Packet, CountPush(s) PROVE Counted'
  BY <1>1, <1>4, PushBalances
<1>5. ASSUME NEW n \in PopSizes, CountStartupSilence(n) PROVE Counted'
  <2>1. UNCHANGED <<vars, asked, first>> /\ n \in Int
    BY <1>5, JitterAssumption DEF CountStartupSilence, PopStartupSilence
  <2>2. balance' = [frames |-> balance.frames + n - n, packets |-> balance.packets]
    BY <1>2, <1>5, <2>1, AddSilence DEF CountStartupSilence
  <2>3. balance' = balance
    BY <1>2, <2>1, <2>2
  <2>4. QED
    BY <1>1, <1>2, <2>1, <2>3 DEF Counted, PacketsAccounted, vars, Held, Idle
<1>6. ASSUME NEW n \in PopSizes, CountPopBegin(n) PROVE Counted'
  <2>1. /\ Idle /\ missing' = n /\ asked' = n /\ n \in Nat /\ n # 0
        /\ UNCHANGED <<expected, pending, ready, balance, first>>
    BY <1>6, JitterAssumption DEF CountPopBegin, PopBegin
  <2>2. Held' = Held
    BY <2>1 DEF Held
  <2>3. balance'.frames = Held' + asked' - missing'
    BY <1>2, <1>3, <2>1, <2>2 DEF Idle
  <2>4. QED
    BY <1>1, <1>2, <2>1, <2>3 DEF Counted, PacketsAccounted, Idle
<1>7. CASE CountPopCopy \/ CountPopSkipGap \/ CountPopUnderrun
  BY <1>1, <1>7, PopBalances
<1>8. CASE CountReset
  <2>1. /\ Idle /\ missing' = 0 /\ pending' = {} /\ ready' = <<>> /\ expected' = 0
        /\ balance' = Discarded /\ first' = 0 /\ asked' = 0
    BY <1>2, <1>8 DEF CountReset, Reset, Idle
  <2>2. Cardinality({}) = 0 /\ UNION {FramesOf(s) : s \in {}} = {} /\ Len(<<>>) = 0
    BY FS_EmptySet
  <2>3. Held' = 0
    BY <2>1, <2>2 DEF Held
  <2>4. balance.frames - Held = 0
    BY <1>2, <1>3, <2>1 DEF Idle
  <2>5. balance' = [frames |-> 0, packets |-> 0]
    BY <2>1, <2>4 DEF Discarded
  <2>6. QED
    BY <1>1, <2>1, <2>2, <2>3, <2>5 DEF Counted, PacketsAccounted
<1>9. CASE UNCHANGED <<vars, statVars>>
  BY <1>1, <1>2, <1>9 DEF Counted, PacketsAccounted, vars, statVars, Held, Idle
<1>10. QED
  BY <1>4, <1>5, <1>6, <1>7, <1>8, <1>9 DEF StatsNext

\* Whatever the network does and however the ring overflows, the counters of JitterStats
\* account for every frame and every packet number exactly once (JitterBuffer::push,
\* append_ready_locked, pop_into).
THEOREM CountersAddUp == StatsSpec => []CountersBalance
<1>1. Counted => CountersBalance
  <2> SUFFICES ASSUME Counted PROVE CountersBalance
    OBVIOUS
  <2>1. /\ PacketsAccounted /\ balance.frames = Held + asked - missing /\ asked \in Nat
        /\ (Idle => asked = 0) /\ IInv
    BY DEF Counted
  <2>2. Held \in Nat /\ missing \in Nat
    BY <2>1, HeldTypes
  <2>3. Idle => balance.frames = Held
    BY <2>1, <2>2 DEF Idle
  <2>4. QED
    BY <2>1, <2>3 DEF CountersBalance, FramesConserved
<1>2. QED
  BY <1>1, InitCounted, NextCounted, PTL DEF StatsSpec
=============================================================================
