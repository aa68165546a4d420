-------------------------- MODULE SpeakingProofs ---------------------------
(***************************************************************************)
(* Theorems about who is shown to speak, for all people, holds, numbers of  *)
(* Cores and of voice packets.                                              *)
(***************************************************************************)
EXTENDS Speaking, SequenceTheorems, FiniteSetTheorems, WellFoundedInduction, TLAPS

Ages == 0 .. Never
MeterSet == [voice : BOOLEAN, stream : BOOLEAN, last : Ages]
ReportSet == [voice : BOOLEAN, stream : BOOLEAN]
OverlaySet == [front : BOOLEAN, rows : SUBSET Callers, timer : Ages]

RoomTyped(r) ==
    r \in [phase : {"runs", "stopping", "ended", "none"}, number : Nat, list : Seq(Callers),
           last : [DOMAIN r.list -> Ages], loud : [DOMAIN r.list -> BOOLEAN],
           queued : [DOMAIN r.list -> BOOLEAN], due : SUBSET {"block", "snapshot"}]
MailSet == [posted : Seq({"exit", "telemetry"}), latest : Seq(ReportSet)]

SpeakingTyped ==
    /\ listed \in Seq(Callers)
    /\ meters \in Seq(MeterSet) /\ Len(meters) = Len(listed)
    /\ overlay \in OverlaySet
    /\ RoomTyped(room)
    /\ again \in BOOLEAN
    /\ mail \in MailSet
    /\ packets \in Nat
    /\ played \in [Callers -> Ages]

-----------------------------------------------------------------------------
\* The snapshot of this interval has been taken, or the cards are those of the last one.
Lag == IF "snapshot" \notin room.due /\ mail.posted = <<>> THEN 0 ELSE 1

\* A stream of which the last packet is age old is shown right, as of lag intervals ago.
StreamRight(age, lit, lag) ==
    /\ lit => age <= StreamHold + lag
    /\ age > lag /\ age <= StreamHold => lit

CoreTrue == \A i \in DOMAIN listed :
    room.loud[i] => played[listed[i]] <= IF "block" \in room.due THEN 1 ELSE 0

MailTrue ==
    /\ mail.posted \in {<<>>, <<"telemetry">>}
    /\ mail.posted # <<>> =>
        /\ "snapshot" \notin room.due /\ DOMAIN mail.latest = DOMAIN listed
        /\ \A i \in DOMAIN listed :
            /\ StreamRight(room.last[i], mail.latest[i].stream, 0)
            /\ mail.latest[i].voice => played[listed[i]] <= 1

\* What is known of speech that was heard, on a card, age intervals ago
VoiceRight(m, age, lag) ==
    /\ m.voice => age <= 1 + lag
    /\ m.last # Never => age <= m.last + 1

CardsTrue == \A i \in DOMAIN listed :
    /\ StreamRight(room.last[i], meters[i].stream, Lag)
    /\ VoiceRight(meters[i], played[listed[i]], Lag)

RowsTrue(o, list, m, ages, lag) ==
    /\ \A p \in o.rows : p \in ToSet(list) /\ ages[p] <= OsdHold + 1 + lag
    /\ \A i \in DOMAIN list : m[i].voice /\ ~o.front => list[i] \in o.rows
    /\ o.front => o.rows = {}

\* A Core that works does so for the contacts as they are.
Sound ==
    Works => /\ room.list = listed
             /\ CoreTrue /\ MailTrue /\ CardsTrue
             /\ RowsTrue(overlay, listed, meters, played, Lag)

SpeakingInv == SpeakingTyped /\ Sound

-----------------------------------------------------------------------------
LEMMA NeverIs ==
    /\ Never \in Nat /\ Never >= 3 /\ OsdHold < Never /\ StreamHold < Never
    /\ StreamHold \in Nat \ {0} /\ OsdHold \in Nat
    /\ 0 \in Ages /\ Never \in Ages /\ Ages \subseteq Nat /\ \A age \in Ages : age <= Never
  BY SpeakingAssumption DEF Never, Ages

LEMMA OlderIs ==
    ASSUME NEW age \in Ages
    PROVE  /\ Older(age) \in Ages /\ age <= Older(age) /\ Older(age) <= age + 1
           /\ Older(age) # Never => Older(age) = age + 1
           /\ Older(age) = Never \/ Older(age) = age + 1
  BY NeverIs DEF Older, Ages

LEMMA SetToSeqIs ==
    ASSUME NEW S, IsFiniteSet(S)
    PROVE  SetToSeq(S) \in Seq(S)
<1>1. Cardinality(S) \in Nat /\ Bijection(1 .. Cardinality(S), S) # {}
  BY FS_CardinalityType DEF ExistsBijection
<1>2. PICK f \in [1 .. Cardinality(S) -> S] : IsInjective(f)
  BY <1>1 DEF Bijection, Injection
<1>3. SetToSeq(S) \in [1 .. Cardinality(S) -> S] /\ IsInjective(SetToSeq(S))
  BY <1>2 DEF SetToSeq
<1>4. QED
  BY <1>1, <1>3

LEMMA RemoveAtIs ==
    ASSUME NEW T, NEW s \in Seq(T), NEW i \in DOMAIN s
    PROVE  RemoveAt(s, i) \in Seq(T) /\ Len(RemoveAt(s, i)) = Len(s) - 1
<1> DEFINE n == Len(s)
           a == SubSeq(s, 1, i - 1)
           b == SubSeq(s, i + 1, n)
<1>1. n \in Nat /\ DOMAIN s = 1 .. n /\ i \in 1 .. n /\ \A j \in 1 .. n : s[j] \in T
  OBVIOUS
<1>2. 1 \in Int /\ i - 1 \in Int /\ i + 1 \in Int /\ n \in Int
  BY <1>1
<1>3. \A j \in 1 .. (i - 1) : s[j] \in T
  BY <1>1
<1>4. \A j \in (i + 1) .. n : s[j] \in T
  BY <1>1
<1>5. a \in Seq(T) /\ Len(a) = IF 1 <= i - 1 THEN i - 1 - 1 + 1 ELSE 0
  BY <1>2, <1>3, SubSeqProperties
<1>6. b \in Seq(T) /\ Len(b) = IF i + 1 <= n THEN n - (i + 1) + 1 ELSE 0
  BY <1>2, <1>4, SubSeqProperties
<1>7. RemoveAt(s, i) = a \o b
  BY DEF RemoveAt
<1>8. a \in Seq(T) /\ b \in Seq(T)
  BY <1>5, <1>6
<1> HIDE DEF n
<1>9. Len(a) = i - 1 /\ Len(b) = n - i
  BY <1>1, <1>5, <1>6
<1> HIDE DEF a, b
<1>10. a \o b \in Seq(T) /\ Len(a \o b) = Len(a) + Len(b)
  BY <1>8
<1>11. (i - 1) + (n - i) = n - 1
  BY <1>1
<1>12. QED
  BY <1>7, <1>9, <1>10, <1>11 DEF n

\* The least of some numbers
LEMMA LeastIs ==
    ASSUME NEW s \in SUBSET Nat, s # {}
    PROVE  \E t \in s : \A u \in s : t <= u
<1> DEFINE upTo == {0 .. n : n \in s}
<1>1. ASSUME NEW n \in s PROVE IsFiniteSet(0 .. n) /\ 0 .. n \in SUBSET Nat
  <2>1. n \in Int /\ 0 \in Int
    OBVIOUS
  <2>2. QED
    BY <2>1, FS_Interval
<1>2. upTo \subseteq FiniteSubsetsOf(Nat) /\ upTo # {}
  BY <1>1 DEF FiniteSubsetsOf
<1>3. PICK x \in upTo : \A y \in upTo : ~(<<y, x>> \in StrictSubsetOrdering(Nat))
  BY <1>2, FS_StrictSubsetOrderingWellFounded, WFMin
<1>4. PICK t \in s : x = 0 .. t
  OBVIOUS
<1>5. ASSUME NEW u \in s, ~(t <= u) PROVE FALSE
  <2>1. 0 .. u \in upTo /\ 0 .. u \subseteq x /\ 0 .. u # x
    BY <1>4, <1>5
  <2>2. <<0 .. u, x>> \in StrictSubsetOrdering(Nat)
    BY <1>4, <2>1 DEF StrictSubsetOrdering
  <2>3. QED
    BY <1>3, <2>1, <2>2
<1>6. QED
  BY <1>5

LEMMA HoldTimerIs ==
    ASSUME NEW m \in Seq(MeterSet)
    PROVE  HoldTimer(m) \in Ages
<1> DEFINE held == {i \in DOMAIN m : ~m[i].voice /\ m[i].last < OsdHold}
           left == {OsdHold - m[i].last : i \in held}
<1>1. CASE held = {}
  BY <1>1, NeverIs DEF HoldTimer
<1>2. CASE held # {}
  <2>1. \A i \in DOMAIN m : m[i].last \in Ages
    <3>1. \A i \in DOMAIN m : m[i] \in MeterSet
      OBVIOUS
    <3>2. QED
      BY <3>1 DEF MeterSet
  <2>2. ASSUME NEW i \in held PROVE OsdHold - m[i].last \in 0 .. OsdHold
    <3> DEFINE age == m[i].last
    <3>1. age \in Nat /\ age < OsdHold /\ OsdHold \in Nat
      BY <2>1, NeverIs
    <3> HIDE DEF age
    <3>2. OsdHold - age \in 0 .. OsdHold
      BY <3>1
    <3>3. QED
      BY <3>2 DEF age
  <2>3. left \in SUBSET Nat /\ left # {} /\ left \subseteq 0 .. OsdHold
    BY <1>2, <2>2, NeverIs
  <2>4. PICK t \in left : \A u \in left : t <= u
    BY <2>3, LeastIs
  <2>5. \A i \in held : t <= OsdHold - m[i].last
    BY <2>4
  <2>6. HoldTimer(m) = CHOOSE u \in left : \A i \in held : u <= OsdHold - m[i].last
    BY <1>2 DEF HoldTimer
  <2> HIDE DEF held, left
  <2>7. HoldTimer(m) \in left
    BY <2>4, <2>5, <2>6
  <2>8. 0 .. OsdHold \subseteq Ages
    BY NeverIs DEF Ages
  <2>9. QED
    BY <2>3, <2>7, <2>8
<1>3. QED
  BY <1>1, <1>2
\* The overlay as it is drawn anew: with the program in front it has no rows.
LEMMA OverlayIs ==
    ASSUME NEW front \in BOOLEAN, NEW list \in Seq(Callers), NEW m \in Seq(MeterSet),
           Len(m) = Len(list), NEW ages \in [Callers -> Ages], NEW lag \in {0, 1},
           \A i \in DOMAIN list : VoiceRight(m[i], ages[list[i]], lag)
    PROVE  Overlay(front, list, m) \in OverlaySet
           /\ RowsTrue(Overlay(front, list, m), list, m, ages, lag)
<1> DEFINE rows == Rows(list, m)
           o == Overlay(front, list, m)
<1>1. DOMAIN m = DOMAIN list /\ \A i \in DOMAIN m : list[i] \in Callers /\ m[i] \in MeterSet
  <2>1. DOMAIN m = 1 .. Len(m) /\ DOMAIN list = 1 .. Len(list)
    OBVIOUS
  <2>2. \A i \in 1 .. Len(m) : m[i] \in MeterSet
    OBVIOUS
  <2>3. \A i \in 1 .. Len(list) : list[i] \in Callers
    OBVIOUS
  <2>4. QED
    BY <2>1, <2>2, <2>3
<1>2. rows \in SUBSET Callers /\ rows \subseteq ToSet(list)
  BY <1>1 DEF Rows, ToSet
<1>3. ASSUME NEW p \in rows PROVE ages[p] <= OsdHold + 1 + lag
  <2>1. PICK i \in DOMAIN m : p = list[i] /\ (m[i].voice \/ m[i].last <= OsdHold)
    BY <1>3 DEF Rows
  <2> DEFINE age == ages[list[i]]
             last == m[i].last
  <2>2. age \in Nat /\ last \in Nat
    BY <1>1, NeverIs DEF MeterSet
  <2>3. m[i].voice => age <= 1 + lag
    BY <1>1 DEF VoiceRight
  <2>4. last <= OsdHold => age <= last + 1
    BY <1>1, <2>2, NeverIs DEF VoiceRight
  <2> HIDE DEF age, last
  <2>5. age <= OsdHold + 1 + lag
    BY <2>1, <2>2, <2>3, <2>4, NeverIs DEF last
  <2>6. QED
    BY <2>1, <2>5 DEF age
<1>4. \A i \in DOMAIN list : m[i].voice => list[i] \in rows
  BY <1>1 DEF Rows
<1>5. CASE front \/ rows = {}
  <2>1. o = Hidden(front)
    BY <1>5 DEF Overlay
  <2>2. o \in OverlaySet /\ o.rows = {} /\ o.front = front
    BY <2>1, NeverIs DEF Hidden, OverlaySet
  <2> HIDE DEF o, rows
  <2>3. QED
    BY <1>4, <1>5, <2>2 DEF RowsTrue, o
<1>6. CASE ~(front \/ rows = {})
  <2>1. o = [front |-> front, rows |-> rows, timer |-> HoldTimer(m)]
    BY <1>6 DEF Overlay
  <2>2. o \in OverlaySet /\ o.rows = rows /\ o.front = front
    BY <1>2, <2>1, HoldTimerIs DEF OverlaySet
  <2> HIDE DEF o, rows
  <2>3. QED
    BY <1>2, <1>3, <1>4, <1>6, <2>2 DEF RowsTrue, o
<1>7. QED
  BY <1>5, <1>6

LEMMA OverlayTyped ==
    ASSUME NEW front \in BOOLEAN, NEW list \in Seq(Callers), NEW m \in Seq(MeterSet),
           Len(m) = Len(list)
    PROVE  Overlay(front, list, m) \in OverlaySet
<1> DEFINE ages == [p \in Callers |-> 0]
<1>1. DOMAIN list = 1 .. Len(list) /\ DOMAIN m = DOMAIN list
  OBVIOUS
<1>2. ages \in [Callers -> Ages] /\ \A i \in DOMAIN list : ages[list[i]] = 0
  <2>1. \A i \in 1 .. Len(list) : list[i] \in Callers
    OBVIOUS
  <2>2. QED
    BY <1>1, <2>1, NeverIs
<1>3. \A i \in DOMAIN list : m[i].last \in Nat
  <2>1. \A i \in 1 .. Len(m) : m[i] \in MeterSet
    OBVIOUS
  <2>2. QED
    BY <1>1, <2>1, NeverIs DEF MeterSet
<1> HIDE DEF ages
<1>4. \A i \in DOMAIN list : VoiceRight(m[i], ages[list[i]], 1)
  BY <1>2, <1>3 DEF VoiceRight
<1>5. QED
  BY <1>2, <1>4, OverlayIs

-----------------------------------------------------------------------------
(* Starts and ends of Cores *)

LEMMA MetersIs ==
    ASSUME NEW n \in Nat
    PROVE  Meters(n) \in Seq(MeterSet) /\ Len(Meters(n)) = n /\ \A i \in 1 .. n : Meters(n)[i] = Silent
<1>1. Silent \in MeterSet
  BY NeverIs DEF Silent, MeterSet
<1>2. QED
  BY <1>1, IsASeq DEF Meters

LEMMA RoomIs ==
    ASSUME NEW list \in Seq(Callers), NEW number \in Nat
    PROVE  LET r == Room(list, number)
           IN  /\ RoomTyped(r) /\ r.phase = "runs" /\ r.number = number /\ r.list = list
               /\ r.last = [i \in DOMAIN list |-> Never] /\ r.loud = [i \in DOMAIN list |-> FALSE]
               /\ r.due = {"block", "snapshot"}
  BY NeverIs DEF Room, RoomTyped

LEMMA NoRoomIs ==
    ASSUME NEW phase \in {"stopping", "ended", "none"}, NEW number \in Nat
    PROVE  LET r == [NoRoom EXCEPT !.phase = phase, !.number = number]
           IN  RoomTyped(r) /\ r.phase = phase
<1> DEFINE r == [NoRoom EXCEPT !.phase = phase, !.number = number]
<1> DEFINE k == Room(<<>>, 0)
           j == [k EXCEPT !.phase = "none", !.due = {}]
<1>1. <<>> \in Seq(Callers) /\ 0 \in Nat
  OBVIOUS
<1>2. RoomTyped(k)
  BY <1>1, RoomIs
<1>3. NoRoom = j
  BY DEF NoRoom
<1> HIDE DEF k
<1>4. RoomTyped(j)
  BY <1>2 DEF RoomTyped
<1> HIDE DEF j
<1>5. RoomTyped(r) /\ r.phase = phase
  BY <1>3, <1>4 DEF RoomTyped
<1>6. QED
  BY <1>5

LEMMA HiddenIs ==
    ASSUME NEW front \in BOOLEAN
    PROVE  Hidden(front) \in OverlaySet /\ Hidden(front).rows = {}
  BY NeverIs DEF Hidden, OverlaySet

LEMMA NoMailIs == NoMail \in MailSet
  BY DEF NoMail, MailSet

LEMMA SerializeIs ==
    ASSUME RoomTyped(room)
    PROVE  Serialize \in Seq(ReportSet) /\ DOMAIN Serialize = DOMAIN room.list
<1>1. room.list \in Seq(Callers) /\ room.last \in [DOMAIN room.list -> Ages]
      /\ room.loud \in [DOMAIN room.list -> BOOLEAN]
  BY DEF RoomTyped
<1>2. DOMAIN room.list = 1 .. Len(room.list) /\ Len(room.list) \in Nat
  BY <1>1
<1>3. /\ Serialize = [i \in 1 .. Len(room.list) |-> Serialize[i]]
      /\ \A i \in 1 .. Len(room.list) : Serialize[i] \in ReportSet
  BY <1>1, <1>2 DEF Serialize, ReportSet
<1>4. QED
  BY <1>2, <1>3, IsASeq

\* A Core that starts finds nothing shown.
LEMMA FreshSound ==
    ASSUME listed' \in Seq(Callers), room' = Room(listed', room'.number),
           meters' = Meters(Len(listed')), mail' = NoMail,
           overlay'.rows = {}, played' \in [Callers -> Ages]
    PROVE  Sound'
<1>1. Len(listed') \in Nat /\ DOMAIN listed' = 1 .. Len(listed')
  OBVIOUS
<1>2. /\ room'.list = listed' /\ room'.due = {"block", "snapshot"}
      /\ room'.last = [i \in DOMAIN listed' |-> Never]
      /\ room'.loud = [i \in DOMAIN listed' |-> FALSE]
  BY DEF Room
<1>3. \A i \in DOMAIN listed' : meters'[i] = Silent
  BY <1>1, MetersIs
<1>4. mail'.posted = <<>> /\ Lag' = 1
  BY <1>2 DEF NoMail, Lag
<1>5. CoreTrue' /\ MailTrue'
  BY <1>2, <1>4 DEF CoreTrue, MailTrue
<1>6. CardsTrue'
  BY <1>2, <1>3, <1>4, NeverIs DEF CardsTrue, StreamRight, VoiceRight, Silent
<1>7. RowsTrue(overlay', listed', meters', played', Lag')
  BY <1>3 DEF RowsTrue, Silent
<1>8. QED
  BY <1>2, <1>5, <1>6, <1>7 DEF Sound
LEMMA PostedIs ==
    ASSUME mail \in MailSet, NEW message \in {"exit", "telemetry"}
    PROVE  Posted(message) \in MailSet /\ Posted(message).latest = mail.latest
<1>1. mail.posted \in Seq({"exit", "telemetry"})
  BY DEF MailSet
<1>2. Append(mail.posted, message) \in Seq({"exit", "telemetry"})
  BY <1>1
<1>3. QED
  BY <1>1, <1>2 DEF Posted, MailSet

LEMMA SnapshotPosted ==
    ASSUME SpeakingTyped
    PROVE  [Posted("telemetry") EXCEPT !.latest = Serialize] \in MailSet
<1> DEFINE j == Posted("telemetry")
<1>1. j \in MailSet /\ Serialize \in Seq(ReportSet)
  BY PostedIs, SerializeIs DEF SpeakingTyped
<1> HIDE DEF j
<1>2. [j EXCEPT !.latest = Serialize] \in MailSet
  BY <1>1 DEF MailSet
<1>3. QED
  BY <1>2 DEF j

LEMMA UnheardTyped == [p \in Callers |-> Never] \in [Callers -> Ages]
  BY NeverIs

LEMMA RoomLeftIs ==
    ASSUME SpeakingTyped, NEW phase \in {"stopping", "ended"}, RoomLeft(phase)
    PROVE  RoomTyped(room') /\ ~Works' /\ played' \in [Callers -> Ages]
<1>1. room.number \in Nat
  BY DEF SpeakingTyped, RoomTyped
<1>2. RoomTyped(room') /\ room'.phase = phase
  BY <1>1, NoRoomIs DEF RoomLeft
<1>3. QED
  BY <1>2, UnheardTyped DEF RoomLeft, Works

LEMMA StartIs ==
    ASSUME SpeakingTyped, Start(listed'), listed' \in Seq(Callers),
           again' \in BOOLEAN, packets' \in Nat
    PROVE  SpeakingInv'
<1>1. /\ room' = Room(listed', room.number + 1) /\ meters' = Meters(Len(listed'))
      /\ overlay' = Hidden(overlay.front) /\ mail' = NoMail
      /\ played' = [p \in Callers |-> Never]
  BY DEF Start
<1>2. room.number + 1 \in Nat /\ overlay.front \in BOOLEAN /\ Len(listed') \in Nat
  BY DEF SpeakingTyped, RoomTyped, OverlaySet
<1>3. RoomTyped(room') /\ room'.number = room.number + 1
  BY <1>1, <1>2, RoomIs
<1>4. overlay' \in OverlaySet /\ overlay'.rows = {}
  BY <1>1, <1>2, HiddenIs
<1>5. SpeakingTyped'
  BY <1>1, <1>2, <1>3, <1>4, MetersIs, NoMailIs, UnheardTyped DEF SpeakingTyped
<1>6. Sound'
  BY <1>1, <1>3, <1>4, UnheardTyped, FreshSound
<1>7. QED
  BY <1>5, <1>6 DEF SpeakingInv

LEMMA RestartStep ==
    ASSUME SpeakingInv, NEW list \in Seq(Callers), NEW m \in Seq(MeterSet), Len(m) = Len(list),
           RestartWith(list, m), UNCHANGED packets
    PROVE  SpeakingInv'
<1>1. listed' = list /\ SpeakingTyped /\ packets' \in Nat
  BY DEF RestartWith, SpeakingInv, SpeakingTyped
<1>2. CASE /\ Works /\ RoomLeft("stopping") /\ again' = TRUE
           /\ mail' \in {mail, [Posted("telemetry") EXCEPT !.latest = Serialize]}
           /\ meters' = m /\ UNCHANGED overlay
  <2>1. RoomTyped(room') /\ ~Works' /\ played' \in [Callers -> Ages]
    BY <1>1, <1>2, RoomLeftIs
  <2>2. mail' \in MailSet
    BY <1>1, <1>2, SnapshotPosted DEF SpeakingTyped
  <2>3. QED
    BY <1>1, <1>2, <2>1, <2>2 DEF SpeakingInv, SpeakingTyped, Sound
<1>3. CASE /\ ~Works /\ again' \in BOOLEAN
           /\ meters' = m /\ UNCHANGED <<overlay, room, mail, played>>
  <2>1. SpeakingTyped'
    BY <1>1, <1>3 DEF SpeakingTyped
  <2>2. ~Works'
    BY <1>3 DEF Works
  <2>3. QED
    BY <2>1, <2>2 DEF SpeakingInv, Sound
<1>4. CASE Start(list) /\ UNCHANGED again
  <2>1. again' \in BOOLEAN
    BY <1>1, <1>4 DEF SpeakingTyped
  <2>2. QED
    BY <1>1, <1>4, <2>1, StartIs
<1>5. again \in BOOLEAN
  BY <1>1 DEF SpeakingTyped
<1>6. QED
  BY <1>2, <1>3, <1>4, <1>5 DEF RestartWith, Works

LEMMA AddListedStep ==
    ASSUME SpeakingInv, NEW p \in Callers, AddListed(p), UNCHANGED packets
    PROVE  SpeakingInv'
<1>1. listed \in Seq(Callers) /\ meters \in Seq(MeterSet) /\ Len(meters) = Len(listed)
  BY DEF SpeakingInv, SpeakingTyped
<1>2. Silent \in MeterSet
  BY NeverIs DEF Silent, MeterSet
<1>3. Append(listed, p) \in Seq(Callers) /\ Append(meters, Silent) \in Seq(MeterSet)
      /\ Len(Append(meters, Silent)) = Len(Append(listed, p))
  BY <1>1, <1>2
<1>4. QED
  BY <1>3, RestartStep DEF AddListed

LEMMA RemoveListedStep ==
    ASSUME SpeakingInv, NEW i \in DOMAIN listed, RemoveListed(i), UNCHANGED packets
    PROVE  SpeakingInv'
<1>1. listed \in Seq(Callers) /\ meters \in Seq(MeterSet) /\ Len(meters) = Len(listed)
      /\ i \in DOMAIN meters
  BY DEF SpeakingInv, SpeakingTyped
<1>2. RemoveAt(listed, i) \in Seq(Callers) /\ Len(RemoveAt(listed, i)) = Len(listed) - 1
  BY <1>1, RemoveAtIs
<1>3. RemoveAt(meters, i) \in Seq(MeterSet) /\ Len(RemoveAt(meters, i)) = Len(meters) - 1
  BY <1>1, RemoveAtIs
<1>4. QED
  BY <1>1, <1>2, <1>3, RestartStep DEF RemoveListed

LEMMA RoomEndsStep == ASSUME SpeakingInv, RoomEnds, UNCHANGED packets PROVE SpeakingInv'
<1>1. SpeakingTyped
  BY DEF SpeakingInv
<1>2. RoomTyped(room') /\ ~Works' /\ played' \in [Callers -> Ages]
  BY <1>1, RoomLeftIs DEF RoomEnds
<1>3. mail' \in MailSet
  <2>1. Posted("exit") \in MailSet
    BY <1>1, PostedIs DEF SpeakingTyped
  <2>2. [posted |-> mail.posted \o <<"exit", "telemetry">>, latest |-> Serialize] \in MailSet
    <3>1. mail.posted \in Seq({"exit", "telemetry"})
          /\ <<"exit", "telemetry">> \in Seq({"exit", "telemetry"})
      BY <1>1 DEF SpeakingTyped, MailSet
    <3>2. mail.posted \o <<"exit", "telemetry">> \in Seq({"exit", "telemetry"})
      BY <3>1
    <3>3. Serialize \in Seq(ReportSet)
      BY <1>1, SerializeIs DEF SpeakingTyped
    <3>4. QED
      BY <3>2, <3>3 DEF MailSet
  <2>3. QED
    BY <2>1, <2>2 DEF RoomEnds
<1>4. UNCHANGED <<listed, meters, overlay, again>>
  BY DEF RoomEnds
<1>5. QED
  BY <1>1, <1>2, <1>3, <1>4 DEF SpeakingInv, SpeakingTyped, Sound

LEMMA ExitTakenStep == ASSUME SpeakingInv, ExitTaken, UNCHANGED packets PROVE SpeakingInv'
<1>1. SpeakingTyped /\ listed' = listed /\ again' = FALSE
  BY DEF SpeakingInv, ExitTaken
<1>2. CASE Start(listed)
  BY <1>1, <1>2, StartIs DEF SpeakingTyped
<1>3. CASE /\ room' = [room EXCEPT !.phase = "none"]
           /\ meters' = Meters(Len(listed)) /\ overlay' = Hidden(overlay.front)
           /\ mail' = [mail EXCEPT !.posted = Tail(@)] /\ UNCHANGED played
  <2>1. RoomTyped(room') /\ ~Works'
    BY <1>1, <1>3 DEF SpeakingTyped, RoomTyped, Works
  <2>2. overlay' \in OverlaySet
    BY <1>1, <1>3, HiddenIs DEF SpeakingTyped, OverlaySet
  <2>3. mail' \in MailSet
    <3>1. mail.posted \in Seq({"exit", "telemetry"}) /\ mail.posted # <<>>
      BY <1>1 DEF SpeakingTyped, MailSet, ExitTaken
    <3>2. Tail(mail.posted) \in Seq({"exit", "telemetry"})
      BY <3>1
    <3>3. QED
      BY <1>1, <1>3, <3>2 DEF SpeakingTyped, MailSet
  <2>4. meters' \in Seq(MeterSet) /\ Len(meters') = Len(listed')
    BY <1>1, <1>3, MetersIs DEF SpeakingTyped
  <2>5. QED
    BY <1>1, <1>3, <2>1, <2>2, <2>3, <2>4 DEF SpeakingInv, SpeakingTyped, Sound
<1>4. QED
  BY <1>2, <1>3 DEF ExitTaken
-----------------------------------------------------------------------------
(* A Core at work *)

\* What is known while a Core works, with the ages in numbers
LEMMA AtWork ==
    ASSUME SpeakingInv, Works
    PROVE  /\ room.list = listed /\ DOMAIN listed = 1 .. Len(listed) /\ DOMAIN meters = DOMAIN listed
           /\ CoreTrue /\ MailTrue /\ CardsTrue
           /\ RowsTrue(overlay, listed, meters, played, Lag) /\ Lag \in {0, 1}
           /\ \A i \in DOMAIN listed :
                /\ listed[i] \in Callers /\ meters[i] \in MeterSet /\ meters[i].last \in Ages
                /\ room.last[i] \in Ages /\ room.last[i] \in Nat
                /\ played[listed[i]] \in Ages /\ played[listed[i]] \in Nat
                /\ room.loud[i] \in BOOLEAN
<1>1. SpeakingTyped /\ Sound
  BY DEF SpeakingInv
<1>2. room.list = listed
  BY <1>1 DEF Sound
<1>3. /\ listed \in Seq(Callers) /\ meters \in Seq(MeterSet) /\ Len(meters) = Len(listed)
      /\ room.last \in [DOMAIN listed -> Ages] /\ room.loud \in [DOMAIN listed -> BOOLEAN]
      /\ played \in [Callers -> Ages]
  BY <1>1, <1>2 DEF SpeakingTyped, RoomTyped
<1>4. DOMAIN listed = 1 .. Len(listed) /\ DOMAIN meters = DOMAIN listed
  BY <1>3
<1>5. \A i \in DOMAIN listed : listed[i] \in Callers /\ meters[i] \in MeterSet
  <2>1. \A i \in 1 .. Len(listed) : listed[i] \in Callers
    BY <1>3
  <2>2. \A i \in 1 .. Len(meters) : meters[i] \in MeterSet
    BY <1>3
  <2>3. QED
    BY <1>3, <1>4, <2>1, <2>2
<1>6. \A i \in DOMAIN listed : meters[i].last \in Ages
  BY <1>5 DEF MeterSet
<1>7. QED
  BY <1>1, <1>2, <1>3, <1>4, <1>5, <1>6, NeverIs DEF Sound, Lag

LEMMA VoiceArrivesStep ==
    ASSUME SpeakingInv, NEW i \in DOMAIN room.list, NEW loud \in BOOLEAN, VoiceArrives(i, loud)
    PROVE  SpeakingInv'
<1>1. /\ SpeakingTyped /\ Works /\ packets' \in Nat
      /\ UNCHANGED <<listed, meters, overlay, again, mail, played>>
      /\ room' = [room EXCEPT !.last[i] = 0, !.queued[i] = @ \/ loud]
  BY DEF VoiceArrives, SpeakingInv, SpeakingTyped
<1> DEFINE last == [room.last EXCEPT ![i] = 0]
           queued == [room.queued EXCEPT ![i] = @ \/ loud]
<1>2. last \in [DOMAIN room.list -> Ages] /\ queued \in [DOMAIN room.list -> BOOLEAN]
  BY <1>1, NeverIs DEF SpeakingTyped, RoomTyped
<1>3. room' = [room EXCEPT !.last = last, !.queued = queued]
  BY <1>1 DEF SpeakingTyped, RoomTyped
<1> HIDE DEF last, queued
<1>4. /\ RoomTyped(room') /\ Works' /\ room'.list = room.list /\ room'.last = last
      /\ room'.loud = room.loud /\ room'.due = room.due
  BY <1>1, <1>2, <1>3 DEF SpeakingTyped, RoomTyped, Works
<1>5. \A j \in DOMAIN room.list : room'.last[j] = IF j = i THEN 0 ELSE room.last[j]
  BY <1>1, <1>4 DEF last, SpeakingTyped, RoomTyped
<1>6. SpeakingTyped'
  BY <1>1, <1>4 DEF SpeakingTyped
<1>7. Lag' = Lag /\ room.list = listed
  BY <1>1, <1>4, AtWork DEF Lag
<1>8. ASSUME NEW j \in DOMAIN listed, NEW lit \in BOOLEAN, NEW lag \in {0, 1},
             StreamRight(room.last[j], lit, lag)
      PROVE  StreamRight(room'.last[j], lit, lag)
  BY <1>5, <1>7, <1>8, NeverIs DEF StreamRight
<1>9. CoreTrue' /\ RowsTrue(overlay', listed', meters', played', Lag')
  BY <1>1, <1>4, <1>7, AtWork DEF CoreTrue
<1>10. MailTrue'
  <2>1. ASSUME mail.posted # <<>>, NEW j \in DOMAIN listed PROVE mail.latest[j].stream \in BOOLEAN
    <3>1. DOMAIN mail.latest = DOMAIN listed
      BY <1>1, <2>1, AtWork DEF MailTrue
    <3>2. mail.latest[j] \in ReportSet
      <4>1. mail.latest \in Seq(ReportSet)
        BY <1>1 DEF SpeakingTyped, MailSet
      <4>2. \A l \in DOMAIN mail.latest : mail.latest[l] \in ReportSet
        BY <4>1
      <4>3. QED
        BY <2>1, <3>1, <4>2
    <3>3. QED
      BY <3>2 DEF ReportSet
  <2>2. MailTrue
    BY <1>1, AtWork
  <2>3. QED
    BY <1>1, <1>4, <1>8, <2>1, <2>2 DEF MailTrue
<1>11. CardsTrue'
  <2>1. \A j \in DOMAIN listed : meters[j].stream \in BOOLEAN
    BY <1>1, AtWork DEF MeterSet
  <2>2. CardsTrue /\ Lag \in {0, 1}
    BY <1>1, AtWork
  <2>3. QED
    BY <1>1, <1>7, <1>8, <2>1, <2>2 DEF CardsTrue
<1>12. QED
  BY <1>1, <1>4, <1>6, <1>7, <1>9, <1>10, <1>11 DEF SpeakingInv, Sound

LEMMA BlockPlayedStep == ASSUME SpeakingInv, BlockPlayed, UNCHANGED packets PROVE SpeakingInv'
<1>1. /\ SpeakingTyped /\ Works /\ "block" \in room.due /\ packets' \in Nat
      /\ UNCHANGED <<listed, meters, overlay, again, mail>>
  BY DEF BlockPlayed, SpeakingInv, SpeakingTyped
<1>2. PICK now \in SUBSET {i \in DOMAIN room.list : room.queued[i]} :
        /\ room' = [room EXCEPT !.due = @ \ {"block"}, !.loud = [i \in DOMAIN @ |-> i \in now],
                                !.queued = [i \in DOMAIN @ |-> @[i] /\ i \notin now]]
        /\ played' = [p \in Callers |-> IF \E i \in now : room.list[i] = p THEN 0 ELSE played[p]]
  BY DEF BlockPlayed
<1> DEFINE loud == [i \in DOMAIN room.list |-> i \in now]
           queued == [i \in DOMAIN room.list |-> room.queued[i] /\ i \notin now]
           due == room.due \ {"block"}
<1>3. loud \in [DOMAIN room.list -> BOOLEAN] /\ queued \in [DOMAIN room.list -> BOOLEAN]
      /\ due \in SUBSET {"block", "snapshot"}
  BY <1>1 DEF SpeakingTyped, RoomTyped
<1>4. room' = [room EXCEPT !.due = due, !.loud = loud, !.queued = queued]
  BY <1>1, <1>2 DEF SpeakingTyped, RoomTyped
<1> HIDE DEF loud, queued, due
<1>5. /\ RoomTyped(room') /\ Works' /\ room'.list = room.list /\ room'.last = room.last
      /\ room'.loud = loud /\ room'.due = due
  BY <1>1, <1>3, <1>4 DEF SpeakingTyped, RoomTyped, Works
<1>6. played' \in [Callers -> Ages]
  BY <1>1, <1>2, NeverIs DEF SpeakingTyped
<1>7. SpeakingTyped'
  BY <1>1, <1>5, <1>6 DEF SpeakingTyped
<1>8. Lag' = Lag /\ room.list = listed /\ "block" \notin room'.due
      /\ ("snapshot" \notin room.due => "snapshot" \notin room'.due)
  BY <1>1, <1>5, AtWork DEF Lag, due
<1>9. \A p \in Callers : played[p] \in Nat /\ played'[p] \in Nat /\ played'[p] <= played[p]
  BY <1>1, <1>2, NeverIs DEF SpeakingTyped
<1>10. CoreTrue'
  <2>1. ASSUME NEW i \in DOMAIN listed, loud[i] PROVE played'[listed[i]] = 0
    BY <1>1, <1>2, <1>8, <2>1, AtWork DEF loud
  <2>2. QED
    BY <1>1, <1>5, <1>8, <2>1 DEF CoreTrue
<1>11. MailTrue'
  <2>1. MailTrue
    BY <1>1, AtWork
  <2>2. ASSUME NEW i \in DOMAIN listed, played[listed[i]] <= 1 PROVE played'[listed[i]] <= 1
    BY <1>1, <1>9, <2>2, AtWork
  <2>3. QED
    BY <1>1, <1>5, <1>8, <2>1, <2>2 DEF MailTrue
<1>12. CardsTrue'
  <2>1. CardsTrue /\ Lag \in {0, 1}
    BY <1>1, AtWork
  <2>2. ASSUME NEW i \in DOMAIN listed
        PROVE  VoiceRight(meters[i], played'[listed[i]], Lag)
    <3> DEFINE age == played[listed[i]]
               new == played'[listed[i]]
    <3>1. age \in Nat /\ new \in Nat /\ new <= age /\ meters[i].last \in Nat
      BY <1>1, <1>9, AtWork, NeverIs
    <3>2. VoiceRight(meters[i], age, Lag)
      BY <2>1 DEF CardsTrue
    <3> HIDE DEF age, new
    <3>3. VoiceRight(meters[i], new, Lag)
      BY <2>1, <3>1, <3>2 DEF VoiceRight
    <3>4. QED
      BY <3>3 DEF new
  <2>3. QED
    BY <1>1, <1>5, <1>8, <2>1, <2>2 DEF CardsTrue
<1>13. RowsTrue(overlay', listed', meters', played', Lag')
  <2>1. RowsTrue(overlay, listed, meters, played, Lag) /\ Lag \in {0, 1}
    BY <1>1, AtWork
  <2>2. ASSUME NEW p \in overlay.rows PROVE played'[p] <= OsdHold + 1 + Lag
    <3>1. p \in Callers
      BY <1>1 DEF SpeakingTyped, OverlaySet
    <3>2. played[p] <= OsdHold + 1 + Lag
      BY <2>1 DEF RowsTrue
    <3> DEFINE age == played[p]
               new == played'[p]
    <3>3. age \in Nat /\ new \in Nat /\ new <= age
      BY <1>9, <3>1
    <3> HIDE DEF age, new
    <3>4. new <= OsdHold + 1 + Lag
      BY <2>1, <3>2, <3>3, NeverIs DEF age
    <3>5. QED
      BY <3>4 DEF new
  <2>3. QED
    BY <1>1, <1>8, <2>1, <2>2 DEF RowsTrue
<1>14. QED
  BY <1>1, <1>5, <1>7, <1>8, <1>10, <1>11, <1>12, <1>13 DEF SpeakingInv, Sound
LEMMA SnapshotWrittenStep ==
    ASSUME SpeakingInv, SnapshotWritten, UNCHANGED packets
    PROVE  SpeakingInv'
<1>1. /\ SpeakingTyped /\ Works /\ "snapshot" \in room.due /\ packets' \in Nat
      /\ UNCHANGED <<listed, meters, overlay, again, played>>
      /\ room' = [room EXCEPT !.due = @ \ {"snapshot"}]
      /\ mail' = [Posted("telemetry") EXCEPT !.latest = Serialize]
  BY DEF SnapshotWritten, SpeakingInv, SpeakingTyped
<1>2. /\ RoomTyped(room') /\ Works' /\ room'.list = room.list /\ room'.last = room.last
      /\ room'.loud = room.loud /\ room'.due = room.due \ {"snapshot"}
  BY <1>1 DEF SpeakingTyped, RoomTyped, Works
<1>3. mail' \in MailSet
  BY <1>1, SnapshotPosted
<1>4. SpeakingTyped'
  BY <1>1, <1>2, <1>3 DEF SpeakingTyped
\* The one before has been taken.
<1>5. mail.posted = <<>>
  BY <1>1, AtWork DEF MailTrue
<1>6. mail'.posted = <<"telemetry">> /\ mail'.latest = Serialize
  <2>1. mail \in MailSet /\ ToSet(<<>>) = {}
    BY <1>1 DEF SpeakingTyped, ToSet
  <2>2. Posted("telemetry") = [mail EXCEPT !.posted = <<"telemetry">>]
    BY <1>5, <2>1 DEF Posted, MailSet
  <2>3. QED
    BY <1>1, <2>1, <2>2 DEF MailSet
<1>7. Lag = 1 /\ Lag' = 1
  <2>1. <<"telemetry">> # <<>>
    OBVIOUS
  <2>2. QED
    BY <1>1, <1>6, <2>1 DEF Lag
<1>8. CoreTrue /\ CardsTrue /\ RowsTrue(overlay, listed, meters, played, Lag) /\ room.list = listed
  BY <1>1, AtWork
<1>9. CoreTrue'
  BY <1>1, <1>2, <1>8 DEF CoreTrue
<1>10. MailTrue'
  <2>1. DOMAIN mail'.latest = DOMAIN listed /\ "snapshot" \notin room'.due
    BY <1>1, <1>2, <1>6, <1>8, SerializeIs DEF SpeakingTyped
  <2>2. ASSUME NEW i \in DOMAIN listed
        PROVE  /\ StreamRight(room.last[i], Serialize[i].stream, 0)
               /\ Serialize[i].voice => played[listed[i]] <= 1
    <3>1. Serialize[i] = [voice |-> room.loud[i], stream |-> room.last[i] <= StreamHold]
      BY <1>8 DEF Serialize
    <3>2. room.last[i] \in Nat /\ played[listed[i]] \in Nat
      BY <1>1, AtWork
    <3>3. StreamRight(room.last[i], Serialize[i].stream, 0)
      <4> DEFINE age == room.last[i]
                 lit == Serialize[i].stream
                 young == age <= StreamHold
      <4>0. lit = young
        <5> DEFINE loud == room.loud[i]
                   report == [voice |-> loud, stream |-> young]
        <5>1. Serialize[i] = report
          BY <3>1
        <5> HIDE DEF loud, young
        <5>2. report.stream = young
          OBVIOUS
        <5>3. QED
          BY <5>1, <5>2
      <4>1. lit <=> age <= StreamHold
        BY <4>0, Zenon DEF young
      <4> HIDE DEF age, lit, young
      <4>2. StreamRight(age, lit, 0)
        BY <3>2, <4>1, NeverIs DEF StreamRight, age
      <4>3. QED
        BY <4>2 DEF age, lit
    <3>4. room.loud[i] => played[listed[i]] <= 1
      BY <1>8, <3>2 DEF CoreTrue
    <3>5. QED
      BY <3>1, <3>3, <3>4
  <2>3. QED
    BY <1>1, <1>2, <1>6, <2>1, <2>2 DEF MailTrue
<1>11. CardsTrue' /\ RowsTrue(overlay', listed', meters', played', Lag')
  BY <1>1, <1>2, <1>7, <1>8 DEF CardsTrue
<1>12. QED
  BY <1>1, <1>2, <1>4, <1>8, <1>9, <1>10, <1>11 DEF SpeakingInv, Sound

LEMMA UpdatedIs ==
    ASSUME NEW m \in Seq(MeterSet), NEW snapshot \in Seq(ReportSet)
    PROVE  Updated(m, snapshot) \in Seq(MeterSet) /\ Len(Updated(m, snapshot)) = Len(m)
<1> DEFINE r == Updated(m, snapshot)
<1>1. DOMAIN m = 1 .. Len(m) /\ Len(m) \in Nat /\ \A i \in 1 .. Len(m) : m[i] \in MeterSet
  OBVIOUS
<1>2. \A i \in DOMAIN snapshot : snapshot[i] \in ReportSet
  OBVIOUS
<1>3. r = [i \in 1 .. Len(m) |-> r[i]]
  BY <1>1 DEF Updated
<1>4. ASSUME NEW i \in 1 .. Len(m) PROVE r[i] \in MeterSet
  <2>1. r[i] = IF i \notin DOMAIN snapshot THEN m[i]
               ELSE [voice |-> snapshot[i].voice, stream |-> snapshot[i].stream,
                     last |-> IF snapshot[i].voice THEN 0 ELSE m[i].last]
    BY <1>1 DEF Updated
  <2>2. m[i] \in MeterSet /\ m[i].last \in Ages
    BY <1>1 DEF MeterSet
  <2>3. i \in DOMAIN snapshot => snapshot[i].voice \in BOOLEAN /\ snapshot[i].stream \in BOOLEAN
    BY <1>2 DEF ReportSet
  <2>4. QED
    BY <2>1, <2>2, <2>3, NeverIs DEF MeterSet
<1> HIDE DEF r
<1>5. r \in Seq(MeterSet) /\ Len(r) = Len(m)
  BY <1>1, <1>3, <1>4, IsASeq
<1>6. QED
  BY <1>5 DEF r

LEMMA SnapshotTakenStep ==
    ASSUME SpeakingInv, SnapshotTaken, UNCHANGED packets
    PROVE  SpeakingInv'
<1>1. /\ SpeakingTyped /\ packets' \in Nat /\ mail.posted # <<>>
      /\ UNCHANGED <<listed, room, again, played>>
      /\ mail' = [posted |-> Tail(mail.posted), latest |-> <<>>]
      /\ meters' = Updated(meters, mail.latest)
      /\ overlay' = Overlay(overlay.front, listed, meters')
  BY DEF SnapshotTaken, SpeakingInv, SpeakingTyped
<1>2. /\ mail.posted \in Seq({"exit", "telemetry"}) /\ mail.latest \in Seq(ReportSet)
      /\ overlay.front \in BOOLEAN /\ listed \in Seq(Callers) /\ meters \in Seq(MeterSet)
      /\ Len(meters) = Len(listed) /\ played \in [Callers -> Ages]
  BY <1>1 DEF SpeakingTyped, MailSet, OverlaySet
<1>3. meters' \in Seq(MeterSet) /\ Len(meters') = Len(listed)
  BY <1>1, <1>2, UpdatedIs
<1>4. mail' \in MailSet
  <2>1. Tail(mail.posted) \in Seq({"exit", "telemetry"}) /\ <<>> \in Seq(ReportSet)
    BY <1>1, <1>2
  <2>2. QED
    BY <1>1, <2>1 DEF MailSet
<1>5. overlay' \in OverlaySet
  BY <1>1, <1>2, <1>3, OverlayTyped
<1>6. SpeakingTyped'
  BY <1>1, <1>3, <1>4, <1>5 DEF SpeakingTyped
<1>7. CASE ~Works
  BY <1>1, <1>6, <1>7 DEF SpeakingInv, Sound, Works
<1>8. CASE Works
  <2>1. CoreTrue /\ MailTrue /\ CardsTrue /\ Lag \in {0, 1} /\ DOMAIN meters = DOMAIN listed
        /\ room.list = listed
    BY <1>8, AtWork
  <2>2. /\ "snapshot" \notin room.due /\ DOMAIN mail.latest = DOMAIN listed
        /\ mail.posted = <<"telemetry">>
        /\ \A i \in DOMAIN listed :
            /\ StreamRight(room.last[i], mail.latest[i].stream, 0)
            /\ mail.latest[i].voice => played[listed[i]] <= 1
    BY <1>1, <2>1 DEF MailTrue
  <2>3. mail'.posted = <<>> /\ Lag' = 0
    BY <1>1, <2>2 DEF Lag
  <2>4. ASSUME NEW i \in DOMAIN listed
        PROVE  StreamRight(room.last[i], meters'[i].stream, 0)
               /\ VoiceRight(meters'[i], played[listed[i]], 0)
    <3>1. meters'[i] = [voice |-> mail.latest[i].voice, stream |-> mail.latest[i].stream,
                        last |-> IF mail.latest[i].voice THEN 0 ELSE meters[i].last]
      BY <1>1, <2>1, <2>2 DEF Updated
    <3>2. VoiceRight(meters[i], played[listed[i]], Lag)
      BY <2>1 DEF CardsTrue
    <3>3. VoiceRight(meters'[i], played[listed[i]], 0)
      BY <1>8, <2>2, <3>1, <3>2, AtWork DEF VoiceRight
    <3>4. QED
      BY <2>2, <3>1, <3>3
  <2>5. CardsTrue'
    BY <1>1, <2>3, <2>4 DEF CardsTrue
  <2>6. RowsTrue(overlay', listed', meters', played', Lag')
    <3>1. 0 \in {0, 1} /\ \A i \in DOMAIN listed : VoiceRight(meters'[i], played[listed[i]], 0)
      BY <2>4
    <3>2. RowsTrue(overlay', listed, meters', played, 0)
      BY <1>1, <1>2, <1>3, <3>1, OverlayIs
    <3>3. QED
      BY <1>1, <2>3, <3>2
  <2>7. CoreTrue' /\ MailTrue'
    BY <1>1, <2>1, <2>3 DEF CoreTrue, MailTrue
  <2>8. QED
    BY <1>1, <1>6, <2>1, <2>5, <2>6, <2>7 DEF SpeakingInv, Sound
<1>9. QED
  BY <1>7, <1>8

\* The overlay is drawn anew.
LEMMA RedrawnStep ==
    ASSUME SpeakingInv, NEW front \in BOOLEAN, overlay' = Overlay(front, listed, meters),
           UNCHANGED <<listed, meters, room, again, mail, packets, played>>
    PROVE  SpeakingInv'
<1>1. /\ SpeakingTyped /\ listed \in Seq(Callers) /\ meters \in Seq(MeterSet)
      /\ Len(meters) = Len(listed) /\ played \in [Callers -> Ages]
  BY DEF SpeakingInv, SpeakingTyped
<1>2. Lag' = Lag /\ (Works' <=> Works)
  BY DEF Lag, Works
<1>3. overlay' \in OverlaySet
  BY <1>1, OverlayTyped
<1>4. SpeakingTyped'
  BY <1>1, <1>3 DEF SpeakingTyped
<1>5. CASE ~Works
  BY <1>2, <1>4, <1>5 DEF SpeakingInv, Sound
<1>6. CASE Works
  <2>1. CoreTrue /\ MailTrue /\ CardsTrue /\ Lag \in {0, 1} /\ room.list = listed
    BY <1>6, AtWork
  <2>2. \A i \in DOMAIN listed : VoiceRight(meters[i], played[listed[i]], Lag)
    BY <2>1 DEF CardsTrue
  <2>3. RowsTrue(overlay', listed, meters, played, Lag)
    BY <1>1, <2>1, <2>2, OverlayIs
  <2>4. CoreTrue' /\ MailTrue' /\ CardsTrue'
    BY <1>2, <2>1 DEF CoreTrue, MailTrue, CardsTrue
  <2>5. QED
    BY <1>2, <1>4, <2>1, <2>3, <2>4 DEF SpeakingInv, Sound
<1>7. QED
  BY <1>5, <1>6
LEMMA IntervalPassesStep ==
    ASSUME SpeakingInv, IntervalPasses, UNCHANGED packets
    PROVE  SpeakingInv'
<1>1. /\ SpeakingTyped /\ packets' \in Nat /\ mail.posted = <<>> /\ room.due = {}
      /\ UNCHANGED <<listed, again, mail>>
      /\ room' = [room EXCEPT !.last = [i \in DOMAIN @ |-> Older(@[i])],
                              !.due = IF Works THEN {"block", "snapshot"} ELSE {}]
      /\ meters' = [i \in DOMAIN meters |-> [meters[i] EXCEPT !.last = Older(@)]]
      /\ overlay' = [overlay EXCEPT !.timer = IF @ = Never THEN @ ELSE @ - 1]
      /\ played' = [p \in Callers |-> Older(played[p])] /\ overlay.timer # 0
  BY DEF IntervalPasses, SpeakingInv, SpeakingTyped
<1> DEFINE last == [i \in DOMAIN room.list |-> Older(room.last[i])]
           due == IF Works THEN {"block", "snapshot"} ELSE {}
           timer == IF overlay.timer = Never THEN Never ELSE overlay.timer - 1
<1>2. last \in [DOMAIN room.list -> Ages] /\ due \in SUBSET {"block", "snapshot"}
      /\ room' = [room EXCEPT !.last = last, !.due = due]
  <2>1. room.last \in [DOMAIN room.list -> Ages]
    BY <1>1 DEF SpeakingTyped, RoomTyped
  <2>2. last \in [DOMAIN room.list -> Ages]
    BY <2>1, OlderIs
  <2>3. [i \in DOMAIN room.last |-> Older(room.last[i])] = last
    BY <2>1
  <2>4. room' = [room EXCEPT !.last = last, !.due = due]
    BY <1>1, <2>3
  <2>5. due \in SUBSET {"block", "snapshot"}
    OBVIOUS
  <2>6. QED
    BY <2>2, <2>4, <2>5
<1>3. timer \in Ages /\ overlay' = [overlay EXCEPT !.timer = timer]
  <2>1. overlay.timer \in Ages
    BY <1>1 DEF SpeakingTyped, OverlaySet
  <2>2. timer \in Ages
    BY <1>1, <2>1, NeverIs DEF Ages
  <2>3. QED
    BY <1>1, <2>2
<1> HIDE DEF last, due, timer
<1>4. /\ RoomTyped(room') /\ (Works' <=> Works) /\ room'.list = room.list /\ room'.last = last
      /\ room'.loud = room.loud /\ room'.due = due
  BY <1>1, <1>2 DEF SpeakingTyped, RoomTyped, Works
<1>5. overlay' \in OverlaySet /\ overlay'.rows = overlay.rows /\ overlay'.front = overlay.front
  BY <1>1, <1>3 DEF SpeakingTyped, OverlaySet
<1>6. played' \in [Callers -> Ages]
      /\ \A p \in Callers : played[p] \in Ages /\ played'[p] = Older(played[p])
  BY <1>1, OlderIs DEF SpeakingTyped
<1>7. meters' \in Seq(MeterSet) /\ Len(meters') = Len(meters) /\ DOMAIN meters' = DOMAIN meters
      /\ \A i \in DOMAIN meters : meters'[i] = [meters[i] EXCEPT !.last = Older(@)]
  <2>1. DOMAIN meters = 1 .. Len(meters) /\ Len(meters) \in Nat
        /\ \A i \in 1 .. Len(meters) : meters[i] \in MeterSet
    BY <1>1 DEF SpeakingTyped
  <2>2. \A i \in 1 .. Len(meters) : [meters[i] EXCEPT !.last = Older(@)] \in MeterSet
    BY <2>1, OlderIs DEF MeterSet
  <2>3. /\ meters' = [i \in 1 .. Len(meters) |-> meters'[i]]
        /\ \A i \in 1 .. Len(meters) : meters'[i] = [meters[i] EXCEPT !.last = Older(@)]
    BY <1>1, <2>1
  <2>4. meters' \in Seq(MeterSet) /\ Len(meters') = Len(meters)
    BY <2>1, <2>2, <2>3, IsASeq
  <2>5. QED
    BY <2>1, <2>3, <2>4
<1>8. SpeakingTyped'
  BY <1>1, <1>4, <1>5, <1>6, <1>7 DEF SpeakingTyped
<1>9. CASE ~Works
  BY <1>4, <1>8, <1>9 DEF SpeakingInv, Sound
<1>10. CASE Works
  <2>1. CoreTrue /\ CardsTrue /\ RowsTrue(overlay, listed, meters, played, Lag)
        /\ room.list = listed
    BY <1>10, AtWork
  <2>2. Lag = 0 /\ Lag' = 1 /\ due = {"block", "snapshot"}
    BY <1>1, <1>4, <1>10 DEF Lag, due
  <2>3. ASSUME NEW p \in Callers PROVE played[p] \in Nat /\ played'[p] \in Nat /\ played'[p] <= played[p] + 1
    BY <1>6, OlderIs, NeverIs
  <2>4. CoreTrue'
    <3>1. ASSUME NEW i \in DOMAIN listed, room.loud[i] PROVE played'[listed[i]] <= 1
      <4>1. listed[i] \in Callers /\ played[listed[i]] <= 0
        BY <1>1, <1>10, <2>1, <3>1, AtWork DEF CoreTrue
      <4>2. QED
        BY <2>3, <4>1
    <3>2. QED
      BY <1>1, <1>4, <2>2, <3>1 DEF CoreTrue
  <2>5. MailTrue'
    BY <1>1 DEF MailTrue
  <2>6. ASSUME NEW i \in DOMAIN listed
        PROVE  /\ StreamRight(room'.last[i], meters'[i].stream, 1)
               /\ VoiceRight(meters'[i], played'[listed[i]], 1)
               /\ meters'[i].voice = meters[i].voice
    <3> DEFINE age == room.last[i]
               lit == meters[i].stream
               heard == played[listed[i]]
               shown == meters[i].last
    <3>1. /\ age \in Ages /\ listed[i] \in Callers /\ meters[i] \in MeterSet /\ shown \in Ages
          /\ i \in DOMAIN meters /\ heard \in Ages
      BY <1>10, AtWork
    <3>2. room'.last[i] = Older(age) /\ played'[listed[i]] = Older(heard)
      BY <1>4, <1>6, <2>1, <3>1 DEF last
    <3>3. meters'[i].stream = lit /\ meters'[i].voice = meters[i].voice
          /\ meters'[i].last = Older(shown)
      BY <1>7, <3>1 DEF MeterSet
    <3>4. StreamRight(age, lit, 0) /\ VoiceRight(meters[i], heard, 0)
      BY <2>1, <2>2 DEF CardsTrue
    <3> HIDE DEF age, lit, heard
    <3>5. StreamRight(Older(age), lit, 1)
      BY <3>1, <3>4, OlderIs, NeverIs DEF StreamRight
    <3>6. VoiceRight(meters'[i], Older(heard), 1)
      <4>1. meters[i].voice => heard <= 1
        BY <3>4 DEF VoiceRight
      <4>2. shown # Never => heard <= shown + 1
        BY <3>4 DEF VoiceRight
      <4> HIDE DEF shown
      <4>3. heard <= 1 => Older(heard) <= 2
        BY <3>1, OlderIs, NeverIs
      <4>4. Older(shown) # Never => Older(heard) <= Older(shown) + 1
        <5>1. shown \in Nat /\ heard \in Nat /\ Older(heard) \in Nat /\ Older(heard) <= heard + 1
          BY <3>1, OlderIs, NeverIs
        <5>2. Older(shown) # Never => shown # Never /\ Older(shown) = shown + 1
          BY <3>1, OlderIs DEF Older
        <5>3. QED
          BY <4>2, <5>1, <5>2
      <4>5. QED
        BY <3>3, <4>1, <4>3, <4>4 DEF VoiceRight
    <3>7. QED
      BY <3>2, <3>3, <3>5, <3>6 DEF lit
  <2>7. CardsTrue'
    BY <1>1, <2>2, <2>6 DEF CardsTrue
  <2>8. RowsTrue(overlay', listed', meters', played', Lag')
    <3>1. ASSUME NEW p \in overlay.rows PROVE p \in ToSet(listed) /\ played'[p] <= OsdHold + 1 + 1
      <4>1. p \in Callers /\ p \in ToSet(listed) /\ played[p] <= OsdHold + 1 + 0
        BY <1>1, <2>1, <2>2 DEF RowsTrue, SpeakingTyped, OverlaySet
      <4>2. QED
        BY <2>3, <4>1, NeverIs
    <3>2. QED
      BY <1>1, <1>5, <2>1, <2>2, <2>6, <3>1 DEF RowsTrue
  <2>9. QED
    BY <1>1, <1>4, <1>8, <2>1, <2>4, <2>5, <2>7, <2>8 DEF SpeakingInv, Sound
<1>11. QED
  BY <1>9, <1>10

-----------------------------------------------------------------------------
LEMMA InitSpeakingInv == Init => SpeakingInv
<1> SUFFICES ASSUME Init PROVE SpeakingInv
  OBVIOUS
<1>1. listed \in Seq(Callers) /\ Len(listed) \in Nat
  <2>1. SetToSeq(Callers) \in Seq(Callers)
    BY SpeakingAssumption, SetToSeqIs
  <2>2. QED
    BY <2>1 DEF Init
<1>2. /\ room = Room(listed, 1) /\ meters = Meters(Len(listed)) /\ overlay = Hidden(TRUE)
      /\ mail = NoMail /\ again = FALSE /\ packets = MaxVoice
      /\ played = [p \in Callers |-> Never]
  BY DEF Init
<1>3. /\ RoomTyped(room) /\ room.list = listed /\ room.due = {"block", "snapshot"}
      /\ room.last = [i \in DOMAIN listed |-> Never]
      /\ room.loud = [i \in DOMAIN listed |-> FALSE]
  BY <1>1, <1>2, RoomIs
<1>4. overlay \in OverlaySet /\ overlay.rows = {}
  BY <1>2, HiddenIs
<1>5. meters \in Seq(MeterSet) /\ Len(meters) = Len(listed)
      /\ \A i \in DOMAIN listed : meters[i] = Silent
  <2>1. DOMAIN listed = 1 .. Len(listed)
    BY <1>1
  <2>2. QED
    BY <1>1, <1>2, <2>1, MetersIs
<1>6. SpeakingTyped
  BY <1>1, <1>2, <1>3, <1>4, <1>5, NoMailIs, UnheardTyped, SpeakingAssumption DEF SpeakingTyped
<1>7. mail.posted = <<>> /\ Lag = 1
  BY <1>2, <1>3 DEF NoMail, Lag
<1>8. CoreTrue /\ MailTrue
  BY <1>3, <1>7 DEF CoreTrue, MailTrue
<1>9. CardsTrue
  BY <1>3, <1>5, <1>7, NeverIs DEF CardsTrue, StreamRight, VoiceRight, Silent
<1>10. RowsTrue(overlay, listed, meters, played, Lag)
  BY <1>4, <1>5 DEF RowsTrue, Silent
<1>11. QED
  BY <1>3, <1>6, <1>8, <1>9, <1>10 DEF SpeakingInv, Sound

LEMMA NextSpeakingInv == SpeakingInv /\ [Next]_vars => SpeakingInv'
<1> SUFFICES ASSUME SpeakingInv, [Next]_vars PROVE SpeakingInv'
  OBVIOUS
<1>1. ASSUME NEW i \in DOMAIN room.list, NEW loud \in BOOLEAN, VoiceArrives(i, loud) PROVE SpeakingInv'
  BY <1>1, VoiceArrivesStep
<1>2. ASSUME UNCHANGED packets, NEW i \in DOMAIN listed, RemoveListed(i) PROVE SpeakingInv'
  BY <1>2, RemoveListedStep
<1>3. ASSUME UNCHANGED packets, NEW p \in Callers, AddListed(p) PROVE SpeakingInv'
  BY <1>3, AddListedStep
<1>4. ASSUME UNCHANGED packets, Activated \/ HoldOver PROVE SpeakingInv'
  <2>1. overlay.front \in BOOLEAN /\ (~overlay.front) \in BOOLEAN
    BY DEF SpeakingInv, SpeakingTyped, OverlaySet
  <2>2. CASE Activated
    BY <1>4, <2>1, <2>2, RedrawnStep DEF Activated
  <2>3. CASE HoldOver
    BY <1>4, <2>1, <2>3, RedrawnStep DEF HoldOver
  <2>4. QED
    BY <1>4, <2>2, <2>3
<1>5. CASE UNCHANGED vars
  BY <1>5 DEF vars, SpeakingInv, SpeakingTyped, RoomTyped, Sound, Works, Lag, CoreTrue, MailTrue, CardsTrue
<1>6. QED
  BY <1>1, <1>2, <1>3, <1>4, <1>5, BlockPlayedStep, SnapshotWrittenStep, RoomEndsStep,
     ExitTakenStep, SnapshotTakenStep, IntervalPassesStep DEF Next

LEMMA Invariance == Spec => []SpeakingInv
  BY InitSpeakingInv, NextSpeakingInv, PTL DEF Spec

\* The contacts, their meters, the overlay and the Core's state keep their types; as many meters
\* are there as contacts, also behind a contact's removal.
THEOREM TypeCorrect == Spec => []SpeakingTyped
<1>1. SpeakingInv => SpeakingTyped
  BY DEF SpeakingInv
<1>2. QED
  BY <1>1, Invariance, PTL

\* Who is shown to speak, on the cards and in the overlay, is who was heard by the Core at work,
\* for any number of people, Cores and packets and any two holds, whatever the order in which
\* contacts come and go, Cores end and their last snapshots are read.
THEOREM HeardIsShown == Spec => []SpeakersShown
<1>1. SpeakingInv => SpeakersShown
  <2> SUFFICES ASSUME SpeakingInv, Works PROVE CardsFollow /\ OverlayFollows
    BY DEF SpeakersShown, Works
  <2>1. /\ CardsTrue /\ RowsTrue(overlay, listed, meters, played, Lag) /\ Lag \in {0, 1}
        /\ SpeakingTyped
    BY AtWork DEF SpeakingInv
  <2>2. CardsFollow
    <3> SUFFICES ASSUME NEW i \in DOMAIN listed
                 PROVE  /\ room.last[i] \in 2 .. StreamHold => meters[i].stream
                        /\ meters[i].stream => room.last[i] <= StreamHold + 1
                        /\ meters[i].voice => played[listed[i]] <= 2
      BY DEF CardsFollow
    <3>1. StreamRight(room.last[i], meters[i].stream, Lag) /\ VoiceRight(meters[i], played[listed[i]], Lag)
          /\ room.last[i] \in Nat /\ played[listed[i]] \in Nat
      BY <2>1, AtWork DEF CardsTrue
    <3>2. QED
      BY <2>1, <3>1, NeverIs DEF StreamRight, VoiceRight
  <2>3. OverlayFollows
    <3>1. ASSUME NEW p \in overlay.rows PROVE p \in ToSet(listed) /\ played[p] <= OsdHold + 2
      <4>1. p \in Callers /\ played[p] \in Nat
        BY <2>1, NeverIs DEF SpeakingTyped, OverlaySet
      <4>2. QED
        BY <2>1, <4>1, NeverIs DEF RowsTrue
    <3>2. QED
      BY <2>1, <3>1 DEF OverlayFollows, RowsTrue
  <2>4. QED
    BY <2>2, <2>3
<1>2. QED
  BY <1>1, Invariance, PTL
=============================================================================
