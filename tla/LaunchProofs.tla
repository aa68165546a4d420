---------------------------- MODULE LaunchProofs ----------------------------
(***************************************************************************)
(* Theorems about a Core's way from the window's settings to its room: what *)
(* is kept of the settings and what a running Core has of them (Launch),   *)
(* for all files, worlds and things typed that the assumptions of           *)
(* Preferences allow; what a Core makes of a command line of any number of *)
(* phrases; and the room (RoomSession), for every number of contacts and    *)
(* every way the Core may be started.                                      *)
(***************************************************************************)
EXTENDS Launch, RoomSession, FiniteSetTheorems, SequenceTheorems, WellFoundedInduction, TLAPS

-----------------------------------------------------------------------------
(* A contact and a line of the file.                                        *)

\* The ranges in numbers
LEMMA Ranges ==
    /\ \A n : n \in PortNumbers <=> n \in Int /\ 1 <= n /\ n <= 65535
    /\ \A n : n \in GainRange <=> n \in Int /\ 0 <= n /\ n <= 300000
    /\ \A n : n \in DbRange <=> n \in Int /\ 0 <= n /\ n <= 6000000
    /\ \A n : n \in LevelRange <=> n \in Int /\ 0 <= n /\ n <= 100000
    /\ \A n : n \in TimeRange <=> n \in Int /\ 0 <= n /\ n <= 1000
    /\ \A n : n \in ReleaseRange <=> n \in Int /\ 0 <= n /\ n <= 5000
    /\ \A n : n \in BufferRange <=> n \in Int /\ 5 <= n /\ n <= 100
    /\ \A n : n \in KeyRange <=> n \in Int /\ 1 <= n /\ n <= 255
<1>1. \A n : n \in PortNumbers <=> n \in Int /\ 1 <= n /\ n <= 65535
  <2> DEFINE m == 65535
  <2>1. m \in Int BY SMT
  <2>2. PortNumbers = 1 .. m BY SMT DEF PortNumbers
  <2> HIDE DEF m
  <2>3. \A n : n \in PortNumbers <=> n \in Int /\ 1 <= n /\ n <= m
    BY SMT, <2>1, <2>2
  <2>4. QED BY SMT, <2>3 DEF m
<1>2. \A n : n \in GainRange <=> n \in Int /\ 0 <= n /\ n <= 300000
  <2> DEFINE m == GainMax
  <2>1. m \in Int BY SMT DEF GainMax, Unit
  <2>2. GainRange = 0 .. m BY SMT DEF GainRange
  <2> HIDE DEF m
  <2>3. \A n : n \in GainRange <=> n \in Int /\ 0 <= n /\ n <= m
    BY SMT, <2>1, <2>2
  <2>4. QED BY SMT, <2>3 DEF m, GainMax, Unit
<1>3. \A n : n \in DbRange <=> n \in Int /\ 0 <= n /\ n <= 6000000
  <2> DEFINE m == 60 * Unit
  <2>1. m \in Int BY SMT DEF Unit
  <2>2. DbRange = 0 .. m BY SMT DEF DbRange
  <2> HIDE DEF m
  <2>3. \A n : n \in DbRange <=> n \in Int /\ 0 <= n /\ n <= m
    BY SMT, <2>1, <2>2
  <2>4. QED BY SMT, <2>3 DEF m, Unit
<1>4. \A n : n \in LevelRange <=> n \in Int /\ 0 <= n /\ n <= 100000
  <2> DEFINE m == Unit
  <2>1. m \in Int BY SMT DEF Unit
  <2>2. LevelRange = 0 .. m BY SMT DEF LevelRange
  <2> HIDE DEF m
  <2>3. \A n : n \in LevelRange <=> n \in Int /\ 0 <= n /\ n <= m
    BY SMT, <2>1, <2>2
  <2>4. QED BY SMT, <2>3 DEF m, Unit
<1>5. \A n : n \in TimeRange <=> n \in Int /\ 0 <= n /\ n <= 1000
  <2> DEFINE m == 1000
  <2>1. m \in Int BY SMT
  <2>2. TimeRange = 0 .. m BY SMT DEF TimeRange
  <2> HIDE DEF m
  <2>3. \A n : n \in TimeRange <=> n \in Int /\ 0 <= n /\ n <= m
    BY SMT, <2>1, <2>2
  <2>4. QED BY SMT, <2>3 DEF m
<1>6. \A n : n \in ReleaseRange <=> n \in Int /\ 0 <= n /\ n <= 5000
  <2> DEFINE m == 5000
  <2>1. m \in Int BY SMT
  <2>2. ReleaseRange = 0 .. m BY SMT DEF ReleaseRange
  <2> HIDE DEF m
  <2>3. \A n : n \in ReleaseRange <=> n \in Int /\ 0 <= n /\ n <= m
    BY SMT, <2>1, <2>2
  <2>4. QED BY SMT, <2>3 DEF m
<1>7. \A n : n \in BufferRange <=> n \in Int /\ 5 <= n /\ n <= 100
  BY DEF BufferRange
<1>8. \A n : n \in KeyRange <=> n \in Int /\ 1 <= n /\ n <= 255
  BY DEF KeyRange
<1>9. QED BY <1>1, <1>2, <1>3, <1>4, <1>5, <1>6, <1>7, <1>8

LEMMA ContactFields ==
    ASSUME NEW c \in Contacts
    PROVE  /\ c.name \in Tokens /\ c.host \in Tokens /\ c.port \in PortNumbers
           /\ c.muted \in BOOLEAN /\ c.ptt \in BOOLEAN /\ c.selfDuck \in BOOLEAN
           /\ c.gain \in GainRange /\ c.db \in DbRange /\ c.threshold \in LevelRange
           /\ c.attack \in TimeRange /\ c.hold \in TimeRange /\ c.release \in ReleaseRange
           /\ c.buffer \in BufferRange /\ c.hotkey \in HotkeyRange
  BY DEF Contacts

LEMMA GainSet ==
    ASSUME NEW c \in Contacts, NEW g \in GainRange
    PROVE  [c EXCEPT !.gain = g] \in Contacts
  BY DEF Contacts

LEMMA DbSet ==
    ASSUME NEW c \in Contacts, NEW d \in DbRange
    PROVE  [c EXCEPT !.db = d] \in Contacts
  BY DEF Contacts

\* Contacts that are the same but for their gain and their decibels (SettingsSurvive)
Like(c, d) == [c EXCEPT !.gain = 0, !.db = 0] = [d EXCEPT !.gain = 0, !.db = 0]

LEMMA LikeByFields ==
    ASSUME NEW c \in Contacts, NEW d \in Contacts,
           c.name = d.name, c.host = d.host, c.port = d.port, c.selfDuck = d.selfDuck,
           c.threshold = d.threshold, c.attack = d.attack, c.hold = d.hold,
           c.release = d.release, c.muted = d.muted, c.hotkey = d.hotkey, c.ptt = d.ptt,
           c.buffer = d.buffer
    PROVE  Like(c, d)
<1>1. 0 \in GainRange /\ 0 \in DbRange BY Ranges
<1> DEFINE x == [c EXCEPT !.gain = 0, !.db = 0]
           y == [d EXCEPT !.gain = 0, !.db = 0]
<1>2. x \in Contacts /\ y \in Contacts
  <2>1. /\ x = [[c EXCEPT !.gain = 0] EXCEPT !.db = 0]
        /\ y = [[d EXCEPT !.gain = 0] EXCEPT !.db = 0]
    OBVIOUS
  <2> HIDE DEF x, y
  <2>2. [c EXCEPT !.gain = 0] \in Contacts /\ [d EXCEPT !.gain = 0] \in Contacts
    BY Zenon, <1>1, GainSet
  <2>3. QED BY Zenon, <1>1, <2>1, <2>2, DbSet
<1>3. /\ x.gain = 0 /\ x.db = 0 /\ x.name = c.name /\ x.host = c.host /\ x.port = c.port
      /\ x.selfDuck = c.selfDuck /\ x.threshold = c.threshold /\ x.attack = c.attack
      /\ x.hold = c.hold /\ x.release = c.release /\ x.muted = c.muted
      /\ x.hotkey = c.hotkey /\ x.ptt = c.ptt /\ x.buffer = c.buffer
  BY DEF Contacts
<1>4. /\ y.gain = 0 /\ y.db = 0 /\ y.name = d.name /\ y.host = d.host /\ y.port = d.port
      /\ y.selfDuck = d.selfDuck /\ y.threshold = d.threshold /\ y.attack = d.attack
      /\ y.hold = d.hold /\ y.release = d.release /\ y.muted = d.muted
      /\ y.hotkey = d.hotkey /\ y.ptt = d.ptt /\ y.buffer = d.buffer
  BY DEF Contacts
<1> HIDE DEF x, y
<1>5. x = y BY <1>2, <1>3, <1>4 DEF Contacts
<1>6. QED BY Zenon, <1>5 DEF Like, x, y

\* What is written is a line, and any line is read as a contact.
LEMMA LineOf == ASSUME NEW c \in Contacts PROVE ContactLine(c) \in ContactLines
<1> DEFINE g == Rounded(c.gain, 100)
           d == Rounded(c.db, 100)
           h == encode_hotkey(c.hotkey)
<1>1. c.gain \in Int /\ c.db \in Int /\ c.port \in Int /\ c.threshold \in Int
  BY ContactFields, Ranges
<1>2. g \in Int /\ d \in Int BY <1>1 DEF Rounded
<1>3. h \in [modifiers : Nat, vk : Nat]
  <2>1. c.hotkey \in HotkeyRange BY ContactFields
  <2>2. QED BY <2>1, Ranges DEF encode_hotkey, NoHotkey, HotkeyRange
<1>4. c.attack \in Int /\ c.hold \in Int /\ c.release \in Int /\ c.buffer \in Int
  BY ContactFields, Ranges
<1>5. /\ c.name \in Tokens /\ c.host \in Tokens
      /\ c.muted \in BOOLEAN /\ c.ptt \in BOOLEAN /\ c.selfDuck \in BOOLEAN
  BY ContactFields
<1>6. 14 \in 9 .. 14 OBVIOUS
<1>7. ContactLine(c) =
    [name |-> c.name, host |-> c.host, port |-> c.port, gain |-> g,
     selfDuck |-> c.selfDuck, db |-> d,
     threshold |-> c.threshold, attack |-> c.attack, hold |-> c.hold,
     release |-> c.release, muted |-> c.muted, hotkey |-> h, ptt |-> c.ptt,
     buffer |-> c.buffer, fields |-> 14]
  BY DEF ContactLine
<1> HIDE DEF g, d, h
<1>8. QED BY <1>1, <1>2, <1>3, <1>4, <1>5, <1>6, <1>7 DEF ContactLines

LEMMA LineFields ==
    ASSUME NEW l \in ContactLines
    PROVE  /\ l.name \in Tokens /\ l.host \in Tokens /\ l.port \in Int /\ l.gain \in Int
           /\ l.muted \in BOOLEAN /\ l.ptt \in BOOLEAN /\ l.selfDuck \in BOOLEAN
           /\ l.db \in Int /\ l.threshold \in Int /\ l.attack \in Int /\ l.hold \in Int
           /\ l.release \in Int /\ l.buffer \in Int
           /\ l.hotkey \in [modifiers : Nat, vk : Nat] /\ l.fields \in 9 .. 14
  BY DEF ContactLines

\* Every number is brought into its range (Clamp).
LEMMA Clamped ==
    ASSUME NEW v \in Int
    PROVE  /\ Clamp(v, 1, 65535) \in PortNumbers /\ (v \in PortNumbers => Clamp(v, 1, 65535) = v)
           /\ Clamp(v, 0, 3 * Unit) \in GainRange /\ (v \in GainRange => Clamp(v, 0, 3 * Unit) = v)
           /\ Clamp(v, 0, 60 * Unit) \in DbRange /\ (v \in DbRange => Clamp(v, 0, 60 * Unit) = v)
           /\ Clamp(v, 0, Unit) \in LevelRange /\ (v \in LevelRange => Clamp(v, 0, Unit) = v)
           /\ Clamp(v, 0, 1000) \in TimeRange /\ (v \in TimeRange => Clamp(v, 0, 1000) = v)
           /\ Clamp(v, 0, 5000) \in ReleaseRange /\ (v \in ReleaseRange => Clamp(v, 0, 5000) = v)
           /\ Clamp(v, 5, 100) \in BufferRange /\ (v \in BufferRange => Clamp(v, 5, 100) = v)
  BY Ranges DEF Clamp, Unit

LEMMA LineRead == ASSUME NEW l \in ContactLines PROVE parse_contact(l) \in Contacts
<1> DEFINE d == DefaultContact
           h == IF l.fields >= 12 THEN decode_hotkey(l.hotkey) ELSE d.hotkey
           m == IF l.fields >= 11 THEN l.muted ELSE d.muted
           p == IF l.fields >= 13 THEN l.ptt ELSE d.ptt
           b == IF l.fields >= 14 THEN Clamp(l.buffer, 5, 100) ELSE d.buffer
           n == IF l.fields = 9 THEN l.host ELSE l.name
           numbers == [port |-> Clamp(l.port, 1, 65535), gain |-> Clamp(l.gain, 0, 3 * Unit),
                       db |-> Clamp(l.db, 0, 60 * Unit), threshold |-> Clamp(l.threshold, 0, Unit),
                       attack |-> Clamp(l.attack, 0, 1000), hold |-> Clamp(l.hold, 0, 1000),
                       release |-> Clamp(l.release, 0, 5000)]
<1>1. /\ d.muted \in BOOLEAN /\ d.ptt \in BOOLEAN /\ d.buffer = 20
      /\ d.hotkey = NoHotkey
  BY DEF DefaultContact
<1>2. h \in HotkeyRange
  <2>1. NoHotkey \in HotkeyRange BY Ranges DEF NoHotkey, HotkeyRange
  <2>2. l.hotkey.modifiers \in Nat /\ l.hotkey.vk \in Nat
    BY LineFields
  <2>3. l.hotkey.modifiers % 16 \in 0 .. 15 BY <2>2
  <2>4. decode_hotkey(l.hotkey) \in HotkeyRange
    BY <2>1, <2>2, <2>3, Ranges DEF decode_hotkey, HotkeyRange
  <2>5. QED BY Zenon, <1>1, <2>1, <2>4
<1>3. m \in BOOLEAN /\ p \in BOOLEAN /\ n \in Tokens
  BY Zenon, <1>1, LineFields
<1>4. b \in BufferRange
  <2>1. 20 \in BufferRange BY Ranges
  <2>2. QED BY <1>1, <2>1, LineFields, Clamped
<1>5. /\ numbers.port \in PortNumbers /\ numbers.gain \in GainRange /\ numbers.db \in DbRange
      /\ numbers.threshold \in LevelRange /\ numbers.attack \in TimeRange
      /\ numbers.hold \in TimeRange /\ numbers.release \in ReleaseRange
  BY LineFields, Clamped
<1>6. l.host \in Tokens /\ l.selfDuck \in BOOLEAN BY LineFields
<1>7. parse_contact(l) =
        [name |-> n, host |-> l.host, port |-> numbers.port, gain |-> numbers.gain,
         selfDuck |-> l.selfDuck, db |-> numbers.db, threshold |-> numbers.threshold,
         attack |-> numbers.attack, hold |-> numbers.hold, release |-> numbers.release,
         muted |-> m, hotkey |-> h, ptt |-> p, buffer |-> b]
  BY DEF parse_contact
<1> HIDE DEF d, h, m, p, b, n, numbers
<1>8. QED BY <1>2, <1>3, <1>4, <1>5, <1>6, <1>7 DEF Contacts

\* Half a step of rounding, within the range
LEMMA RoundedRanges ==
    ASSUME NEW v \in Int
    PROVE  /\ v \in GainRange => Rounded(v, 100) \in GainRange
           /\ v \in DbRange => Rounded(v, 100) \in DbRange
           /\ Rounded(v, 100) \in Int /\ Near(Rounded(v, 100), v, 50)
  BY Ranges DEF Rounded, Near

LEMMA KeyReadBack == ASSUME NEW k \in HotkeyRange PROVE decode_hotkey(encode_hotkey(k)) = k
<1>1. CASE k = NoHotkey
  BY <1>1 DEF decode_hotkey, encode_hotkey, NoHotkey
<1>2. CASE k \in [modifiers : 0 .. 15, vk : KeyRange]
  <2>1. k.modifiers \in 0 .. 15 /\ k.vk \in KeyRange /\ k = [modifiers |-> k.modifiers, vk |-> k.vk]
    BY <1>2
  <2>2. k.vk # 0 /\ k.vk \in 1 .. 255 /\ k.modifiers % 16 = k.modifiers
    BY <2>1 DEF KeyRange
  <2>3. encode_hotkey(k) = k BY <2>2 DEF encode_hotkey
  <2>4. QED BY Zenon, <2>1, <2>2, <2>3 DEF decode_hotkey
<1>3. QED BY <1>1, <1>2 DEF HotkeyRange

\* A contact is read back as it was written, but for the digits its line leaves out.
LEMMA ContactReadBack ==
    ASSUME NEW c \in Contacts
    PROVE  /\ parse_contact(ContactLine(c)) \in Contacts /\ Like(parse_contact(ContactLine(c)), c)
           /\ Near(parse_contact(ContactLine(c)).gain, c.gain, 50)
           /\ Near(parse_contact(ContactLine(c)).db, c.db, 50)
<1> DEFINE g == Rounded(c.gain, 100)
           d == Rounded(c.db, 100)
           l == ContactLine(c)
<1>1. /\ c.port \in Int /\ c.gain \in Int /\ c.db \in Int /\ c.threshold \in Int
      /\ c.attack \in Int /\ c.hold \in Int /\ c.release \in Int /\ c.buffer \in Int
  BY ContactFields, Ranges
<1>2. g \in GainRange /\ d \in DbRange /\ Near(g, c.gain, 50) /\ Near(d, c.db, 50)
  BY <1>1, ContactFields, RoundedRanges
<1>3. g \in Int /\ d \in Int BY <1>1, RoundedRanges
<1>4. /\ l.name = c.name /\ l.host = c.host /\ l.port = c.port /\ l.gain = g /\ l.db = d
      /\ l.selfDuck = c.selfDuck /\ l.threshold = c.threshold /\ l.attack = c.attack
      /\ l.hold = c.hold /\ l.release = c.release /\ l.muted = c.muted /\ l.ptt = c.ptt
      /\ l.hotkey = encode_hotkey(c.hotkey) /\ l.buffer = c.buffer /\ l.fields = 14
  BY DEF ContactLine
<1> HIDE DEF g, d, l
<1>5. /\ Clamp(l.port, 1, 65535) = c.port /\ Clamp(l.gain, 0, 3 * Unit) = g
      /\ Clamp(l.db, 0, 60 * Unit) = d /\ Clamp(l.threshold, 0, Unit) = c.threshold
      /\ Clamp(l.attack, 0, 1000) = c.attack /\ Clamp(l.hold, 0, 1000) = c.hold
      /\ Clamp(l.release, 0, 5000) = c.release /\ Clamp(l.buffer, 5, 100) = c.buffer
  BY <1>1, <1>2, <1>3, <1>4, ContactFields, Clamped
<1>6. decode_hotkey(l.hotkey) = c.hotkey
  BY <1>4, ContactFields, KeyReadBack
<1>7. /\ parse_contact(l).name = c.name /\ parse_contact(l).host = c.host
      /\ parse_contact(l).port = c.port /\ parse_contact(l).gain = g
      /\ parse_contact(l).selfDuck = c.selfDuck /\ parse_contact(l).db = d
      /\ parse_contact(l).threshold = c.threshold /\ parse_contact(l).attack = c.attack
      /\ parse_contact(l).hold = c.hold /\ parse_contact(l).release = c.release
      /\ parse_contact(l).muted = c.muted /\ parse_contact(l).hotkey = c.hotkey
      /\ parse_contact(l).ptt = c.ptt /\ parse_contact(l).buffer = c.buffer
  BY <1>4, <1>5, <1>6 DEF parse_contact
<1>8. l \in ContactLines BY Zenon, LineOf DEF l
<1>9. parse_contact(l) \in Contacts BY Zenon, <1>8, LineRead
<1>10. Like(parse_contact(l), c) BY <1>7, <1>9, LikeByFields
<1>11. Near(parse_contact(l).gain, c.gain, 50) /\ Near(parse_contact(l).db, c.db, 50)
  BY <1>2, <1>7
<1>12. QED BY Zenon, <1>9, <1>10, <1>11 DEF l

-----------------------------------------------------------------------------
(* Files and settings.                                                      *)

\* The fields of AppSettings
Fields == {"language", "port", "adapter", "devices", "contacts"}

LEMMA FieldsAre == DOMAIN DefaultSettings = Fields
  BY DEF DefaultSettings, Fields

\* Settings as load_settings gives them, and as the window keeps them
IsSettings(s) == s.port \in PortNumbers /\ s.contacts \in Seq(Contacts)
IsApp(a) == DOMAIN a = Fields \cup {"bind"} /\ IsSettings(a)

\* What SettingsSurvive says of a file and the settings in memory
Survives(file, a) ==
    LET back == parse_settings(file)
    IN  /\ back.language = a.language /\ back.port = a.port
        /\ back.adapter = a.adapter
        /\ DOMAIN back.contacts = DOMAIN a.contacts
        /\ \A i \in DOMAIN a.contacts :
            /\ Like(back.contacts[i], a.contacts[i])
            /\ Near(back.contacts[i].gain, a.contacts[i].gain, 50)
            /\ Near(back.contacts[i].db, a.contacts[i].db, 50)

LEMMA MapSeq ==
    ASSUME NEW S, NEW T, NEW s \in Seq(S), NEW t, t = [k \in DOMAIN s |-> t[k]],
           \A k \in DOMAIN s : t[k] \in T
    PROVE  t \in Seq(T) /\ DOMAIN t = DOMAIN s
  OBVIOUS

LEMMA FileRead ==
    ASSUME NEW f, IsFile(f)
    PROVE  /\ DOMAIN parse_settings(f) = Fields
           /\ parse_settings(f).language = f.language /\ parse_settings(f).adapter = f.adapter
           /\ f.port \in PortNumbers => parse_settings(f).port = f.port
           /\ parse_settings(f).contacts =
                [k \in DOMAIN f.contacts |-> parse_contact(f.contacts[k])]
           /\ parse_settings(f).contacts \in Seq(Contacts)
           /\ IsSettings(parse_settings(f))
<1> DEFINE p == parse_settings(f)
<1>1. DOMAIN f = Fields /\ f.port \in Int /\ f.contacts \in Seq(ContactLines)
  BY Zenon, FieldsAre DEF IsFile
<1>2. /\ DOMAIN p = Fields /\ p.language = f.language /\ p.adapter = f.adapter
      /\ p.port = Clamp(f.port, 1, 65535)
      /\ p.contacts = [k \in DOMAIN f.contacts |-> parse_contact(f.contacts[k])]
  BY <1>1 DEF parse_settings, Fields
<1>3. \A k \in DOMAIN f.contacts : parse_contact(f.contacts[k]) \in Contacts
  <2>1. \A k \in DOMAIN f.contacts : f.contacts[k] \in ContactLines
    BY <1>1
  <2>2. QED BY Zenon, <2>1, LineRead
<1>4. p.contacts \in Seq(Contacts)
  <2> DEFINE t == p.contacts
             s == f.contacts
  <2>1. t = [k \in DOMAIN s |-> t[k]] /\ \A k \in DOMAIN s : t[k] \in Contacts
    BY <1>2, <1>3
  <2> HIDE DEF t, s
  <2>2. s \in Seq(ContactLines) BY Zenon, <1>1 DEF s
  <2>3. t \in Seq(Contacts) BY Zenon, <2>1, <2>2, MapSeq
  <2>4. QED BY Zenon, <2>3 DEF t
<1>5. p.port \in PortNumbers BY <1>1, <1>2, Clamped
<1>6. IsSettings(p) BY Zenon, <1>4, <1>5 DEF IsSettings
<1>7. f.port \in PortNumbers => p.port = f.port BY <1>1, <1>2, Clamped
<1>8. QED BY <1>2, <1>4, <1>6, <1>7

LEMMA FileWritten ==
    ASSUME NEW s, DOMAIN s = Fields, IsSettings(s)
    PROVE  IsFile(serialize_settings(s)) /\ Survives(serialize_settings(s), s)
<1> DEFINE f == serialize_settings(s)
           p == parse_settings(f)
<1>1. /\ DOMAIN f = Fields /\ f.language = s.language /\ f.adapter = s.adapter /\ f.port = s.port
      /\ f.contacts = [k \in DOMAIN s.contacts |-> ContactLine(s.contacts[k])]
  BY DEF serialize_settings, Fields
<1>2. s.port \in PortNumbers /\ s.contacts \in Seq(Contacts)
  BY Zenon DEF IsSettings
<1>3. \A k \in DOMAIN s.contacts : s.contacts[k] \in Contacts BY <1>2
<1>4. \A k \in DOMAIN s.contacts : ContactLine(s.contacts[k]) \in ContactLines
  BY Zenon, <1>3, LineOf
<1>5. f.contacts \in Seq(ContactLines)
  <2> DEFINE t == f.contacts
             u == s.contacts
  <2>1. t = [k \in DOMAIN u |-> t[k]] /\ \A k \in DOMAIN u : t[k] \in ContactLines
    BY <1>1, <1>4
  <2> HIDE DEF t, u
  <2>2. u \in Seq(Contacts) BY Zenon, <1>2 DEF u
  <2>3. t \in Seq(ContactLines) BY Zenon, <2>1, <2>2, MapSeq
  <2>4. QED BY Zenon, <2>3 DEF t
<1>6. f.port \in Int BY <1>1, <1>2, Ranges
<1> HIDE DEF f
<1>7. IsFile(f)
  <2>1. DOMAIN f = Fields BY <1>1
  <2>2. QED BY Zenon, <2>1, <1>5, <1>6, FieldsAre DEF IsFile
<1>8. /\ p.language = f.language /\ p.adapter = f.adapter
      /\ f.port \in PortNumbers => p.port = f.port
      /\ p.contacts = [k \in DOMAIN f.contacts |-> parse_contact(f.contacts[k])]
  BY Zenon, <1>7, FileRead
<1>9. p.port = s.port BY <1>1, <1>2, <1>8
<1> HIDE DEF p
<1>10. /\ DOMAIN p.contacts = DOMAIN s.contacts
       /\ \A k \in DOMAIN s.contacts : p.contacts[k] = parse_contact(ContactLine(s.contacts[k]))
  BY <1>1, <1>8
<1>11. ASSUME NEW i \in DOMAIN s.contacts
       PROVE  /\ Like(p.contacts[i], s.contacts[i])
              /\ Near(p.contacts[i].gain, s.contacts[i].gain, 50)
              /\ Near(p.contacts[i].db, s.contacts[i].db, 50)
  <2>1. s.contacts[i] \in Contacts BY Zenon, <1>3
  <2>2. QED BY Zenon, <1>10, <2>1, ContactReadBack
<1>12. Survives(f, s)
  <2>1. p.language = s.language /\ p.adapter = s.adapter BY <1>1, <1>8
  <2>2. QED BY Zenon, <2>1, <1>9, <1>10, <1>11 DEF Survives, p
<1>13. QED BY Zenon, <1>7, <1>12 DEF f

LEMMA SurvivesLike ==
    ASSUME NEW file, NEW a, NEW b, Survives(file, a), a.language = b.language, a.port = b.port,
           a.adapter = b.adapter, a.contacts = b.contacts
    PROVE  Survives(file, b)
  BY Zenon DEF Survives

\* What save_settings writes is read back.
LEMMA SavedIs ==
    ASSUME NEW a, IsApp(a), NEW lists
    PROVE  IsFile(Saved(a, lists)) /\ Survives(Saved(a, lists), a)
<1> DEFINE s == [f \in DOMAIN DefaultSettings |->
                    IF f = "devices" THEN Chosen(lists) ELSE a[f]]
<1>1. Saved(a, lists) = serialize_settings(s) BY Zenon DEF Saved
<1>2. /\ DOMAIN s = Fields /\ s.language = a.language /\ s.port = a.port
      /\ s.adapter = a.adapter /\ s.contacts = a.contacts
  BY FieldsAre DEF Fields
<1> HIDE DEF s
<1>3. IsSettings(s) BY <1>2 DEF IsApp, IsSettings
<1>4. IsFile(serialize_settings(s)) /\ Survives(serialize_settings(s), s)
  BY Zenon, <1>2, <1>3, FileWritten
<1>5. QED BY Zenon, <1>1, <1>2, <1>4, SurvivesLike

LEMMA LikeItself ==
    ASSUME NEW c \in Contacts
    PROVE  Like(c, c) /\ Near(c.gain, c.gain, 50) /\ Near(c.db, c.db, 50)
<1>1. c.gain \in Int /\ c.db \in Int BY ContactFields, Ranges
<1>2. QED BY <1>1 DEF Like, Near

\* load_settings
LEMMA LoadedIs ==
    ASSUME NEW f, IsFile(f)
    PROVE  /\ IsApp(Remembered(parse_settings(f)))
           /\ Survives(f, Remembered(parse_settings(f)))
           /\ IsFile(serialize_settings(parse_settings(f)))
           /\ Survives(serialize_settings(parse_settings(f)), Remembered(parse_settings(f)))
<1> DEFINE p == parse_settings(f)
           a == Remembered(p)
<1>1. DOMAIN p = Fields /\ IsSettings(p) BY Zenon, FileRead
<1> HIDE DEF p
<1>2. /\ DOMAIN a = Fields \cup {"bind"} /\ a.language = p.language /\ a.port = p.port
      /\ a.adapter = p.adapter /\ a.contacts = p.contacts
  BY DEF Remembered, Fields
<1> HIDE DEF a
<1>3. IsApp(a) BY <1>1, <1>2 DEF IsApp, IsSettings
<1>4. p.contacts \in Seq(Contacts) /\ \A i \in DOMAIN p.contacts : p.contacts[i] \in Contacts
  BY <1>1 DEF IsSettings
<1>5. Survives(f, a)
  <2>1. \A i \in DOMAIN a.contacts :
          /\ Like(p.contacts[i], a.contacts[i])
          /\ Near(p.contacts[i].gain, a.contacts[i].gain, 50)
          /\ Near(p.contacts[i].db, a.contacts[i].db, 50)
    BY Zenon, <1>2, <1>4, LikeItself
  <2>2. p = parse_settings(f) BY Zenon DEF p
  <2>3. QED BY Zenon, <1>2, <2>1, <2>2 DEF Survives
<1>6. IsFile(serialize_settings(p)) /\ Survives(serialize_settings(p), p)
  BY Zenon, <1>1, FileWritten
<1>7. Survives(serialize_settings(p), a)
  BY Zenon, <1>2, <1>6, SurvivesLike
<1>8. QED BY Zenon, <1>3, <1>5, <1>6, <1>7 DEF a, p

LEMMA DefaultIs == IsApp(Remembered(DefaultSettings))
<1>1. 49740 \in PortNumbers BY Ranges
<1> DEFINE a == Remembered(DefaultSettings)
<1>2. DOMAIN a = Fields \cup {"bind"} /\ a.port = DefaultUdpPort /\ a.contacts = <<>>
  BY DEF Remembered, Fields, DefaultSettings
<1> HIDE DEF a
<1>3. a.port \in PortNumbers BY <1>1, <1>2 DEF DefaultUdpPort
<1>4. a.contacts \in Seq(Contacts) BY <1>2
<1>5. QED BY Zenon, <1>2, <1>3, <1>4 DEF IsApp, IsSettings, a

-----------------------------------------------------------------------------
(* Starting a Core.                                                         *)

\* What may lie where a settings file is looked for, and one that says what the settings are
Stored(d) == d = Missing \/ IsFile(d)
Tells(d, a) == d # Missing => Survives(d, a)

LEMMA ResolvedIs ==
    ASSUME NEW a, IsApp(a)
    PROVE  /\ IsApp(Resolved(a)) /\ Resolved(a).contacts = a.contacts
           /\ ~ResolveSaves(a) =>
                /\ Resolved(a).language = a.language /\ Resolved(a).port = a.port
                /\ Resolved(a).adapter = a.adapter
<1> DEFINE address == resolve_network_bind_address(world.adapters, a.adapter)
<1>1. DOMAIN a = Fields \cup {"bind"} /\ a.port \in PortNumbers /\ a.contacts \in Seq(Contacts)
  BY Zenon DEF IsApp, IsSettings
<1> DEFINE b == [a EXCEPT !.adapter = Empty, !.bind = EveryAddress]
           c == [a EXCEPT !.bind = CHOOSE x \in address : TRUE]
<1>2. DOMAIN b = Fields \cup {"bind"} /\ b.port = a.port /\ b.contacts = a.contacts
  BY <1>1 DEF Fields
<1>3. /\ DOMAIN c = Fields \cup {"bind"} /\ c.port = a.port /\ c.contacts = a.contacts
      /\ c.language = a.language /\ c.adapter = a.adapter
  BY <1>1 DEF Fields
<1>4. Resolved(a) = IF address = {} THEN b ELSE c
  BY Zenon DEF Resolved
<1>5. ResolveSaves(a) <=> address = {} BY Zenon DEF ResolveSaves
<1> HIDE DEF b, c, address
<1>6. IsApp(b) /\ IsApp(c)
  BY Zenon, <1>1, <1>2, <1>3 DEF IsApp, IsSettings
<1>7. QED BY Zenon, <1>2, <1>3, <1>4, <1>5, <1>6

\* What a step leaves behind that makes a the settings and d the file, perhaps by a new Core
Leaves(a, d) ==
    /\ IsApp(app') /\ app'.contacts = a.contacts /\ Stored(disk')
    /\ Tells(d, a) => Tells(disk', app')

LEMMA StartLeaves ==
    ASSUME NEW a, IsApp(a), NEW d, Stored(d), NEW lists, StartCore(a, lists, d)
    PROVE  Leaves(a, d)
<1> DEFINE b == Resolved(a)
<1>1. app' = b /\ disk' = IF ResolveSaves(a) THEN Saved(b, lists) ELSE d
  BY Zenon DEF StartCore
<1>2. IsApp(b) /\ b.contacts = a.contacts BY Zenon, ResolvedIs
<1>3. CASE ResolveSaves(a)
  <2>1. IsFile(disk') /\ Survives(disk', b)
    BY Zenon, <1>1, <1>2, <1>3, SavedIs
  <2>2. QED BY Zenon, <1>1, <1>2, <2>1 DEF Leaves, Stored, Tells
<1>4. CASE ~ResolveSaves(a)
  <2>1. b.language = a.language /\ b.port = a.port /\ b.adapter = a.adapter
    BY Zenon, <1>4, ResolvedIs
  <2>2. disk' = d BY Zenon, <1>1, <1>4
  <2>3. Survives(d, a) => Survives(d, b)
    BY Zenon, <1>2, <2>1, SurvivesLike
  <2>4. QED BY Zenon, <1>1, <1>2, <2>2, <2>3 DEF Leaves, Stored, Tells
<1>5. QED BY Zenon, <1>3, <1>4

LEMMA RestartLeaves ==
    ASSUME NEW a, IsApp(a), NEW d, Stored(d), NEW lists, RestartCore(a, lists, d)
    PROVE  Leaves(a, d)
<1>1. CASE app' = a /\ disk' = d BY Zenon, <1>1 DEF Leaves
<1>2. CASE StartCore(a, lists, d) BY Zenon, <1>2, StartLeaves
<1>3. QED BY Zenon, <1>1, <1>2 DEF RestartCore

LEMMA TellLeaves ==
    ASSUME NEW a, IsApp(a), NEW d, Stored(d), NEW i, TellOrRestart(i, a, d)
    PROVE  Leaves(a, d)
<1>1. CASE app' = a /\ disk' = d BY Zenon, <1>1 DEF Leaves
<1>2. CASE RestartCore(a, combos, d) BY Zenon, <1>2, RestartLeaves
<1>3. QED BY Zenon, <1>1, <1>2 DEF TellOrRestart

-----------------------------------------------------------------------------
(* What the contact dialog gives.                                           *)

\* Only numbers read as numbers.
LEMMA TokenNumbers ==
    ASSUME NEW t \in Tokens
    PROVE  t[1] \in {"num", "dec"} => t[2] \in Int
<1>1. CASE t \in Plain BY <1>1 DEF Plain
<1>2. CASE t \in {"joined"} \X STRING \X Plain BY <1>2
<1>3. QED BY <1>1, <1>2 DEF Tokens

LEMMA NumbersAreTokens ==
    ASSUME NEW n \in Int
    PROVE  Num(n) \in Tokens /\ Dec(n) \in Tokens
  BY DEF Num, Dec, Tokens, Plain

LEMMA DecimalsAreTokens ==
    ASSUME NEW v \in Int, NEW step \in {10, 1000}
    PROVE  format_decimal(v, step) \in Tokens
<1> DEFINE r == Rounded(v, step)
<1>1. r \in Int /\ r \div Unit \in Int BY DEF Rounded, Unit
<1> HIDE DEF r
<1>2. Num(r \div Unit) \in Tokens /\ Dec(r) \in Tokens
  BY Zenon, <1>1, NumbersAreTokens
<1>3. QED BY Zenon, <1>2 DEF format_decimal, r

LEMMA PortRead ==
    ASSUME NEW t \in Tokens
    PROVE  parse_port(t) = 0 \/ parse_port(t) \in PortNumbers
<1> DEFINE m == 65535
           w == Whole(t, 1, m)
<1>1. PortNumbers = 1 .. m BY DEF PortNumbers
<1>2. parse_port(t) = IF w = {} THEN 0 ELSE t[2] BY DEF parse_port
<1> HIDE DEF m
<1>3. w = IF t[1] = "num" THEN {t[2]} \cap (1 .. m) ELSE {}
  BY Zenon DEF Whole
<1> HIDE DEF w
<1>4. w # {} => t[2] \in PortNumbers BY Zenon, <1>1, <1>3
<1>5. QED BY <1>2, <1>4

LEMMA DecimalsRead ==
    ASSUME NEW t \in Tokens
    PROVE  /\ parse_double(t, Unit, 0, GainMax) \in GainRange
           /\ parse_double(t, 12 * Unit, 0, 60 * Unit) \in DbRange
           /\ parse_double(t, 20000, 0, Unit) \in LevelRange
<1>1. /\ Unit \in GainRange /\ 12 * Unit \in DbRange /\ 20000 \in LevelRange
      /\ GainMax = 3 * Unit
  BY Ranges DEF Unit, GainMax
<1>2. t[1] = "num" => t[2] * Unit \in Int
  <2>1. t[1] = "num" => t[2] \in Int BY Zenon, TokenNumbers
  <2>2. QED BY <2>1 DEF Unit
<1>3. t[1] = "dec" => t[2] \in Int BY Zenon, TokenNumbers
<1>4. t[1] = "num" => /\ Clamp(t[2] * Unit, 0, GainMax) \in GainRange
                      /\ Clamp(t[2] * Unit, 0, 60 * Unit) \in DbRange
                      /\ Clamp(t[2] * Unit, 0, Unit) \in LevelRange
  BY <1>1, <1>2, Clamped
<1>5. t[1] = "dec" => /\ Clamp(t[2], 0, GainMax) \in GainRange
                      /\ Clamp(t[2], 0, 60 * Unit) \in DbRange
                      /\ Clamp(t[2], 0, Unit) \in LevelRange
  BY <1>1, <1>3, Clamped
<1>6. QED BY <1>1, <1>4, <1>5 DEF parse_double

LEMMA WholesRead ==
    ASSUME NEW t \in Tokens
    PROVE  /\ parse_int(t, 8, 0, 1000) \in TimeRange
           /\ parse_int(t, 80, 0, 1000) \in TimeRange
           /\ parse_int(t, 120, 0, 5000) \in ReleaseRange
           /\ parse_int(t, 20, 5, 100) \in BufferRange
<1>1. 8 \in TimeRange /\ 80 \in TimeRange /\ 120 \in ReleaseRange /\ 20 \in BufferRange
  BY Ranges
<1>2. t[1] = "num" => t[2] \in Int BY Zenon, TokenNumbers
<1>3. t[1] = "num" => /\ Clamp(t[2], 0, 1000) \in TimeRange
                      /\ Clamp(t[2], 0, 5000) \in ReleaseRange
                      /\ Clamp(t[2], 5, 100) \in BufferRange
  BY <1>2, Clamped
<1>4. QED BY <1>1, <1>3 DEF parse_int

\* The controls of the contact dialog and what stands in them
ControlFields ==
    {"name", "host", "port", "gain", "selfDuck", "db", "threshold", "attack", "hold",
     "release", "buffer"}
IsControls(c) ==
    /\ DOMAIN c = ControlFields
    /\ \A f \in ControlFields \ {"selfDuck"} : c[f] \in Tokens
    /\ c.selfDuck \in BOOLEAN

LEMMA ShownIs == ASSUME NEW c \in Contacts PROVE IsControls(Shown(c))
<1> DEFINE s == Shown(c)
<1>1. /\ c.port \in Int /\ c.gain \in Int /\ c.db \in Int /\ c.threshold \in Int
      /\ c.attack \in Int /\ c.hold \in Int /\ c.release \in Int /\ c.buffer \in Int
  BY ContactFields, Ranges
<1>2. c.name \in Tokens /\ c.host \in Tokens /\ c.selfDuck \in BOOLEAN
  BY Zenon, ContactFields
<1>3. format_gain(c.gain) \in Tokens
  <2> DEFINE v == Rounded(Clamp(c.gain, 0, GainMax), DialogGainStep)
  <2>1. v \in Int BY <1>1 DEF Rounded, Clamp, GainMax, DialogGainStep, Unit
  <2> HIDE DEF v
  <2>2. \A n \in Int : format_decimal(n, 1000) \in Tokens
    BY DecimalsAreTokens
  <2>3. QED BY <2>1, <2>2 DEF format_gain, v
<1>4. format_decimal(c.db, 1000) \in Tokens /\ format_decimal(c.threshold, 10) \in Tokens
  BY <1>1, DecimalsAreTokens
<1>5. Clamp(c.buffer, 5, 100) \in Int BY <1>1 DEF Clamp
<1>6. /\ Num(c.port) \in Tokens /\ Num(c.attack) \in Tokens /\ Num(c.hold) \in Tokens
      /\ Num(c.release) \in Tokens /\ Num(Clamp(c.buffer, 5, 100)) \in Tokens
  BY <1>1, <1>5, NumbersAreTokens
<1>7. /\ DOMAIN s = ControlFields
      /\ s.name = c.name /\ s.host = c.host /\ s.port = Num(c.port)
      /\ s.gain = format_gain(c.gain) /\ s.selfDuck = c.selfDuck
      /\ s.db = format_decimal(c.db, 1000) /\ s.threshold = format_decimal(c.threshold, 10)
      /\ s.attack = Num(c.attack) /\ s.hold = Num(c.hold) /\ s.release = Num(c.release)
      /\ s.buffer = Num(Clamp(c.buffer, 5, 100))
  BY DEF Shown, ControlFields
<1> HIDE DEF s
<1>8. /\ s.name \in Tokens /\ s.host \in Tokens /\ s.port \in Tokens /\ s.gain \in Tokens
      /\ s.selfDuck \in BOOLEAN /\ s.db \in Tokens /\ s.threshold \in Tokens
      /\ s.attack \in Tokens /\ s.hold \in Tokens /\ s.release \in Tokens /\ s.buffer \in Tokens
  BY <1>2, <1>3, <1>4, <1>6, <1>7
<1>9. QED BY Zenon, <1>7, <1>8 DEF IsControls, ControlFields, s

\* contact_from_dialog gives a contact, unless the dialog refuses it.
LEMMA DialogGives ==
    ASSUME NEW c \in Contacts, NEW x, IsControls(x), NEW d, d = contact_from_dialog(x, c),
           validate(d)
    PROVE  d \in Contacts
<1>1. /\ x.name \in Tokens /\ x.host \in Tokens /\ x.port \in Tokens /\ x.gain \in Tokens
      /\ x.selfDuck \in BOOLEAN /\ x.db \in Tokens /\ x.threshold \in Tokens
      /\ x.attack \in Tokens /\ x.hold \in Tokens /\ x.release \in Tokens /\ x.buffer \in Tokens
  BY Zenon DEF IsControls, ControlFields
<1> DEFINE port == parse_port(x.port)
           gain == parse_double(x.gain, Unit, 0, GainMax)
           db == parse_double(x.db, 12 * Unit, 0, 60 * Unit)
           threshold == parse_double(x.threshold, 20000, 0, Unit)
           attack == parse_int(x.attack, 8, 0, 1000)
           hold == parse_int(x.hold, 80, 0, 1000)
           release == parse_int(x.release, 120, 0, 5000)
           buffer == parse_int(x.buffer, 20, 5, 100)
<1>2. port = 0 \/ port \in PortNumbers BY <1>1, PortRead
<1>3. gain \in GainRange /\ db \in DbRange /\ threshold \in LevelRange
  BY <1>1, DecimalsRead
<1>4. /\ attack \in TimeRange /\ hold \in TimeRange
      /\ release \in ReleaseRange /\ buffer \in BufferRange
  BY <1>1, WholesRead
<1>5. c.muted \in BOOLEAN /\ c.ptt \in BOOLEAN /\ c.hotkey \in HotkeyRange
  BY Zenon, ContactFields
<1>6. d = [name |-> x.name, host |-> x.host, port |-> port, gain |-> gain,
           selfDuck |-> x.selfDuck, db |-> db, threshold |-> threshold, attack |-> attack,
           hold |-> hold, release |-> release, buffer |-> buffer, muted |-> c.muted,
           ptt |-> c.ptt, hotkey |-> c.hotkey]
  BY DEF contact_from_dialog
<1> HIDE DEF port, gain, db, threshold, attack, hold, release, buffer
<1>7. d.port = port /\ d.port # 0 BY <1>6 DEF validate
<1>8. port \in PortNumbers BY <1>2, <1>7
<1>9. QED BY <1>1, <1>3, <1>4, <1>5, <1>6, <1>8 DEF Contacts

LEMMA DialogIs ==
    ASSUME NEW c \in Contacts, NEW typed \in Typed, NEW d \in DialogResult(c, typed)
    PROVE  d \in Contacts
<1> DEFINE s == Shown(c)
           x == [f \in DOMAIN s |-> IF f \in DOMAIN typed THEN typed[f] ELSE s[f]]
<1>1. IsControls(s) BY Zenon, ShownIs
<1>2. \A f \in DOMAIN typed : typed[f] \in (IF f = "selfDuck" THEN BOOLEAN ELSE Tokens)
  BY Zenon, PreferencesAssumption
<1> HIDE DEF s
<1>3. IsControls(x)
  <2>1. /\ DOMAIN x = ControlFields
        /\ \A f \in ControlFields : x[f] = IF f \in DOMAIN typed THEN typed[f] ELSE s[f]
    BY <1>1 DEF IsControls
  <2> HIDE DEF x
  <2>2. \A f \in ControlFields \ {"selfDuck"} : x[f] \in Tokens
    BY <1>1, <1>2, <2>1 DEF IsControls
  <2>3. x.selfDuck \in BOOLEAN
    <3>1. "selfDuck" \in ControlFields BY DEF ControlFields
    <3>2. QED BY <1>1, <1>2, <2>1, <3>1 DEF IsControls
  <2>4. QED BY Zenon, <2>1, <2>2, <2>3 DEF IsControls
<1> HIDE DEF x
<1>4. validate(contact_from_dialog(x, c)) /\ d = contact_from_dialog(x, c)
  <2>1. d \in (IF validate(contact_from_dialog(x, c)) THEN {contact_from_dialog(x, c)} ELSE {})
    BY Zenon DEF DialogResult, s, x
  <2>2. QED BY Zenon, <2>1
<1>5. QED BY Zenon, <1>3, <1>4, DialogGives

-----------------------------------------------------------------------------
(* What the handlers make of the settings.                                  *)

LEMMA ContactsSet ==
    ASSUME NEW a, IsApp(a), NEW s \in Seq(Contacts)
    PROVE  IsApp([a EXCEPT !.contacts = s]) /\ [a EXCEPT !.contacts = s].contacts = s
<1> DEFINE b == [a EXCEPT !.contacts = s]
<1>1. DOMAIN a = Fields \cup {"bind"} /\ a.port \in PortNumbers
  BY Zenon DEF IsApp, IsSettings
<1>2. DOMAIN b = Fields \cup {"bind"} /\ b.port = a.port /\ b.contacts = s
  BY <1>1 DEF Fields
<1> HIDE DEF b
<1>3. IsApp(b) /\ b.contacts = s
  BY Zenon, <1>1, <1>2 DEF IsApp, IsSettings
<1>4. QED BY Zenon, <1>3 DEF b

LEMMA AppContacts ==
    ASSUME NEW a, IsApp(a)
    PROVE  /\ a.contacts \in Seq(Contacts) /\ DOMAIN a = Fields \cup {"bind"}
           /\ \A i \in DOMAIN a.contacts : a.contacts[i] \in Contacts
<1>1. a.contacts \in Seq(Contacts) /\ DOMAIN a = Fields \cup {"bind"}
  BY Zenon DEF IsApp, IsSettings
<1>2. QED BY <1>1

LEMMA ContactAdded ==
    ASSUME NEW a, IsApp(a), NEW c \in Contacts
    PROVE  IsApp([a EXCEPT !.contacts = Append(@, c)])
<1> DEFINE s == Append(a.contacts, c)
<1>1. s \in Seq(Contacts) BY AppContacts
<1>2. [a EXCEPT !.contacts = Append(@, c)] = [a EXCEPT !.contacts = s]
  BY AppContacts DEF Fields
<1> HIDE DEF s
<1>3. QED BY Zenon, <1>1, <1>2, ContactsSet

LEMMA ContactRemoved ==
    ASSUME NEW a, IsApp(a), NEW i \in DOMAIN a.contacts
    PROVE  IsApp([a EXCEPT !.contacts = RemoveAt(@, i)])
<1> DEFINE s == RemoveAt(a.contacts, i)
<1>1. a.contacts \in Seq(Contacts) /\ i \in 1 .. Len(a.contacts)
  BY AppContacts
<1>2. /\ SubSeq(a.contacts, 1, i - 1) \in Seq(Contacts)
      /\ SubSeq(a.contacts, i + 1, Len(a.contacts)) \in Seq(Contacts)
  BY <1>1
<1>3. s \in Seq(Contacts) BY <1>2 DEF RemoveAt
<1>4. [a EXCEPT !.contacts = RemoveAt(@, i)] = [a EXCEPT !.contacts = s]
  BY AppContacts DEF Fields
<1> HIDE DEF s
<1>5. QED BY Zenon, <1>3, <1>4, ContactsSet

LEMMA ContactSet ==
    ASSUME NEW a, IsApp(a), NEW i \in DOMAIN a.contacts, NEW c \in Contacts
    PROVE  /\ IsApp([a EXCEPT !.contacts[i] = c])
           /\ DOMAIN [a EXCEPT !.contacts[i] = c].contacts = DOMAIN a.contacts
<1> DEFINE s == [a.contacts EXCEPT ![i] = c]
<1>1. s \in Seq(Contacts) /\ DOMAIN s = DOMAIN a.contacts
  BY AppContacts
<1>2. [a EXCEPT !.contacts[i] = c] = [a EXCEPT !.contacts = s]
  BY AppContacts DEF Fields
<1> HIDE DEF s
<1>3. QED BY Zenon, <1>1, <1>2, ContactsSet

LEMMA GainChanged ==
    ASSUME NEW a, IsApp(a), NEW i \in DOMAIN a.contacts, NEW g \in GainRange
    PROVE  /\ IsApp([a EXCEPT !.contacts[i].gain = g])
           /\ DOMAIN [a EXCEPT !.contacts[i].gain = g].contacts = DOMAIN a.contacts
<1> DEFINE c == [a.contacts[i] EXCEPT !.gain = g]
<1>1. c \in Contacts BY Zenon, AppContacts, GainSet
<1>2. [a EXCEPT !.contacts[i].gain = g] = [a EXCEPT !.contacts[i] = c]
  BY AppContacts DEF Fields
<1> HIDE DEF c
<1>3. QED BY Zenon, <1>1, <1>2, ContactSet

LEMMA SwitchSet ==
    ASSUME NEW c \in Contacts, NEW v \in BOOLEAN
    PROVE  [c EXCEPT !.muted = v] \in Contacts /\ [c EXCEPT !.ptt = v] \in Contacts
  BY DEF Contacts

LEMMA MuteChanged ==
    ASSUME NEW a, IsApp(a), NEW i \in DOMAIN a.contacts
    PROVE  IsApp([a EXCEPT !.contacts[i].muted = ~@])
<1> DEFINE c == [a.contacts[i] EXCEPT !.muted = ~@]
           v == ~a.contacts[i].muted
<1>1. a.contacts[i] \in Contacts /\ v \in BOOLEAN
  BY Zenon, AppContacts
<1>2. c \in Contacts
  <2>1. c = [a.contacts[i] EXCEPT !.muted = v] OBVIOUS
  <2> HIDE DEF c, v
  <2>2. QED BY Zenon, <1>1, <2>1, SwitchSet
<1>3. [a EXCEPT !.contacts[i].muted = ~@] = [a EXCEPT !.contacts[i] = c]
  BY AppContacts DEF Fields
<1> HIDE DEF c
<1>4. QED BY Zenon, <1>2, <1>3, ContactSet

LEMMA PttChanged ==
    ASSUME NEW a, IsApp(a), NEW i \in DOMAIN a.contacts
    PROVE  IsApp([a EXCEPT !.contacts[i].ptt = ~@])
<1> DEFINE c == [a.contacts[i] EXCEPT !.ptt = ~@]
           v == ~a.contacts[i].ptt
<1>1. a.contacts[i] \in Contacts /\ v \in BOOLEAN
  BY Zenon, AppContacts
<1>2. c \in Contacts
  <2>1. c = [a.contacts[i] EXCEPT !.ptt = v] OBVIOUS
  <2> HIDE DEF c, v
  <2>2. QED BY Zenon, <1>1, <2>1, SwitchSet
<1>3. [a EXCEPT !.contacts[i].ptt = ~@] = [a EXCEPT !.contacts[i] = c]
  BY AppContacts DEF Fields
<1> HIDE DEF c
<1>4. QED BY Zenon, <1>2, <1>3, ContactSet

LEMMA LanguageSet ==
    ASSUME NEW a, IsApp(a), NEW l
    PROVE  IsApp([a EXCEPT !.language = l])
<1> DEFINE b == [a EXCEPT !.language = l]
<1>1. DOMAIN b = Fields \cup {"bind"} /\ b.port = a.port /\ b.contacts = a.contacts
  BY AppContacts DEF Fields
<1> HIDE DEF b
<1>2. IsApp(b) BY Zenon, <1>1 DEF IsApp, IsSettings
<1>3. QED BY Zenon, <1>2 DEF b

LEMMA NetworkSet ==
    ASSUME NEW a, IsApp(a), NEW t, NEW port \in PortResult(t), NEW adapter, NEW address
    PROVE  IsApp([a EXCEPT !.port = port, !.adapter = adapter, !.bind = address])
<1> DEFINE b == [a EXCEPT !.port = port, !.adapter = adapter, !.bind = address]
           m == 65535
<1>1. DOMAIN b = Fields \cup {"bind"} /\ b.port = port /\ b.contacts = a.contacts
  BY AppContacts DEF Fields
<1>2. port \in PortNumbers
  <2>1. PortNumbers = 1 .. m BY DEF PortNumbers
  <2>2. port \in Whole(t, 1, m) BY DEF PortResult
  <2> HIDE DEF m
  <2>3. QED BY Zenon, <2>1, <2>2 DEF Whole
<1> HIDE DEF b
<1>3. IsApp(b) BY Zenon, <1>1, <1>2 DEF IsApp, IsSettings
<1>4. QED BY Zenon, <1>3 DEF b

LEMMA GainRounded ==
    ASSUME NEW g \in Int
    PROVE  Rounded(Clamp(g, 0, GainMax), GainStep) \in GainRange
<1>1. Clamp(g, 0, GainMax) \in GainRange
  BY Ranges DEF Clamp, GainMax, Unit
<1> DEFINE v == Clamp(g, 0, GainMax)
<1> HIDE DEF v
<1>2. v \in GainRange BY Zenon, <1>1 DEF v
<1>3. Rounded(v, GainStep) \in GainRange
  BY <1>2, Ranges DEF Rounded, GainStep, Unit
<1>4. QED BY Zenon, <1>3 DEF v

LEMMA DefaultIsContact == DefaultContact \in Contacts
<1> DEFINE port == DefaultUdpPort
           gain == Unit
           db == 12 * Unit
           threshold == 20000
<1>1. port \in PortNumbers /\ gain \in GainRange /\ db \in DbRange /\ threshold \in LevelRange
  BY Ranges DEF DefaultUdpPort, Unit
<1>2. 8 \in TimeRange /\ 80 \in TimeRange /\ 120 \in ReleaseRange /\ 20 \in BufferRange
  BY Ranges
<1>3. NoHotkey \in HotkeyRange BY DEF HotkeyRange
<1>4. Empty \in Tokens /\ Txt("127.0.0.1") \in Tokens
  <2>1. DefaultContact.host = Txt("127.0.0.1") BY DEF DefaultContact
  <2>2. QED BY Zenon, <2>1, PreferencesAssumption
<1>5. DefaultContact =
        [name |-> Empty, host |-> Txt("127.0.0.1"), port |-> port, gain |-> gain,
         muted |-> FALSE, ptt |-> TRUE, selfDuck |-> TRUE, db |-> db, threshold |-> threshold,
         attack |-> 8, hold |-> 80, release |-> 120, buffer |-> 20, hotkey |-> NoHotkey]
  BY DEF DefaultContact
<1> HIDE DEF port, gain, db, threshold
<1>6. QED BY <1>1, <1>2, <1>3, <1>4, <1>5 DEF Contacts

LEMMA AddressSet ==
    ASSUME NEW c \in Contacts, NEW name \in Tokens, NEW host \in Tokens, NEW port \in PortNumbers
    PROVE  /\ [c EXCEPT !.name = name] \in Contacts /\ [c EXCEPT !.host = host] \in Contacts
           /\ [c EXCEPT !.port = port] \in Contacts
  BY DEF Contacts

\* add_discovered_contact
LEMMA FoundIs ==
    ASSUME NEW peer \in Discovered, peer.port # 0
    PROVE  [DefaultContact EXCEPT
                !.name = IF peer.name = Empty THEN peer.address ELSE peer.name,
                !.host = peer.address, !.port = peer.port] \in Contacts
<1> DEFINE d == DefaultContact
           name == IF peer.name = Empty THEN peer.address ELSE peer.name
<1>1. peer \in [name : Tokens, address : Tokens, port : PortNumbers \cup {0}]
  BY Zenon, PreferencesAssumption
<1>2. name \in Tokens /\ peer.address \in Tokens /\ peer.port \in PortNumbers
  BY <1>1
<1> HIDE DEF name, d
<1>3. d \in Contacts BY Zenon, DefaultIsContact DEF d
<1>4. [d EXCEPT !.name = name] \in Contacts
  BY Zenon, <1>2, <1>3, AddressSet
<1>5. [[d EXCEPT !.name = name] EXCEPT !.host = peer.address] \in Contacts
  BY Zenon, <1>2, <1>4, AddressSet
<1>6. [[[d EXCEPT !.name = name] EXCEPT !.host = peer.address]
            EXCEPT !.port = peer.port] \in Contacts
  BY Zenon, <1>2, <1>5, AddressSet
<1>7. QED BY <1>6 DEF name, d

\* A file of which only the beginning was written is one that load_settings takes.
LEMMA TornIs ==
    ASSUME NEW f, IsFile(f), NEW d \in Torn(f)
    PROVE  IsFile(d)
<1>0. DOMAIN f = Fields /\ f.port \in Int /\ f.contacts \in Seq(ContactLines)
  BY Zenon, FieldsAre DEF IsFile
<1>1. ASSUME NEW S, d = [x \in DOMAIN DefaultSettings |->
                            IF x \in S THEN f[x] ELSE DefaultSettings[x]]
      PROVE  IsFile(d)
  <2>1. DOMAIN d = Fields /\ d.port \in {f.port, DefaultSettings.port}
        /\ d.contacts \in {f.contacts, DefaultSettings.contacts}
    BY <1>1, FieldsAre DEF Fields
  <2>2. DefaultSettings.port \in Int /\ DefaultSettings.contacts = <<>>
    BY DEF DefaultSettings, DefaultUdpPort
  <2>3. <<>> \in Seq(ContactLines) BY SMT
  <2>4. QED BY Zenon, <1>0, <2>1, <2>2, <2>3, FieldsAre DEF IsFile
<1>2. ASSUME NEW n \in DOMAIN f.contacts, d = [f EXCEPT !.contacts = SubSeq(@, 1, n)]
      PROVE  IsFile(d)
  <2>1. SubSeq(f.contacts, 1, n) \in Seq(ContactLines) BY <1>0
  <2>2. DOMAIN d = Fields /\ d.port = f.port /\ d.contacts = SubSeq(f.contacts, 1, n)
    BY <1>0, <1>2 DEF Fields
  <2>3. QED BY Zenon, <1>0, <2>1, <2>2, FieldsAre DEF IsFile
<1>3. QED BY Zenon, <1>1, <1>2 DEF Torn

-----------------------------------------------------------------------------
(* The invariant: the settings in memory are contacts, the file on disk     *)
(* can be read, and but for a gain that is being dragged it says what the   *)
(* settings are, from the loading of the file on.                           *)

SavedInv ==
    /\ IsApp(app) /\ Stored(disk) /\ Stored(legacy)
    /\ dragging \in {0} \cup DOMAIN app.contacts
    /\ phase \in {"off", "loaded", "listed", "open"}
    /\ phase # "open" \/ dialog # NoDialog => dragging = 0
    /\ phase # "off" /\ dragging = 0 => Tells(disk, app)

LEMMA SavedInvInit == LaunchInit => SavedInv
<1>1. \A f \in Files \cup LegacyFiles : Stored(f)
  BY Zenon, PreferencesAssumption DEF Stored
<1>2. ASSUME LaunchInit PROVE SavedInv
  <2>1. /\ phase = "off" /\ app = Remembered(DefaultSettings) /\ disk \in Files
        /\ legacy \in LegacyFiles /\ dragging = 0
    BY Zenon, <1>2 DEF LaunchInit, PrefsInit
  <2>2. QED BY Zenon, <1>1, <2>1, DefaultIs DEF SavedInv
<1>3. QED BY Zenon, <1>2

\* A step in which the window is open and stays so, that drags nothing and saves or starts a
\* Core for the settings a, what it saves or finds saved being d
LEMMA Kept ==
    ASSUME SavedInv, NEW a, NEW d, Leaves(a, d), Tells(d, a), phase' = "open", dragging' = 0,
           UNCHANGED legacy
    PROVE  SavedInv'
<1>1. IsApp(app') /\ Stored(disk') /\ Tells(disk', app') /\ Stored(legacy')
  BY Zenon DEF Leaves, SavedInv
<1>2. QED BY Zenon, <1>1 DEF SavedInv

\* The same for settings that are saved first
LEMMA SavedFirst ==
    ASSUME SavedInv, NEW a, IsApp(a), NEW lists, Leaves(a, Saved(a, lists)),
           phase' = "open", dragging' = 0, UNCHANGED legacy
    PROVE  SavedInv'
<1>1. Tells(Saved(a, lists), a) BY Zenon, SavedIs DEF Tells
<1>2. QED BY Zenon, <1>1, Kept

LEMMA SavedAndRestarted ==
    ASSUME SavedInv, NEW a, IsApp(a), NEW lists, SaveAndRestart(a, lists),
           phase' = "open", dragging' = 0, UNCHANGED legacy
    PROVE  SavedInv'
<1>1. Stored(Saved(a, lists)) BY Zenon, SavedIs DEF Stored
<1>2. RestartCore(a, lists, Saved(a, lists))
  BY Zenon DEF SaveAndRestart
<1>3. Leaves(a, Saved(a, lists)) BY Zenon, <1>1, <1>2, RestartLeaves
<1>4. QED BY Zenon, <1>3, SavedFirst

LEMMA SavedAndTold ==
    ASSUME SavedInv, NEW a, IsApp(a), NEW i, TellOrRestart(i, a, Saved(a, combos)),
           phase' = "open", dragging' = 0, UNCHANGED legacy
    PROVE  SavedInv'
<1>1. Stored(Saved(a, combos)) BY Zenon, SavedIs DEF Stored
<1>2. Leaves(a, Saved(a, combos)) BY Zenon, <1>1, TellLeaves
<1>3. QED BY Zenon, <1>2, SavedFirst

\* Only saved, with the settings as they are then
LEMMA OnlySaved ==
    ASSUME SavedInv, IsApp(app'), NEW lists, disk' = Saved(app', lists),
           phase' = "open", dragging' = 0, UNCHANGED legacy
    PROVE  SavedInv'
<1>1. IsFile(disk') /\ Survives(disk', app') BY Zenon, SavedIs
<1>2. QED BY Zenon, <1>1 DEF SavedInv, Stored, Tells

\* Only the Core, the dialog or the world is touched.
LEMMA SettingsUntouched ==
    ASSUME SavedInv, UNCHANGED <<phase, app, disk, legacy, dragging>>,
           dialog' = dialog \/ dragging = 0
    PROVE  SavedInv'
  BY Zenon DEF SavedInv, Stored, Tells

LEMMA EndedIs ==
    ASSUME SavedInv, Ended, Stored(disk'), phase' = "off", UNCHANGED legacy
    PROVE  SavedInv'
<1>1. IsApp(app') /\ dragging' = 0 BY Zenon, DefaultIs DEF Ended
<1>2. QED BY Zenon, <1>1 DEF SavedInv

LEMMA LoadKeeps == ASSUME SavedInv, Load PROVE SavedInv'
<1> DEFINE file == IF disk # Missing THEN disk ELSE legacy
<1>1. phase' = "loaded" /\ dragging = 0 /\ dragging' = 0 /\ legacy' = legacy /\ Stored(file)
  BY Zenon DEF SavedInv, Load
<1>2. CASE file = Missing
  <2>1. app' = Remembered(DefaultSettings) /\ disk' = disk
    BY Zenon, <1>2 DEF Load
  <2>2. disk = Missing BY Zenon, <1>2
  <2>3. QED BY Zenon, <1>1, <2>1, <2>2, DefaultIs DEF SavedInv, Stored, Tells
<1>3. CASE file # Missing
  <2>1. /\ app' = Remembered(parse_settings(file))
        /\ disk' = IF disk = Missing THEN serialize_settings(parse_settings(file)) ELSE disk
    BY Zenon, <1>3 DEF Load
  <2>2. disk # Missing => file = disk BY Zenon
  <2> HIDE DEF file
  <2>3. IsFile(file) BY Zenon, <1>1, <1>3 DEF Stored
  <2>4. IsApp(app') /\ IsFile(disk') /\ Survives(disk', app')
    BY Zenon, <2>1, <2>2, <2>3, LoadedIs
  <2>5. QED BY Zenon, <1>1, <2>4 DEF SavedInv, Stored, Tells
<1>4. QED BY Zenon, <1>2, <1>3

LEMMA OpenKeeps == ASSUME SavedInv, Open PROVE SavedInv'
<1> DEFINE a == Resolved(app)
           d == IF ResolveSaves(app) THEN Saved(a, combos) ELSE disk
<1>1. /\ phase = "listed" /\ phase' = "open" /\ StartCore(a, combos, d)
      /\ legacy' = legacy /\ dragging' = dragging
  BY Zenon DEF Open
<1>2. IsApp(app) /\ Tells(disk, app) /\ Stored(disk) /\ dragging = 0
  BY Zenon, <1>1 DEF SavedInv
<1>3. IsApp(a) /\ a.contacts = app.contacts BY Zenon, <1>2, ResolvedIs
<1>4. Stored(d) /\ Tells(d, a)
  <2>1. CASE ResolveSaves(app)
    BY Zenon, <1>3, <2>1, SavedIs DEF Stored, Tells
  <2>2. CASE ~ResolveSaves(app)
    <3>1. a.language = app.language /\ a.port = app.port /\ a.adapter = app.adapter
      BY Zenon, <1>2, <2>2, ResolvedIs
    <3>2. d = disk BY Zenon, <2>2
    <3> HIDE DEF a, d
    <3>3. Survives(disk, app) => Survives(disk, a)
      BY Zenon, <1>3, <3>1, SurvivesLike
    <3>4. QED BY Zenon, <1>2, <3>2, <3>3 DEF Tells
  <2>3. QED BY Zenon, <2>1, <2>2
<1> HIDE DEF a, d
<1>5. Leaves(a, d) BY Zenon, <1>1, <1>3, <1>4, StartLeaves
<1>6. QED BY Zenon, <1>1, <1>2, <1>4, <1>5, Kept

LEMMA IdleIs == ASSUME SavedInv, Idle PROVE phase = "open" /\ dragging = 0 /\ Tells(disk, app)
  BY Zenon DEF SavedInv, Idle, Works

LEMMA AddContactKeeps == ASSUME SavedInv, AddContact PROVE SavedInv'
<1>1. /\ Idle /\ phase' = phase /\ legacy' = legacy /\ dragging' = dragging
      /\ \E typed \in Typed : \E contact \in DialogResult(DefaultContact, typed) :
            SaveAndRestart([app EXCEPT !.contacts = Append(@, contact)], combos)
  BY Zenon DEF AddContact
<1>2. PICK typed \in Typed : \E contact \in DialogResult(DefaultContact, typed) :
            SaveAndRestart([app EXCEPT !.contacts = Append(@, contact)], combos)
  BY Zenon, <1>1
<1>3. PICK contact \in DialogResult(DefaultContact, typed) :
            SaveAndRestart([app EXCEPT !.contacts = Append(@, contact)], combos)
  BY Zenon, <1>2
<1> DEFINE a == [app EXCEPT !.contacts = Append(@, contact)]
<1>4. contact \in Contacts BY Zenon, DefaultIsContact, DialogIs
<1>5. IsApp(a) BY Zenon, <1>4, ContactAdded DEF SavedInv
<1>6. SaveAndRestart(a, combos) BY Zenon, <1>3
<1> HIDE DEF a
<1>7. QED BY Zenon, <1>1, <1>5, <1>6, IdleIs, SavedAndRestarted

LEMMA EditContactKeeps ==
    ASSUME SavedInv, NEW i \in DOMAIN app.contacts, EditContact(i) PROVE SavedInv'
<1>1. /\ Idle /\ phase' = phase /\ legacy' = legacy /\ dragging' = dragging
      /\ \E typed \in Typed : \E contact \in DialogResult(app.contacts[i], typed) :
            \/ SaveAndRestart([app EXCEPT !.contacts[i] = contact], combos)
            \/ TellOrRestart(i, [app EXCEPT !.contacts[i] = contact],
                             Saved([app EXCEPT !.contacts[i] = contact], combos))
  BY Zenon DEF EditContact
<1>2. PICK typed \in Typed : \E contact \in DialogResult(app.contacts[i], typed) :
            \/ SaveAndRestart([app EXCEPT !.contacts[i] = contact], combos)
            \/ TellOrRestart(i, [app EXCEPT !.contacts[i] = contact],
                             Saved([app EXCEPT !.contacts[i] = contact], combos))
  BY Zenon, <1>1
<1>3. PICK contact \in DialogResult(app.contacts[i], typed) :
            \/ SaveAndRestart([app EXCEPT !.contacts[i] = contact], combos)
            \/ TellOrRestart(i, [app EXCEPT !.contacts[i] = contact],
                             Saved([app EXCEPT !.contacts[i] = contact], combos))
  BY Zenon, <1>2
<1> DEFINE a == [app EXCEPT !.contacts[i] = contact]
<1>4. IsApp(app) BY Zenon DEF SavedInv
<1>5. contact \in Contacts BY Zenon, <1>4, AppContacts, DialogIs
<1>6. IsApp(a) BY Zenon, <1>4, <1>5, ContactSet
<1>7. SaveAndRestart(a, combos) \/ TellOrRestart(i, a, Saved(a, combos))
  BY Zenon, <1>3
<1> HIDE DEF a
<1>8. QED BY Zenon, <1>1, <1>6, <1>7, IdleIs, SavedAndRestarted, SavedAndTold

LEMMA RemoveContactKeeps ==
    ASSUME SavedInv, NEW i \in DOMAIN app.contacts, RemoveContact(i) PROVE SavedInv'
<1> DEFINE a == [app EXCEPT !.contacts = RemoveAt(@, i)]
<1>1. /\ Idle /\ phase' = phase /\ legacy' = legacy /\ dragging' = dragging
      /\ SaveAndRestart(a, combos)
  BY Zenon DEF RemoveContact
<1>2. IsApp(a) BY Zenon, ContactRemoved DEF SavedInv
<1> HIDE DEF a
<1>3. QED BY Zenon, <1>1, <1>2, IdleIs, SavedAndRestarted

LEMMA SwitchKeeps ==
    ASSUME SavedInv, NEW i \in DOMAIN app.contacts, ToggleMute(i) \/ TogglePtt(i) PROVE SavedInv'
<1> DEFINE a == [app EXCEPT !.contacts[i].muted = ~@]
           b == [app EXCEPT !.contacts[i].ptt = ~@]
<1>1. /\ Idle /\ phase' = phase /\ legacy' = legacy /\ dragging' = dragging
      /\ TellOrRestart(i, a, Saved(a, combos)) \/ TellOrRestart(i, b, Saved(b, combos))
  BY Zenon DEF ToggleMute, TogglePtt
<1>2. IsApp(a) /\ IsApp(b)
  BY Zenon, MuteChanged, PttChanged DEF SavedInv
<1> HIDE DEF a, b
<1>3. QED BY Zenon, <1>1, <1>2, IdleIs, SavedAndTold

\* set_contact_gain, saved or not
LEMMA GainLeaves ==
    ASSUME SavedInv, NEW i \in DOMAIN app.contacts, NEW gain \in Int, NEW persist \in BOOLEAN,
           SetGain(i, gain, persist)
    PROVE  /\ IsApp(app') /\ DOMAIN app'.contacts = DOMAIN app.contacts /\ Stored(disk')
           /\ persist => Tells(disk', app')
<1> DEFINE new == Rounded(Clamp(gain, 0, GainMax), GainStep)
           a == [app EXCEPT !.contacts[i].gain = new]
<1>1. IsApp(app) /\ Stored(disk) BY Zenon DEF SavedInv
<1>2. new \in GainRange BY Zenon, GainRounded
<1>3. \/ disk' = (IF persist THEN Saved(app, combos) ELSE disk) /\ app' = app
      \/ TellOrRestart(i, a, IF persist THEN Saved(a, combos) ELSE disk)
  BY Zenon DEF SetGain
<1> HIDE DEF new
<1>4. IsApp(a) /\ DOMAIN a.contacts = DOMAIN app.contacts
  BY Zenon, <1>1, <1>2, GainChanged
<1> HIDE DEF a
<1> DEFINE d == IF persist THEN Saved(app, combos) ELSE disk
           e == IF persist THEN Saved(a, combos) ELSE disk
<1>5. /\ Stored(d) /\ (persist => Tells(d, app))
      /\ Stored(e) /\ (persist => Tells(e, a))
  BY Zenon, <1>1, <1>4, SavedIs DEF Stored, Tells
<1>6. (disk' = d /\ app' = app) \/ TellOrRestart(i, a, e)
  BY Zenon, <1>3
<1> HIDE DEF d, e
<1>7. CASE disk' = d /\ app' = app BY Zenon, <1>1, <1>5, <1>7
<1>8. CASE TellOrRestart(i, a, e)
  <2>1. Leaves(a, e) BY Zenon, <1>4, <1>5, <1>8, TellLeaves
  <2>2. QED BY Zenon, <1>4, <1>5, <2>1 DEF Leaves
<1>9. QED BY Zenon, <1>6, <1>7, <1>8

LEMMA GainsAre == Gains \subseteq Int
  BY Zenon, PreferencesAssumption

LEMMA GainSaved ==
    ASSUME SavedInv, NEW i \in DOMAIN app.contacts, NEW gain \in Gains, SetGain(i, gain, TRUE),
           phase' = "open", dragging' = 0, UNCHANGED legacy
    PROVE  SavedInv'
<1>1. gain \in Int BY Zenon, GainsAre
<1>2. IsApp(app') /\ Stored(disk') /\ Tells(disk', app')
  BY Zenon, <1>1, GainLeaves
<1>3. QED BY Zenon, <1>2 DEF SavedInv

LEMMA StepGainKeeps ==
    ASSUME SavedInv, NEW i \in DOMAIN app.contacts, StepGain(i) PROVE SavedInv'
<1>1. /\ Idle /\ phase' = phase /\ legacy' = legacy /\ dragging' = dragging
      /\ \E step \in {-GainStep, GainStep} :
            app.contacts[i].gain + step \in Gains /\ SetGain(i, app.contacts[i].gain + step, TRUE)
  BY Zenon DEF StepGain
<1>2. PICK step \in {-GainStep, GainStep} :
            app.contacts[i].gain + step \in Gains /\ SetGain(i, app.contacts[i].gain + step, TRUE)
  BY Zenon, <1>1
<1>3. QED BY Zenon, <1>1, <1>2, IdleIs, GainSaved

LEMMA DragGainKeeps ==
    ASSUME SavedInv, NEW i \in DOMAIN app.contacts, DragGain(i) PROVE SavedInv'
<1>1. /\ phase = "open" /\ dialog = NoDialog /\ dragging' = i
      /\ phase' = phase /\ dialog' = dialog /\ legacy' = legacy
      /\ \E gain \in Gains : SetGain(i, gain, FALSE)
  BY Zenon DEF DragGain, Works
<1>2. PICK gain \in Gains : SetGain(i, gain, FALSE) BY Zenon, <1>1
<1>3. IsApp(app') /\ DOMAIN app'.contacts = DOMAIN app.contacts /\ Stored(disk')
  BY Zenon, <1>2, GainLeaves, GainsAre
<1>4. i # 0
  <2>1. DOMAIN app.contacts = 1 .. Len(app.contacts)
    BY AppContacts DEF SavedInv
  <2>2. QED BY <2>1
<1>5. QED BY Zenon, <1>1, <1>3, <1>4 DEF SavedInv

LEMMA DropGainKeeps == ASSUME SavedInv, DropGain PROVE SavedInv'
<1>1. /\ phase' = "open" /\ dragging' = 0 /\ legacy' = legacy
      /\ dragging \in DOMAIN app.contacts
  BY Zenon DEF DropGain, Works, SavedInv
<1>2. CASE \E gain \in Gains : SetGain(dragging, gain, TRUE)
  BY Zenon, <1>1, <1>2, GainSaved
<1>3. CASE disk' = Saved(app, combos) /\ app' = app
  BY Zenon, <1>1, <1>3, OnlySaved DEF SavedInv
<1>4. QED BY Zenon, <1>2, <1>3 DEF DropGain

LEMMA SelectDeviceKeeps == ASSUME SavedInv, NEW flow, SelectDevice(flow) PROVE SavedInv'
<1>1. /\ Idle /\ phase' = phase /\ legacy' = legacy /\ dragging' = dragging
      /\ SaveAndRestart(app, combos')
  BY Zenon DEF SelectDevice
<1>2. IsApp(app) BY Zenon DEF SavedInv
<1>3. QED BY Zenon, <1>1, <1>2, IdleIs, SavedAndRestarted

LEMMA SelectLanguageKeeps == ASSUME SavedInv, SelectLanguage PROVE SavedInv'
<1>1. /\ Idle /\ phase' = phase /\ legacy' = legacy /\ dragging' = dragging
      /\ \E language \in Languages : app' = [app EXCEPT !.language = language]
      /\ disk' = Saved(app', combos)
  BY Zenon DEF SelectLanguage
<1>2. PICK language \in Languages : app' = [app EXCEPT !.language = language]
  BY Zenon, <1>1
<1>3. IsApp(app') BY Zenon, <1>2, LanguageSet DEF SavedInv
<1>4. QED BY Zenon, <1>1, <1>3, IdleIs, OnlySaved

LEMMA CloseNetworkKeeps == ASSUME SavedInv, CloseNetwork PROVE SavedInv'
<1>1. phase = "open" /\ phase' = phase /\ legacy' = legacy /\ dragging' = dragging
  BY Zenon DEF CloseNetwork
<1>2. dragging = 0
  <2>1. dialog.kind = "network" BY Zenon DEF CloseNetwork
  <2>2. dialog # NoDialog BY <2>1 DEF NoDialog
  <2>3. QED BY Zenon, <2>2 DEF SavedInv
<1>3. CASE app' = app /\ disk' = disk
  BY Zenon, <1>1, <1>2, <1>3, SettingsUntouched
<1>4. CASE \E t \in Ports, adapter \in {Empty} \cup DOMAIN dialog.adapters :
              \E port \in PortResult(t), address \in
                        resolve_network_bind_address(dialog.adapters, adapter) :
                SaveAndRestart([app EXCEPT !.port = port, !.adapter = adapter,
                                           !.bind = address], combos)
  <2>1. PICK t \in Ports, adapter \in {Empty} \cup DOMAIN dialog.adapters :
              \E port \in PortResult(t), address \in
                        resolve_network_bind_address(dialog.adapters, adapter) :
                SaveAndRestart([app EXCEPT !.port = port, !.adapter = adapter,
                                           !.bind = address], combos)
    BY Zenon, <1>4
  <2>2. PICK port \in PortResult(t), address \in
                        resolve_network_bind_address(dialog.adapters, adapter) :
                SaveAndRestart([app EXCEPT !.port = port, !.adapter = adapter,
                                           !.bind = address], combos)
    BY Zenon, <2>1
  <2> DEFINE a == [app EXCEPT !.port = port, !.adapter = adapter, !.bind = address]
  <2>3. IsApp(a) BY Zenon, NetworkSet DEF SavedInv
  <2>4. SaveAndRestart(a, combos) BY Zenon, <2>2
  <2> HIDE DEF a
  <2>5. QED BY Zenon, <1>1, <1>2, <2>3, <2>4, SavedAndRestarted
<1>5. QED BY Zenon, <1>3, <1>4 DEF CloseNetwork

LEMMA OpenSearchKeeps == ASSUME SavedInv, OpenSearch PROVE SavedInv'
<1>1. /\ Idle /\ phase' = phase /\ legacy' = legacy /\ dragging' = dragging
      /\ StartCore(app, combos, disk) \/ (app' = app /\ disk' = disk)
  BY Zenon DEF OpenSearch
<1>2. phase = "open" /\ dragging = 0 /\ Tells(disk, app) /\ IsApp(app) /\ Stored(disk)
  BY Zenon, <1>1, IdleIs DEF SavedInv
<1>3. CASE StartCore(app, combos, disk)
  <2>1. Leaves(app, disk) BY Zenon, <1>2, <1>3, StartLeaves
  <2>2. QED BY Zenon, <1>1, <1>2, <2>1, Kept
<1>4. CASE app' = app /\ disk' = disk
  BY Zenon, <1>1, <1>2, <1>4, SettingsUntouched
<1>5. QED BY Zenon, <1>1, <1>3, <1>4

LEMMA SearchStopsDragging ==
    ASSUME SavedInv, dialog.kind = "search" PROVE dragging = 0
<1>1. dialog # NoDialog BY DEF NoDialog
<1>2. QED BY Zenon, <1>1 DEF SavedInv

LEMMA AddDiscoveredKeeps == ASSUME SavedInv, AddDiscovered PROVE SavedInv'
<1> DEFINE Found(peer) ==
        [DefaultContact EXCEPT
            !.name = IF peer.name = Empty THEN peer.address ELSE peer.name,
            !.host = peer.address, !.port = peer.port]
<1>1. /\ phase = "open" /\ phase' = phase /\ legacy' = legacy /\ dragging' = dragging
      /\ dialog.kind = "search" /\ disk' = Saved(app', combos)
      /\ \E peer \in Discovered :
            peer.port # 0 /\ app' = [app EXCEPT !.contacts = Append(@, Found(peer))]
  BY Zenon DEF AddDiscovered
<1>2. PICK peer \in Discovered :
            peer.port # 0 /\ app' = [app EXCEPT !.contacts = Append(@, Found(peer))]
  BY Zenon, <1>1
<1>3. Found(peer) \in Contacts BY Zenon, <1>2, FoundIs
<1> HIDE DEF Found
<1>4. IsApp(app') BY Zenon, <1>2, <1>3, ContactAdded DEF SavedInv
<1>5. QED BY Zenon, <1>1, <1>4, SearchStopsDragging, OnlySaved

LEMMA CloseSearchKeeps == ASSUME SavedInv, CloseSearch PROVE SavedInv'
<1>1. /\ phase = "open" /\ phase' = phase /\ legacy' = legacy /\ dragging' = dragging
      /\ dialog.kind = "search"
      /\ RestartCore(app, combos, disk) \/ (app' = app /\ disk' = disk)
  BY Zenon DEF CloseSearch
<1>2. dragging = 0 /\ Tells(disk, app) /\ IsApp(app) /\ Stored(disk)
  BY Zenon, <1>1, SearchStopsDragging DEF SavedInv
<1>3. CASE RestartCore(app, combos, disk)
  <2>1. Leaves(app, disk) BY Zenon, <1>2, <1>3, RestartLeaves
  <2>2. QED BY Zenon, <1>1, <1>2, <2>1, Kept
<1>4. CASE app' = app /\ disk' = disk
  BY Zenon, <1>1, <1>2, <1>4, SettingsUntouched
<1>5. QED BY Zenon, <1>1, <1>3, <1>4

\* A gain may be being dragged when the next Core is started.
LEMMA CoreGoneKeeps == ASSUME SavedInv, CoreGone PROVE SavedInv'
<1>1. /\ phase = "open" /\ phase' = phase /\ legacy' = legacy /\ dragging' = dragging
      /\ dialog' = dialog
      /\ StartCore(app, combos, disk) \/ (app' = app /\ disk' = disk)
  BY Zenon DEF CoreGone
<1>2. CASE StartCore(app, combos, disk)
  <2>1. IsApp(app) /\ Stored(disk) BY Zenon DEF SavedInv
  <2>2. Leaves(app, disk) BY Zenon, <1>2, <2>1, StartLeaves
  <2>3. QED BY Zenon, <1>1, <2>2 DEF SavedInv, Leaves
<1>3. CASE app' = app /\ disk' = disk
  BY Zenon, <1>1, <1>3, SettingsUntouched
<1>4. QED BY Zenon, <1>1, <1>2, <1>3

LEMMA ExitKeeps == ASSUME SavedInv, Exit \/ Killed PROVE SavedInv'
<1>1. IsFile(Saved(app, combos)) BY Zenon, SavedIs DEF SavedInv
<1>2. /\ Ended /\ phase' = "off" /\ legacy' = legacy
      /\ disk' \in {Saved(app, combos), disk} \cup Torn(Saved(app, combos))
  BY Zenon DEF Exit, Killed
<1>3. Stored(disk')
  <2>1. CASE disk' = Saved(app, combos)
    BY Zenon, <1>1, <2>1 DEF Stored
  <2>2. CASE disk' = disk BY Zenon, <2>2 DEF SavedInv, Stored
  <2>3. CASE disk' \in Torn(Saved(app, combos))
    BY Zenon, <1>1, <2>3, TornIs DEF Stored
  <2>4. QED BY Zenon, <1>2, <2>1, <2>2, <2>3
<1>4. QED BY Zenon, <1>2, <1>3, EndedIs

LEMMA OthersKeep ==
    ASSUME SavedInv,
           \/ OpenNetwork \/ CoreDies \/ OrphanEnds \/ WorldChanges \/ UNCHANGED prefs
    PROVE  SavedInv'
<1>1. /\ UNCHANGED <<phase, app, disk, legacy, dragging>>
      /\ dialog' = dialog \/ Idle
  BY Zenon DEF OpenNetwork, CoreDies, OrphanEnds, WorldChanges, prefs, window
<1>2. QED BY Zenon, <1>1, IdleIs, SettingsUntouched

LEMMA RefreshKeeps == ASSUME SavedInv, Refresh PROVE SavedInv'
<1>1. /\ phase = "loaded" /\ phase' = "listed"
      /\ UNCHANGED <<app, disk, legacy, dialog, dragging>>
  BY Zenon DEF Refresh
<1>2. QED BY Zenon, <1>1 DEF SavedInv, Stored, Tells

LEMMA ResizeKeeps == ASSUME SavedInv, Resize PROVE SavedInv'
<1>1. /\ Idle /\ disk' = Saved(app, combos)
      /\ UNCHANGED <<phase, app, legacy, dragging>>
  BY Zenon DEF Resize
<1>2. QED BY Zenon, <1>1, IdleIs, OnlySaved DEF SavedInv

LEMMA SavedInvNext == SavedInv /\ [LaunchNext]_launchVars => SavedInv'
<1> SUFFICES ASSUME SavedInv, [LaunchNext]_launchVars PROVE SavedInv'
  OBVIOUS
<1>1. CASE Changing
  <2>1. CASE \E i \in DOMAIN app.contacts :
                EditContact(i) \/ RemoveContact(i) \/ StepGain(i) \/ DragGain(i)
                \/ ToggleMute(i) \/ TogglePtt(i)
    BY Zenon, <2>1, EditContactKeeps, RemoveContactKeeps, StepGainKeeps, DragGainKeeps,
       SwitchKeeps
  <2>2. CASE AddContact \/ SelectLanguage \/ AddDiscovered \/ CloseNetwork
    BY Zenon, <2>2, AddContactKeeps, SelectLanguageKeeps, AddDiscoveredKeeps, CloseNetworkKeeps
  <2>3. CASE \E flow \in {"capture", "render"} : SelectDevice(flow)
    BY Zenon, <2>3, SelectDeviceKeeps
  <2>4. CASE CoreDies \/ Killed \/ WorldChanges
    BY Zenon, <2>4, OthersKeep, ExitKeeps
  <2>5. QED BY Zenon, <1>1, <2>1, <2>2, <2>3, <2>4 DEF Changing
<1>2. CASE Happening
  BY Zenon, <1>2, LoadKeeps, RefreshKeeps, OpenKeeps, DropGainKeeps, OthersKeep, OpenSearchKeeps,
     CloseSearchKeeps, ResizeKeeps, CoreGoneKeeps, ExitKeeps DEF Happening
<1>3. CASE UNCHANGED prefs BY Zenon, <1>3, OthersKeep
<1>4. QED BY Zenon, <1>1, <1>2, <1>3 DEF LaunchNext, WindowNext, Type, launchVars

\* While the window is open and no gain is being dragged, a start from the settings file brings
\* back what the window shows, but for the digits the file leaves out: whatever is edited,
\* typed, found, chosen and dragged in whatever order, and however the Core, the network and
\* the window end meanwhile (save_settings and load_settings).
THEOREM WhatIsShownIsKept == LaunchSpec => []SettingsSurvive
<1>1. SavedInv => SettingsSurvive
  BY Zenon DEF SavedInv, Tells, Survives, SettingsSurvive, Like
<1>2. QED BY <1>1, SavedInvInit, SavedInvNext, PTL DEF LaunchSpec

-----------------------------------------------------------------------------
(* Counting up: what holds of 0 and of the next number holds of all.        *)

LEMMA NatMin == ASSUME NEW T, T \subseteq Nat, T # {} PROVE \E x \in T : \A y \in T : x <= y
<1> DEFINE R == OpToRel(<, Nat)
<1>1. IsWellFoundedOn(R, Nat) BY NatLessThanWellFounded
<1>2. \A x, y \in Nat : <<x, y>> \in R <=> x < y BY DEF OpToRel
<1> HIDE DEF R
<1>3. PICK x \in T : \A y \in T : ~ (<<y, x>> \in R)
  BY Zenon, <1>1, WFMin
<1>4. ASSUME NEW y \in T PROVE x <= y
  <2>1. x \in Nat /\ y \in Nat BY Zenon
  <2>2. ~ (<<y, x>> \in R) BY Zenon, <1>3
  <2>3. ~ (y < x) BY Zenon, <1>2, <2>1, <2>2
  <2>4. QED BY <2>1, <2>3
<1>5. QED BY Zenon, <1>4

LEMMA CountingUp ==
    ASSUME NEW T, 0 \in T, \A n \in Nat : n \in T => n + 1 \in T
    PROVE  Nat \subseteq T
<1> DEFINE U == Nat \ T
<1> SUFFICES ASSUME U # {} PROVE FALSE
  BY Zenon
<1>1. PICK m \in U : \A y \in U : m <= y BY Zenon, NatMin
<1>2. m \in Nat /\ m # 0 /\ m - 1 \in Nat /\ ~(m <= m - 1) BY <1>1
<1>3. m - 1 \in T BY Zenon, <1>1, <1>2
<1>4. (m - 1) + 1 = m BY <1>2
<1>5. (m - 1) + 1 \in T BY Zenon, <1>2, <1>3
<1>6. m \in T BY Zenon, <1>4, <1>5
<1>7. m \notin T BY Zenon
<1>8. QED BY Zenon, <1>6, <1>7

-----------------------------------------------------------------------------
(* Arguments, one after the other.                                          *)

LEMMA AfterIs ==
    ASSUME NEW S, NEW s \in Seq(S), NEW k \in 0 .. Len(s)
    PROVE  /\ After(s, k) \in Seq(S) /\ Len(After(s, k)) = Len(s) - k
           /\ \A j \in 1 .. Len(s) - k : After(s, k)[j] = s[k + j]
<1>1. Len(s) \in Nat /\ \A j \in 1 .. Len(s) : s[j] \in S BY SMT
<1> DEFINE n == Len(s)
<1> HIDE DEF n
<1>2. n \in Nat /\ n = Len(s) /\ k \in 0 .. n /\ \A j \in (k + 1) .. n : s[j] \in S
  BY <1>1 DEF n
<1>3. After(s, k) = SubSeq(s, k + 1, n) BY Zenon, <1>2 DEF After
<1>4. k + 1 \in Int /\ n \in Int BY <1>2
<1>5. SubSeq(s, k + 1, n) \in Seq(S) /\ Len(SubSeq(s, k + 1, n)) = n - k
      /\ \A j \in 1 .. n - k : SubSeq(s, k + 1, n)[j] = s[k + j]
  BY <1>2, <1>4
<1>6. QED BY Zenon, <1>2, <1>3, <1>5

LEMMA AfterHead ==
    ASSUME NEW S, NEW s \in Seq(S), NEW k \in 0 .. Len(s), k < Len(s)
    PROVE  /\ After(s, k) # <<>> /\ Head(After(s, k)) = s[k + 1]
           /\ Tail(After(s, k)) = After(s, k + 1)
<1> DEFINE a == After(s, k)
           b == After(s, k + 1)
<1>0. Len(s) \in Nat /\ k + 1 \in 0 .. Len(s) /\ 1 \in 1 .. Len(s) - k
  BY SMT
<1>1. /\ a \in Seq(S) /\ Len(a) = Len(s) - k /\ \A j \in 1 .. Len(s) - k : a[j] = s[k + j]
      /\ b \in Seq(S) /\ Len(b) = Len(s) - (k + 1)
      /\ \A j \in 1 .. Len(s) - (k + 1) : b[j] = s[(k + 1) + j]
  BY Zenon, <1>0, AfterIs
<1> HIDE DEF a, b
<1>2. a # <<>> /\ Head(a) = s[k + 1] BY <1>0, <1>1
<1>3. Tail(a) = b
  <2>1. Tail(a) \in Seq(S) /\ Len(Tail(a)) = Len(b)
        /\ \A j \in 1 .. Len(b) : Tail(a)[j] = a[j + 1]
    BY <1>0, <1>1, <1>2
  <2>2. \A j \in 1 .. Len(b) : a[j + 1] = b[j] BY <1>0, <1>1
  <2>3. \A j \in 1 .. Len(b) : Tail(a)[j] = b[j] BY Zenon, <2>1, <2>2
  <2>4. QED BY Zenon, <2>1, <2>3, <1>1, SeqEqual
<1>4. QED BY Zenon, <1>2, <1>3 DEF a, b

LEMMA AfterAfter ==
    ASSUME NEW S, NEW s \in Seq(S), NEW k \in 0 .. Len(s), NEW n \in 0 .. Len(s) - k
    PROVE  After(After(s, k), n) = After(s, k + n)
<1> DEFINE a == After(s, k)
           b == After(s, k + n)
<1>0. Len(s) \in Nat /\ k + n \in 0 .. Len(s) BY SMT
<1>1. /\ a \in Seq(S) /\ Len(a) = Len(s) - k /\ \A j \in 1 .. Len(s) - k : a[j] = s[k + j]
      /\ b \in Seq(S) /\ Len(b) = Len(s) - (k + n)
      /\ \A j \in 1 .. Len(s) - (k + n) : b[j] = s[(k + n) + j]
  BY Zenon, <1>0, AfterIs
<1> HIDE DEF a, b
<1>2. n \in 0 .. Len(a) BY Zenon, <1>1
<1>6. a \in Seq(S) BY Zenon, <1>1
<1> DEFINE c == After(a, n)
<1>3. c \in Seq(S) /\ Len(c) = Len(a) - n /\ \A j \in 1 .. Len(a) - n : c[j] = a[n + j]
  BY Zenon, <1>6, <1>2, AfterIs
<1> HIDE DEF c
<1>4. Len(c) = Len(b) /\ \A j \in 1 .. Len(c) : c[j] = b[j]
  BY <1>0, <1>1, <1>3
<1>5. c = b BY Zenon, <1>1, <1>3, <1>4, SeqEqual
<1>7. QED BY Zenon, <1>5 DEF a, b, c

LEMMA Parsing ==
    ASSUME NEW args, Len(args) \in Nat
    PROVE  \E f : /\ f[0] = [o |-> Defaults, rest |-> args]
                  /\ \A n \in 1 .. Len(args) : f[n] = TakeNext(f[n - 1])
                  /\ parse_options(args) = f[Len(args)].o
<1> DEFINE start == [o |-> Defaults, rest |-> args]
           Is(f, m) == f = [n \in 0 .. m |-> IF n = 0 THEN start ELSE TakeNext(f[n - 1])]
           T == {m \in Nat : \E f : Is(f, m)}
<1>1. 0 \in T
  <2> DEFINE f == [n \in 0 .. 0 |-> start]
  <2>1. f = [n \in 0 .. 0 |-> IF n = 0 THEN start ELSE TakeNext(f[n - 1])]
    BY SMT
  <2>2. Is(f, 0) BY Zenon, <2>1
  <2>3. 0 \in Nat BY SMT
  <2>4. QED BY Zenon, <2>2, <2>3
<1>2. ASSUME NEW m \in Nat, m \in T PROVE m + 1 \in T
  <2>1. PICK f : Is(f, m) BY Zenon, <1>2
  <2> HIDE DEF start
  <2> DEFINE g == [n \in 0 .. m + 1 |-> IF n <= m THEN f[n] ELSE TakeNext(f[m])]
             h == [n \in 0 .. m + 1 |-> IF n = 0 THEN start ELSE TakeNext(g[n - 1])]
  <2>2. f[0] = start /\ \A n \in 1 .. m : f[n] = TakeNext(f[n - 1])
    BY <2>1
  <2>3. ASSUME NEW n \in 0 .. m + 1 PROVE g[n] = h[n]
    <3>1. CASE n = 0 BY <2>2, <3>1
    <3>2. CASE n \in 1 .. m
      <4>1. g[n] = f[n] /\ g[n - 1] = f[n - 1] /\ h[n] = TakeNext(g[n - 1])
        BY <3>2
      <4>2. f[n] = TakeNext(f[n - 1]) BY Zenon, <2>2, <3>2
      <4>3. QED BY Zenon, <4>1, <4>2
    <3>3. CASE n = m + 1
      <4>1. g[n] = TakeNext(f[m]) /\ n - 1 = m /\ g[m] = f[m] /\ h[n] = TakeNext(g[n - 1])
        BY <3>3
      <4>2. QED BY Zenon, <4>1
    <3>4. QED BY <3>1, <3>2, <3>3
  <2>4. g = [n \in 0 .. m + 1 |-> g[n]] BY SMT
  <2>5. h = [n \in 0 .. m + 1 |-> h[n]] BY SMT
  <2>8. g = h
    <3> HIDE DEF g, h
    <3>1. QED BY <2>3, <2>4, <2>5
  <2>6. Is(g, m + 1) BY Zenon, <2>8
  <2>7. QED
    <3>1. m + 1 \in Nat BY SMT
    <3>2. QED BY Zenon, <2>6, <3>1
<1>3. Nat \subseteq T
  <2>0. \A m \in Nat : m \in T => m + 1 \in T BY Zenon, <1>2
  <2> HIDE DEF T
  <2>1. QED BY Zenon, <1>1, <2>0, CountingUp
<1>4. \E f : Is(f, Len(args)) BY Zenon, <1>3
<1> DEFINE f == CHOOSE f : Is(f, Len(args))
<1>5. Is(f, Len(args)) BY Zenon, <1>4
<1>6. parse_options(args) = f[Len(args)].o BY Zenon DEF parse_options
<1> HIDE DEF f, start
<1>7. f[0] = start /\ \A n \in 1 .. Len(args) : f[n] = TakeNext(f[n - 1])
  BY <1>5
<1>8. QED BY Zenon, <1>6, <1>7 DEF start

-----------------------------------------------------------------------------
(* One step of parse_options.                                               *)

\* What the options are, as far as a Core of the window depends on them
Has(o, mode, bind, capture, render, port, peers) ==
    /\ DOMAIN o = DOMAIN Defaults
    /\ o.help = FALSE /\ o.listenOnly = FALSE
    /\ o.mode = mode /\ o.bind = bind /\ o.captureDevice = capture /\ o.renderDevice = render
    /\ o.localPort = port /\ o.peers = peers

OptionFields ==
    {"mode", "help", "exclusive", "captureSeconds", "seconds", "host", "port", "peerHost",
     "peerPort", "localPort", "bind", "inputGain", "outputGain", "captureRole", "renderRole",
     "captureDevice", "renderDevice", "peers", "listenOnly", "inputMuted", "telemetry",
     "control", "duckDb", "duckHold", "duckAttack", "duckRelease", "duckThreshold"}

LEMMA OptionFieldsAre == DOMAIN Defaults = OptionFields
  BY DEF Defaults, OptionFields

LEMMA DefaultsHave ==
    Has(Defaults, "probe", EveryAddress, Empty, Empty, DefaultUdpPort, <<>>)
  BY DEF Has, Defaults, EveryAddress

\* Options that set something else
LEMMA OtherSet ==
    ASSUME NEW o, NEW mode, NEW bind, NEW capture, NEW render, NEW port, NEW peers,
           Has(o, mode, bind, capture, render, port, peers),
           NEW field \in {"captureRole", "renderRole", "inputGain", "outputGain", "inputMuted"},
           NEW v
    PROVE  Has([o EXCEPT ![field] = v], mode, bind, capture, render, port, peers)
  BY DEF Has

LEMMA BindSet ==
    ASSUME NEW o, NEW mode, NEW bind, NEW capture, NEW render, NEW port, NEW peers,
           Has(o, mode, bind, capture, render, port, peers), NEW v
    PROVE  Has([o EXCEPT !["bind"] = v], mode, v, capture, render, port, peers)
  BY OptionFieldsAre DEF Has, OptionFields

LEMMA CaptureSet ==
    ASSUME NEW o, NEW mode, NEW bind, NEW capture, NEW render, NEW port, NEW peers,
           Has(o, mode, bind, capture, render, port, peers), NEW v
    PROVE  Has([o EXCEPT !["captureDevice"] = v], mode, bind, v, render, port, peers)
  BY OptionFieldsAre DEF Has, OptionFields

LEMMA RenderSet ==
    ASSUME NEW o, NEW mode, NEW bind, NEW capture, NEW render, NEW port, NEW peers,
           Has(o, mode, bind, capture, render, port, peers), NEW v
    PROVE  Has([o EXCEPT !["renderDevice"] = v], mode, bind, capture, v, port, peers)
  BY OptionFieldsAre DEF Has, OptionFields

LEMMA PeersSet ==
    ASSUME NEW o, NEW mode, NEW bind, NEW capture, NEW render, NEW port, NEW peers,
           Has(o, mode, bind, capture, render, port, peers), NEW v
    PROVE  Has([o EXCEPT !.peers = Append(@, v)], mode, bind, capture, render, port,
               Append(peers, v))
  BY OptionFieldsAre DEF Has, OptionFields

\* What the options of the window's line with a value are
LEMMA ValueOptionsAre ==
    /\ ValueOption("--capture-role") = Value("captureRole", "role", TRUE)
    /\ ValueOption("--render-role") = Value("renderRole", "role", TRUE)
    /\ ValueOption("--input-gain") = Value("inputGain", "gain", TRUE)
    /\ ValueOption("--output-gain") = Value("outputGain", "gain", TRUE)
    /\ ValueOption("--bind-address") = Value("bind", "text", TRUE)
    /\ ValueOption("--capture-device") = Value("captureDevice", "text", TRUE)
    /\ ValueOption("--render-device") = Value("renderDevice", "text", TRUE)
    /\ ValueOption("--input-muted") = {} /\ ValueOption("--room") = {}
    /\ ValueOption("--peer") = {}
<1>1. /\ HandleOption("--capture-role") = {} /\ DuckingOption("--capture-role") = {}
      /\ DeviceOption("--capture-role") = Value("captureRole", "role", TRUE)
  BY DEF HandleOption, DuckingOption, DeviceOption
<1>2. /\ HandleOption("--render-role") = {} /\ DuckingOption("--render-role") = {}
      /\ DeviceOption("--render-role") = Value("renderRole", "role", TRUE)
  BY DEF HandleOption, DuckingOption, DeviceOption
<1>3. /\ HandleOption("--input-gain") = {} /\ DuckingOption("--input-gain") = {}
      /\ DeviceOption("--input-gain") = Value("inputGain", "gain", TRUE)
  BY DEF HandleOption, DuckingOption, DeviceOption
<1>4. /\ HandleOption("--output-gain") = {} /\ DuckingOption("--output-gain") = {}
      /\ DeviceOption("--output-gain") = Value("outputGain", "gain", TRUE)
  BY DEF HandleOption, DuckingOption, DeviceOption
<1>5. /\ HandleOption("--bind-address") = {} /\ DuckingOption("--bind-address") = {}
      /\ DeviceOption("--bind-address") = Value("bind", "text", TRUE)
  BY DEF HandleOption, DuckingOption, DeviceOption
<1>6. /\ HandleOption("--capture-device") = {} /\ DuckingOption("--capture-device") = {}
      /\ DeviceOption("--capture-device") = Value("captureDevice", "text", TRUE)
  BY DEF HandleOption, DuckingOption, DeviceOption
<1>7. /\ HandleOption("--render-device") = {} /\ DuckingOption("--render-device") = {}
      /\ DeviceOption("--render-device") = Value("renderDevice", "text", TRUE)
  BY DEF HandleOption, DuckingOption, DeviceOption
<1>8. /\ HandleOption("--input-muted") = {} /\ DuckingOption("--input-muted") = {}
      /\ DeviceOption("--input-muted") = {}
      /\ HandleOption("--room") = {} /\ DuckingOption("--room") = {}
      /\ DeviceOption("--room") = {}
      /\ HandleOption("--peer") = {} /\ DuckingOption("--peer") = {}
      /\ DeviceOption("--peer") = {}
  BY DEF HandleOption, DuckingOption, DeviceOption
<1>9. ASSUME NEW x, HandleOption(x) = {}, DuckingOption(x) = {}
      PROVE  ValueOption(x) = DeviceOption(x)
  BY <1>9 DEF ValueOption
<1>10. QED BY Zenon, <1>1, <1>2, <1>3, <1>4, <1>5, <1>6, <1>7, <1>8, <1>9

LEMMA TheOne == ASSUME NEW x PROVE The({x}) = x
<1>1. \A y \in {x} : y = x BY Zenon
<1>2. \E y \in {x} : TRUE BY Zenon
<1>3. QED BY Zenon, <1>1, <1>2 DEF The

\* A step of the parser from the argument behind k to the one behind n
Reads(s, k, o, n, next) ==
    TakeNext([o |-> o, rest |-> After(s, k)]) = [o |-> next, rest |-> After(s, n)]

\* An option and its value stand behind k.
TakesValue(s, k, option, field, kind, v) ==
    /\ s[k + 1] = Opt(option) /\ \E joined : ValueOption(option) = Value(field, kind, joined)
    /\ Read(kind, s[k + 2]) = {v}

\* An argument is taken where the parser stands.
LEMMA NextIs ==
    ASSUME NEW S, NEW s \in Seq(S), NEW k \in 0 .. Len(s), k < Len(s), NEW o
    PROVE  TakeNext([o |-> o, rest |-> After(s, k)]) = Argument(o, s[k + 1], After(s, k + 1))
<1>1. /\ After(s, k) # <<>> /\ Head(After(s, k)) = s[k + 1]
      /\ Tail(After(s, k)) = After(s, k + 1)
  BY Zenon, AfterHead
<1> DEFINE p == [o |-> o, rest |-> After(s, k)]
<1>2. p.o = o /\ p.rest = After(s, k) BY Zenon
<1> HIDE DEF p
<1>3. TakeNext(p) = Argument(o, s[k + 1], After(s, k + 1))
  BY Zenon, <1>1, <1>2 DEF TakeNext
<1>4. QED BY Zenon, <1>3 DEF p

\* An option with its value
LEMMA ValueTaken ==
    ASSUME NEW S, NEW s \in Seq(S), NEW k \in 0 .. Len(s), k + 2 <= Len(s), NEW o,
           NEW option, NEW field, NEW kind, NEW v, TakesValue(s, k, option, field, kind, v)
    PROVE  Reads(s, k, o, k + 2, [o EXCEPT ![field] = v])
<1>9. /\ s[k + 1] = Opt(option) /\ Read(kind, s[k + 2]) = {v}
      /\ \E joined : ValueOption(option) = Value(field, kind, joined)
  BY Zenon DEF TakesValue
<1>10. PICK joined : ValueOption(option) = Value(field, kind, joined)
  BY Zenon, <1>9
<1>8. /\ s[k + 1] = Opt(option) /\ ValueOption(option) = Value(field, kind, joined)
      /\ Read(kind, s[k + 2]) = {v}
  BY Zenon, <1>9, <1>10
<1>0. k < Len(s) /\ k + 1 \in 0 .. Len(s) /\ k + 1 < Len(s) /\ (k + 1) + 1 = k + 2
  BY SMT
<1> DEFINE rest == After(s, k + 1)
<1>1. TakeNext([o |-> o, rest |-> After(s, k)]) = Argument(o, Opt(option), rest)
  BY Zenon, <1>0, <1>8, NextIs
<1>2. rest # <<>> /\ Head(rest) = s[k + 2] /\ Tail(rest) = After(s, k + 2)
  <2>1. rest # <<>> /\ Head(rest) = s[(k + 1) + 1] /\ Tail(rest) = After(s, (k + 1) + 1)
    BY Zenon, <1>0, AfterHead
  <2>2. QED BY Zenon, <1>0, <2>1
<1> DEFINE r == [field |-> field, kind |-> kind, joined |-> joined]
<1>3. ValueOption(option) = {r} /\ r.field = field /\ r.kind = kind
  BY Zenon, <1>8 DEF Value
<1> HIDE DEF r, rest
<1>4. The(ValueOption(option)) = r /\ The({v}) = v /\ ValueOption(option) # {} /\ {v} # {}
  BY Zenon, <1>3, TheOne
<1>5. Argument(o, Opt(option), rest) = TakeValue(o, option, rest)
  <2>1. Opt(option)[1] = "opt" /\ Opt(option)[2] = option BY DEF Opt
  <2>2. "opt" # "joined" BY SMT
  <2>3. QED BY Zenon, <1>4, <2>1, <2>2 DEF Argument
<1>6. TakeValue(o, option, rest) = [o |-> [o EXCEPT ![field] = v], rest |-> After(s, k + 2)]
  BY Zenon, <1>2, <1>3, <1>4, <1>8 DEF TakeValue
<1>7. QED BY Zenon, <1>1, <1>5, <1>6 DEF Reads

LEMMA ReadsAre ==
    ASSUME NEW t
    PROVE  /\ Read("port", t) = Whole(t, 1, 65535) /\ Read("gain", t) = Decimal(t, 0, 8)
           /\ Read("db", t) = Decimal(t, 0, 60) /\ Read("level", t) = Decimal(t, 0, 1)
           /\ Read("ms", t) = Whole(t, 0, 1000) /\ Read("release", t) = Whole(t, 0, 5000)
           /\ Read("buffer", t) = Whole(t, 1, 500)
  BY DEF Read

LEMMA OtherReadsAre ==
    ASSUME NEW t
    PROVE  /\ Read("flag", t) = {t[2] = 1 : n \in Whole(t, 0, 1)}
           /\ Read("text", t) = {t} \ {Empty} /\ Read("role", t) = RoleOf(t)
  BY DEF Read

LEMMA WholeIs ==
    ASSUME NEW n \in Int, NEW low \in Int, NEW high \in Int, low <= n, n <= high
    PROVE  Whole(Num(n), low, high) = {n}
<1>1. Num(n)[1] = "num" /\ Num(n)[2] = n BY DEF Num
<1>2. n \in low .. high BY SMT
<1>3. {n} \cap (low .. high) = {n} BY Zenon, <1>2
<1>4. QED BY Zenon, <1>1, <1>3 DEF Whole

LEMMA PortOperand == ASSUME NEW n \in PortNumbers PROVE Read("port", Num(n)) = {n}
<1> DEFINE m == 65535
<1>1. n \in Int /\ 1 \in Int /\ m \in Int /\ 1 <= n /\ n <= m
  BY Ranges
<1>2. Read("port", Num(n)) = Whole(Num(n), 1, m) BY ReadsAre
<1> HIDE DEF m
<1>3. QED BY Zenon, <1>1, <1>2, WholeIs

LEMMA FlagTaken ==
    ASSUME NEW S, NEW s \in Seq(S), NEW k \in 0 .. Len(s), k < Len(s), NEW o,
           s[k + 1] = Opt("--input-muted")
    PROVE  Reads(s, k, o, k + 1, [o EXCEPT !["inputMuted"] = TRUE])
<1> DEFINE rest == After(s, k + 1)
           t == Opt("--input-muted")
<1>1. TakeNext([o |-> o, rest |-> After(s, k)]) = Argument(o, t, rest)
  BY Zenon, NextIs
<1>2. t[1] = "opt" /\ t[2] = "--input-muted" /\ "opt" # "joined"
  BY DEF Opt
<1>3. Flag("--input-muted") = {"inputMuted"} BY DEF Flag
<1>4. /\ TestMode("--input-muted") = {} /\ LoopMode("--input-muted") = {}
      /\ TalkMode("--input-muted") = {} /\ "--input-muted" # "--peer"
  BY DEF TestMode, LoopMode, TalkMode
<1>5. ModeOption("--input-muted") = {} BY Zenon, <1>4 DEF ModeOption
<1>6. The(Flag("--input-muted")) = "inputMuted" /\ Flag("--input-muted") # {}
  BY Zenon, <1>3, TheOne
<1> HIDE DEF t, rest
<1>7. Argument(o, t, rest) = [o |-> [o EXCEPT !["inputMuted"] = TRUE], rest |-> rest]
  BY Zenon, <1>2, <1>4, <1>5, <1>6, ValueOptionsAre DEF Argument
<1>8. QED BY Zenon, <1>1, <1>7 DEF t, rest, Reads

LEMMA RoomTaken ==
    ASSUME NEW S, NEW s \in Seq(S), NEW k \in 0 .. Len(s), k + 2 <= Len(s), NEW o,
           NEW bind, NEW capture, NEW render, NEW port, NEW peers,
           Has(o, "probe", bind, capture, render, port, peers),
           NEW n \in PortNumbers, s[k + 1] = Opt("--room"), s[k + 2] = Num(n)
    PROVE  \E next : /\ Reads(s, k, o, k + 2, next)
                     /\ Has(next, "room", bind, capture, render, n, peers)
<1>0. /\ k < Len(s) /\ k + 1 \in 0 .. Len(s) /\ 1 \in 0 .. Len(s) - (k + 1)
      /\ (k + 1) + 1 = k + 2 /\ 1 \in 1 .. Len(s) - (k + 1) /\ Len(s) \in Nat
  BY SMT
<1> DEFINE rest == After(s, k + 1)
           t == Opt("--room")
           needs == <<<<"localPort", "port">>>>
           m == [name |-> "room", needs |-> needs, presets |-> Seconds(0), may |-> <<>>]
           set == [o EXCEPT !.mode = "room"]
           next == Over(Seconds(0), Over(Filled(needs, rest), set))
<1>1. TakeNext([o |-> o, rest |-> After(s, k)]) = Argument(o, t, rest)
  BY Zenon, <1>0, NextIs
<1>2. /\ rest \in Seq(S) /\ Len(rest) = Len(s) - (k + 1) /\ rest[1] = Num(n)
      /\ After(rest, 1) = After(s, k + 2)
  <2>1. /\ rest \in Seq(S) /\ Len(rest) = Len(s) - (k + 1) /\ rest[1] = s[(k + 1) + 1]
        /\ After(rest, 1) = After(s, (k + 1) + 1)
    BY Zenon, <1>0, AfterIs, AfterAfter
  <2>2. QED BY Zenon, <1>0, <2>1
<1>3. /\ TestMode("--room") = {} /\ LoopMode("--room") = {} /\ TalkMode("--room") = {m}
  BY DEF TestMode, LoopMode, TalkMode, Mode
<1>4. ModeOption("--room") = {m} BY Zenon, <1>3 DEF ModeOption
<1>5. /\ m.name = "room" /\ m.needs = needs /\ m.presets = Seconds(0) /\ m.may = <<>>
      /\ Len(needs) = 1 /\ DOMAIN needs = {1} /\ needs[1][1] = "localPort"
      /\ needs[1][2] = "port"
  BY SMT
<1>6. t[1] = "opt" /\ t[2] = "--room" /\ "opt" # "joined" /\ o.mode = "probe"
  BY DEF Opt, Has
<1>7. Read("port", rest[1]) = {n} BY Zenon, <1>2, PortOperand
<1> HIDE DEF t, rest, m, needs
<1>8. The(ModeOption("--room")) = m /\ ModeOption("--room") # {}
  BY Zenon, <1>4, TheOne
<1>9. Fits(needs, rest) BY Zenon, <1>5, <1>7 DEF Fits
<1>10. Argument(o, t, rest) = TakeMode(o, "--room", rest)
  BY Zenon, <1>6, <1>8, ValueOptionsAre DEF Argument
<1>11. TakeMode(o, "--room", rest) = Followed(next, <<>>, After(rest, 1), TRUE)
  <2>1. ~ (Len(rest) < Len(m.needs)) BY <1>0, <1>2, <1>5
  <2>2. SetMode(o, m.name) = set BY Zenon, <1>5, <1>6 DEF SetMode
  <2>3. QED BY Zenon, <1>5, <1>6, <1>8, <1>9, <2>1, <2>2 DEF TakeMode
<1>12. ASSUME NEW p PROVE FollowedBy(p, <<>>, 1, TRUE) = p /\ FollowedBy(p, <<>>, 2, TRUE) = p
  <2>1. 1 \notin DOMAIN <<>> /\ 2 \notin DOMAIN <<>> BY SMT
  <2>2. QED BY Zenon, <2>1 DEF FollowedBy
<1>13. Followed(next, <<>>, After(rest, 1), TRUE) = [o |-> next, rest |-> After(s, k + 2)]
  BY Zenon, <1>2, <1>12 DEF Followed
<1>14. DOMAIN Filled(needs, rest) = {"localPort"} /\ Filled(needs, rest)["localPort"] = n
  <2>1. {needs[j][1] : j \in DOMAIN needs} = {"localPort"}
    BY Zenon, <1>5
  <2>2. (CHOOSE j \in DOMAIN needs : needs[j][1] = "localPort") = 1
    BY Zenon, <1>5
  <2>3. The(Read(needs[1][2], rest[1])) = n
    BY Zenon, <1>5, <1>7, TheOne
  <2>4. QED BY Zenon, <2>1, <2>2, <2>3 DEF Filled
<1>15. Has(next, "room", bind, capture, render, n, peers)
  <2> DEFINE filled == Filled(needs, rest)
  <2>1. DOMAIN filled = {"localPort"} /\ filled["localPort"] = n
    BY Zenon, <1>14
  <2> HIDE DEF filled
  <2>2. DOMAIN Seconds(0) = {"seconds"} BY Zenon DEF Seconds
  <2> DEFINE one == Over(filled, set)
  <2>3. /\ DOMAIN one = DOMAIN set \cup {"localPort"}
        /\ \A f \in DOMAIN one : f # "localPort" => one[f] = set[f]
        /\ "localPort" \in DOMAIN one => one["localPort"] = n
    BY Zenon, <2>1 DEF Over
  <2>4. /\ DOMAIN next = DOMAIN one \cup {"seconds"}
        /\ \A f \in DOMAIN next : f # "seconds" => next[f] = one[f]
    BY Zenon, <2>2 DEF Over, filled
  <2> HIDE DEF next, one
  <2>5. DOMAIN set = OptionFields /\ set.mode = "room"
        /\ \A f \in OptionFields : f # "mode" => set[f] = o[f]
    BY OptionFieldsAre DEF Has, OptionFields
  <2> HIDE DEF set
  <2>6. DOMAIN next = OptionFields
    BY <2>3, <2>4, <2>5 DEF OptionFields
  <2>7. QED BY <2>3, <2>4, <2>5, <2>6, OptionFieldsAre DEF Has, OptionFields
<1>16. QED BY Zenon, <1>1, <1>10, <1>11, <1>13, <1>15 DEF t, Reads

-----------------------------------------------------------------------------
(* The operands of --peer.                                                  *)

\* What a Core is told of a contact by its line
Told(c) ==
    [host |-> c.host, port |-> c.port,
     gain |-> IF c.muted THEN 0 ELSE Rounded(Clamp(c.gain, 0, GainMax), GainStep),
     db |-> IF c.selfDuck THEN Rounded(c.db, 1000) ELSE 0,
     threshold |-> Rounded(c.threshold, 10), attack |-> c.attack, hold |-> c.hold,
     release |-> c.release, ptt |-> c.ptt, buffer |-> c.buffer]

LEMMA DecimalIs ==
    ASSUME NEW n \in Int, NEW high \in Int, 0 <= n, n <= high * Unit
    PROVE  Decimal(Dec(n), 0, high) = {n}
<1> DEFINE t == Dec(n)
           m == high * Unit
<1>1. t[1] = "dec" /\ t[2] = n BY DEF Dec
<1>2. Decimal(t, 0, high) = {n} \cap (0 * Unit .. m)
  BY <1>1 DEF Decimal
<1>3. n \in 0 * Unit .. m
  <2>1. m \in Int /\ 0 * Unit = 0 /\ n <= m BY DEF Unit
  <2> HIDE DEF m
  <2>2. QED BY <2>1
<1> HIDE DEF t, m
<1>4. QED BY <1>2, <1>3 DEF t

\* A number of whole units, written without a point
LEMMA UnitsAre ==
    ASSUME NEW n \in Int, NEW high \in Int, 0 <= n, n <= high
    PROVE  Decimal(Num(n), 0, high) = {n * Unit}
<1> DEFINE t == Num(n)
<1>1. t[1] = "num" /\ "num" # "dec" BY DEF Num
<1>2. Whole(t, 0, high) = {n} BY WholeIs
<1> HIDE DEF t
<1>3. Decimal(t, 0, high) = {n * Unit}
  BY Zenon, <1>1, <1>2 DEF Decimal
<1>4. QED BY Zenon, <1>3 DEF t

LEMMA DecimalWritten ==
    ASSUME NEW v \in Int, NEW step \in {10, 1000}, NEW high \in Int,
           0 <= Rounded(v, step), Rounded(v, step) <= high * Unit
    PROVE  Decimal(format_decimal(v, step), 0, high) = {Rounded(v, step)}
<1> DEFINE r == Rounded(v, step)
<1>1. r \in Int BY DEF Rounded
<1>2. 0 <= r /\ r <= high * Unit OBVIOUS
<1> HIDE DEF r
<1>3. CASE r % Unit = 0
  <2> DEFINE n == r \div Unit
  <2>1. n \in Int /\ 0 <= n /\ n <= high /\ n * Unit = r
    BY <1>1, <1>2, <1>3 DEF Unit
  <2>0. format_decimal(v, step) = IF r % Unit = 0 THEN Num(n) ELSE Dec(r)
    BY DEF format_decimal, r
  <2> HIDE DEF n
  <2>2. format_decimal(v, step) = Num(n) BY <1>3, <2>0
  <2>3. Decimal(Num(n), 0, high) = {n * Unit} BY Zenon, <2>1, UnitsAre
  <2>4. QED BY Zenon, <2>1, <2>2, <2>3 DEF r
<1>4. CASE r % Unit # 0
  <2>1. format_decimal(v, step) = Dec(r)
    BY Zenon, <1>4 DEF format_decimal, r
  <2>2. Decimal(Dec(r), 0, high) = {r} BY <1>1, <1>2, DecimalIs
  <2>3. QED BY Zenon, <2>1, <2>2 DEF r
<1>5. QED BY Zenon, <1>3, <1>4

LEMMA RoundedNear ==
    ASSUME NEW v \in Int
    PROVE  /\ Rounded(v, 10) \in Int /\ Near(Rounded(v, 10), v, 5)
           /\ Rounded(v, 1000) \in Int /\ Near(Rounded(v, 1000), v, Unit \div 200)
           /\ Rounded(v, GainStep) \in Int /\ Near(Rounded(v, GainStep), v, GainStep \div 2)
           /\ v \in GainRange => Rounded(v, GainStep) \in GainRange
           /\ v \in DbRange => Rounded(v, 1000) \in DbRange
           /\ v \in LevelRange => Rounded(v, 10) \in LevelRange
<1>1. Unit \div 200 = 500 /\ GainStep = 10000 /\ GainStep \div 2 = 5000
  BY DEF Unit, GainStep
<1>2. /\ Rounded(v, 10) \in Int /\ Near(Rounded(v, 10), v, 5)
      /\ v \in LevelRange => Rounded(v, 10) \in LevelRange
  BY Ranges DEF Rounded, Near
<1>3. /\ Rounded(v, 1000) \in Int /\ Near(Rounded(v, 1000), v, 500)
      /\ v \in DbRange => Rounded(v, 1000) \in DbRange
  BY Ranges DEF Rounded, Near
<1>4. /\ Rounded(v, 10000) \in Int /\ Near(Rounded(v, 10000), v, 5000)
      /\ v \in GainRange => Rounded(v, 10000) \in GainRange
  <2> DEFINE q == (v + 5000) \div 10000
             r == Rounded(v, 10000)
  <2>1. q \in Int /\ 10000 * q <= v + 5000 /\ v + 5000 < 10000 * q + 10000
    BY SMT
  <2>2. r = q * 10000
    <3>1. 10000 \div 2 = 5000 BY SMT
    <3>2. QED BY <3>1 DEF Rounded
  <2> HIDE DEF q, r
  <2>3. r \in Int /\ -5000 <= r - v /\ r - v <= 5000 BY <2>1, <2>2
  <2>4. Near(r, v, 5000) BY <2>3 DEF Near
  <2>5. v \in GainRange => r \in GainRange BY <2>1, <2>2, <2>3, Ranges
  <2>6. QED BY <2>3, <2>4, <2>5 DEF r
<1>5. QED BY <1>1, <1>2, <1>3, <1>4

\* Each operand is read as what it is written from.
LEMMA PeerOperands ==
    ASSUME NEW c \in Contacts, c.host # Empty
    PROVE  LET t == PeerArguments(c)
           IN  /\ Len(t) = 11 /\ t[1] = Opt("--peer")
               /\ Read("text", t[2]) = {Told(c).host} /\ Read("port", t[3]) = {Told(c).port}
               /\ Read("gain", t[4]) = {Told(c).gain} /\ Read("db", t[5]) = {Told(c).db}
               /\ Read("level", t[6]) = {Told(c).threshold}
               /\ Read("ms", t[7]) = {Told(c).attack} /\ Read("ms", t[8]) = {Told(c).hold}
               /\ Read("release", t[9]) = {Told(c).release}
               /\ Read("flag", t[10]) = {Told(c).ptt} /\ Read("buffer", t[11]) = {Told(c).buffer}
<1> DEFINE t == PeerArguments(c)
<1>0. /\ Len(t) = 11 /\ t[1] = Opt("--peer") /\ t[2] = c.host /\ t[3] = Num(c.port)
      /\ t[4] = contact_runtime_gain_text(c)
      /\ t[5] = IF c.selfDuck THEN format_decimal(c.db, 1000) ELSE Num(0)
      /\ t[6] = format_decimal(c.threshold, 10) /\ t[7] = Num(c.attack) /\ t[8] = Num(c.hold)
      /\ t[9] = Num(c.release) /\ t[10] = Num(IF c.ptt THEN 1 ELSE 0) /\ t[11] = Num(c.buffer)
  BY DEF PeerArguments
<1>1. /\ c.port \in PortNumbers /\ c.gain \in GainRange /\ c.db \in DbRange
      /\ c.threshold \in LevelRange /\ c.attack \in TimeRange /\ c.hold \in TimeRange
      /\ c.release \in ReleaseRange /\ c.buffer \in BufferRange
      /\ c.muted \in BOOLEAN /\ c.ptt \in BOOLEAN /\ c.selfDuck \in BOOLEAN
  BY Zenon, ContactFields
<1>2. /\ Told(c).host = c.host /\ Told(c).port = c.port
      /\ Told(c).gain = IF c.muted THEN 0 ELSE Rounded(Clamp(c.gain, 0, GainMax), GainStep)
      /\ Told(c).db = IF c.selfDuck THEN Rounded(c.db, 1000) ELSE 0
      /\ Told(c).threshold = Rounded(c.threshold, 10)
      /\ Told(c).attack = c.attack /\ Told(c).hold = c.hold /\ Told(c).release = c.release
      /\ Told(c).ptt = c.ptt /\ Told(c).buffer = c.buffer
  BY DEF Told
<1> HIDE DEF t
<1>3. Read("text", t[2]) = {Told(c).host}
  <2>1. {c.host} \ {Empty} = {c.host} BY Zenon
  <2>2. QED BY Zenon, <1>0, <1>2, <2>1, OtherReadsAre
<1>4. Read("port", t[3]) = {Told(c).port}
  BY Zenon, <1>0, <1>1, <1>2, PortOperand
<1>5. Read("gain", t[4]) = {Told(c).gain}
  <2>1. CASE c.muted
    <3>1. Decimal(Num(0), 0, 8) = {0 * Unit} /\ 0 * Unit = 0
      BY UnitsAre DEF Unit
    <3>2. t[4] = Num(0) /\ Told(c).gain = 0
      BY Zenon, <1>0, <1>2, <2>1 DEF contact_runtime_gain_text
    <3>3. QED BY <3>1, <3>2, ReadsAre
  <2>2. CASE ~ c.muted
    <3> DEFINE g == Rounded(Clamp(c.gain, 0, GainMax), GainStep)
    <3>1. Clamp(c.gain, 0, GainMax) = c.gain /\ c.gain \in Int
      BY <1>1, Clamped, Ranges DEF GainMax
    <3>2. g \in GainRange BY <1>1, <3>1, RoundedNear
    <3>3. t[4] = Dec(g) /\ Told(c).gain = g
      BY Zenon, <1>0, <1>2, <2>2 DEF contact_runtime_gain_text
    <3> HIDE DEF g
    <3>4. g \in Int /\ 0 <= g /\ g <= 8 * Unit
      BY <3>2, Ranges DEF Unit
    <3>5. Decimal(Dec(g), 0, 8) = {g} BY <3>4, DecimalIs
    <3>6. QED BY <3>3, <3>5, ReadsAre
  <2>3. QED BY Zenon, <2>1, <2>2
<1>6. Read("db", t[5]) = {Told(c).db}
  <2>1. CASE ~ c.selfDuck
    <3>1. Decimal(Num(0), 0, 60) = {0 * Unit} /\ 0 * Unit = 0
      BY UnitsAre DEF Unit
    <3>2. t[5] = Num(0) /\ Told(c).db = 0 BY Zenon, <1>0, <1>2, <2>1
    <3>3. QED BY <3>1, <3>2, ReadsAre
  <2>2. CASE c.selfDuck
    <3> DEFINE g == Rounded(c.db, 1000)
    <3>1. c.db \in Int BY <1>1, Ranges
    <3>2. g \in DbRange BY <1>1, <3>1, RoundedNear
    <3>3. t[5] = format_decimal(c.db, 1000) /\ Told(c).db = g
      BY <1>0, <1>2, <2>2
    <3>4. 0 <= g /\ g <= 60 * Unit
      <4> HIDE DEF g
      <4>1. QED BY <3>2, Ranges DEF Unit
    <3>5. Decimal(format_decimal(c.db, 1000), 0, 60) = {g}
      BY <3>1, <3>4, DecimalWritten
    <3> HIDE DEF g
    <3>6. QED BY <3>3, <3>5, ReadsAre
  <2>3. QED BY Zenon, <2>1, <2>2
<1>7. Read("level", t[6]) = {Told(c).threshold}
  <2> DEFINE g == Rounded(c.threshold, 10)
  <2>1. c.threshold \in Int BY <1>1, Ranges
  <2>2. g \in LevelRange BY <1>1, <2>1, RoundedNear
  <2>4. 0 <= g /\ g <= 1 * Unit
    <3> HIDE DEF g
    <3>1. QED BY <2>2, Ranges DEF Unit
  <2>5. Decimal(format_decimal(c.threshold, 10), 0, 1) = {g}
    BY <2>1, <2>4, DecimalWritten
  <2> HIDE DEF g
  <2>6. QED BY <1>0, <1>2, <2>5, ReadsAre DEF g
<1>8. Read("ms", t[7]) = {Told(c).attack} /\ Read("ms", t[8]) = {Told(c).hold}
      /\ Read("release", t[9]) = {Told(c).release} /\ Read("buffer", t[11]) = {Told(c).buffer}
  <2>1. /\ c.attack \in Int /\ 0 <= c.attack /\ c.attack <= 1000
        /\ c.hold \in Int /\ 0 <= c.hold /\ c.hold <= 1000
        /\ c.release \in Int /\ 0 <= c.release /\ c.release <= 5000
        /\ c.buffer \in Int /\ 1 <= c.buffer /\ c.buffer <= 500
    BY <1>1, Ranges
  <2>2. /\ Whole(Num(c.attack), 0, 1000) = {c.attack} /\ Whole(Num(c.hold), 0, 1000) = {c.hold}
    BY <2>1, WholeIs
  <2>3. Whole(Num(c.release), 0, 5000) = {c.release} BY <2>1, WholeIs
  <2>4. Whole(Num(c.buffer), 1, 500) = {c.buffer} BY <2>1, WholeIs
  <2>5. QED BY <1>0, <1>2, <2>2, <2>3, <2>4, ReadsAre
<1>9. Read("flag", t[10]) = {Told(c).ptt}
  <2> DEFINE n == IF c.ptt THEN 1 ELSE 0
  <2>1. n \in Int /\ 0 <= n /\ n <= 1 BY <1>1
  <2>2. t[10] = Num(n) BY Zenon, <1>0
  <2> HIDE DEF n
  <2>3. Whole(Num(n), 0, 1) = {n} /\ Num(n)[2] = n
    BY <2>1, WholeIs DEF Num
  <2> DEFINE z == Num(n)[2] = 1
  <2>4. z = c.ptt
    <3>1. CASE c.ptt = TRUE
      <4>1. n = 1 BY Zenon, <3>1 DEF n
      <4>2. z BY Zenon, <4>1, <2>3
      <4>3. QED BY Zenon, <3>1, <4>2
    <3>2. CASE c.ptt = FALSE
      <4>1. n = 0 /\ 0 # 1 BY <3>2 DEF n
      <4>2. ~ z BY Zenon, <4>1, <2>3
      <4>3. QED BY Zenon, <3>2, <4>2
    <3>3. QED BY Zenon, <1>1, <3>1, <3>2
  <2>5. Read("flag", t[10]) = {z : x \in Whole(Num(n), 0, 1)}
    <3> DEFINE u == Num(n)
    <3> HIDE DEF u
    <3>1. Read("flag", u) = {u[2] = 1 : x \in Whole(u, 0, 1)}
      BY OtherReadsAre
    <3>2. QED BY Zenon, <2>2, <3>1 DEF u
  <2> HIDE DEF z
  <2>7. {z : x \in Whole(Num(n), 0, 1)} = {z} BY Zenon, <2>3
  <2>6. QED BY Zenon, <1>2, <2>4, <2>5, <2>7
<1>10. QED BY Zenon, <1>0, <1>3, <1>4, <1>5, <1>6, <1>7, <1>8, <1>9 DEF t

NeededFields == {"host", "port", "gain", "db", "threshold", "attack", "hold", "release"}

LEMMA PeerNeedsAre ==
    /\ Len(PeerNeeds) = 8 /\ DOMAIN PeerNeeds = 1 .. 8
    /\ PeerNeeds[1] = <<"host", "text">> /\ PeerNeeds[2] = <<"port", "port">>
    /\ PeerNeeds[3] = <<"gain", "gain">> /\ PeerNeeds[4] = <<"db", "db">>
    /\ PeerNeeds[5] = <<"threshold", "level">> /\ PeerNeeds[6] = <<"attack", "ms">>
    /\ PeerNeeds[7] = <<"hold", "ms">> /\ PeerNeeds[8] = <<"release", "release">>
    /\ {PeerNeeds[k][1] : k \in DOMAIN PeerNeeds} = NeededFields
    /\ \A i, j \in 1 .. 8 : PeerNeeds[i][1] = PeerNeeds[j][1] => i = j
<1>1. /\ Len(PeerNeeds) = 8 /\ DOMAIN PeerNeeds = 1 .. 8
      /\ PeerNeeds[1] = <<"host", "text">> /\ PeerNeeds[2] = <<"port", "port">>
      /\ PeerNeeds[3] = <<"gain", "gain">> /\ PeerNeeds[4] = <<"db", "db">>
      /\ PeerNeeds[5] = <<"threshold", "level">> /\ PeerNeeds[6] = <<"attack", "ms">>
      /\ PeerNeeds[7] = <<"hold", "ms">> /\ PeerNeeds[8] = <<"release", "release">>
  BY DEF PeerNeeds
<1>2. \A i \in 1 .. 8 : i \in {1, 2, 3, 4, 5, 6, 7, 8} BY SMT
<1>3. /\ PeerNeeds[1][1] = "host" /\ PeerNeeds[2][1] = "port" /\ PeerNeeds[3][1] = "gain"
      /\ PeerNeeds[4][1] = "db" /\ PeerNeeds[5][1] = "threshold" /\ PeerNeeds[6][1] = "attack"
      /\ PeerNeeds[7][1] = "hold" /\ PeerNeeds[8][1] = "release"
  BY <1>1
<1> DEFINE first == [k \in 1 .. 8 |-> PeerNeeds[k][1]]
<1>4. /\ first[1] = "host" /\ first[2] = "port" /\ first[3] = "gain"
      /\ first[4] = "db" /\ first[5] = "threshold" /\ first[6] = "attack"
      /\ first[7] = "hold" /\ first[8] = "release"
      /\ \A i \in 1 .. 8 : first[i] = PeerNeeds[i][1]
  BY <1>3
<1> HIDE DEF first
<1>5. \A i, j \in 1 .. 8 : first[i] = first[j] => i = j BY <1>2, <1>4
<1>6. {PeerNeeds[k][1] : k \in 1 .. 8} = NeededFields
  <2>1. \A x : x \in {PeerNeeds[k][1] : k \in 1 .. 8} <=> x \in NeededFields
    BY <1>2, <1>3 DEF NeededFields
  <2>2. QED BY Zenon, <2>1
<1>7. QED BY Zenon, <1>1, <1>4, <1>5, <1>6

LEMMA PeerPlaces ==
    ASSUME NEW n \in Nat, NEW k \in 0 .. n, k + 9 <= n
    PROVE  /\ k < n /\ k + 1 \in 0 .. n /\ (k + 1) + 8 = k + 9 /\ 8 \in 0 .. n - (k + 1)
           /\ 8 <= n - (k + 1)
           /\ \A j \in 1 .. 8 : j \in 1 .. n - (k + 1)
           /\ (k + 1) + 1 = k + 2 /\ (k + 1) + 2 = k + 3 /\ (k + 1) + 3 = k + 4
           /\ (k + 1) + 4 = k + 5 /\ (k + 1) + 5 = k + 6 /\ (k + 1) + 6 = k + 7
           /\ (k + 1) + 7 = k + 8
  BY SMT

\* The operands that --peer needs stand behind k, each read as the contact t has it.
PeerNeeded(s, k, t) ==
    /\ s[k + 1] = Opt("--peer")
    /\ Read("text", s[k + 2]) = {t.host} /\ Read("port", s[k + 3]) = {t.port}
    /\ Read("gain", s[k + 4]) = {t.gain} /\ Read("db", s[k + 5]) = {t.db}
    /\ Read("level", s[k + 6]) = {t.threshold} /\ Read("ms", s[k + 7]) = {t.attack}
    /\ Read("ms", s[k + 8]) = {t.hold} /\ Read("release", s[k + 9]) = {t.release}
IsPeer(t) == DOMAIN t = NeededFields \cup {"ptt", "buffer"} /\ t = [f \in DOMAIN t |-> t[f]]

\* What follows them is the rest of the contact.
PeerFollowed(s, k, t, n) ==
    \E more : /\ Followed(PeerPresets, PeerMay, After(s, k + 9), FALSE)
                    = [o |-> more, rest |-> After(s, n)]
              /\ DOMAIN more = {"ptt", "buffer"}
              /\ more["ptt"] = t.ptt /\ more["buffer"] = t.buffer

LEMMA PeerIsTaken ==
    ASSUME NEW S, NEW s \in Seq(S), NEW k \in 0 .. Len(s), k + 9 <= Len(s), NEW o,
           NEW T, IsPeer(T), PeerNeeded(s, k, T), NEW n, PeerFollowed(s, k, T, n)
    PROVE  Reads(s, k, o, n, [o EXCEPT !.peers = Append(@, T)])
<1> DEFINE rest == After(s, k + 1)
           t == Opt("--peer")
<1>20. Len(s) \in Nat BY Zenon, LenProperties
<1>0. /\ k < Len(s) /\ k + 1 \in 0 .. Len(s) /\ (k + 1) + 8 = k + 9
      /\ 8 \in 0 .. Len(s) - (k + 1) /\ 8 <= Len(s) - (k + 1)
      /\ \A j \in 1 .. 8 : j \in 1 .. Len(s) - (k + 1)
      /\ (k + 1) + 1 = k + 2 /\ (k + 1) + 2 = k + 3 /\ (k + 1) + 3 = k + 4
      /\ (k + 1) + 4 = k + 5 /\ (k + 1) + 5 = k + 6 /\ (k + 1) + 6 = k + 7
      /\ (k + 1) + 7 = k + 8
  BY Zenon, <1>20, PeerPlaces
<1>2. s[k + 1] = t BY Zenon DEF PeerNeeded
<1>3. TakeNext([o |-> o, rest |-> After(s, k)]) = Argument(o, t, rest)
  BY Zenon, <1>0, <1>2, NextIs
<1>4. rest \in Seq(S) /\ Len(rest) = Len(s) - (k + 1) /\ After(rest, 8) = After(s, k + 9)
      /\ \A j \in 1 .. 8 : rest[j] = s[(k + 1) + j]
  <2>1. /\ rest \in Seq(S) /\ Len(rest) = Len(s) - (k + 1)
        /\ \A j \in 1 .. Len(s) - (k + 1) : rest[j] = s[(k + 1) + j]
    <3> DEFINE m == k + 1
    <3>1. m \in 0 .. Len(s) BY Zenon, <1>0
    <3> HIDE DEF m
    <3>2. /\ After(s, m) \in Seq(S) /\ Len(After(s, m)) = Len(s) - m
          /\ \A j \in 1 .. Len(s) - m : After(s, m)[j] = s[m + j]
      BY Zenon, <3>1, AfterIs
    <3>3. QED BY Zenon, <3>2 DEF m
  <2>2. After(rest, 8) = After(s, (k + 1) + 8)
    BY Zenon, <1>0, AfterAfter
  <2>3. QED BY Zenon, <1>0, <2>1, <2>2
<1> HIDE DEF rest
<1>5. /\ rest[1] = s[k + 2] /\ rest[2] = s[k + 3] /\ rest[3] = s[k + 4]
      /\ rest[4] = s[k + 5] /\ rest[5] = s[k + 6] /\ rest[6] = s[k + 7]
      /\ rest[7] = s[k + 8] /\ rest[8] = s[k + 9]
  <2>1. /\ 1 \in 1 .. 8 /\ 2 \in 1 .. 8 /\ 3 \in 1 .. 8 /\ 4 \in 1 .. 8
        /\ 5 \in 1 .. 8 /\ 6 \in 1 .. 8 /\ 7 \in 1 .. 8 /\ 8 \in 1 .. 8
    BY SMT
  <2>2. QED BY Zenon, <1>0, <1>4, <2>1
<1>1. /\ Read("text", rest[1]) = {T.host} /\ Read("port", rest[2]) = {T.port}
      /\ Read("gain", rest[3]) = {T.gain} /\ Read("db", rest[4]) = {T.db}
      /\ Read("level", rest[5]) = {T.threshold} /\ Read("ms", rest[6]) = {T.attack}
      /\ Read("ms", rest[7]) = {T.hold} /\ Read("release", rest[8]) = {T.release}
  BY Zenon, <1>5 DEF PeerNeeded
<1> DEFINE filled == Filled(PeerNeeds, rest)
<1>6. ASSUME NEW j \in 1 .. 8
      PROVE  filled[PeerNeeds[j][1]] = The(Read(PeerNeeds[j][2], rest[j]))
  <2> DEFINE f == PeerNeeds[j][1]
  <2>1. j \in DOMAIN PeerNeeds BY Zenon, PeerNeedsAre
  <2>2. \A i \in DOMAIN PeerNeeds : PeerNeeds[i][1] = f => i = j
    BY Zenon, PeerNeedsAre
  <2>3. f \in {PeerNeeds[m][1] : m \in DOMAIN PeerNeeds}
    BY Zenon, <2>1
  <2>4. (CHOOSE m \in DOMAIN PeerNeeds : PeerNeeds[m][1] = f) = j
    BY Zenon, <2>1, <2>2
  <2> HIDE DEF f
  <2>5. filled[f] = The(Read(PeerNeeds[j][2], rest[j]))
    BY Zenon, <2>3, <2>4 DEF Filled
  <2>6. QED BY Zenon, <2>5 DEF f
<1>7. /\ filled["host"] = T.host /\ filled["port"] = T.port /\ filled["gain"] = T.gain
      /\ filled["db"] = T.db /\ filled["threshold"] = T.threshold
      /\ filled["attack"] = T.attack /\ filled["hold"] = T.hold
      /\ filled["release"] = T.release
      /\ \A j \in 1 .. 8 : Read(PeerNeeds[j][2], rest[j]) # {}
  <2>0. /\ PeerNeeds[1][1] = "host" /\ PeerNeeds[2][1] = "port" /\ PeerNeeds[3][1] = "gain"
        /\ PeerNeeds[4][1] = "db" /\ PeerNeeds[5][1] = "threshold" /\ PeerNeeds[6][1] = "attack"
        /\ PeerNeeds[7][1] = "hold" /\ PeerNeeds[8][1] = "release"
        /\ PeerNeeds[1][2] = "text" /\ PeerNeeds[2][2] = "port" /\ PeerNeeds[3][2] = "gain"
        /\ PeerNeeds[4][2] = "db" /\ PeerNeeds[5][2] = "level" /\ PeerNeeds[6][2] = "ms"
        /\ PeerNeeds[7][2] = "ms" /\ PeerNeeds[8][2] = "release"
    BY PeerNeedsAre
  <2>1. \A i \in 1 .. 8 : i \in {1, 2, 3, 4, 5, 6, 7, 8} BY SMT
  <2>2. 1 \in 1 .. 8 /\ 2 \in 1 .. 8 /\ 3 \in 1 .. 8 /\ 4 \in 1 .. 8 /\ 5 \in 1 .. 8
        /\ 6 \in 1 .. 8 /\ 7 \in 1 .. 8 /\ 8 \in 1 .. 8
    BY SMT
  <2>3. /\ Read(PeerNeeds[1][2], rest[1]) = {T.host}
        /\ Read(PeerNeeds[2][2], rest[2]) = {T.port}
        /\ Read(PeerNeeds[3][2], rest[3]) = {T.gain}
        /\ Read(PeerNeeds[4][2], rest[4]) = {T.db}
    BY Zenon, <1>1, <2>0
  <2>4. /\ Read(PeerNeeds[5][2], rest[5]) = {T.threshold}
        /\ Read(PeerNeeds[6][2], rest[6]) = {T.attack}
        /\ Read(PeerNeeds[7][2], rest[7]) = {T.hold}
        /\ Read(PeerNeeds[8][2], rest[8]) = {T.release}
    BY Zenon, <1>1, <2>0
  <2> HIDE DEF filled
  <2>5. /\ filled["host"] = T.host /\ filled["port"] = T.port /\ filled["gain"] = T.gain
        /\ filled["db"] = T.db
    <3>1. /\ The(Read(PeerNeeds[1][2], rest[1])) = T.host
          /\ The(Read(PeerNeeds[2][2], rest[2])) = T.port
          /\ The(Read(PeerNeeds[3][2], rest[3])) = T.gain
          /\ The(Read(PeerNeeds[4][2], rest[4])) = T.db
      BY Zenon, <2>3, TheOne
    <3>2. QED BY Zenon, <1>6, <2>0, <2>2, <3>1
  <2>6. /\ filled["threshold"] = T.threshold
        /\ filled["attack"] = T.attack /\ filled["hold"] = T.hold
        /\ filled["release"] = T.release
    <3>1. /\ The(Read(PeerNeeds[5][2], rest[5])) = T.threshold
          /\ The(Read(PeerNeeds[6][2], rest[6])) = T.attack
          /\ The(Read(PeerNeeds[7][2], rest[7])) = T.hold
          /\ The(Read(PeerNeeds[8][2], rest[8])) = T.release
      BY Zenon, <2>4, TheOne
    <3>2. QED BY Zenon, <1>6, <2>0, <2>2, <3>1
  <2>7. \A j \in 1 .. 8 : Read(PeerNeeds[j][2], rest[j]) # {}
    <3>1. SUFFICES ASSUME NEW j \in {1, 2, 3, 4, 5, 6, 7, 8}
                   PROVE  Read(PeerNeeds[j][2], rest[j]) # {}
      BY Zenon, <2>1
    <3>2. \A v : {v} # {} BY Zenon
    <3>3. QED BY Zenon, <2>3, <2>4, <3>2
  <2>8. QED BY Zenon, <2>5, <2>6, <2>7
<1>8. Fits(PeerNeeds, rest) BY Zenon, <1>7, PeerNeedsAre DEF Fits
<1>9. DOMAIN filled = NeededFields BY Zenon, PeerNeedsAre DEF Filled
<1> HIDE DEF filled
<1>10. PICK two : /\ Followed(PeerPresets, PeerMay, After(rest, 8), FALSE)
                        = [o |-> two, rest |-> After(s, n)]
                  /\ DOMAIN two = {"ptt", "buffer"}
                  /\ two["ptt"] = T.ptt /\ two["buffer"] = T.buffer
  BY Zenon, <1>4 DEF PeerFollowed
<1>11. DOMAIN two = {"ptt", "buffer"} /\ two["ptt"] = T.ptt /\ two["buffer"] = T.buffer
  BY Zenon, <1>10
<1>12. Over(filled, two) = T
  <2> DEFINE w == Over(filled, two)
  <2>1. /\ DOMAIN w = NeededFields \cup {"ptt", "buffer"}
        /\ \A f \in DOMAIN w : w[f] = IF f \in NeededFields THEN filled[f] ELSE two[f]
        /\ w = [f \in DOMAIN w |-> w[f]]
    BY Zenon, <1>9, <1>11 DEF Over
  <2> HIDE DEF w
  <2>0. T = [f \in DOMAIN T |-> T[f]] BY Zenon DEF IsPeer
  <2>2. DOMAIN T = NeededFields \cup {"ptt", "buffer"}
    BY Zenon DEF IsPeer
  <2>3. ASSUME NEW f \in DOMAIN T PROVE w[f] = T[f]
    <3>1. /\ filled["host"] = T.host /\ filled["port"] = T.port /\ filled["gain"] = T.gain
          /\ filled["db"] = T.db /\ filled["threshold"] = T.threshold
          /\ filled["attack"] = T.attack /\ filled["hold"] = T.hold
          /\ filled["release"] = T.release
      BY Zenon, <1>7
    <3>2. w[f] = IF f \in NeededFields THEN filled[f] ELSE two[f]
      BY Zenon, <2>1, <2>2
    <3>3. CASE f \in NeededFields
      <4>1. w[f] = filled[f] BY Zenon, <3>2, <3>3
      <4>2. f \in {"host", "port", "gain", "db", "threshold", "attack", "hold", "release"}
        BY Zenon, <3>3 DEF NeededFields
      <4>3. filled[f] = T[f] BY Zenon, <3>1, <4>2
      <4>4. QED BY Zenon, <4>1, <4>3
    <3>4. CASE f \notin NeededFields BY Zenon, <1>11, <2>2, <3>2, <3>4
    <3>5. QED BY Zenon, <3>3, <3>4
  <2>4. w = T BY Zenon, <2>0, <2>1, <2>2, <2>3
  <2>5. QED BY Zenon, <2>4 DEF w
<1>13. TakePeer(o, rest)
         = [o |-> [o EXCEPT !.peers = Append(@, T)], rest |-> After(s, n)]
  <2>1. ~ (Len(rest) < Len(PeerNeeds)) /\ Len(PeerNeeds) = 8
    BY <1>0, <1>4, PeerNeedsAre
  <2> DEFINE more == [o |-> two, rest |-> After(s, n)]
  <2>2. more.o = two /\ more.rest = After(s, n) BY Zenon
  <2> HIDE DEF more
  <2>3. Followed(PeerPresets, PeerMay, After(rest, Len(PeerNeeds)), FALSE) = more
    BY Zenon, <1>10, <2>1 DEF more
  <2>4. Over(Filled(PeerNeeds, rest), more.o) = T
    BY Zenon, <1>12, <2>2 DEF filled
  <2>5. QED BY Zenon, <1>8, <2>1, <2>2, <2>3, <2>4 DEF TakePeer
<1>14. Argument(o, t, rest) = TakePeer(o, rest)
  <2>1. t[1] = "opt" /\ t[2] = "--peer" /\ "opt" # "joined" BY DEF Opt
  <2>2. TestMode("--peer") = {} /\ LoopMode("--peer") = {} /\ TalkMode("--peer") = {}
    BY DEF TestMode, LoopMode, TalkMode
  <2>3. ModeOption("--peer") = {} BY Zenon, <2>2 DEF ModeOption
  <2> HIDE DEF t
  <2>4. QED BY Zenon, <2>1, <2>3, ValueOptionsAre DEF Argument
<1>15. QED BY Zenon, <1>3, <1>13, <1>14 DEF Reads

\* One of the operands that may follow: what it is, whether it stands behind j, and what is
\* made of it where the parser is behind j
Allows(may, i, field, kind) == i \in DOMAIN may /\ may[i][1] = field /\ may[i][2] = kind
StandsFor(s, j, kind, v) == Read(kind, s[j + 1]) = {v}
Goes(s, may, i, strict, o, j, next, n) ==
    FollowedBy([o |-> o, rest |-> After(s, j)], may, i, strict) = [o |-> next, rest |-> After(s, n)]

LEMMA MayTaken ==
    ASSUME NEW S, NEW s \in Seq(S), NEW j \in 0 .. Len(s), j < Len(s), NEW o,
           NEW may, NEW i, NEW field, NEW kind, Allows(may, i, field, kind), NEW strict,
           NEW v, StandsFor(s, j, kind, v)
    PROVE  Goes(s, may, i, strict, o, j, [o EXCEPT ![field] = v], j + 1)
<1>0. /\ i \in DOMAIN may /\ may[i][1] = field /\ may[i][2] = kind
      /\ Read(kind, s[j + 1]) = {v}
  BY Zenon DEF Allows, StandsFor
<1> DEFINE p == [o |-> o, rest |-> After(s, j)]
<1>1. p.o = o /\ p.rest = After(s, j) BY Zenon
<1>2. /\ p.rest # <<>> /\ Head(p.rest) = s[j + 1] /\ Tail(p.rest) = After(s, j + 1)
  BY Zenon, <1>1, AfterHead
<1>3. The(Read(kind, s[j + 1])) = v /\ Read(kind, s[j + 1]) # {}
  BY Zenon, <1>0, TheOne
<1> HIDE DEF p
<1>4. MayRead(kind, p.rest) BY Zenon, <1>2, <1>3 DEF MayRead
<1>5. FollowedBy(p, may, i, strict)
        = [o |-> [p.o EXCEPT ![field] = The(Read(kind, Head(p.rest)))], rest |-> Tail(p.rest)]
  BY Zenon, <1>0, <1>4 DEF FollowedBy
<1>6. QED BY Zenon, <1>1, <1>2, <1>3, <1>5 DEF p, Goes

LEMMA PeerMayAre == Allows(PeerMay, 1, "ptt", "flag") /\ Allows(PeerMay, 2, "buffer", "buffer")
  BY DEF PeerMay, Allows

\* --peer with the operands of a contact stands behind k.
PeerAt(s, k, c) == \A j \in 1 .. 11 : s[k + j] = PeerArguments(c)[j]

LEMMA PeerTaken ==
    ASSUME NEW S, NEW s \in Seq(S), NEW k \in 0 .. Len(s), k + 11 <= Len(s), NEW o,
           NEW c \in Contacts, c.host # Empty,
           PeerAt(s, k, c)
    PROVE  Reads(s, k, o, k + 11, [o EXCEPT !.peers = Append(@, Told(c))])
<1> DEFINE A == PeerArguments(c)
           T == Told(c)
<1>0. /\ k + 9 <= Len(s) /\ k + 9 \in 0 .. Len(s) /\ k + 9 < Len(s) /\ k + 10 \in 0 .. Len(s)
      /\ k + 10 < Len(s) /\ (k + 9) + 1 = k + 10 /\ (k + 10) + 1 = k + 11
  <2>1. Len(s) \in Nat BY Zenon, LenProperties
  <2>2. QED BY <2>1
<1>1. /\ A[1] = Opt("--peer")
      /\ Read("text", A[2]) = {T.host} /\ Read("port", A[3]) = {T.port}
      /\ Read("gain", A[4]) = {T.gain} /\ Read("db", A[5]) = {T.db}
      /\ Read("level", A[6]) = {T.threshold} /\ Read("ms", A[7]) = {T.attack}
      /\ Read("ms", A[8]) = {T.hold} /\ Read("release", A[9]) = {T.release}
      /\ Read("flag", A[10]) = {T.ptt} /\ Read("buffer", A[11]) = {T.buffer}
  BY Zenon, PeerOperands
<1>2. IsPeer(T)
  <2>1. T = [f \in DOMAIN T |-> T[f]] BY DEF Told
  <2>2. DOMAIN T = {"host", "port", "gain", "db", "threshold", "attack", "hold", "release",
                    "ptt", "buffer"}
    BY Zenon DEF Told
  <2> HIDE DEF T
  <2>3. DOMAIN T = NeededFields \cup {"ptt", "buffer"}
    BY <2>2 DEF NeededFields
  <2>4. QED BY Zenon, <2>1, <2>3 DEF IsPeer
<1> HIDE DEF A, T
<1>3. \A j \in 1 .. 11 : s[k + j] = A[j] BY Zenon DEF PeerAt, A
<1>4. /\ s[k + 1] = A[1] /\ s[k + 2] = A[2] /\ s[k + 3] = A[3] /\ s[k + 4] = A[4]
      /\ s[k + 5] = A[5] /\ s[k + 6] = A[6] /\ s[k + 7] = A[7] /\ s[k + 8] = A[8]
      /\ s[k + 9] = A[9] /\ s[k + 10] = A[10] /\ s[k + 11] = A[11]
  <2>1. /\ 1 \in 1 .. 11 /\ 2 \in 1 .. 11 /\ 3 \in 1 .. 11 /\ 4 \in 1 .. 11
        /\ 5 \in 1 .. 11 /\ 6 \in 1 .. 11 /\ 7 \in 1 .. 11 /\ 8 \in 1 .. 11
        /\ 9 \in 1 .. 11 /\ 10 \in 1 .. 11 /\ 11 \in 1 .. 11
    BY SMT
  <2>2. QED BY Zenon, <1>3, <2>1
<1>5. PeerNeeded(s, k, T) BY Zenon, <1>1, <1>4 DEF PeerNeeded
<1>6. PeerFollowed(s, k, T, k + 11)
  <2> DEFINE one == [PeerPresets EXCEPT !["ptt"] = T.ptt]
             two == [one EXCEPT !["buffer"] = T.buffer]
             m == k + 9
             n == k + 10
  <2>1. StandsFor(s, m, "flag", T.ptt) /\ StandsFor(s, n, "buffer", T.buffer)
    BY Zenon, <1>0, <1>1, <1>4 DEF StandsFor
  <2>2. m \in 0 .. Len(s) /\ m < Len(s) /\ n \in 0 .. Len(s) /\ n < Len(s)
    BY Zenon, <1>0
  <2>3. m + 1 = n /\ n + 1 = k + 11 BY Zenon, <1>0
  <2>4. DOMAIN two = {"ptt", "buffer"} /\ two["ptt"] = T.ptt /\ two["buffer"] = T.buffer
    BY DEF PeerPresets
  <2> HIDE DEF one, two, m, n
  <2>5. Goes(s, PeerMay, 1, FALSE, PeerPresets, m, one, m + 1)
    BY Zenon, <2>1, <2>2, PeerMayAre, MayTaken DEF one
  <2>6. Goes(s, PeerMay, 2, FALSE, one, n, two, n + 1)
    BY Zenon, <2>1, <2>2, PeerMayAre, MayTaken DEF two
  <2>7. Followed(PeerPresets, PeerMay, After(s, m), FALSE) = [o |-> two, rest |-> After(s, k + 11)]
    BY Zenon, <2>3, <2>5, <2>6 DEF Followed, Goes
  <2>8. QED BY Zenon, <2>4, <2>7 DEF PeerFollowed, m
<1>7. QED
  <2>1. Reads(s, k, o, k + 11, [o EXCEPT !.peers = Append(@, T)])
    BY Zenon, <1>0, <1>2, <1>5, <1>6, PeerIsTaken
  <2>2. QED BY Zenon, <2>1 DEF T

-----------------------------------------------------------------------------
(* The line as a sequence of arguments.                                     *)

LEMMA ConcatIs ==
    ASSUME NEW S, NEW s \in Seq(S), NEW t \in Seq(S)
    PROVE  /\ s \o t \in Seq(S) /\ Len(s \o t) = Len(s) + Len(t)
           /\ \A j \in 1 .. Len(s) : (s \o t)[j] = s[j]
           /\ \A j \in 1 .. Len(t) : (s \o t)[Len(s) + j] = t[j]
<1>1. Len(s) \in Nat /\ Len(t) \in Nat BY Zenon, LenProperties
<1>2. s \o t \in Seq(S) /\ Len(s \o t) = Len(s) + Len(t) BY SMT
<1>3. \A j \in 1 .. Len(s) : (s \o t)[j] = s[j] BY SMT
<1>4. \A j \in 1 .. Len(t) : (s \o t)[Len(s) + j] = t[j] BY SMT
<1>5. QED BY Zenon, <1>2, <1>3, <1>4

\* What the first sequences make, for each number of them
LEMMA Flattening ==
    ASSUME NEW seqs, Len(seqs) \in Nat, Len(seqs) # 0
    PROVE  \E f : /\ FlattenSeq(seqs) = f[Len(seqs)]
                  /\ \A i \in 1 .. Len(seqs) :
                        f[i] = IF i = 1 THEN seqs[i] ELSE f[i - 1] \o seqs[i]
<1> DEFINE Is(f, m) == f = [i \in 1 .. m |-> IF i = 1 THEN seqs[i] ELSE f[i - 1] \o seqs[i]]
           T == {m \in Nat : \E f : Is(f, m)}
<1>1. 0 \in T
  <2> DEFINE f == [i \in 1 .. 0 |-> seqs[i]]
  <2>1. Is(f, 0) BY SMT
  <2>2. 0 \in Nat BY SMT
  <2>3. QED BY Zenon, <2>1, <2>2
<1>2. ASSUME NEW m \in Nat, m \in T PROVE m + 1 \in T
  <2>1. PICK f : Is(f, m) BY Zenon, <1>2
  <2> DEFINE last == IF m = 0 THEN seqs[1] ELSE f[m] \o seqs[m + 1]
             g == [i \in 1 .. m + 1 |-> IF i <= m THEN f[i] ELSE last]
             h == [i \in 1 .. m + 1 |-> IF i = 1 THEN seqs[i] ELSE g[i - 1] \o seqs[i]]
  <2>2. \A i \in 1 .. m : f[i] = IF i = 1 THEN seqs[i] ELSE f[i - 1] \o seqs[i]
    BY Zenon, <2>1
  <2>3. ASSUME NEW i \in 1 .. m + 1 PROVE g[i] = h[i]
    <3>1. CASE i = 1 /\ m = 0 BY <3>1
    <3>2. CASE i = 1 /\ m # 0
      <4>1. 1 \in 1 .. m /\ 1 \in 1 .. m + 1 /\ 1 <= m BY <3>2
      <4>2. g[1] = f[1] /\ h[1] = seqs[1] BY Zenon, <4>1
      <4>3. f[1] = seqs[1] BY Zenon, <2>2, <4>1
      <4>4. QED BY Zenon, <3>2, <4>2, <4>3
    <3>3. CASE i \in 1 .. m /\ i # 1
      <4>1. g[i] = f[i] /\ g[i - 1] = f[i - 1] /\ h[i] = g[i - 1] \o seqs[i]
        <5>1. /\ i <= m /\ i - 1 <= m /\ i - 1 \in 1 .. m + 1 /\ i \in 1 .. m + 1
          BY <3>3
        <5>2. QED BY Zenon, <3>3, <5>1
      <4>2. f[i] = f[i - 1] \o seqs[i] BY Zenon, <2>2, <3>3
      <4>3. QED BY Zenon, <4>1, <4>2
    <3>4. CASE i = m + 1 /\ m # 0
      <4>1. /\ i - 1 = m /\ m <= m /\ m \in 1 .. m + 1 /\ i # 1 /\ ~ (i <= m)
        BY <3>4
      <4>2. g[i] = last /\ g[m] = f[m] /\ h[i] = g[m] \o seqs[i]
        BY Zenon, <4>1
      <4>3. last = f[m] \o seqs[i] BY Zenon, <3>4
      <4>4. QED BY Zenon, <4>2, <4>3
    <3>5. QED BY <3>1, <3>2, <3>3, <3>4
  <2>4. g = [i \in 1 .. m + 1 |-> g[i]] BY SMT
  <2>5. h = [i \in 1 .. m + 1 |-> h[i]] BY SMT
  <2>6. g = h
    <3> HIDE DEF g, h
    <3>1. QED BY <2>3, <2>4, <2>5
  <2> HIDE DEF last
  <2>7. Is(g, m + 1) BY Zenon, <2>6
  <2>8. m + 1 \in Nat BY SMT
  <2>9. QED BY Zenon, <2>7, <2>8
<1>3. Nat \subseteq T
  <2>1. \A m \in Nat : m \in T => m + 1 \in T BY Zenon, <1>2
  <2> HIDE DEF T
  <2>2. QED BY Zenon, <1>1, <2>1, CountingUp
<1> DEFINE f == CHOOSE f : Is(f, Len(seqs))
<1>4. Is(f, Len(seqs)) BY Zenon, <1>3
<1>5. FlattenSeq(seqs) = f[Len(seqs)] BY Zenon DEF FlattenSeq
<1> HIDE DEF f
<1>6. \A i \in 1 .. Len(seqs) : f[i] = IF i = 1 THEN seqs[i] ELSE f[i - 1] \o seqs[i]
  BY Zenon, <1>4
<1>7. QED BY Zenon, <1>5, <1>6

\* Sequences of eleven, one after the other
LEMMA Flattened ==
    ASSUME NEW S, NEW seqs \in Seq(Seq(S)), \A i \in 1 .. Len(seqs) : Len(seqs[i]) = 11
    PROVE  /\ FlattenSeq(seqs) \in Seq(S) /\ Len(FlattenSeq(seqs)) = 11 * Len(seqs)
           /\ \A i \in 1 .. Len(seqs) : \A j \in 1 .. 11 :
                FlattenSeq(seqs)[11 * (i - 1) + j] = seqs[i][j]
<1>1. Len(seqs) \in Nat /\ \A i \in 1 .. Len(seqs) : seqs[i] \in Seq(S)
  BY SMT
<1>2. CASE Len(seqs) = 0
  <2>1. FlattenSeq(seqs) = seqs BY Zenon, <1>2 DEF FlattenSeq
  <2>2. seqs = <<>> BY <1>2
  <2>3. seqs \in Seq(S) /\ Len(seqs) = 11 * Len(seqs) /\ 1 .. Len(seqs) = {}
    BY <1>2, <2>2
  <2>4. QED BY Zenon, <2>1, <2>3
<1>3. CASE Len(seqs) # 0
  <2>5. PICK f : /\ FlattenSeq(seqs) = f[Len(seqs)]
                 /\ \A i \in 1 .. Len(seqs) :
                        f[i] = IF i = 1 THEN seqs[i] ELSE f[i - 1] \o seqs[i]
    BY Zenon, <1>1, <1>3, Flattening
  <2>6. \A i \in 1 .. Len(seqs) : f[i] = IF i = 1 THEN seqs[i] ELSE f[i - 1] \o seqs[i]
    BY Zenon, <2>5
  <2> DEFINE Good(m) == /\ f[m] \in Seq(S) /\ Len(f[m]) = 11 * m
                        /\ \A i \in 1 .. m : \A j \in 1 .. 11 :
                                f[m][11 * (i - 1) + j] = seqs[i][j]
             U == {m \in Nat : m \in 1 .. Len(seqs) => Good(m)}
  <2>7. 0 \in U BY SMT
  <2>8. ASSUME NEW m \in Nat, m \in U, m + 1 \in 1 .. Len(seqs) PROVE Good(m + 1)
    <3>1. CASE m = 0
      <4>1. f[1] = seqs[1] /\ m + 1 = 1 /\ seqs[1] \in Seq(S) /\ Len(seqs[1]) = 11
        BY <1>1, <2>6, <2>8, <3>1
      <4>2. \A i \in 1 .. 1 : \A j \in 1 .. 11 : i = 1 /\ 11 * (i - 1) + j = j
        BY SMT
      <4>3. \A i \in 1 .. 1 : \A j \in 1 .. 11 : f[1][11 * (i - 1) + j] = seqs[i][j]
        BY Zenon, <4>1, <4>2
      <4>4. 11 * 1 = 11 BY SMT
      <4>5. Good(1) BY Zenon, <4>1, <4>3, <4>4
      <4>6. QED BY Zenon, <4>1, <4>5
    <3>2. CASE m # 0
      <4> DEFINE g == f[m]
                 h == seqs[m + 1]
      <4>1. m \in 1 .. Len(seqs) /\ m + 1 # 1 /\ (m + 1) - 1 = m
        BY <1>1, <2>8, <3>2
      <4>2. Good(m) BY Zenon, <2>8, <4>1
      <4>3. f[m + 1] = g \o h BY Zenon, <2>6, <2>8, <4>1
      <4>4. g \in Seq(S) /\ Len(g) = 11 * m /\ h \in Seq(S) /\ Len(h) = 11
            /\ \A i \in 1 .. m : \A j \in 1 .. 11 : g[11 * (i - 1) + j] = seqs[i][j]
        BY Zenon, <1>1, <2>8, <4>2
      <4> DEFINE fm == f[m + 1]
      <4>5. fm = g \o h BY Zenon, <4>3
      <4> HIDE DEF g, h, fm
      <4>10. g \in Seq(S) /\ h \in Seq(S) BY Zenon, <4>4
      <4>6. fm \in Seq(S) /\ Len(fm) = 11 * m + 11
        <5>1. g \o h \in Seq(S) /\ Len(g \o h) = Len(g) + Len(h)
          BY Zenon, <4>10, ConcatIs
        <5>2. QED BY Zenon, <4>4, <4>5, <5>1
      <4>7. ASSUME NEW i \in 1 .. m + 1, NEW j \in 1 .. 11
            PROVE  fm[11 * (i - 1) + j] = seqs[i][j]
        <5>1. CASE i \in 1 .. m
          <6>1. 11 * (i - 1) + j \in 1 .. 11 * m BY <5>1
          <6>2. fm[11 * (i - 1) + j] = g[11 * (i - 1) + j]
            BY <4>4, <4>5, <6>1
          <6>3. QED BY Zenon, <4>4, <5>1, <6>2
        <5>2. CASE i = m + 1
          <6>1. 11 * (i - 1) + j = 11 * m + j BY <5>2
          <6>2. fm[11 * m + j] = h[j]
            <7>1. (g \o h)[Len(g) + j] = h[j]
              <8>1. j \in 1 .. Len(h) BY Zenon, <4>4
              <8>2. \A n \in 1 .. Len(h) : (g \o h)[Len(g) + n] = h[n]
                BY <4>10, ConcatIs
              <8>3. QED BY Zenon, <8>1, <8>2
            <7>2. QED BY Zenon, <4>4, <4>5, <7>1
          <6>3. QED BY Zenon, <5>2, <6>1, <6>2 DEF h
        <5>3. QED BY <5>1, <5>2
      <4>8. 11 * (m + 1) = 11 * m + 11 BY SMT
      <4>9. QED BY Zenon, <4>6, <4>7, <4>8 DEF fm
    <3>3. QED BY Zenon, <3>1, <3>2
  <2>9. Nat \subseteq U
    <3>1. \A m \in Nat : m \in U => m + 1 \in U
      <4>1. \A m \in Nat : m + 1 \in Nat BY SMT
      <4>2. QED BY Zenon, <2>8, <4>1
    <3> HIDE DEF U
    <3>2. QED BY Zenon, <2>7, <3>1, CountingUp
  <2>10. Len(seqs) \in 1 .. Len(seqs) BY <1>1, <1>3
  <2>11. Good(Len(seqs)) BY Zenon, <1>1, <2>9, <2>10
  <2>12. QED BY Zenon, <2>5, <2>11
<1>4. QED BY Zenon, <1>2, <1>3

\* The line of a Core, with the arguments for its devices
IsLine(args, a, devices) ==
    LET n == Len(devices)
    IN  /\ Len(args) = n + 13 + 11 * Len(a.contacts)
        /\ args[1] = Opt("--capture-role") /\ args[2] = Txt("console")
        /\ args[3] = Opt("--render-role") /\ args[4] = Txt("console")
        /\ args[5] = Opt("--input-gain") /\ args[6] = Dec(Unit)
        /\ args[7] = Opt("--input-muted")
        /\ args[8] = Opt("--output-gain") /\ args[9] = Dec(Unit)
        /\ args[10] = Opt("--bind-address") /\ args[11] = a.bind
        /\ \A j \in 1 .. n : args[11 + j] = devices[j]
        /\ args[n + 12] = Opt("--room") /\ args[n + 13] = Num(a.port)
        /\ \A i \in 1 .. Len(a.contacts) : PeerAt(args, n + 13 + 11 * (i - 1), a.contacts[i])

LEMMA PeerLength ==
    ASSUME NEW c, NEW S, \A j \in 1 .. 11 : PeerArguments(c)[j] \in S
    PROVE  Len(PeerArguments(c)) = 11 /\ PeerArguments(c) \in Seq(S)
<1> DEFINE t == PeerArguments(c)
<1>1. Len(t) = 11 /\ t = [j \in 1 .. 11 |-> t[j]] BY DEF PeerArguments
<1>5. \A j \in 1 .. 11 : t[j] \in S OBVIOUS
<1> HIDE DEF t
<1>6. t \in Seq({t[j] : j \in 1 .. 11}) BY DEF t, PeerArguments
<1>7. {t[j] : j \in 1 .. 11} \subseteq S BY Zenon, <1>5
<1>3. t \in Seq(S) BY Zenon, <1>6, <1>7, SeqMonotonic
<1>4. QED BY Zenon, <1>1, <1>3 DEF t

LEMMA LineIs ==
    ASSUME NEW a, a.contacts \in Seq(Contacts), NEW lists,
           NEW R, DeviceArguments(lists) \in Seq(R)
    PROVE  /\ \E S : build_command_line(a, lists) \in Seq(S)
           /\ IsLine(build_command_line(a, lists), a, DeviceArguments(lists))
<1> DEFINE H == <<Opt("--capture-role"), Txt("console"), Opt("--render-role"), Txt("console"),
                  Opt("--input-gain"), Dec(Unit), Opt("--input-muted"), Opt("--output-gain"),
                  Dec(Unit), Opt("--bind-address"), a.bind>>
           D == DeviceArguments(lists)
           M == <<Opt("--room"), Num(a.port)>>
           C == a.contacts
           P == [k \in DOMAIN C |-> PeerArguments(C[k])]
           F == FlattenSeq(P)
           HS == {Opt("--capture-role"), Txt("console"), Opt("--render-role"),
                  Opt("--input-gain"), Dec(Unit), Opt("--input-muted"), Opt("--output-gain"),
                  Opt("--bind-address"), a.bind, Opt("--room"), Num(a.port)}
           PS == UNION {{PeerArguments(C[k])[j] : j \in 1 .. 11} : k \in DOMAIN C}
           S == (HS \cup R) \cup PS
           args == build_command_line(a, lists)
<1>1. args = ((H \o D) \o M) \o F BY Zenon DEF build_command_line
<1>2. Len(H) = 11 /\ H \in Seq(HS) /\ Len(M) = 2 /\ M \in Seq(HS)
      /\ M[1] = Opt("--room") /\ M[2] = Num(a.port)
  BY SMT
<1>3. /\ H[1] = Opt("--capture-role") /\ H[2] = Txt("console")
      /\ H[3] = Opt("--render-role") /\ H[4] = Txt("console")
      /\ H[5] = Opt("--input-gain") /\ H[6] = Dec(Unit)
      /\ H[7] = Opt("--input-muted")
      /\ H[8] = Opt("--output-gain") /\ H[9] = Dec(Unit)
      /\ H[10] = Opt("--bind-address") /\ H[11] = a.bind
  BY SMT
<1>4. HS \subseteq S /\ R \subseteq S BY Zenon
<1>5. \A k \in DOMAIN C : \A j \in 1 .. 11 : PeerArguments(C[k])[j] \in S
  <2>1. ASSUME NEW k \in DOMAIN C, NEW j \in 1 .. 11 PROVE PeerArguments(C[k])[j] \in PS
    <3> DEFINE K == {PeerArguments(C[k])[x] : x \in 1 .. 11}
    <3>1. K \in {{PeerArguments(C[n])[x] : x \in 1 .. 11} : n \in DOMAIN C}
      BY Zenon
    <3>2. PeerArguments(C[k])[j] \in K BY Zenon
    <3>3. QED BY Zenon, <3>1, <3>2
  <2> HIDE DEF PS
  <2>2. QED BY Zenon, <2>1
<1> HIDE DEF H, M, HS, PS, S, C
<1>6. H \in Seq(S) /\ M \in Seq(S) /\ D \in Seq(S)
  BY Zenon, <1>2, <1>4, SeqMonotonic
<1>7. C \in Seq(Contacts) /\ Len(C) \in Nat /\ DOMAIN C = 1 .. Len(C)
  BY Zenon, LenProperties DEF C
<1>8. P \in Seq(Seq(S)) /\ Len(P) = Len(C) /\ (\A k \in 1 .. Len(P) : Len(P[k]) = 11)
      /\ \A k \in 1 .. Len(P) : P[k] = PeerArguments(C[k])
  <2>1. \A k \in DOMAIN C : PeerArguments(C[k]) \in Seq(S) /\ Len(PeerArguments(C[k])) = 11
    BY Zenon, <1>5, PeerLength
  <2>2. \A k \in DOMAIN C : P[k] = PeerArguments(C[k]) BY Zenon
  <2>3. P = [k \in DOMAIN C |-> P[k]] BY Zenon
  <2> HIDE DEF P
  <2>4. P \in Seq(Seq(S)) /\ DOMAIN P = DOMAIN C
    <3>1. \A k \in DOMAIN C : P[k] \in Seq(S) BY Zenon, <2>1, <2>2
    <3>2. C \in Seq(Contacts) BY Zenon, <1>7
    <3>3. QED BY Zenon, <2>3, <3>1, <3>2, MapSeq
  <2>5. Len(P) = Len(C) BY <1>7, <2>4
  <2>6. QED BY Zenon, <1>7, <2>1, <2>2, <2>4, <2>5
<1> HIDE DEF P
<1>9. /\ F \in Seq(S) /\ Len(F) = 11 * Len(C)
      /\ \A i \in 1 .. Len(C) : \A j \in 1 .. 11 :
            F[11 * (i - 1) + j] = PeerArguments(C[i])[j]
  <2>0. P \in Seq(Seq(S)) /\ \A k \in 1 .. Len(P) : Len(P[k]) = 11
    BY Zenon, <1>8
  <2>1. /\ F \in Seq(S) /\ Len(F) = 11 * Len(P)
        /\ \A i \in 1 .. Len(P) : \A j \in 1 .. 11 : F[11 * (i - 1) + j] = P[i][j]
    BY Zenon, <2>0, Flattened
  <2> HIDE DEF F
  <2>2. Len(P) = Len(C) /\ \A k \in 1 .. Len(P) : P[k] = PeerArguments(C[k])
    BY Zenon, <1>8
  <2>3. ASSUME NEW i \in 1 .. Len(C), NEW j \in 1 .. 11
        PROVE  F[11 * (i - 1) + j] = PeerArguments(C[i])[j]
    <3>1. i \in 1 .. Len(P) /\ P[i] = PeerArguments(C[i])
      BY Zenon, <2>2
    <3>2. F[11 * (i - 1) + j] = P[i][j] BY Zenon, <2>1, <3>1
    <3>3. QED BY Zenon, <3>1, <3>2
  <2>4. F \in Seq(S) /\ Len(F) = 11 * Len(C) BY Zenon, <2>1, <2>2
  <2>5. QED BY Zenon, <2>3, <2>4
<1> HIDE DEF D, F, args
<1> DEFINE n == Len(D)
           HD == H \o D
           HDM == HD \o M
<1>10. n \in Nat BY Zenon, <1>6, LenProperties
<1>11. /\ HD \in Seq(S) /\ Len(HD) = 11 + n
       /\ \A j \in 1 .. 11 : HD[j] = H[j]
       /\ \A j \in 1 .. n : HD[11 + j] = D[j]
  <2>1. H \in Seq(S) /\ D \in Seq(S) BY Zenon, <1>6
  <2>2. /\ HD \in Seq(S) /\ Len(HD) = Len(H) + Len(D)
        /\ (\A j \in 1 .. Len(H) : HD[j] = H[j])
        /\ (\A j \in 1 .. Len(D) : HD[Len(H) + j] = D[j])
    BY <2>1, ConcatIs
  <2> HIDE DEF HD
  <2>3. QED BY Zenon, <1>2, <2>2
<1> HIDE DEF HD
<1>12. /\ HDM \in Seq(S) /\ Len(HDM) = n + 13
       /\ \A j \in 1 .. 11 + n : HDM[j] = HD[j]
       /\ HDM[n + 12] = M[1] /\ HDM[n + 13] = M[2]
  <2>1. HD \in Seq(S) /\ M \in Seq(S) BY Zenon, <1>6, <1>11
  <2>2. /\ HDM \in Seq(S) /\ Len(HDM) = Len(HD) + Len(M)
        /\ (\A j \in 1 .. Len(HD) : HDM[j] = HD[j])
        /\ (\A j \in 1 .. Len(M) : HDM[Len(HD) + j] = M[j])
    BY <2>1, ConcatIs
  <2> HIDE DEF HDM
  <2>3. Len(HD) = 11 + n /\ Len(M) = 2 BY Zenon, <1>2, <1>11
  <2>4. /\ (11 + n) + 2 = n + 13 /\ (11 + n) + 1 = n + 12 /\ 1 \in 1 .. 2 /\ 2 \in 1 .. 2
    BY <1>10
  <2>5. QED BY Zenon, <2>2, <2>3, <2>4
<1> HIDE DEF HDM
<1>13. /\ args \in Seq(S) /\ Len(args) = n + 13 + 11 * Len(C)
       /\ \A j \in 1 .. n + 13 : args[j] = HDM[j]
       /\ \A j \in 1 .. 11 * Len(C) : args[n + 13 + j] = F[j]
  <2>1. HDM \in Seq(S) /\ F \in Seq(S) BY Zenon, <1>9, <1>12
  <2>2. args = HDM \o F BY Zenon, <1>1 DEF HD, HDM
  <2>3. /\ args \in Seq(S) /\ Len(args) = Len(HDM) + Len(F)
        /\ (\A j \in 1 .. Len(HDM) : args[j] = HDM[j])
        /\ (\A j \in 1 .. Len(F) : args[Len(HDM) + j] = F[j])
    BY <2>1, <2>2, ConcatIs
  <2>4. QED BY Zenon, <1>9, <1>12, <2>3
<1> HIDE DEF n
<1>14. \A j \in 1 .. 11 : args[j] = H[j]
  <2>1. \A j \in 1 .. 11 : j \in 1 .. 11 + n /\ j \in 1 .. n + 13
    BY <1>10
  <2>2. QED BY Zenon, <1>11, <1>12, <1>13, <2>1
<1>15. \A j \in 1 .. n : args[11 + j] = D[j]
  <2>1. ASSUME NEW j \in 1 .. n PROVE args[11 + j] = D[j]
    <3> DEFINE m == 11 + j
    <3>1. m \in 1 .. 11 + n /\ m \in 1 .. n + 13 BY <1>10
    <3>2. HD[m] = D[j] BY Zenon, <1>11
    <3> HIDE DEF m
    <3>3. args[m] = HDM[m] /\ HDM[m] = HD[m]
      BY Zenon, <1>12, <1>13, <3>1
    <3>4. QED BY Zenon, <3>2, <3>3 DEF m
  <2>2. QED BY Zenon, <2>1
<1>16. args[n + 12] = M[1] /\ args[n + 13] = M[2]
  <2>1. n + 12 \in 1 .. n + 13 /\ n + 13 \in 1 .. n + 13 BY <1>10
  <2>2. QED BY Zenon, <1>12, <1>13, <2>1
<1>17. \A i \in 1 .. Len(C) : \A j \in 1 .. 11 :
            args[n + 13 + 11 * (i - 1) + j] = PeerArguments(C[i])[j]
  <2>1. \A i \in 1 .. Len(C) : \A j \in 1 .. 11 :
            /\ 11 * (i - 1) + j \in 1 .. 11 * Len(C)
            /\ n + 13 + (11 * (i - 1) + j) = n + 13 + 11 * (i - 1) + j
    BY <1>7, <1>10
  <2>2. QED BY Zenon, <1>9, <1>13, <2>1
<1>18. 1 \in 1 .. 11 /\ 2 \in 1 .. 11 /\ 3 \in 1 .. 11 /\ 4 \in 1 .. 11 /\ 5 \in 1 .. 11
       /\ 6 \in 1 .. 11 /\ 7 \in 1 .. 11 /\ 8 \in 1 .. 11 /\ 9 \in 1 .. 11 /\ 10 \in 1 .. 11
       /\ 11 \in 1 .. 11
  BY SMT
<1>19. IsLine(args, a, D)
  <2>1. Len(args) = n + 13 + 11 * Len(C) BY Zenon, <1>13
  <2>2. /\ args[1] = Opt("--capture-role") /\ args[2] = Txt("console")
        /\ args[3] = Opt("--render-role") /\ args[4] = Txt("console")
        /\ args[5] = Opt("--input-gain") /\ args[6] = Dec(Unit)
        /\ args[7] = Opt("--input-muted")
        /\ args[8] = Opt("--output-gain") /\ args[9] = Dec(Unit)
        /\ args[10] = Opt("--bind-address") /\ args[11] = a.bind
    BY Zenon, <1>3, <1>14, <1>18
  <2>3. args[n + 12] = Opt("--room") /\ args[n + 13] = Num(a.port)
    BY Zenon, <1>2, <1>16
  <2>4. QED BY Zenon, <1>15, <1>17, <2>1, <2>2, <2>3 DEF IsLine, PeerAt, n, C
<1>20. args \in Seq(S) BY Zenon, <1>13
<1>21. QED BY Zenon, <1>19, <1>20 DEF args, D

-----------------------------------------------------------------------------
(* A line of the window, read by parse_options.                             *)

\* f takes one argument of args after the other.
Runs(f, args) ==
    /\ f[0] = [o |-> Defaults, rest |-> args]
    /\ \A n \in 1 .. Len(args) : f[n] = TakeNext(f[n - 1])

\* After n steps k arguments are read, and these are the options.
Stands(f, args, n, k, o) == f[n] = [o |-> o, rest |-> After(args, k)]
At(f, args, n, k, mode, bind, capture, render, port, peers) ==
    \E o : Stands(f, args, n, k, o) /\ Has(o, mode, bind, capture, render, port, peers)

LEMMA NextStep ==
    ASSUME NEW f, NEW args, Runs(f, args), NEW n \in Nat, n + 1 <= Len(args), Len(args) \in Nat
    PROVE  f[n + 1] = TakeNext(f[n])
<1>1. n + 1 \in 1 .. Len(args) /\ (n + 1) - 1 = n BY SMT
<1>2. QED BY Zenon, <1>1 DEF Runs

LEMMA StepRead ==
    ASSUME NEW f, NEW args, Runs(f, args), NEW n \in Nat, n + 1 <= Len(args), Len(args) \in Nat,
           NEW k, NEW o, Stands(f, args, n, k, o), NEW m, NEW next, Reads(args, k, o, m, next)
    PROVE  Stands(f, args, n + 1, m, next)
<1>1. f[n + 1] = TakeNext(f[n]) BY Zenon, NextStep
<1>2. QED BY Zenon, <1>1 DEF Stands, Reads

\* An option with a value that sets something else, the address, and the devices
LEMMA OtherRead ==
    ASSUME NEW S, NEW args \in Seq(S), NEW f, Runs(f, args),
           NEW n \in Nat, n + 1 <= Len(args), NEW k \in 0 .. Len(args), k + 2 <= Len(args),
           NEW mode, NEW bind, NEW capture, NEW render, NEW port, NEW peers,
           At(f, args, n, k, mode, bind, capture, render, port, peers),
           NEW option,
           NEW field \in {"captureRole", "renderRole", "inputGain", "outputGain", "inputMuted"},
           NEW kind, NEW v, TakesValue(args, k, option, field, kind, v)
    PROVE  At(f, args, n + 1, k + 2, mode, bind, capture, render, port, peers)
<1>1. PICK o : Stands(f, args, n, k, o) /\ Has(o, mode, bind, capture, render, port, peers)
  BY Zenon DEF At
<1> DEFINE next == [o EXCEPT ![field] = v]
<1>2. Has(next, mode, bind, capture, render, port, peers)
  BY Zenon, <1>1, OtherSet
<1>3. Reads(args, k, o, k + 2, next) BY Zenon, ValueTaken
<1> HIDE DEF next
<1>4. Len(args) \in Nat BY Zenon, LenProperties
<1>5. Stands(f, args, n + 1, k + 2, next)
  BY Zenon, <1>1, <1>3, <1>4, StepRead
<1>6. QED BY Zenon, <1>2, <1>5 DEF At

LEMMA TextTaken ==
    ASSUME NEW args, NEW k, NEW option, NEW field, NEW v,
           args[k + 1] = Opt(option), ValueOption(option) = Value(field, "text", TRUE),
           v # Empty, args[k + 2] = v
    PROVE  TakesValue(args, k, option, field, "text", v)
<1>1. {v} \ {Empty} = {v} BY Zenon
<1>2. Read("text", v) = {v} BY Zenon, <1>1, OtherReadsAre
<1>3. QED BY Zenon, <1>2 DEF TakesValue

LEMMA BindRead ==
    ASSUME NEW S, NEW args \in Seq(S), NEW f, Runs(f, args),
           NEW n \in Nat, n + 1 <= Len(args), NEW k \in 0 .. Len(args), k + 2 <= Len(args),
           NEW mode, NEW bind, NEW capture, NEW render, NEW port, NEW peers,
           At(f, args, n, k, mode, bind, capture, render, port, peers),
           args[k + 1] = Opt("--bind-address"), NEW v, v # Empty, args[k + 2] = v
    PROVE  At(f, args, n + 1, k + 2, mode, v, capture, render, port, peers)
<1>1. PICK o : Stands(f, args, n, k, o) /\ Has(o, mode, bind, capture, render, port, peers)
  BY Zenon DEF At
<1> DEFINE next == [o EXCEPT !["bind"] = v]
<1>2. Has(next, mode, v, capture, render, port, peers)
  BY Zenon, <1>1, BindSet
<1>0. TakesValue(args, k, "--bind-address", "bind", "text", v)
  BY Zenon, TextTaken, ValueOptionsAre
<1>3. Reads(args, k, o, k + 2, next) BY Zenon, <1>0, ValueTaken
<1> HIDE DEF next
<1>4. Len(args) \in Nat BY Zenon, LenProperties
<1>5. Stands(f, args, n + 1, k + 2, next)
  BY Zenon, <1>1, <1>3, <1>4, StepRead
<1>6. QED BY Zenon, <1>2, <1>5 DEF At

LEMMA CaptureRead ==
    ASSUME NEW S, NEW args \in Seq(S), NEW f, Runs(f, args),
           NEW n \in Nat, n + 1 <= Len(args), NEW k \in 0 .. Len(args), k + 2 <= Len(args),
           NEW mode, NEW bind, NEW capture, NEW render, NEW port, NEW peers,
           At(f, args, n, k, mode, bind, capture, render, port, peers),
           args[k + 1] = Opt("--capture-device"), NEW v, v # Empty, args[k + 2] = v
    PROVE  At(f, args, n + 1, k + 2, mode, bind, v, render, port, peers)
<1>1. PICK o : Stands(f, args, n, k, o) /\ Has(o, mode, bind, capture, render, port, peers)
  BY Zenon DEF At
<1> DEFINE next == [o EXCEPT !["captureDevice"] = v]
<1>2. Has(next, mode, bind, v, render, port, peers)
  BY Zenon, <1>1, CaptureSet
<1>0. TakesValue(args, k, "--capture-device", "captureDevice", "text", v)
  BY Zenon, TextTaken, ValueOptionsAre
<1>3. Reads(args, k, o, k + 2, next) BY Zenon, <1>0, ValueTaken
<1> HIDE DEF next
<1>4. Len(args) \in Nat BY Zenon, LenProperties
<1>5. Stands(f, args, n + 1, k + 2, next)
  BY Zenon, <1>1, <1>3, <1>4, StepRead
<1>6. QED BY Zenon, <1>2, <1>5 DEF At

LEMMA RenderRead ==
    ASSUME NEW S, NEW args \in Seq(S), NEW f, Runs(f, args),
           NEW n \in Nat, n + 1 <= Len(args), NEW k \in 0 .. Len(args), k + 2 <= Len(args),
           NEW mode, NEW bind, NEW capture, NEW render, NEW port, NEW peers,
           At(f, args, n, k, mode, bind, capture, render, port, peers),
           args[k + 1] = Opt("--render-device"), NEW v, v # Empty, args[k + 2] = v
    PROVE  At(f, args, n + 1, k + 2, mode, bind, capture, v, port, peers)
<1>1. PICK o : Stands(f, args, n, k, o) /\ Has(o, mode, bind, capture, render, port, peers)
  BY Zenon DEF At
<1> DEFINE next == [o EXCEPT !["renderDevice"] = v]
<1>2. Has(next, mode, bind, capture, v, port, peers)
  BY Zenon, <1>1, RenderSet
<1>0. TakesValue(args, k, "--render-device", "renderDevice", "text", v)
  BY Zenon, TextTaken, ValueOptionsAre
<1>3. Reads(args, k, o, k + 2, next) BY Zenon, <1>0, ValueTaken
<1> HIDE DEF next
<1>4. Len(args) \in Nat BY Zenon, LenProperties
<1>5. Stands(f, args, n + 1, k + 2, next)
  BY Zenon, <1>1, <1>3, <1>4, StepRead
<1>6. QED BY Zenon, <1>2, <1>5 DEF At

\* What stands before the devices
LEMMA HeadingRead ==
    ASSUME NEW S, NEW args \in Seq(S), NEW f, Runs(f, args), Len(args) >= 13,
           NEW a, a.bind # Empty, NEW devices, IsLine(args, a, devices)
    PROVE  At(f, args, 6, 11, "probe", a.bind, Empty, Empty, DefaultUdpPort, <<>>)
<1> DEFINE B == EveryAddress
           m == "probe"
           Others == {"captureRole", "renderRole", "inputGain", "outputGain", "inputMuted"}
           Q(n, k) == At(f, args, n, k, m, B, Empty, Empty, DefaultUdpPort, <<>>)
<1>0. Len(args) \in Nat BY Zenon, LenProperties
<1>1. /\ args[1] = Opt("--capture-role") /\ args[2] = Txt("console")
      /\ args[3] = Opt("--render-role") /\ args[4] = Txt("console")
      /\ args[5] = Opt("--input-gain") /\ args[6] = Dec(Unit)
      /\ args[7] = Opt("--input-muted")
      /\ args[8] = Opt("--output-gain") /\ args[9] = Dec(Unit)
      /\ args[10] = Opt("--bind-address") /\ args[11] = a.bind
  BY Zenon DEF IsLine
<1>2. Q(0, 0)
  <2>1. 0 \in 0 .. Len(args) /\ Len(args) - 0 = Len(args) BY <1>0
  <2> DEFINE all == After(args, 0)
  <2>2. all \in Seq(S) /\ Len(all) = Len(args) - 0
        /\ \A j \in 1 .. Len(args) - 0 : all[j] = args[0 + j]
    BY Zenon, <2>1, AfterIs
  <2>3. \A j \in 1 .. Len(args) : 0 + j = j BY SMT
  <2> HIDE DEF all
  <2>4. Len(all) = Len(args) /\ \A j \in 1 .. Len(all) : all[j] = args[j]
    BY Zenon, <2>1, <2>2, <2>3
  <2>5. all = args BY Zenon, <2>2, <2>4, SeqEqual
  <2>6. Stands(f, args, 0, 0, Defaults)
    BY Zenon, <2>5 DEF Stands, Runs, all
  <2>7. QED BY Zenon, <2>6, DefaultsHave DEF At
<1>3. Read("role", Txt("console")) = {"console"}
  <2>1. RoleOf(Txt("console")) = {"console"} BY DEF RoleOf, Txt
  <2>2. QED BY Zenon, <2>1, OtherReadsAre
<1>4. Read("gain", Dec(Unit)) = {Unit}
  <2>1. Decimal(Dec(Unit), 0, 8) = {Unit}
    <3>1. Unit \in Int /\ 0 <= Unit /\ Unit <= 8 * Unit /\ 8 \in Int
      BY DEF Unit
    <3>2. QED BY Zenon, <3>1, DecimalIs
  <2>2. QED BY <2>1, ReadsAre
<1>5. /\ "captureRole" \in Others /\ "renderRole" \in Others /\ "inputGain" \in Others
      /\ "outputGain" \in Others /\ "inputMuted" \in Others
  BY Zenon
<1> HIDE DEF B, m
<1>6. Q(1, 2)
  <2>1. /\ 0 \in Nat /\ 0 \in 0 .. Len(args) /\ 0 + 1 = 1 /\ 0 + 1 = 1 /\ 0 + 2 = 2
        /\ 0 + 1 <= Len(args) /\ 0 + 2 <= Len(args)
    BY <1>0
  <2>2. args[0 + 1] = Opt("--capture-role") /\ Read("role", args[0 + 2]) = {"console"}
        /\ ValueOption("--capture-role") = Value("captureRole", "role", TRUE)
    BY Zenon, <1>1, <1>3, <1>4, <2>1, ValueOptionsAre
  <2>3. TakesValue(args, 0, "--capture-role", "captureRole", "role", "console")
    BY Zenon, <2>2 DEF TakesValue
  <2>4. Q(0 + 1, 0 + 2) BY Zenon, <1>2, <1>5, <2>1, <2>3, OtherRead
  <2>5. QED BY Zenon, <2>1, <2>4
<1>7. Q(2, 4)
  <2>1. /\ 1 \in Nat /\ 2 \in 0 .. Len(args) /\ 1 + 1 = 2 /\ 2 + 1 = 3 /\ 2 + 2 = 4
        /\ 1 + 1 <= Len(args) /\ 2 + 2 <= Len(args)
    BY <1>0
  <2>2. args[2 + 1] = Opt("--render-role") /\ Read("role", args[2 + 2]) = {"console"}
        /\ ValueOption("--render-role") = Value("renderRole", "role", TRUE)
    BY Zenon, <1>1, <1>3, <1>4, <2>1, ValueOptionsAre
  <2>3. TakesValue(args, 2, "--render-role", "renderRole", "role", "console")
    BY Zenon, <2>2 DEF TakesValue
  <2>4. Q(1 + 1, 2 + 2) BY Zenon, <1>6, <1>5, <2>1, <2>3, OtherRead
  <2>5. QED BY Zenon, <2>1, <2>4
<1>8. Q(3, 6)
  <2>1. /\ 2 \in Nat /\ 4 \in 0 .. Len(args) /\ 2 + 1 = 3 /\ 4 + 1 = 5 /\ 4 + 2 = 6
        /\ 2 + 1 <= Len(args) /\ 4 + 2 <= Len(args)
    BY <1>0
  <2>2. args[4 + 1] = Opt("--input-gain") /\ Read("gain", args[4 + 2]) = {Unit}
        /\ ValueOption("--input-gain") = Value("inputGain", "gain", TRUE)
    BY Zenon, <1>1, <1>3, <1>4, <2>1, ValueOptionsAre
  <2>3. TakesValue(args, 4, "--input-gain", "inputGain", "gain", Unit)
    BY Zenon, <2>2 DEF TakesValue
  <2>4. Q(2 + 1, 4 + 2) BY Zenon, <1>7, <1>5, <2>1, <2>3, OtherRead
  <2>5. QED BY Zenon, <2>1, <2>4
<1>9. Q(4, 7)
  <2>1. /\ 3 \in Nat /\ 6 \in 0 .. Len(args) /\ 3 + 1 = 4 /\ 6 + 1 = 7
        /\ 3 + 1 <= Len(args) /\ 6 < Len(args)
    BY <1>0
  <2>2. PICK o : Stands(f, args, 3, 6, o) /\ Has(o, m, B, Empty, Empty, DefaultUdpPort, <<>>)
    BY Zenon, <1>8 DEF At
  <2> DEFINE next == [o EXCEPT !["inputMuted"] = TRUE]
  <2>3. Has(next, m, B, Empty, Empty, DefaultUdpPort, <<>>)
    BY Zenon, <1>5, <2>2, OtherSet
  <2>4. args[6 + 1] = Opt("--input-muted") BY Zenon, <1>1, <2>1
  <2>5. Reads(args, 6, o, 6 + 1, next) BY Zenon, <2>1, <2>4, FlagTaken
  <2> HIDE DEF next
  <2>6. Stands(f, args, 3 + 1, 6 + 1, next)
    BY Zenon, <1>0, <2>1, <2>2, <2>5, StepRead
  <2>7. QED BY Zenon, <2>1, <2>3, <2>6 DEF At
<1>10. Q(5, 9)
  <2>1. /\ 4 \in Nat /\ 7 \in 0 .. Len(args) /\ 4 + 1 = 5 /\ 7 + 1 = 8 /\ 7 + 2 = 9
        /\ 4 + 1 <= Len(args) /\ 7 + 2 <= Len(args)
    BY <1>0
  <2>2. args[7 + 1] = Opt("--output-gain") /\ Read("gain", args[7 + 2]) = {Unit}
        /\ ValueOption("--output-gain") = Value("outputGain", "gain", TRUE)
    BY Zenon, <1>1, <1>3, <1>4, <2>1, ValueOptionsAre
  <2>3. TakesValue(args, 7, "--output-gain", "outputGain", "gain", Unit)
    BY Zenon, <2>2 DEF TakesValue
  <2>4. Q(4 + 1, 7 + 2) BY Zenon, <1>9, <1>5, <2>1, <2>3, OtherRead
  <2>5. QED BY Zenon, <2>1, <2>4
<1>11. At(f, args, 6, 11, m, a.bind, Empty, Empty, DefaultUdpPort, <<>>)
  <2>1. /\ 5 \in Nat /\ 9 \in 0 .. Len(args) /\ 5 + 1 = 6 /\ 9 + 1 = 10 /\ 9 + 2 = 11
        /\ 5 + 1 <= Len(args) /\ 9 + 2 <= Len(args)
    BY <1>0
  <2>2. args[9 + 1] = Opt("--bind-address") /\ args[9 + 2] = a.bind
    BY Zenon, <1>1, <2>1
  <2>4. At(f, args, 5 + 1, 9 + 2, m, a.bind, Empty, Empty, DefaultUdpPort, <<>>)
    BY Zenon, <1>10, <2>1, <2>2, BindRead
  <2>5. QED BY Zenon, <2>1, <2>4
<1>12. QED BY Zenon, <1>11 DEF m

\* The devices that are not the default ones
LEMMA DeviceArgumentsAre ==
    ASSUME NEW lists, NEW c, NEW r, Chosen(lists)["capture"] = c, Chosen(lists)["render"] = r,
           NEW D, D = DeviceArguments(lists)
    PROVE  /\ \E R : D \in Seq(R)
           /\ (c = Empty /\ r = Empty) => Len(D) = 0
           /\ (c # Empty /\ r = Empty) =>
                Len(D) = 2 /\ D[1] = Opt("--capture-device") /\ D[2] = c
           /\ (c = Empty /\ r # Empty) =>
                Len(D) = 2 /\ D[1] = Opt("--render-device") /\ D[2] = r
           /\ (c # Empty /\ r # Empty) =>
                /\ Len(D) = 4 /\ D[1] = Opt("--capture-device") /\ D[2] = c
                /\ D[3] = Opt("--render-device") /\ D[4] = r
<1> DEFINE x == Opt("--capture-device")
           y == Opt("--render-device")
           cs == IF c = Empty THEN <<>> ELSE <<x, c>>
           rs == IF r = Empty THEN <<>> ELSE <<y, r>>
           R == {x, c, y, r}
<1>1. D = cs \o rs BY Zenon DEF DeviceArguments
<1> HIDE DEF x, y
<1>2. cs \in Seq(R) /\ rs \in Seq(R)
  <2>1. <<>> \in Seq(R) /\ <<x, c>> \in Seq(R) /\ <<y, r>> \in Seq(R)
    BY SMT
  <2> HIDE DEF R
  <2>2. QED BY Zenon, <2>1
<1> HIDE DEF R
<1>3. D \in Seq(R)
  <2> HIDE DEF cs, rs
  <2>1. cs \o rs \in Seq(R) BY Zenon, <1>2, ConcatIs
  <2>2. QED BY Zenon, <1>1, <2>1
<1>4. CASE c = Empty /\ r = Empty BY <1>1, <1>3, <1>4
<1>5. CASE c # Empty /\ r = Empty BY <1>1, <1>3, <1>5 DEF x
<1>6. CASE c = Empty /\ r # Empty BY <1>1, <1>3, <1>6 DEF y
<1>7. CASE c # Empty /\ r # Empty BY <1>1, <1>3, <1>7 DEF x, y
<1>8. QED BY Zenon, <1>4, <1>5, <1>6, <1>7

LEMMA DevicesRead ==
    ASSUME NEW S, NEW args \in Seq(S), NEW f, Runs(f, args),
           NEW a, NEW lists, NEW D, D = DeviceArguments(lists), IsLine(args, a, D),
           Len(a.contacts) \in Nat,
           NEW c, NEW r, Chosen(lists)["capture"] = c, Chosen(lists)["render"] = r,
           NEW mode, NEW b, NEW port, NEW peers,
           At(f, args, 6, 11, mode, b, Empty, Empty, port, peers)
    PROVE  \E d \in 0 .. 2 : /\ Len(D) = 2 * d
                             /\ At(f, args, 6 + d, 11 + Len(D), mode, b, c, r, port, peers)
<1> DEFINE L == Len(a.contacts)
           n == Len(D)
<1>1. Len(args) = n + 13 + 11 * L /\ \A j \in 1 .. n : args[11 + j] = D[j]
  BY Zenon DEF IsLine
<1>2. L \in Nat OBVIOUS
<1>0. /\ (c = Empty /\ r = Empty) => Len(D) = 0
      /\ (c # Empty /\ r = Empty) =>
            (Len(D) = 2 /\ D[1] = Opt("--capture-device") /\ D[2] = c)
      /\ (c = Empty /\ r # Empty) =>
            (Len(D) = 2 /\ D[1] = Opt("--render-device") /\ D[2] = r)
      /\ (c # Empty /\ r # Empty) =>
            (/\ Len(D) = 4 /\ D[1] = Opt("--capture-device") /\ D[2] = c
             /\ D[3] = Opt("--render-device") /\ D[4] = r)
  BY DeviceArgumentsAre
<1> HIDE DEF L
<1>3. CASE c = Empty /\ r = Empty
  <2>1. n = 0 BY Zenon, <1>0, <1>3
  <2>2. 0 \in 0 .. 2 /\ 6 + 0 = 6 /\ 11 + 0 = 11 /\ 2 * 0 = 0 BY SMT
  <2>3. At(f, args, 6 + 0, 11 + 0, mode, b, c, r, port, peers)
    BY Zenon, <1>3, <2>2
  <2>4. QED BY Zenon, <2>1, <2>2, <2>3
<1>4. CASE c # Empty /\ r = Empty
  <2>1. n = 2 /\ D[1] = Opt("--capture-device") /\ D[2] = c
    BY Zenon, <1>0, <1>4
  <2>2. /\ 1 \in 0 .. 2 /\ 2 = 2 * 1 /\ 6 \in Nat /\ 6 + 1 <= Len(args) /\ 11 \in 0 .. Len(args)
        /\ 11 + 2 <= Len(args) /\ 1 \in 1 .. 2 /\ 2 \in 1 .. 2
    BY <1>1, <1>2, <2>1
  <2>3. args[11 + 1] = Opt("--capture-device") /\ args[11 + 2] = c
    BY Zenon, <1>1, <2>1, <2>2
  <2>4. At(f, args, 6 + 1, 11 + 2, mode, b, c, Empty, port, peers)
    BY Zenon, <1>4, <2>2, <2>3, CaptureRead
  <2>5. QED BY Zenon, <1>4, <2>1, <2>2, <2>4
<1>5. CASE c = Empty /\ r # Empty
  <2>1. n = 2 /\ D[1] = Opt("--render-device") /\ D[2] = r
    BY Zenon, <1>0, <1>5
  <2>2. /\ 1 \in 0 .. 2 /\ 2 = 2 * 1 /\ 6 \in Nat /\ 6 + 1 <= Len(args) /\ 11 \in 0 .. Len(args)
        /\ 11 + 2 <= Len(args) /\ 1 \in 1 .. 2 /\ 2 \in 1 .. 2
    BY <1>1, <1>2, <2>1
  <2>3. args[11 + 1] = Opt("--render-device") /\ args[11 + 2] = r
    BY Zenon, <1>1, <2>1, <2>2
  <2>4. At(f, args, 6 + 1, 11 + 2, mode, b, Empty, r, port, peers)
    BY Zenon, <1>5, <2>2, <2>3, RenderRead
  <2>5. QED BY Zenon, <1>5, <2>1, <2>2, <2>4
<1>6. CASE c # Empty /\ r # Empty
  <2>1. /\ n = 4 /\ D[1] = Opt("--capture-device") /\ D[2] = c
        /\ D[3] = Opt("--render-device") /\ D[4] = r
    BY Zenon, <1>0, <1>6
  <2>2. /\ 2 \in 0 .. 2 /\ 4 = 2 * 2 /\ 6 \in Nat /\ 6 + 1 <= Len(args) /\ 11 \in 0 .. Len(args)
        /\ 11 + 2 <= Len(args) /\ 1 \in 1 .. 4 /\ 2 \in 1 .. 4 /\ 3 \in 1 .. 4 /\ 4 \in 1 .. 4
        /\ 6 + 1 \in Nat /\ (6 + 1) + 1 <= Len(args) /\ 11 + 2 \in 0 .. Len(args)
        /\ (11 + 2) + 2 <= Len(args) /\ (6 + 1) + 1 = 6 + 2 /\ (11 + 2) + 2 = 11 + 4
        /\ (11 + 2) + 1 = 11 + 3
    BY <1>1, <1>2, <2>1
  <2>3. /\ args[11 + 1] = Opt("--capture-device") /\ args[11 + 2] = c
        /\ args[11 + 3] = Opt("--render-device") /\ args[11 + 4] = r
    BY Zenon, <1>1, <2>1, <2>2
  <2>4. At(f, args, 6 + 1, 11 + 2, mode, b, c, Empty, port, peers)
    BY Zenon, <1>6, <2>2, <2>3, CaptureRead
  <2>5. args[(11 + 2) + 1] = Opt("--render-device") /\ args[(11 + 2) + 2] = r
    BY Zenon, <2>2, <2>3
  <2>6. At(f, args, (6 + 1) + 1, (11 + 2) + 2, mode, b, c, r, port, peers)
    <3> DEFINE p == 6 + 1
               q == 11 + 2
    <3>1. /\ p \in Nat /\ p + 1 <= Len(args) /\ q \in 0 .. Len(args) /\ q + 2 <= Len(args)
          /\ args[q + 1] = Opt("--render-device") /\ args[q + 2] = r
          /\ At(f, args, p, q, mode, b, c, Empty, port, peers) /\ r # Empty
      BY Zenon, <1>6, <2>2, <2>4, <2>5
    <3> HIDE DEF p, q
    <3>2. At(f, args, p + 1, q + 2, mode, b, c, r, port, peers)
      BY Zenon, <3>1, RenderRead
    <3>3. QED BY Zenon, <3>2 DEF p, q
  <2>7. QED BY Zenon, <2>1, <2>2, <2>6
<1>7. QED BY Zenon, <1>3, <1>4, <1>5, <1>6

LEMMA RoomRead ==
    ASSUME NEW S, NEW args \in Seq(S), NEW f, Runs(f, args),
           NEW n \in Nat, n + 1 <= Len(args), NEW k \in 0 .. Len(args), k + 2 <= Len(args),
           NEW bind, NEW capture, NEW render, NEW port, NEW peers,
           At(f, args, n, k, "probe", bind, capture, render, port, peers),
           NEW v \in PortNumbers, args[k + 1] = Opt("--room"), args[k + 2] = Num(v)
    PROVE  At(f, args, n + 1, k + 2, "room", bind, capture, render, v, peers)
<1>1. PICK o : Stands(f, args, n, k, o) /\ Has(o, "probe", bind, capture, render, port, peers)
  BY Zenon DEF At
<1>2. PICK next : /\ Reads(args, k, o, k + 2, next)
                  /\ Has(next, "room", bind, capture, render, v, peers)
  BY Zenon, <1>1, RoomTaken
<1>3. Len(args) \in Nat BY Zenon, LenProperties
<1>4. Stands(f, args, n + 1, k + 2, next)
  BY Zenon, <1>1, <1>2, <1>3, StepRead
<1>5. QED BY Zenon, <1>2, <1>4 DEF At

LEMMA PeerRead ==
    ASSUME NEW S, NEW args \in Seq(S), NEW f, Runs(f, args),
           NEW n \in Nat, n + 1 <= Len(args), NEW k \in 0 .. Len(args), k + 11 <= Len(args),
           NEW mode, NEW bind, NEW capture, NEW render, NEW port, NEW peers,
           At(f, args, n, k, mode, bind, capture, render, port, peers),
           NEW c \in Contacts, c.host # Empty, PeerAt(args, k, c)
    PROVE  At(f, args, n + 1, k + 11, mode, bind, capture, render, port, Append(peers, Told(c)))
<1>1. PICK o : Stands(f, args, n, k, o) /\ Has(o, mode, bind, capture, render, port, peers)
  BY Zenon DEF At
<1> DEFINE next == [o EXCEPT !.peers = Append(@, Told(c))]
<1>2. Has(next, mode, bind, capture, render, port, Append(peers, Told(c)))
  BY Zenon, <1>1, PeersSet
<1>3. Reads(args, k, o, k + 11, next) BY Zenon, PeerTaken
<1> HIDE DEF next
<1>4. Len(args) \in Nat BY Zenon, LenProperties
<1>5. Stands(f, args, n + 1, k + 11, next)
  BY Zenon, <1>1, <1>3, <1>4, StepRead
<1>6. QED BY Zenon, <1>2, <1>5 DEF At

\* The contacts of a line, from the place n the parser stands at before them
LEMMA PeersRead ==
    ASSUME NEW S, NEW args \in Seq(S), NEW f, Runs(f, args),
           NEW C \in Seq(Contacts), \A i \in DOMAIN C : C[i].host # Empty,
           NEW n \in Nat, NEW k \in Nat, n <= k, Len(args) = k + 11 * Len(C),
           \A i \in 1 .. Len(C) : PeerAt(args, k + 11 * (i - 1), C[i]),
           NEW mode, NEW bind, NEW capture, NEW render, NEW port,
           At(f, args, n, k, mode, bind, capture, render, port, <<>>)
    PROVE  At(f, args, n + Len(C), Len(args), mode, bind, capture, render, port,
              [i \in DOMAIN C |-> Told(C[i])])
<1> DEFINE L == Len(C)
           told(i) == [j \in 1 .. i |-> Told(C[j])]
           T == {i \in Nat : i <= L => At(f, args, n + i, k + 11 * i, mode, bind, capture,
                                          render, port, told(i))}
<1>0. L \in Nat /\ DOMAIN C = 1 .. L /\ \A i \in 1 .. L : C[i] \in Contacts
  BY SMT
<1>1. 0 \in T
  <2>1. n + 0 = n /\ k + 11 * 0 = k /\ told(0) = <<>> /\ 0 \in Nat
    BY SMT
  <2> HIDE DEF told
  <2>2. QED BY Zenon, <2>1
<1>2. ASSUME NEW i \in Nat, i \in T PROVE i + 1 \in T
  <2> DEFINE m == i + 1
             p == n + i
             q == k + 11 * i
  <2> SUFFICES ASSUME m <= L
               PROVE  At(f, args, n + m, k + 11 * m, mode, bind, capture, render, port, told(m))
    <3>1. m \in Nat BY SMT
    <3>2. QED BY Zenon, <3>1
  <2>1. /\ i <= L /\ m \in 1 .. L /\ p \in Nat /\ q \in 0 .. Len(args) /\ q + 11 <= Len(args)
        /\ p + 1 <= Len(args) /\ p + 1 = n + m /\ q + 11 = k + 11 * m
        /\ k + 11 * (m - 1) = q
    BY <1>0
  <2>2. At(f, args, p, q, mode, bind, capture, render, port, told(i))
    BY Zenon, <1>2, <2>1
  <2>3. Append(told(i), Told(C[m])) = told(m) BY SMT
  <2> HIDE DEF told
  <2>4. C[m] \in Contacts /\ C[m].host # Empty /\ PeerAt(args, q, C[m])
    BY Zenon, <1>0, <2>1
  <2> HIDE DEF m, p, q
  <2>5. At(f, args, p + 1, q + 11, mode, bind, capture, render, port,
           Append(told(i), Told(C[m])))
    BY Zenon, <2>1, <2>2, <2>4, PeerRead
  <2>6. QED BY Zenon, <2>1, <2>3, <2>5
<1>3. L \in T
  <2> HIDE DEF T
  <2>1. Nat \subseteq T BY Zenon, <1>1, <1>2, CountingUp
  <2>2. QED BY Zenon, <1>0, <2>1
<1>4. L <= L /\ told(L) = [i \in DOMAIN C |-> Told(C[i])] /\ k + 11 * L = Len(args)
  BY <1>0
<1> HIDE DEF told
<1>5. QED BY Zenon, <1>3, <1>4

\* When all arguments are read the options stay as they are.
LEMMA EndRead ==
    ASSUME NEW S, NEW args \in Seq(S), NEW f, Runs(f, args),
           NEW n \in Nat, n <= Len(args), NEW o, Stands(f, args, n, Len(args), o)
    PROVE  f[Len(args)].o = o
<1> DEFINE p == [o |-> o, rest |-> After(args, Len(args))]
           T == {i \in Nat : n + i <= Len(args) => f[n + i] = p}
<1>0. Len(args) \in Nat BY Zenon, LenProperties
<1>1. TakeNext(p) = p
  <2> DEFINE z == Len(args)
             rest == After(args, z)
  <2>1. z \in 0 .. Len(args) /\ Len(args) - z = 0 BY <1>0
  <2>2. rest \in Seq(S) /\ Len(rest) = 0 BY Zenon, <2>1, AfterIs
  <2>3. rest = <<>>
    <3> HIDE DEF rest
    <3>1. QED BY <2>2
  <2>4. p.rest = <<>> BY Zenon, <2>3
  <2> HIDE DEF p
  <2>5. QED BY Zenon, <2>4 DEF TakeNext
<1>2. f[n] = p BY Zenon DEF Stands
<1> HIDE DEF p
<1>3. 0 \in T
  <2>1. n + 0 = n /\ 0 \in Nat BY SMT
  <2>2. QED BY Zenon, <1>2, <2>1
<1>4. ASSUME NEW i \in Nat, i \in T PROVE i + 1 \in T
  <2> DEFINE m == n + i
  <2> SUFFICES ASSUME n + (i + 1) <= Len(args) PROVE f[n + (i + 1)] = p
    <3>1. i + 1 \in Nat BY SMT
    <3>2. QED BY Zenon, <3>1
  <2>1. m \in Nat /\ m <= Len(args) /\ m + 1 <= Len(args) /\ n + (i + 1) = m + 1
    BY <1>0
  <2>2. f[m] = p BY Zenon, <1>4, <2>1
  <2> HIDE DEF m
  <2>3. f[m + 1] = TakeNext(f[m]) BY Zenon, <1>0, <2>1, NextStep
  <2>4. QED BY Zenon, <1>1, <2>1, <2>2, <2>3
<1>5. /\ Len(args) - n \in Nat /\ n + (Len(args) - n) = Len(args)
      /\ n + (Len(args) - n) <= Len(args)
  BY <1>0
<1>6. Len(args) - n \in T
  <2> HIDE DEF T
  <2>1. Nat \subseteq T BY Zenon, <1>3, <1>4, CountingUp
  <2>2. QED BY Zenon, <1>5, <2>1
<1>7. f[Len(args)] = p BY Zenon, <1>5, <1>6
<1>8. QED BY <1>7 DEF p

\* A Core reads the line of the window as what it was written from.
LEMMA LineParsed ==
    ASSUME NEW a, a.contacts \in Seq(Contacts), a.port \in PortNumbers, a.bind # Empty,
           \A i \in DOMAIN a.contacts : a.contacts[i].host # Empty,
           NEW lists
    PROVE  Has(parse_options(build_command_line(a, lists)), "room", a.bind,
               Chosen(lists)["capture"], Chosen(lists)["render"], a.port,
               [i \in DOMAIN a.contacts |-> Told(a.contacts[i])])
<1> DEFINE args == build_command_line(a, lists)
           C == a.contacts
           L == Len(C)
           D == DeviceArguments(lists)
           c == Chosen(lists)["capture"]
           r == Chosen(lists)["render"]
           told == [i \in DOMAIN a.contacts |-> Told(a.contacts[i])]
<1>1. PICK R : D \in Seq(R) BY Zenon, DeviceArgumentsAre
<1>2. IsLine(args, a, D) /\ \E S : args \in Seq(S)
  BY Zenon, <1>1, LineIs
<1>3. PICK S : args \in Seq(S) BY Zenon, <1>2
<1>4. L \in Nat /\ Len(args) \in Nat BY Zenon, <1>3, LenProperties
<1>5. PICK f : /\ f[0] = [o |-> Defaults, rest |-> args]
               /\ \A n \in 1 .. Len(args) : f[n] = TakeNext(f[n - 1])
               /\ parse_options(args) = f[Len(args)].o
  BY Zenon, <1>4, Parsing
<1>6. Runs(f, args) BY Zenon, <1>5 DEF Runs
<1>7. /\ Len(args) = Len(D) + 13 + 11 * L
      /\ args[Len(D) + 12] = Opt("--room") /\ args[Len(D) + 13] = Num(a.port)
      /\ \A i \in 1 .. L : PeerAt(args, Len(D) + 13 + 11 * (i - 1), C[i])
  BY Zenon, <1>2 DEF IsLine
<1> HIDE DEF args, D, C, L, c, r, told
<1>0. Len(D) \in Nat BY Zenon, <1>1, LenProperties
<1>8. Len(args) >= 13 BY <1>0, <1>4, <1>7
<1>9. At(f, args, 6, 11, "probe", a.bind, Empty, Empty, DefaultUdpPort, <<>>)
  BY Zenon, <1>2, <1>3, <1>6, <1>8, HeadingRead
<1>10. PICK d \in 0 .. 2 :
          /\ Len(D) = 2 * d
          /\ At(f, args, 6 + d, 11 + Len(D), "probe", a.bind, c, r, DefaultUdpPort, <<>>)
  BY Zenon, <1>2, <1>3, <1>4, <1>6, <1>9, DevicesRead DEF D, c, r, L, C
<1> DEFINE n == 6 + d
           k == 11 + Len(D)
<1>11. /\ n \in Nat /\ n + 1 <= Len(args) /\ k \in 0 .. Len(args) /\ k + 2 <= Len(args)
       /\ k + 1 = Len(D) + 12 /\ k + 2 = Len(D) + 13
       /\ n + 1 \in Nat /\ k + 2 \in Nat /\ n + 1 <= k + 2 /\ Len(args) = (k + 2) + 11 * L
       /\ (n + 1) + L \in Nat /\ (n + 1) + L <= Len(args)
  BY <1>0, <1>4, <1>7, <1>10
<1>12. \A i \in 1 .. L : PeerAt(args, (k + 2) + 11 * (i - 1), C[i])
  BY Zenon, <1>7, <1>11
<1>13. At(f, args, n, k, "probe", a.bind, c, r, DefaultUdpPort, <<>>)
  BY Zenon, <1>10
<1>14. args[k + 1] = Opt("--room") /\ args[k + 2] = Num(a.port)
  BY Zenon, <1>7, <1>11
<1> HIDE DEF n, k
<1>15. At(f, args, n + 1, k + 2, "room", a.bind, c, r, a.port, <<>>)
  BY Zenon, <1>3, <1>6, <1>11, <1>13, <1>14, RoomRead
<1> DEFINE p == n + 1
           q == k + 2
<1>16. /\ p \in Nat /\ q \in Nat /\ p <= q /\ Len(args) = q + 11 * L /\ p + L \in Nat
       /\ p + L <= Len(args) /\ At(f, args, p, q, "room", a.bind, c, r, a.port, <<>>)
       /\ \A i \in 1 .. L : PeerAt(args, q + 11 * (i - 1), C[i])
  BY Zenon, <1>11, <1>12, <1>15
<1> HIDE DEF p, q
<1>17. At(f, args, p + L, Len(args), "room", a.bind, c, r, a.port, told)
  <2>1. C \in Seq(Contacts) /\ \A i \in DOMAIN C : C[i].host # Empty
    BY Zenon DEF C
  <2>2. Len(args) = q + 11 * Len(C)
        /\ \A i \in 1 .. Len(C) : PeerAt(args, q + 11 * (i - 1), C[i])
    BY Zenon, <1>16 DEF L
  <2>3. At(f, args, p + Len(C), Len(args), "room", a.bind, c, r, a.port,
           [i \in DOMAIN C |-> Told(C[i])])
    BY Zenon, <1>3, <1>6, <1>16, <2>1, <2>2, PeersRead
  <2>4. QED BY Zenon, <2>3 DEF C, L, told
<1>18. PICK o : /\ Stands(f, args, p + L, Len(args), o)
                /\ Has(o, "room", a.bind, c, r, a.port, told)
  BY Zenon, <1>17 DEF At
<1>19. f[Len(args)].o = o
  <2> DEFINE e == p + L
  <2>1. e \in Nat /\ e <= Len(args) /\ Stands(f, args, e, Len(args), o)
    BY Zenon, <1>16, <1>18
  <2> HIDE DEF e
  <2>2. QED BY Zenon, <1>3, <1>6, <2>1, EndRead
<1>20. QED BY Zenon, <1>5, <1>18, <1>19 DEF args, c, r, told

-----------------------------------------------------------------------------
(* What a Core is told and what the settings say.                           *)

\* The settings of a contact in a Core
PeerFields ==
    {"host", "port", "gain", "db", "threshold", "attack", "hold", "release", "ptt", "buffer"}

\* A contact as a Core has it, one that says of a contact what the settings say
Knows(peer, contact) == DOMAIN peer = PeerFields /\ Means(peer, contact)

LEMMA NearNothing ==
    /\ Near(0, 0, GainStep \div 2) /\ Near(0, 0, Unit \div 200) /\ Near(0, 0, 5)
    /\ \A x, y \in Int : Near(x, y, 5) => Near(x, y, Unit \div 200) /\ Near(x, y, GainStep \div 2)
<1>1. Unit \div 200 = 500 /\ GainStep \div 2 = 5000
  BY DEF Unit, GainStep
<1>2. QED BY <1>1 DEF Near

LEMMA ToldMeans == ASSUME NEW c \in Contacts PROVE Knows(Told(c), c)
<1> DEFINE t == Told(c)
<1>1. /\ c.gain \in GainRange /\ c.db \in DbRange /\ c.threshold \in LevelRange
      /\ c.muted \in BOOLEAN /\ c.selfDuck \in BOOLEAN
  BY Zenon, ContactFields
<1>2. /\ DOMAIN t = PeerFields
      /\ t.host = c.host /\ t.port = c.port /\ t.buffer = c.buffer /\ t.attack = c.attack
      /\ t.hold = c.hold /\ t.release = c.release /\ t.ptt = c.ptt
      /\ t.gain = IF c.muted THEN 0 ELSE Rounded(Clamp(c.gain, 0, GainMax), GainStep)
      /\ t.db = IF c.selfDuck THEN Rounded(c.db, 1000) ELSE 0
      /\ t.threshold = Rounded(c.threshold, 10)
  BY DEF Told, PeerFields
<1> HIDE DEF t
<1>3. Near(t.gain, IF c.muted THEN 0 ELSE c.gain, GainStep \div 2)
  <2>1. Clamp(c.gain, 0, GainMax) = c.gain /\ c.gain \in Int
    BY <1>1, Ranges DEF Clamp, GainMax, Unit
  <2>2. Near(Rounded(c.gain, GainStep), c.gain, GainStep \div 2)
    BY <2>1, RoundedNear
  <2>3. CASE c.muted BY Zenon, <1>2, <2>3, NearNothing
  <2>4. CASE ~c.muted BY Zenon, <1>2, <2>1, <2>2, <2>4
  <2>5. QED BY Zenon, <2>3, <2>4
<1>4. Near(t.db, IF c.selfDuck THEN c.db ELSE 0, Unit \div 200)
  <2>1. c.db \in Int BY <1>1, Ranges
  <2>2. Near(Rounded(c.db, 1000), c.db, Unit \div 200)
    BY <2>1, RoundedNear
  <2>3. CASE c.selfDuck BY Zenon, <1>2, <2>2, <2>3
  <2>4. CASE ~c.selfDuck BY Zenon, <1>2, <2>4, NearNothing
  <2>5. QED BY Zenon, <2>3, <2>4
<1>5. Near(t.threshold, c.threshold, 5)
  <2>1. c.threshold \in Int BY <1>1, Ranges
  <2>2. Near(Rounded(c.threshold, 10), c.threshold, 5)
    BY <2>1, RoundedNear
  <2>3. QED BY Zenon, <1>2, <2>2
<1>6. QED BY Zenon, <1>2, <1>3, <1>4, <1>5 DEF Knows, Means, t

\* Six digits say it exactly, or nearly so for the decibels.
LEMMA SixDigitsAre ==
    /\ \A v \in GainRange : SixDigits(v) = v
    /\ \A v \in LevelRange : SixDigits(v) = v
    /\ \A v \in DbRange : SixDigits(v) \in DbRange /\ Near(SixDigits(v), v, 5)
<1>1. 10 * Unit = 1000000 BY DEF Unit
<1>2. ASSUME NEW v \in Int, v < 10 * Unit PROVE SixDigits(v) = v
  BY <1>2 DEF SixDigits, Unit
<1>3. ASSUME NEW v \in GainRange \cup LevelRange PROVE v \in Int /\ v < 10 * Unit
  BY <1>1, Ranges
<1>4. ASSUME NEW v \in DbRange PROVE SixDigits(v) \in DbRange /\ Near(SixDigits(v), v, 5)
  <2>1. v \in Int BY Ranges
  <2>2. Rounded(v, 10) \in DbRange
    <3> DEFINE q == (v + 5) \div 10
    <3>1. q \in Int /\ 10 * q <= v + 5 /\ v + 5 < 10 * q + 10 BY <2>1
    <3>2. Rounded(v, 10) = q * 10 BY DEF Rounded
    <3> HIDE DEF q
    <3>3. 0 <= v /\ v <= 6000000 BY Ranges
    <3>4. QED BY <2>1, <3>1, <3>2, <3>3, Ranges
  <2>3. Near(Rounded(v, 10), v, 5) BY <2>1, RoundedNear
  <2>4. v \in DbRange /\ Near(v, v, 5) BY <2>1 DEF Near
  <2>5. SixDigits(v) = v \/ SixDigits(v) = Rounded(v, 10)
    BY Zenon DEF SixDigits
  <2>6. QED BY Zenon, <2>2, <2>3, <2>4, <2>5
<1>5. QED BY Zenon, <1>2, <1>3, <1>4

\* What a contact may be set to, the Core allows.
LEMMA Allowed ==
    /\ \A v \in GainRange : v \in 0 .. 8 * Unit
    /\ \A v \in DbRange : v \in 0 .. 60 * Unit
    /\ \A v \in LevelRange : v \in 0 .. Unit
<1> DEFINE g == 8 * Unit
           d == 60 * Unit
<1>1. g \in Int /\ d \in Int /\ 300000 <= g /\ 6000000 <= d /\ Unit \in Int /\ 100000 <= Unit
  BY DEF Unit
<1> HIDE DEF g, d
<1>2. ASSUME NEW v \in GainRange PROVE v \in 0 .. g BY <1>1, Ranges
<1>3. ASSUME NEW v \in DbRange PROVE v \in 0 .. d BY <1>1, Ranges
<1>4. ASSUME NEW v \in LevelRange PROVE v \in 0 .. Unit
  BY <1>1, Ranges
<1>5. QED BY Zenon, <1>2, <1>3, <1>4 DEF g, d

\* The line of a contact's settings is one the Core takes, and says what the settings say.
LEMMA RuntimeIs ==
    ASSUME NEW c \in Contacts, NEW u, u = RuntimeSettings(c)
    PROVE  /\ valid_room_peer_settings(u)
           /\ DOMAIN u = {"gain", "db", "threshold", "attack", "hold", "release", "ptt"}
           /\ Near(u.gain, IF c.muted THEN 0 ELSE c.gain, GainStep \div 2)
           /\ Near(u.db, IF c.selfDuck THEN c.db ELSE 0, Unit \div 200)
           /\ Near(u.threshold, c.threshold, 5)
           /\ u.attack = c.attack /\ u.hold = c.hold /\ u.release = c.release /\ u.ptt = c.ptt
<1>1. /\ c.gain \in GainRange /\ c.db \in DbRange /\ c.threshold \in LevelRange
      /\ c.muted \in BOOLEAN /\ c.selfDuck \in BOOLEAN /\ c.attack \in TimeRange
      /\ c.hold \in TimeRange /\ c.release \in ReleaseRange
  BY Zenon, ContactFields
<1>2. /\ DOMAIN u = {"gain", "db", "threshold", "attack", "hold", "release", "ptt"}
      /\ u.gain = IF c.muted THEN 0 ELSE SixDigits(c.gain)
      /\ u.db = IF c.selfDuck THEN SixDigits(c.db) ELSE 0
      /\ u.threshold = SixDigits(c.threshold)
      /\ u.attack = c.attack /\ u.hold = c.hold /\ u.release = c.release /\ u.ptt = c.ptt
  BY DEF RuntimeSettings
<1>3. /\ SixDigits(c.gain) = c.gain /\ SixDigits(c.threshold) = c.threshold
      /\ SixDigits(c.db) \in DbRange /\ Near(SixDigits(c.db), c.db, 5)
  BY Zenon, <1>1, SixDigitsAre
<1>4. /\ c.gain \in Int /\ c.db \in Int /\ c.threshold \in Int /\ SixDigits(c.db) \in Int
      /\ 0 \in GainRange /\ 0 \in DbRange
      /\ Near(c.gain, c.gain, 5) /\ Near(c.threshold, c.threshold, 5)
  BY <1>1, <1>3, Ranges DEF Near
<1>5. Near(c.gain, c.gain, GainStep \div 2) /\ Near(SixDigits(c.db), c.db, Unit \div 200)
  BY Zenon, <1>3, <1>4, NearNothing
<1>6. /\ u.gain \in GainRange /\ Near(u.gain, IF c.muted THEN 0 ELSE c.gain, GainStep \div 2)
  <2>1. CASE c.muted BY <1>2, <1>4, <2>1, NearNothing
  <2>2. CASE ~c.muted BY Zenon, <1>1, <1>2, <1>3, <1>5, <2>2
  <2>3. QED BY Zenon, <2>1, <2>2
<1>7. /\ u.db \in DbRange /\ Near(u.db, IF c.selfDuck THEN c.db ELSE 0, Unit \div 200)
  <2>1. CASE c.selfDuck BY Zenon, <1>2, <1>3, <1>5, <2>1
  <2>2. CASE ~c.selfDuck BY Zenon, <1>2, <1>4, <2>2, NearNothing
  <2>3. QED BY Zenon, <2>1, <2>2
<1>8. u.threshold \in LevelRange /\ Near(u.threshold, c.threshold, 5)
  BY Zenon, <1>1, <1>2, <1>3, <1>4
<1>9. valid_room_peer_settings(u)
  <2>1. u.attack \in TimeRange /\ u.hold \in TimeRange /\ u.release \in ReleaseRange
    BY Zenon, <1>1, <1>2
  <2>0. u.gain \in GainRange /\ u.db \in DbRange /\ u.threshold \in LevelRange
    BY Zenon, <1>6, <1>7, <1>8
  <2>2. u.gain \in 0 .. 8 * Unit /\ u.db \in 0 .. 60 * Unit /\ u.threshold \in 0 .. Unit
    <3> DEFINE g == u.gain
               d == u.db
               t == u.threshold
    <3>1. g \in GainRange /\ d \in DbRange /\ t \in LevelRange
      BY Zenon, <2>0
    <3> HIDE DEF g, d, t
    <3>2. g \in 0 .. 8 * Unit BY <3>1, Allowed
    <3>3. d \in 0 .. 60 * Unit BY <3>1, Allowed
    <3>4. t \in 0 .. Unit BY <3>1, Allowed
    <3>5. QED BY Zenon, <3>2, <3>3, <3>4 DEF g, d, t
  <2>3. u.attack \in 0 .. 1000 /\ u.hold \in 0 .. 1000 /\ u.release \in 0 .. 5000
    BY <2>1 DEF TimeRange, ReleaseRange
  <2>4. QED BY <2>2, <2>3 DEF valid_room_peer_settings
<1>10. QED BY Zenon, <1>2, <1>6, <1>7, <1>8, <1>9

\* The contacts of a Core, each as the settings have it
AllKnown(peers, contacts) ==
    /\ DOMAIN peers = DOMAIN contacts
    /\ \A i \in DOMAIN contacts : Knows(peers[i], contacts[i])

\* A Core that is told of a contact whose address and buffer are the same
LEMMA ToldAgain ==
    ASSUME NEW peers, NEW C, AllKnown(peers, C), NEW i \in DOMAIN C,
           NEW B, DOMAIN B = DOMAIN C, \A j \in DOMAIN C \ {i} : B[j] = C[j],
           B[i] \in Contacts,
           B[i].host = C[i].host, B[i].port = C[i].port, B[i].buffer = C[i].buffer
    PROVE  AllKnown(Applied(peers, i, RuntimeSettings(B[i])), B)
<1> DEFINE u == RuntimeSettings(B[i])
           old == peers[i]
           new == Over(u, old)
           all == Applied(peers, i, u)
<1>1. /\ valid_room_peer_settings(u)
      /\ DOMAIN u = {"gain", "db", "threshold", "attack", "hold", "release", "ptt"}
      /\ Near(u.gain, IF B[i].muted THEN 0 ELSE B[i].gain, GainStep \div 2)
      /\ Near(u.db, IF B[i].selfDuck THEN B[i].db ELSE 0, Unit \div 200)
      /\ Near(u.threshold, B[i].threshold, 5)
      /\ u.attack = B[i].attack /\ u.hold = B[i].hold /\ u.release = B[i].release
      /\ u.ptt = B[i].ptt
  BY Zenon, RuntimeIs
<1> HIDE DEF u
<1>2. /\ DOMAIN peers = DOMAIN C /\ DOMAIN old = PeerFields /\ old.host = C[i].host
      /\ old.port = C[i].port /\ old.buffer = C[i].buffer
  BY Zenon DEF AllKnown, Knows, Means
<1> HIDE DEF old
<1>3. /\ DOMAIN new = DOMAIN u \cup DOMAIN old
      /\ \A f \in DOMAIN new : new[f] = IF f \in DOMAIN u THEN u[f] ELSE old[f]
  BY Zenon DEF Over
<1> HIDE DEF new
<1>4. /\ DOMAIN new = PeerFields
      /\ new.gain = u.gain /\ new.db = u.db /\ new.threshold = u.threshold
      /\ new.attack = u.attack /\ new.hold = u.hold /\ new.release = u.release
      /\ new.ptt = u.ptt
      /\ new.host = old.host /\ new.port = old.port /\ new.buffer = old.buffer
  BY <1>1, <1>2, <1>3 DEF PeerFields
<1>5. Means(new, B[i]) BY Zenon, <1>1, <1>2, <1>4 DEF Means
<1>6. all = [peers EXCEPT ![i] = new]
  BY Zenon, <1>1, <1>2 DEF Applied, new, old
<1> HIDE DEF all
<1>7. DOMAIN all = DOMAIN B BY Zenon, <1>2, <1>6
<1>8. ASSUME NEW j \in DOMAIN B PROVE Knows(all[j], B[j])
  <2>1. CASE j = i
    <3>1. all[i] = new BY Zenon, <1>2, <1>6
    <3>2. QED BY Zenon, <1>4, <1>5, <2>1, <3>1 DEF Knows
  <2>2. CASE j # i
    <3>1. all[j] = peers[j] BY Zenon, <1>2, <1>6, <2>2
    <3>2. B[j] = C[j] /\ Knows(peers[j], C[j])
      BY Zenon, <2>2 DEF AllKnown
    <3>3. QED BY Zenon, <3>1, <3>2
  <2>3. QED BY Zenon, <2>1, <2>2
<1>9. QED BY Zenon, <1>7, <1>8 DEF AllKnown, all, u

-----------------------------------------------------------------------------
(* The devices.                                                             *)

EndpointIds == {e.id : e \in Endpoints}

LEMMA PluggedAre ==
    ASSUME NEW w \in Worlds
    PROVE  \A k \in DOMAIN w.plugged : w.plugged[k] \in Endpoints
<1>1. {w.plugged[k] : k \in DOMAIN w.plugged} \subseteq Endpoints
  BY DEF Endpoints
<1>2. QED BY <1>1

\* An endpoint chosen by its id is opened, or none.
LEMMA ChosenIsOpened ==
    ASSUME NEW w \in Worlds, NEW flow, NEW id \in EndpointIds, id # Empty
    PROVE  select_audio_endpoint(w.plugged, flow, id) \subseteq {id}
<1> DEFINE P == w.plugged
           named == {k \in {n \in DOMAIN P : P[n].flow = flow} : id \in P[k].texts}
           one == {P[k].id : k \in {n \in named : Cardinality(named) = 1}}
<1>1. \A k \in DOMAIN P : P[k] \in Endpoints BY Zenon, PluggedAre
<1>2. PICK e \in Endpoints : id = e.id BY Zenon DEF EndpointIds
<1>3. id[1] # "num" BY Zenon, <1>2, WorldsAssumption
<1>4. \A k \in named : P[k].id = id
  BY Zenon, <1>1, <1>2, WorldsAssumption
<1>5. one \subseteq {id} BY Zenon, <1>4
<1>6. select_audio_endpoint(P, flow, id) = one
  BY Zenon, <1>3 DEF select_audio_endpoint
<1>7. QED BY Zenon, <1>5, <1>6

-----------------------------------------------------------------------------
(* Contacts with a host.                                                    *)

Hosted(s) == \A k \in DOMAIN s.contacts : s.contacts[k].host # Empty
HostedFile(d) == d = Missing \/ Hosted(d)

\* The line of a contact has its host.
LEMMA LineHost ==
    ASSUME NEW c
    PROVE  ContactLine(c).host = c.host
BY DEF ContactLine

\* and what is read from a line has the host of the line.
LEMMA ParsedHost ==
    ASSUME NEW l
    PROVE  parse_contact(l).host = l.host
BY DEF parse_contact

LEMMA SavedHosted ==
    ASSUME NEW a, IsApp(a), Hosted(a), NEW lists
    PROVE  Hosted(Saved(a, lists)) /\ HostedFile(Saved(a, lists))
<1> DEFINE s == [f \in DOMAIN DefaultSettings |->
                    IF f = "devices" THEN Chosen(lists) ELSE a[f]]
<1>1. Saved(a, lists) = serialize_settings(s) BY Zenon DEF Saved
<1>2. DOMAIN s = Fields /\ s.contacts = a.contacts
  BY FieldsAre DEF Fields
<1> HIDE DEF s
<1>3. serialize_settings(s).contacts = [k \in DOMAIN s.contacts |-> ContactLine(s.contacts[k])]
  BY <1>2 DEF serialize_settings, Fields
<1> DEFINE w == serialize_settings(s)
<1> HIDE DEF w
<1>4. ASSUME NEW k \in DOMAIN w.contacts
      PROVE  w.contacts[k].host # Empty
  <2>1. k \in DOMAIN a.contacts /\ w.contacts[k] = ContactLine(a.contacts[k])
    BY Zenon, <1>2, <1>3, <1>4 DEF w
  <2>2. w.contacts[k].host = a.contacts[k].host
    BY Zenon, <2>1, LineHost
  <2>3. QED BY Zenon, <2>1, <2>2 DEF Hosted
<1>5. Hosted(serialize_settings(s)) BY Zenon, <1>4 DEF Hosted, w
<1>6. QED BY Zenon, <1>1, <1>5 DEF HostedFile

LEMMA LoadedHosted ==
    ASSUME NEW f, IsFile(f), Hosted(f)
    PROVE  /\ Hosted(Remembered(parse_settings(f)))
           /\ HostedFile(serialize_settings(parse_settings(f)))
<1> DEFINE p == parse_settings(f)
<1>1. /\ DOMAIN p = Fields
      /\ p.contacts = [k \in DOMAIN f.contacts |-> parse_contact(f.contacts[k])]
  BY Zenon, FileRead
<1> HIDE DEF p
<1>4. Remembered(p).contacts = p.contacts BY DEF Remembered
<1>5. serialize_settings(p).contacts = [k \in DOMAIN p.contacts |-> ContactLine(p.contacts[k])]
  BY <1>1 DEF serialize_settings, Fields
<1>6. ASSUME NEW k \in DOMAIN p.contacts
      PROVE  p.contacts[k].host # Empty
  <2>1. k \in DOMAIN f.contacts /\ p.contacts[k] = parse_contact(f.contacts[k])
    BY Zenon, <1>1, <1>6
  <2>2. p.contacts[k].host = f.contacts[k].host
    BY Zenon, <2>1, ParsedHost
  <2>3. QED BY Zenon, <2>1, <2>2 DEF Hosted
<1>7. Hosted(Remembered(p)) BY Zenon, <1>4, <1>6 DEF Hosted
<1> DEFINE w == serialize_settings(p)
<1> HIDE DEF w
<1>3. ASSUME NEW k \in DOMAIN w.contacts
      PROVE  w.contacts[k].host # Empty
  <2>1. k \in DOMAIN p.contacts /\ w.contacts[k] = ContactLine(p.contacts[k])
    BY Zenon, <1>5, <1>3 DEF w
  <2>2. w.contacts[k].host = p.contacts[k].host
    BY Zenon, <2>1, LineHost
  <2>3. QED BY Zenon, <1>6, <2>1, <2>2
<1>8. Hosted(serialize_settings(p)) BY Zenon, <1>3 DEF Hosted, w
<1>9. QED BY Zenon, <1>7, <1>8 DEF HostedFile, p

LEMMA TornHosted ==
    ASSUME NEW f, IsFile(f), Hosted(f), NEW d \in Torn(f)
    PROVE  Hosted(d)
<1>0. DOMAIN f = Fields /\ f.contacts \in Seq(ContactLines)
  BY Zenon, FieldsAre DEF IsFile
<1>1. ASSUME NEW S, d = [x \in DOMAIN DefaultSettings |->
                            IF x \in S THEN f[x] ELSE DefaultSettings[x]]
      PROVE  Hosted(d)
  <2>1. d.contacts \in {f.contacts, DefaultSettings.contacts}
    BY <1>1, FieldsAre DEF Fields
  <2>2. DOMAIN DefaultSettings.contacts = {}
    <3>1. DefaultSettings.contacts = <<>> BY DEF DefaultSettings
    <3>2. QED BY <3>1
  <2>3. QED BY Zenon, <2>1, <2>2 DEF Hosted
<1>2. ASSUME NEW n \in DOMAIN f.contacts, d = [f EXCEPT !.contacts = SubSeq(@, 1, n)]
      PROVE  Hosted(d)
  <2> DEFINE s == f.contacts
             t == SubSeq(s, 1, n)
  <2>1. d.contacts = t BY <1>0, <1>2 DEF Fields
  <2>2. \A k \in DOMAIN t : k \in DOMAIN s /\ t[k] = s[k]
    <3> HIDE DEF s
    <3>1. s \in Seq(ContactLines) /\ n \in DOMAIN s
      BY Zenon, <1>0 DEF s
    <3>2. QED BY <3>1
  <2> HIDE DEF t
  <2>3. QED BY Zenon, <2>1, <2>2 DEF Hosted
<1>3. QED BY Zenon, <1>1, <1>2 DEF Torn

\* What the dialog accepts has a host.
LEMMA DialogHosted ==
    ASSUME NEW c, NEW typed, NEW d \in DialogResult(c, typed)
    PROVE  d.host # Empty
<1>1. validate(d) BY Zenon DEF DialogResult
<1>2. QED BY Zenon, <1>1 DEF validate

-----------------------------------------------------------------------------
(* The Core that is started.                                                *)

\* The combo boxes offer endpoints that were active when the window opened.
IsList(lists) ==
    /\ DOMAIN lists = {"capture", "render"}
    /\ \A flow \in DOMAIN lists : /\ lists[flow].at \in {Empty} \cup EndpointIds
                                  /\ lists[flow].ids \subseteq {Empty} \cup EndpointIds

\* A Core in its room that has what the settings say
CoreFields == {"state", "port", "bind", "peers", "devices"}
Serves(c, a, lists) ==
    /\ DOMAIN c = CoreFields
    /\ c.port = a.port /\ c.bind = a.bind
    /\ \A flow \in DOMAIN lists :
        Chosen(lists)[flow] # Empty => c.devices[flow] = {Chosen(lists)[flow]}
    /\ AllKnown(c.peers, a.contacts)

\* The adapter that was resolved is up, and its address is one.
LEMMA ResolvedBinds ==
    ASSUME NEW a, IsApp(a), world \in Worlds
    PROVE  /\ Resolved(a).bind # Empty
           /\ {Resolved(a).bind} = resolve_network_bind_address(world.adapters, Resolved(a).adapter)
<1> DEFINE up == world.adapters
           address == resolve_network_bind_address(up, a.adapter)
           r == Resolved(a)
<1>1. DOMAIN a = Fields \cup {"bind"} /\ EveryAddress # Empty
  BY DEF IsApp, EveryAddress, Empty, Txt
<1>2. \A x \in DOMAIN up : up[x] # Empty BY Zenon, WorldsAssumption
<1>3. CASE address = {}
  <2>1. r.adapter = Empty /\ r.bind = EveryAddress
    BY <1>1, <1>3 DEF Resolved, Fields
  <2>2. QED BY Zenon, <1>1, <2>1 DEF resolve_network_bind_address
<1>4. CASE address # {}
  <2> DEFINE b == CHOOSE x \in address : TRUE
  <2>1. b \in address BY Zenon, <1>4
  <2>2. r.bind = b /\ r.adapter = a.adapter
    <3> HIDE DEF b
    <3>1. r = [a EXCEPT !.bind = b] BY Zenon, <1>4 DEF Resolved, b
    <3> HIDE DEF r
    <3>2. QED BY <1>1, <3>1 DEF Fields
  <2> HIDE DEF b
  <2>3. CASE a.adapter = Empty
    <3>1. address = {EveryAddress}
      BY Zenon, <2>3 DEF resolve_network_bind_address
    <3>2. b = EveryAddress BY Zenon, <2>1, <3>1
    <3>3. QED BY Zenon, <1>1, <2>2, <3>1, <3>2
  <2>4. CASE a.adapter # Empty
    <3>1. address = {up[x] : x \in DOMAIN up \cap {a.adapter}}
      BY Zenon, <2>4 DEF resolve_network_bind_address
    <3>2. b = up[a.adapter] /\ a.adapter \in DOMAIN up
      BY Zenon, <2>1, <3>1
    <3>3. address = {b} BY Zenon, <3>1, <3>2
    <3>4. b # Empty BY Zenon, <1>2, <3>2
    <3>5. QED BY Zenon, <2>2, <3>3, <3>4
  <2>5. QED BY Zenon, <2>3, <2>4
<1>5. QED BY Zenon, <1>3, <1>4

\* The options of the window's line: a room with both devices, or none because one is missing
LEMMA RoomOpens ==
    ASSUME NEW o, NEW bind, NEW c, NEW r, NEW port, NEW peers,
           Has(o, "room", bind, c, r, port, peers), NEW plugged
    PROVE  LET devices == Opened(o, plugged)
           IN  /\ run_application(o, devices) \in {"room", "failed"}
               /\ run_application(o, devices) = "room" =>
                    /\ devices["capture"] = select_audio_endpoint(plugged, "capture", c)
                    /\ devices["render"] = select_audio_endpoint(plugged, "render", r)
                    /\ devices["capture"] # {} /\ devices["render"] # {}
<1> DEFINE D == Opened(o, plugged)
<1>1. /\ o.mode = "room" /\ o.listenOnly = FALSE /\ o.help = FALSE
      /\ o.captureDevice = c /\ o.renderDevice = r
  BY Zenon DEF Has
<1>2. Flows(o) = {"capture", "render"} BY <1>1 DEF Flows
<1>3. Selector(o, "capture") = c /\ Selector(o, "render") = r
  BY <1>1 DEF Selector
<1>4. /\ DOMAIN D = {"capture", "render"}
      /\ D["capture"] = select_audio_endpoint(plugged, "capture", c)
      /\ D["render"] = select_audio_endpoint(plugged, "render", r)
  BY Zenon, <1>2, <1>3 DEF Opened
<1> HIDE DEF D
<1>5. CASE \E flow \in DOMAIN D : D[flow] = {}
  <2>1. run_application(o, D) = "failed"
    BY Zenon, <1>1, <1>5 DEF run_application
  <2>2. "failed" # "room" BY SMT
  <2>3. QED BY Zenon, <2>1, <2>2 DEF D
<1>6. CASE ~ \E flow \in DOMAIN D : D[flow] = {}
  <2>1. run_application(o, D) = "room"
    BY Zenon, <1>1, <1>6 DEF run_application
  <2>2. D["capture"] # {} /\ D["render"] # {} BY Zenon, <1>4, <1>6
  <2>3. QED BY Zenon, <1>4, <2>1, <2>2 DEF D
<1>7. QED BY Zenon, <1>5, <1>6

\* A Core that is started has what the settings say, on the address its adapter has, or is
\* dead at once: it never refuses its line.
LEMMA StartServes ==
    ASSUME NEW a, IsApp(a), Hosted(a), NEW lists, IsList(lists), world \in Worlds,
           NEW d, StartCore(a, lists, d)
    PROVE  /\ core'.state \in {"room", "dead"}
           /\ core'.state = "room" =>
                /\ Serves(core', app', lists)
                /\ {core'.bind} = resolve_network_bind_address(world.adapters, app'.adapter)
           /\ app'.contacts = a.contacts /\ disk' \in {Saved(app', lists), d}
<1> DEFINE b == Resolved(a)
           o == parse_options(build_command_line(b, lists))
           told == [i \in DOMAIN b.contacts |-> Told(b.contacts[i])]
           c == Chosen(lists)["capture"]
           r == Chosen(lists)["render"]
           D == Opened(o, world.plugged)
           does == run_application(o, D)
<1>1. app' = b /\ disk' \in {Saved(b, lists), d} /\ core' = Started(o, D)
  BY Zenon DEF StartCore
<1>2. IsApp(b) /\ b.contacts = a.contacts BY Zenon, ResolvedIs
<1>3. /\ b.bind # Empty
      /\ {b.bind} = resolve_network_bind_address(world.adapters, b.adapter)
  BY Zenon, ResolvedBinds
<1> HIDE DEF b
<1>4. /\ b.contacts \in Seq(Contacts) /\ b.port \in PortNumbers
      /\ \A i \in DOMAIN b.contacts : b.contacts[i].host # Empty
  BY Zenon, <1>2 DEF IsApp, IsSettings, Hosted
<1>5. Has(o, "room", b.bind, c, r, b.port, told)
  BY Zenon, <1>3, <1>4, LineParsed
<1>6. o.localPort = b.port /\ o.bind = b.bind /\ o.peers = told
  BY Zenon, <1>5 DEF Has
<1> HIDE DEF o, told
<1>7. /\ does \in {"room", "failed"}
      /\ does = "room" =>
            /\ D["capture"] = select_audio_endpoint(world.plugged, "capture", c)
            /\ D["render"] = select_audio_endpoint(world.plugged, "render", r)
            /\ D["capture"] # {} /\ D["render"] # {}
  BY Zenon, <1>5, RoomOpens
<1> HIDE DEF D
<1>8. \/ does = "room" /\ core' = [state |-> "room", port |-> o.localPort, bind |-> o.bind,
                                   peers |-> o.peers, devices |-> D]
      \/ core' = [state |-> "dead"]
  BY Zenon, <1>1, <1>7 DEF Started
<1> HIDE DEF does
<1>9. CASE core' = [state |-> "dead"]
  <2>1. core'.state = "dead" /\ "dead" # "room" BY <1>9
  <2>2. QED BY Zenon, <1>1, <1>2, <2>1
<1>10. CASE does = "room" /\ core' = [state |-> "room", port |-> o.localPort, bind |-> o.bind,
                                      peers |-> o.peers, devices |-> D]
  <2>1. /\ core'.state = "room" /\ core'.port = b.port /\ core'.bind = b.bind
        /\ core'.peers = told /\ core'.devices = D
    BY Zenon, <1>6, <1>10
  <2>0. DOMAIN core' = CoreFields BY <1>10 DEF CoreFields
  <2>2. AllKnown(told, b.contacts)
    <3>1. \A i \in DOMAIN b.contacts : b.contacts[i] \in Contacts
      BY Zenon, <1>2, AppContacts
    <3>2. QED BY Zenon, <3>1, ToldMeans DEF AllKnown, told
  <2>3. ASSUME NEW flow \in DOMAIN lists, Chosen(lists)[flow] # Empty
        PROVE  D[flow] = {Chosen(lists)[flow]}
    <3> DEFINE id == Chosen(lists)[flow]
    <3>1. flow \in {"capture", "render"} /\ id = lists[flow].at
      BY Zenon DEF IsList, Chosen
    <3>2. id \in EndpointIds BY Zenon, <2>3, <3>1 DEF IsList
    <3>3. D[flow] = select_audio_endpoint(world.plugged, flow, id) /\ D[flow] # {}
      BY Zenon, <1>7, <1>10, <3>1
    <3> HIDE DEF id
    <3>4. id # Empty BY Zenon, <2>3 DEF id
    <3>5. D[flow] \subseteq {id}
      <4>1. select_audio_endpoint(world.plugged, flow, id) \subseteq {id}
        BY Zenon, <3>2, <3>4, ChosenIsOpened
      <4>2. QED BY Zenon, <3>3, <4>1
    <3>6. QED BY Zenon, <3>3, <3>5 DEF id
  <2>4. Serves(core', app', lists)
    BY Zenon, <1>1, <2>0, <2>1, <2>2, <2>3 DEF Serves
  <2>5. QED BY Zenon, <1>1, <1>2, <1>3, <2>1, <2>4
<1>11. QED BY Zenon, <1>8, <1>9, <1>10

-----------------------------------------------------------------------------
(* The invariant of the Core: while one runs, it serves the settings, but   *)
(* for who was found by a search that is open.  What it is started with     *)
(* comes from the contacts, the combo boxes and the files, so these must    *)
(* have nothing a Core would refuse.                                        *)

CoreStates == {"none", "room", "dead", "stopping"}
CoreInv ==
    /\ world \in Worlds /\ IsList(combos)
    /\ Hosted(app) /\ HostedFile(disk) /\ HostedFile(legacy)
    /\ dialog.kind = "search" => dialog \in {Search(TRUE), Search(FALSE)}
    /\ phase # "open" => core.state = "none"
    /\ core.state \in CoreStates
    /\ core.state = "room" /\ dialog # Search(TRUE) => Serves(core, app, combos)

\* A step after which a Core runs that did not run before (BindsToLiveAdapter)
StartsLive ==
    core.state # "room" /\ core'.state = "room" =>
        {core'.bind} = resolve_network_bind_address(world.adapters, app'.adapter)

\* What a step that starts, stops or tells a Core leaves, with the choices of lists
Leads(lists) ==
    /\ Hosted(app') /\ HostedFile(disk')
    /\ core'.state \in CoreStates
    /\ core'.state = "room" => Serves(core', app', lists)
    /\ StartsLive

LEMMA StartLeads ==
    ASSUME NEW a, IsApp(a), Hosted(a), NEW lists, IsList(lists), world \in Worlds,
           NEW d, HostedFile(d), StartCore(a, lists, d)
    PROVE  Leads(lists)
<1>1. /\ core'.state \in {"room", "dead"}
      /\ core'.state = "room" =>
            /\ Serves(core', app', lists)
            /\ {core'.bind} = resolve_network_bind_address(world.adapters, app'.adapter)
      /\ app'.contacts = a.contacts /\ disk' \in {Saved(app', lists), d}
  BY Zenon, StartServes
<1>2. IsApp(app')
  <2>1. app' = Resolved(a) BY Zenon DEF StartCore
  <2>2. QED BY Zenon, <2>1, ResolvedIs
<1>3. Hosted(app') BY Zenon, <1>1 DEF Hosted
<1>4. HostedFile(disk') BY Zenon, <1>1, <1>2, <1>3, SavedHosted
<1>5. QED BY Zenon, <1>1, <1>3, <1>4 DEF Leads, CoreStates, StartsLive

LEMMA RestartLeads ==
    ASSUME NEW a, IsApp(a), Hosted(a), NEW lists, IsList(lists), world \in Worlds,
           NEW d, HostedFile(d), RestartCore(a, lists, d)
    PROVE  Leads(lists)
<1>1. CASE core.state = "none"
  <2>1. StartCore(a, lists, d) BY Zenon, <1>1 DEF RestartCore
  <2>2. QED BY Zenon, <2>1, StartLeads
<1>2. CASE core.state # "none"
  <2>1. app' = a /\ disk' = d /\ core' = [state |-> "stopping"]
    BY Zenon, <1>2 DEF RestartCore
  <2>2. core'.state = "stopping" /\ "stopping" # "room" /\ "stopping" \in CoreStates
    BY <2>1 DEF CoreStates
  <2>3. QED BY Zenon, <2>1, <2>2 DEF Leads, StartsLive
<1>3. QED BY Zenon, <1>1, <1>2

LEMMA SaveLeads ==
    ASSUME NEW a, IsApp(a), Hosted(a), NEW lists, IsList(lists), world \in Worlds,
           SaveAndRestart(a, lists)
    PROVE  Leads(lists)
<1>1. HostedFile(Saved(a, lists)) BY Zenon, SavedHosted
<1>2. RestartCore(a, lists, Saved(a, lists))
  BY Zenon DEF SaveAndRestart
<1>3. QED BY Zenon, <1>1, <1>2, RestartLeads

\* b is a with something else of the contact i that a Core can be told while it runs.
Retold(b, a, i) ==
    /\ b.port = a.port /\ b.bind = a.bind
    /\ DOMAIN b.contacts = DOMAIN a.contacts
    /\ \A j \in DOMAIN a.contacts \ {i} : b.contacts[j] = a.contacts[j]
    /\ b.contacts[i].host = a.contacts[i].host /\ b.contacts[i].port = a.contacts[i].port
    /\ b.contacts[i].buffer = a.contacts[i].buffer

LEMMA RetoldHosted ==
    ASSUME NEW a, NEW b, NEW i, Retold(b, a, i), Hosted(a)
    PROVE  Hosted(b)
<1>1. ASSUME NEW k \in DOMAIN b.contacts
      PROVE  b.contacts[k].host # Empty
  <2>1. k \in DOMAIN a.contacts BY Zenon, <1>1 DEF Retold
  <2>2. CASE k = i BY Zenon, <2>1, <2>2 DEF Retold, Hosted
  <2>3. CASE k # i BY Zenon, <2>1, <2>3 DEF Retold, Hosted
  <2>4. QED BY Zenon, <2>2, <2>3
<1>2. QED BY Zenon, <1>1 DEF Hosted

LEMMA TellLeads ==
    ASSUME NEW a, IsApp(a), NEW i \in DOMAIN app.contacts, Retold(a, app, i),
           Hosted(app), IsList(combos), world \in Worlds,
           core.state = "room" => Serves(core, app, combos),
           NEW d, HostedFile(d), TellOrRestart(i, a, d)
    PROVE  Leads(combos)
<1>1. Hosted(a) BY Zenon, RetoldHosted
<1>2. CASE core.state # "room"
  <2>1. RestartCore(a, combos, d) BY Zenon, <1>2 DEF TellOrRestart
  <2>2. QED BY Zenon, <1>1, <2>1, RestartLeads
<1>3. CASE core.state = "room"
  <2> DEFINE peers == Applied(core.peers, i, RuntimeSettings(a.contacts[i]))
  <2>1. app' = a /\ disk' = d /\ core' = [core EXCEPT !.peers = peers]
    BY Zenon, <1>3 DEF TellOrRestart
  <2>2. DOMAIN core = CoreFields BY Zenon, <1>3 DEF Serves
  <2>3. AllKnown(peers, a.contacts)
    <3>1. AllKnown(core.peers, app.contacts) BY Zenon, <1>3 DEF Serves
    <3>2. DOMAIN a.contacts = DOMAIN app.contacts BY Zenon DEF Retold
    <3>3. \A j \in DOMAIN app.contacts \ {i} : a.contacts[j] = app.contacts[j]
      BY Zenon DEF Retold
    <3>4. a.contacts[i].host = app.contacts[i].host
      BY Zenon DEF Retold
    <3>5. a.contacts[i].port = app.contacts[i].port
      BY Zenon DEF Retold
    <3>6. a.contacts[i].buffer = app.contacts[i].buffer
      BY Zenon DEF Retold
    <3>7. a.contacts[i] \in Contacts BY Zenon, <3>2, AppContacts
    <3>8. QED BY Zenon, <3>1, <3>2, <3>3, <3>4, <3>5, <3>6, <3>7, ToldAgain
  <2> HIDE DEF peers
  <2>4. /\ DOMAIN core' = CoreFields /\ core'.state = "room" /\ core'.peers = peers
        /\ core'.port = core.port /\ core'.bind = core.bind /\ core'.devices = core.devices
    BY <1>3, <2>1, <2>2 DEF CoreFields
  <2>5. Serves(core', app', combos)
    BY Zenon, <1>3, <2>1, <2>3, <2>4 DEF Serves, Retold
  <2>6. QED BY Zenon, <1>1, <1>3, <2>1, <2>4, <2>5 DEF Leads, CoreStates, StartsLive
<1>4. QED BY Zenon, <1>2, <1>3

-----------------------------------------------------------------------------
(* The steps.                                                               *)

\* A step that leads to the choices the combo boxes have behind it
LEMMA Led ==
    ASSUME CoreInv, Leads(combos'), IsList(combos'), phase' = "open",
           UNCHANGED <<world, legacy>>,
           dialog'.kind = "search" => dialog' \in {Search(TRUE), Search(FALSE)}
    PROVE  CoreInv' /\ StartsLive
  BY Zenon DEF CoreInv, Leads

\* An edit with no dialog open: the choices stay.
LEMMA EditLed ==
    ASSUME CoreInv, Leads(combos), phase = "open",
           UNCHANGED <<phase, combos, world, legacy, dialog>>
    PROVE  CoreInv' /\ StartsLive
<1>1. Leads(combos') /\ IsList(combos') BY Zenon DEF CoreInv
<1>2. dialog'.kind = "search" => dialog' \in {Search(TRUE), Search(FALSE)}
  BY Zenon DEF CoreInv
<1>3. QED BY Zenon, <1>1, <1>2, Led

\* Neither the Core nor what it was started with changes.
LEMMA CoreUntouched ==
    ASSUME CoreInv, UNCHANGED <<phase, combos, legacy, core>>, world' \in Worlds,
           HostedFile(disk'), app'.contacts = app.contacts, app'.port = app.port,
           app'.bind = app.bind,
           dialog'.kind = "search" => dialog' \in {Search(TRUE), Search(FALSE)},
           dialog' # Search(TRUE) => dialog # Search(TRUE)
    PROVE  CoreInv' /\ StartsLive
<1>1. Hosted(app') BY Zenon DEF CoreInv, Hosted
<1>2. Serves(core, app, combos) => Serves(core', app', combos')
  BY Zenon DEF Serves
<1>3. QED BY Zenon, <1>1, <1>2 DEF CoreInv, StartsLive

\* The contacts of settings with one added, one less, one replaced
LEMMA AddedHosted ==
    ASSUME NEW a, IsApp(a), Hosted(a), NEW c, c.host # Empty
    PROVE  Hosted([a EXCEPT !.contacts = Append(@, c)])
<1> DEFINE C == a.contacts
           b == [a EXCEPT !.contacts = Append(@, c)]
<1>1. C \in Seq(Contacts) /\ DOMAIN a = Fields \cup {"bind"}
  BY Zenon, AppContacts
<1>2. b.contacts = Append(C, c) BY <1>1 DEF Fields
<1> HIDE DEF b, C
<1>3. ASSUME NEW k \in DOMAIN Append(C, c)
      PROVE  Append(C, c)[k].host # Empty
  <2>1. (k \in DOMAIN C /\ Append(C, c)[k] = C[k]) \/ Append(C, c)[k] = c
    BY <1>1, <1>3
  <2>2. QED BY Zenon, <2>1 DEF Hosted, C
<1>4. Hosted(b) BY Zenon, <1>2, <1>3 DEF Hosted
<1>5. QED BY Zenon, <1>4 DEF b

LEMMA RemovedHosted ==
    ASSUME NEW a, IsApp(a), Hosted(a), NEW i \in DOMAIN a.contacts
    PROVE  Hosted([a EXCEPT !.contacts = RemoveAt(@, i)])
<1> DEFINE C == a.contacts
           b == [a EXCEPT !.contacts = RemoveAt(@, i)]
<1>1. C \in Seq(Contacts) /\ DOMAIN a = Fields \cup {"bind"} /\ i \in DOMAIN C
  BY Zenon, AppContacts
<1>2. b.contacts = RemoveAt(C, i) BY <1>1 DEF Fields
<1> HIDE DEF b, C
<1>3. ASSUME NEW k \in DOMAIN RemoveAt(C, i)
      PROVE  RemoveAt(C, i)[k].host # Empty
  <2>1. \E j \in DOMAIN C : RemoveAt(C, i)[k] = C[j]
    <3> DEFINE s == SubSeq(C, 1, i - 1)
               t == SubSeq(C, i + 1, Len(C))
    <3>0. i \in 1 .. Len(C) BY <1>1
    <3>1. /\ s \in Seq(Contacts) /\ Len(s) = i - 1
          /\ \A j \in 1 .. i - 1 : s[j] = C[j]
      BY <1>1, <3>0
    <3>2. /\ t \in Seq(Contacts) /\ Len(t) = Len(C) - i
          /\ \A j \in 1 .. Len(C) - i : t[j] = C[i + j]
      BY <1>1, <3>0
    <3>3. RemoveAt(C, i) = s \o t BY DEF RemoveAt
    <3> HIDE DEF s, t
    <3>4. k \in 1 .. Len(s) + Len(t) BY <1>3, <3>1, <3>2, <3>3
    <3>5. (s \o t)[k] = IF k <= Len(s) THEN s[k] ELSE t[k - Len(s)]
      BY <3>1, <3>2, <3>4
    <3>6. CASE k <= Len(s)
      <4>1. k \in 1 .. i - 1 /\ k \in DOMAIN C
        BY <1>1, <3>0, <3>1, <3>4, <3>6
      <4>2. QED BY <3>1, <3>3, <3>5, <3>6, <4>1
    <3>7. CASE ~(k <= Len(s))
      <4> DEFINE j == k - Len(s)
      <4>0. DOMAIN C = 1 .. Len(C) /\ Len(C) \in Nat BY <1>1
      <4>1. j \in 1 .. Len(C) - i /\ i + j \in DOMAIN C
        <5> DEFINE n == Len(C)
                   m == Len(s)
        <5>1. /\ n \in Nat /\ i \in 1 .. n /\ m = i - 1 /\ k \in 1 .. m + (n - i)
              /\ ~(k <= m) /\ DOMAIN C = 1 .. n
          BY Zenon, <3>0, <3>1, <3>2, <3>4, <3>7, <4>0
        <5> HIDE DEF n, m
        <5>2. k - m \in 1 .. n - i /\ i + (k - m) \in DOMAIN C BY <5>1
        <5>3. QED BY Zenon, <5>2 DEF n, m
      <4>2. RemoveAt(C, i)[k] = t[j] BY <3>3, <3>5, <3>7
      <4> HIDE DEF j
      <4>3. QED BY <3>2, <4>1, <4>2
    <3>8. QED BY Zenon, <3>6, <3>7
  <2>2. QED BY Zenon, <2>1 DEF Hosted, C
<1>4. Hosted(b) BY Zenon, <1>2, <1>3 DEF Hosted
<1>5. QED BY Zenon, <1>4 DEF b

\* b is a with c as its contact i.
Replaced(b, a, i, c) ==
    /\ b.port = a.port /\ b.bind = a.bind
    /\ DOMAIN b.contacts = DOMAIN a.contacts /\ b.contacts[i] = c
    /\ \A j \in DOMAIN a.contacts \ {i} : b.contacts[j] = a.contacts[j]

LEMMA SetIs ==
    ASSUME NEW a, IsApp(a), NEW i \in DOMAIN a.contacts, NEW c
    PROVE  Replaced([a EXCEPT !.contacts[i] = c], a, i, c)
<1> DEFINE C == a.contacts
           b == [a EXCEPT !.contacts[i] = c]
           D == [C EXCEPT ![i] = c]
<1>1. C \in Seq(Contacts) /\ DOMAIN a = Fields \cup {"bind"}
  BY Zenon, AppContacts
<1>2. b.contacts = D /\ b.port = a.port /\ b.bind = a.bind
  BY <1>1 DEF Fields
<1>3. DOMAIN D = DOMAIN C /\ D[i] = c /\ \A j \in DOMAIN C \ {i} : D[j] = C[j]
  <2> DEFINE X == C
  <2> HIDE DEF X
  <2>1. X \in Seq(Contacts) /\ i \in DOMAIN X BY Zenon, <1>1 DEF X
  <2>2. /\ DOMAIN [X EXCEPT ![i] = c] = DOMAIN X /\ [X EXCEPT ![i] = c][i] = c
        /\ \A j \in DOMAIN X \ {i} : [X EXCEPT ![i] = c][j] = X[j]
    BY <2>1
  <2>3. QED BY Zenon, <2>2 DEF X
<1> HIDE DEF b, D
<1>4. Replaced(b, a, i, c) BY Zenon, <1>2, <1>3 DEF Replaced
<1>5. QED BY Zenon, <1>4 DEF b

LEMMA SetHosted ==
    ASSUME NEW a, IsApp(a), Hosted(a), NEW i \in DOMAIN a.contacts, NEW c, c.host # Empty
    PROVE  Hosted([a EXCEPT !.contacts[i] = c])
<1> DEFINE b == [a EXCEPT !.contacts[i] = c]
<1>1. /\ DOMAIN b.contacts = DOMAIN a.contacts /\ b.contacts[i] = c
      /\ \A j \in DOMAIN a.contacts \ {i} : b.contacts[j] = a.contacts[j]
  <2>1. Replaced(b, a, i, c) BY Zenon, SetIs
  <2> HIDE DEF b
  <2>2. QED BY Zenon, <2>1 DEF Replaced
<1> HIDE DEF b
<1>2. ASSUME NEW k \in DOMAIN b.contacts
      PROVE  b.contacts[k].host # Empty
  <2>1. CASE k = i BY Zenon, <1>1, <2>1
  <2>2. CASE k # i BY Zenon, <1>1, <1>2, <2>2 DEF Hosted
  <2>3. QED BY Zenon, <2>1, <2>2
<1>3. Hosted(b) BY Zenon, <1>2 DEF Hosted
<1>4. QED BY Zenon, <1>3 DEF b

LEMMA SetRetold ==
    ASSUME NEW a, IsApp(a), NEW i \in DOMAIN a.contacts, NEW c,
           c.host = a.contacts[i].host, c.port = a.contacts[i].port,
           c.buffer = a.contacts[i].buffer
    PROVE  Retold([a EXCEPT !.contacts[i] = c], a, i)
<1> DEFINE b == [a EXCEPT !.contacts[i] = c]
<1>1. Replaced(b, a, i, c) BY Zenon, SetIs
<1> HIDE DEF b
<1>2. Retold(b, a, i) BY Zenon, <1>1 DEF Replaced, Retold
<1>3. QED BY Zenon, <1>2 DEF b

\* The gain, the mute and the push-to-talk key of a contact
LEMMA SwitchRetold ==
    ASSUME NEW a, IsApp(a), NEW i \in DOMAIN a.contacts, NEW g
    PROVE  /\ Retold([a EXCEPT !.contacts[i].gain = g], a, i)
           /\ Retold([a EXCEPT !.contacts[i].muted = ~@], a, i)
           /\ Retold([a EXCEPT !.contacts[i].ptt = ~@], a, i)
<1> DEFINE c == a.contacts[i]
           G == [c EXCEPT !.gain = g]
           M == [c EXCEPT !.muted = ~@]
           P == [c EXCEPT !.ptt = ~@]
<1>1. /\ [a EXCEPT !.contacts[i].gain = g] = [a EXCEPT !.contacts[i] = G]
      /\ [a EXCEPT !.contacts[i].muted = ~@] = [a EXCEPT !.contacts[i] = M]
      /\ [a EXCEPT !.contacts[i].ptt = ~@] = [a EXCEPT !.contacts[i] = P]
  BY Zenon
<1>2. c \in Contacts BY Zenon, AppContacts
<1>3. /\ G.host = c.host /\ G.port = c.port /\ G.buffer = c.buffer
      /\ M.host = c.host /\ M.port = c.port /\ M.buffer = c.buffer
      /\ P.host = c.host /\ P.port = c.port /\ P.buffer = c.buffer
  <2> HIDE DEF c
  <2>1. QED BY <1>2 DEF Contacts
<1> HIDE DEF G, M, P
<1>4. /\ Retold([a EXCEPT !.contacts[i] = G], a, i)
      /\ Retold([a EXCEPT !.contacts[i] = M], a, i)
      /\ Retold([a EXCEPT !.contacts[i] = P], a, i)
  BY Zenon, <1>3, SetRetold
<1>5. QED BY Zenon, <1>1, <1>4

\* What the invariants say where an edit begins
LEMMA EditedFrom ==
    ASSUME SavedInv, CoreInv, Works
    PROVE  /\ phase = "open" /\ dialog = NoDialog /\ dialog # Search(TRUE)
           /\ IsApp(app) /\ Hosted(app) /\ IsList(combos) /\ world \in Worlds
           /\ core.state = "room" => Serves(core, app, combos)
<1>1. NoDialog # Search(TRUE) BY DEF NoDialog, Search
<1>2. QED BY Zenon, <1>1 DEF SavedInv, CoreInv, Works

LEMMA AddContactServes ==
    ASSUME SavedInv, CoreInv, AddContact
    PROVE  CoreInv' /\ StartsLive
<1>1. /\ Works /\ UNCHANGED <<phase, combos, world, legacy, dialog>>
      /\ \E typed \in Typed : \E contact \in DialogResult(DefaultContact, typed) :
            SaveAndRestart([app EXCEPT !.contacts = Append(@, contact)], combos)
  BY Zenon DEF AddContact, Idle
<1>2. PICK typed \in Typed : \E contact \in DialogResult(DefaultContact, typed) :
            SaveAndRestart([app EXCEPT !.contacts = Append(@, contact)], combos)
  BY Zenon, <1>1
<1>3. PICK contact \in DialogResult(DefaultContact, typed) :
            SaveAndRestart([app EXCEPT !.contacts = Append(@, contact)], combos)
  BY Zenon, <1>2
<1> DEFINE a == [app EXCEPT !.contacts = Append(@, contact)]
<1>4. IsApp(app) /\ Hosted(app) /\ IsList(combos) /\ world \in Worlds /\ phase = "open"
  BY Zenon, <1>1, EditedFrom
<1>5. IsApp(a)
  <2>1. contact \in Contacts BY Zenon, DefaultIsContact, DialogIs
  <2>2. QED BY Zenon, <1>4, <2>1, ContactAdded
<1>6. Hosted(a)
  <2>1. contact.host # Empty BY Zenon, DialogHosted
  <2>2. QED BY Zenon, <1>4, <2>1, AddedHosted
<1>7. SaveAndRestart(a, combos) BY Zenon, <1>3
<1> HIDE DEF a
<1>8. Leads(combos) BY Zenon, <1>4, <1>5, <1>6, <1>7, SaveLeads
<1>9. QED BY Zenon, <1>1, <1>4, <1>8, EditLed

\* An edit the Core can be told is one that leaves the host, the port and the buffer.
LEMMA EditContactServes ==
    ASSUME SavedInv, CoreInv, NEW i \in DOMAIN app.contacts, EditContact(i)
    PROVE  CoreInv' /\ StartsLive
<1> DEFINE With(c) == [app EXCEPT !.contacts[i] = c]
           Done(c) == IF contact_requires_core_restart(app.contacts[i], c)
                      THEN SaveAndRestart(With(c), combos)
                      ELSE TellOrRestart(i, With(c), Saved(With(c), combos))
<1>1. /\ Works /\ UNCHANGED <<phase, combos, world, legacy, dialog>>
      /\ \E typed \in Typed : \E contact \in DialogResult(app.contacts[i], typed) : Done(contact)
  BY Zenon DEF EditContact, Idle
<1> HIDE DEF Done
<1>2. PICK typed \in Typed : \E contact \in DialogResult(app.contacts[i], typed) : Done(contact)
  BY Zenon, <1>1
<1>3. PICK contact \in DialogResult(app.contacts[i], typed) : Done(contact)
  BY Zenon, <1>2
<1>4. /\ IsApp(app) /\ Hosted(app) /\ IsList(combos) /\ world \in Worlds /\ phase = "open"
      /\ core.state = "room" => Serves(core, app, combos)
  BY Zenon, <1>1, EditedFrom
<1>5. IsApp(With(contact))
  <2>1. app.contacts[i] \in Contacts BY Zenon, <1>4, AppContacts
  <2>2. contact \in Contacts BY Zenon, <2>1, DialogIs
  <2>3. QED BY Zenon, <1>4, <2>2, ContactSet
<1>6. Hosted(With(contact))
  <2>1. contact.host # Empty BY Zenon, DialogHosted
  <2>2. QED BY Zenon, <1>4, <2>1, SetHosted
<1>7. CASE contact_requires_core_restart(app.contacts[i], contact)
  <2>1. SaveAndRestart(With(contact), combos)
    BY Zenon, <1>3, <1>7 DEF Done
  <2> HIDE DEF With
  <2>2. Leads(combos) BY Zenon, <1>4, <1>5, <1>6, <2>1, SaveLeads
  <2>3. QED BY Zenon, <1>1, <1>4, <2>2, EditLed
<1>8. CASE ~contact_requires_core_restart(app.contacts[i], contact)
  <2>1. TellOrRestart(i, With(contact), Saved(With(contact), combos))
    BY Zenon, <1>3, <1>8 DEF Done
  <2>2. Retold(With(contact), app, i)
    <3>1. /\ contact.host = app.contacts[i].host /\ contact.port = app.contacts[i].port
          /\ contact.buffer = app.contacts[i].buffer
      BY Zenon, <1>8 DEF contact_requires_core_restart
    <3>2. QED BY Zenon, <1>4, <3>1, SetRetold
  <2> HIDE DEF With
  <2>3. HostedFile(Saved(With(contact), combos))
    BY Zenon, <1>5, <1>6, SavedHosted
  <2>4. Leads(combos)
    BY Zenon, <1>4, <1>5, <2>1, <2>2, <2>3, TellLeads
  <2>5. QED BY Zenon, <1>1, <1>4, <2>4, EditLed
<1>9. QED BY Zenon, <1>7, <1>8

LEMMA RemoveContactServes ==
    ASSUME SavedInv, CoreInv, NEW i \in DOMAIN app.contacts, RemoveContact(i)
    PROVE  CoreInv' /\ StartsLive
<1> DEFINE a == [app EXCEPT !.contacts = RemoveAt(@, i)]
<1>1. /\ Works /\ UNCHANGED <<phase, combos, world, legacy, dialog>>
      /\ SaveAndRestart(a, combos)
  BY Zenon DEF RemoveContact, Idle
<1>2. IsApp(app) /\ Hosted(app) /\ IsList(combos) /\ world \in Worlds /\ phase = "open"
  BY Zenon, <1>1, EditedFrom
<1>3. IsApp(a) BY Zenon, <1>2, ContactRemoved
<1>4. Hosted(a) BY Zenon, <1>2, RemovedHosted
<1> HIDE DEF a
<1>5. Leads(combos) BY Zenon, <1>1, <1>2, <1>3, <1>4, SaveLeads
<1>6. QED BY Zenon, <1>1, <1>2, <1>5, EditLed

LEMMA SwitchServes ==
    ASSUME SavedInv, CoreInv, NEW i \in DOMAIN app.contacts, ToggleMute(i) \/ TogglePtt(i)
    PROVE  CoreInv' /\ StartsLive
<1> DEFINE m == [app EXCEPT !.contacts[i].muted = ~@]
           p == [app EXCEPT !.contacts[i].ptt = ~@]
<1>1. /\ Works /\ UNCHANGED <<phase, combos, world, legacy, dialog>>
      /\ TellOrRestart(i, m, Saved(m, combos)) \/ TellOrRestart(i, p, Saved(p, combos))
  BY Zenon DEF ToggleMute, TogglePtt, Idle
<1>2. /\ IsApp(app) /\ Hosted(app) /\ IsList(combos) /\ world \in Worlds /\ phase = "open"
      /\ core.state = "room" => Serves(core, app, combos)
  BY Zenon, <1>1, EditedFrom
<1>3. IsApp(m) /\ IsApp(p) BY Zenon, <1>2, MuteChanged, PttChanged
<1>4. Retold(m, app, i) /\ Retold(p, app, i)
  BY Zenon, <1>2, SwitchRetold
<1> HIDE DEF m, p
<1>5. HostedFile(Saved(m, combos)) /\ HostedFile(Saved(p, combos))
  BY Zenon, <1>2, <1>3, <1>4, RetoldHosted, SavedHosted
<1>6. Leads(combos) BY Zenon, <1>1, <1>2, <1>3, <1>4, <1>5, TellLeads
<1>7. QED BY Zenon, <1>1, <1>2, <1>6, EditLed

\* set_contact_gain, saved or not
LEMMA GainServes ==
    ASSUME SavedInv, CoreInv, Works, NEW i \in DOMAIN app.contacts, NEW gain \in Int,
           NEW persist \in BOOLEAN, SetGain(i, gain, persist),
           UNCHANGED <<phase, combos, world, legacy, dialog>>
    PROVE  CoreInv' /\ StartsLive
<1> DEFINE new == Rounded(Clamp(gain, 0, GainMax), GainStep)
           a == [app EXCEPT !.contacts[i].gain = new]
           d == IF persist THEN Saved(app, combos) ELSE disk
           e == IF persist THEN Saved(a, combos) ELSE disk
<1>1. \/ disk' = d /\ app' = app /\ core' = core
      \/ TellOrRestart(i, a, e)
  BY Zenon DEF SetGain
<1>2. /\ IsApp(app) /\ Hosted(app) /\ IsList(combos) /\ world \in Worlds /\ phase = "open"
      /\ core.state = "room" => Serves(core, app, combos)
  BY Zenon, EditedFrom
<1>3. HostedFile(disk) BY Zenon DEF CoreInv
<1>4. new \in GainRange BY Zenon, GainRounded
<1> HIDE DEF new
<1>5. IsApp(a) BY Zenon, <1>2, <1>4, GainChanged
<1>6. Retold(a, app, i) BY Zenon, <1>2, SwitchRetold
<1> HIDE DEF a
<1>7. HostedFile(d) /\ HostedFile(e)
  BY Zenon, <1>2, <1>3, <1>5, <1>6, RetoldHosted, SavedHosted
<1> HIDE DEF d, e
<1>8. CASE disk' = d /\ app' = app /\ core' = core
  <2>1. dialog'.kind = "search" => dialog' \in {Search(TRUE), Search(FALSE)}
    BY Zenon DEF CoreInv
  <2>2. HostedFile(disk') /\ world' \in Worlds
    BY Zenon, <1>2, <1>7, <1>8
  <2>3. QED BY Zenon, <1>8, <2>1, <2>2, CoreUntouched
<1>9. CASE TellOrRestart(i, a, e)
  <2>1. Leads(combos)
    BY Zenon, <1>2, <1>5, <1>6, <1>7, <1>9, TellLeads
  <2>2. QED BY Zenon, <1>2, <2>1, EditLed
<1>10. QED BY Zenon, <1>1, <1>8, <1>9

LEMMA StepGainServes ==
    ASSUME SavedInv, CoreInv, NEW i \in DOMAIN app.contacts, StepGain(i)
    PROVE  CoreInv' /\ StartsLive
<1>1. /\ Works /\ UNCHANGED <<phase, combos, world, legacy, dialog>>
      /\ \E step \in {-GainStep, GainStep} :
            app.contacts[i].gain + step \in Gains /\ SetGain(i, app.contacts[i].gain + step, TRUE)
  BY Zenon DEF StepGain, Idle
<1>2. PICK step \in {-GainStep, GainStep} :
            app.contacts[i].gain + step \in Gains /\ SetGain(i, app.contacts[i].gain + step, TRUE)
  BY Zenon, <1>1
<1>3. QED BY Zenon, <1>1, <1>2, GainsAre, GainServes

LEMMA DragGainServes ==
    ASSUME SavedInv, CoreInv, NEW i \in DOMAIN app.contacts, DragGain(i)
    PROVE  CoreInv' /\ StartsLive
<1>1. /\ Works /\ UNCHANGED <<phase, combos, world, legacy, dialog>>
      /\ \E gain \in Gains : SetGain(i, gain, FALSE)
  BY Zenon DEF DragGain
<1>2. QED BY Zenon, <1>1, GainsAre, GainServes

LEMMA DropGainServes ==
    ASSUME SavedInv, CoreInv, DropGain
    PROVE  CoreInv' /\ StartsLive
<1>1. /\ Works /\ UNCHANGED <<phase, combos, world, legacy, dialog>>
      /\ dragging \in DOMAIN app.contacts
  BY Zenon DEF DropGain, SavedInv
<1>2. CASE \E gain \in Gains : SetGain(dragging, gain, TRUE)
  BY Zenon, <1>1, <1>2, GainsAre, GainServes
<1>3. CASE disk' = Saved(app, combos) /\ UNCHANGED <<app, core>>
  <2>1. IsApp(app) /\ Hosted(app) /\ world' \in Worlds
    BY Zenon, <1>1, EditedFrom
  <2>2. HostedFile(disk') BY Zenon, <1>3, <2>1, SavedHosted
  <2>3. dialog'.kind = "search" => dialog' \in {Search(TRUE), Search(FALSE)}
    BY Zenon, <1>1 DEF CoreInv
  <2>4. QED BY Zenon, <1>1, <1>3, <2>1, <2>2, <2>3, CoreUntouched
<1>4. QED BY Zenon, <1>2, <1>3 DEF DropGain

LEMMA DialogsDiffer ==
    ASSUME NEW adapters
    PROVE  /\ NoDialog.kind # "search" /\ Network(adapters).kind # "search"
           /\ NoDialog # Search(TRUE) /\ Network(adapters) # Search(TRUE)
           /\ Search(FALSE) # Search(TRUE) /\ Search(FALSE).added = FALSE
           /\ Search(TRUE).added = TRUE
  BY DEF NoDialog, Network, Search

LEMMA SelectDeviceServes ==
    ASSUME SavedInv, CoreInv, NEW flow \in {"capture", "render"}, SelectDevice(flow)
    PROVE  CoreInv' /\ StartsLive
<1>1. /\ Works /\ UNCHANGED <<phase, world, legacy, dialog>>
      /\ \E id \in combos[flow].ids : combos' = [combos EXCEPT ![flow].at = id]
      /\ SaveAndRestart(app, combos')
  BY Zenon DEF SelectDevice, Idle
<1>2. IsApp(app) /\ Hosted(app) /\ IsList(combos) /\ world \in Worlds /\ phase = "open"
  BY Zenon, <1>1, EditedFrom
<1>3. IsList(combos')
  <2>1. PICK id \in combos[flow].ids : combos' = [combos EXCEPT ![flow].at = id]
    BY Zenon, <1>1
  <2>2. id \in {Empty} \cup EndpointIds /\ DOMAIN combos = {"capture", "render"}
    BY Zenon, <1>2 DEF IsList
  <2> DEFINE c == [combos[flow] EXCEPT !.at = id]
  <2>3. DOMAIN combos' = DOMAIN combos /\ combos'[flow] = c
        /\ \A f \in DOMAIN combos \ {flow} : combos'[f] = combos[f]
    BY <2>1, <2>2
  <2>4. c.ids = combos[flow].ids /\ c.at \in {id, combos[flow].at}
    BY SMT
  <2> HIDE DEF c
  <2>5. ASSUME NEW f \in DOMAIN combos'
        PROVE  /\ combos'[f].at \in {Empty} \cup EndpointIds
               /\ combos'[f].ids \subseteq {Empty} \cup EndpointIds
    <3>0. f \in DOMAIN combos /\ flow \in DOMAIN combos
      BY Zenon, <2>2, <2>3, <2>5
    <3>1. CASE f = flow
      <4>1. combos[flow].ids \subseteq {Empty} \cup EndpointIds
        BY Zenon, <1>2, <3>0 DEF IsList
      <4>2. c.at \in {Empty} \cup EndpointIds
        BY Zenon, <1>2, <2>2, <2>4, <3>0 DEF IsList
      <4>3. QED BY Zenon, <2>3, <2>4, <3>1, <4>1, <4>2
    <3>2. CASE f # flow
      <4>1. combos'[f] = combos[f] BY Zenon, <2>3, <3>0, <3>2
      <4>2. QED BY Zenon, <1>2, <3>0, <4>1 DEF IsList
    <3>3. QED BY Zenon, <3>1, <3>2
  <2>6. QED BY Zenon, <2>2, <2>3, <2>5 DEF IsList
<1>4. Leads(combos') BY Zenon, <1>1, <1>2, <1>3, SaveLeads
<1>5. dialog'.kind = "search" => dialog' \in {Search(TRUE), Search(FALSE)}
  BY Zenon, <1>1 DEF CoreInv
<1>6. QED BY Zenon, <1>1, <1>2, <1>3, <1>4, <1>5, Led

LEMMA SelectLanguageServes ==
    ASSUME SavedInv, CoreInv, SelectLanguage
    PROVE  CoreInv' /\ StartsLive
<1>1. /\ Works /\ UNCHANGED <<phase, combos, world, legacy, dialog, core>>
      /\ \E language \in Languages : app' = [app EXCEPT !.language = language]
      /\ disk' = Saved(app', combos)
  BY Zenon DEF SelectLanguage, Idle
<1>2. IsApp(app) /\ Hosted(app) /\ world' \in Worlds
  BY Zenon, <1>1, EditedFrom
<1>3. PICK language \in Languages : app' = [app EXCEPT !.language = language]
  BY Zenon, <1>1
<1>4. app'.contacts = app.contacts /\ app'.port = app.port /\ app'.bind = app.bind
  <2>1. DOMAIN app = Fields \cup {"bind"} BY Zenon, <1>2, AppContacts
  <2>2. QED BY <1>3, <2>1 DEF Fields
<1>5. IsApp(app') /\ Hosted(app')
  BY Zenon, <1>2, <1>3, <1>4, LanguageSet DEF Hosted
<1>6. HostedFile(disk') BY Zenon, <1>1, <1>5, SavedHosted
<1>7. dialog'.kind = "search" => dialog' \in {Search(TRUE), Search(FALSE)}
  BY Zenon, <1>1 DEF CoreInv
<1>8. QED BY Zenon, <1>1, <1>2, <1>4, <1>6, <1>7, CoreUntouched

LEMMA ResizeServes ==
    ASSUME SavedInv, CoreInv, Resize
    PROVE  CoreInv' /\ StartsLive
<1>1. /\ Works /\ UNCHANGED <<phase, app, combos, world, legacy, dialog, core>>
      /\ disk' = Saved(app, combos)
  BY Zenon DEF Resize, Idle
<1>2. IsApp(app) /\ Hosted(app) /\ world' \in Worlds
  BY Zenon, <1>1, EditedFrom
<1>3. HostedFile(disk') BY Zenon, <1>1, <1>2, SavedHosted
<1>4. dialog'.kind = "search" => dialog' \in {Search(TRUE), Search(FALSE)}
  BY Zenon, <1>1 DEF CoreInv
<1>5. QED BY Zenon, <1>1, <1>2, <1>3, <1>4, CoreUntouched

LEMMA OpenNetworkServes ==
    ASSUME SavedInv, CoreInv, OpenNetwork
    PROVE  CoreInv' /\ StartsLive
<1>1. /\ Works /\ UNCHANGED <<phase, app, combos, disk, world, legacy, core>>
      /\ dialog' = Network(world.adapters)
  BY Zenon DEF OpenNetwork, Idle
<1>2. world' \in Worlds /\ HostedFile(disk') /\ dialog # Search(TRUE)
  BY Zenon, <1>1, EditedFrom DEF CoreInv
<1>3. dialog'.kind # "search" BY Zenon, <1>1, DialogsDiffer
<1>4. QED BY Zenon, <1>1, <1>2, <1>3, CoreUntouched

LEMMA CloseNetworkServes ==
    ASSUME SavedInv, CoreInv, CloseNetwork
    PROVE  CoreInv' /\ StartsLive
<1>1. /\ phase = "open" /\ dialog.kind = "network" /\ dialog' = NoDialog
      /\ UNCHANGED <<phase, combos, world, legacy>>
  BY Zenon DEF CloseNetwork
<1>2. IsApp(app) /\ Hosted(app) /\ IsList(combos) /\ world \in Worlds /\ HostedFile(disk)
  BY Zenon DEF SavedInv, CoreInv
<1>3. dialog # Search(TRUE) BY <1>1 DEF Search
<1>4. dialog'.kind # "search" BY Zenon, <1>1, DialogsDiffer
<1>5. CASE UNCHANGED <<app, disk, core>>
  BY Zenon, <1>1, <1>2, <1>3, <1>4, <1>5, CoreUntouched
<1>6. CASE \E t \in Ports, adapter \in {Empty} \cup DOMAIN dialog.adapters :
              \E port \in PortResult(t), address \in
                        resolve_network_bind_address(dialog.adapters, adapter) :
                SaveAndRestart([app EXCEPT !.port = port, !.adapter = adapter,
                                           !.bind = address], combos)
  <2>1. PICK t \in Ports, adapter \in {Empty} \cup DOMAIN dialog.adapters :
              \E port \in PortResult(t), address \in
                        resolve_network_bind_address(dialog.adapters, adapter) :
                SaveAndRestart([app EXCEPT !.port = port, !.adapter = adapter,
                                           !.bind = address], combos)
    BY Zenon, <1>6
  <2>2. PICK port \in PortResult(t), address \in
                        resolve_network_bind_address(dialog.adapters, adapter) :
                SaveAndRestart([app EXCEPT !.port = port, !.adapter = adapter,
                                           !.bind = address], combos)
    BY Zenon, <2>1
  <2> DEFINE a == [app EXCEPT !.port = port, !.adapter = adapter, !.bind = address]
  <2>3. IsApp(a) BY Zenon, <1>2, NetworkSet
  <2>4. Hosted(a)
    <3>1. DOMAIN app = Fields \cup {"bind"}
      BY Zenon, <1>2, AppContacts
    <3>2. a.contacts = app.contacts BY <3>1 DEF Fields
    <3> HIDE DEF a
    <3>3. QED BY Zenon, <1>2, <3>2 DEF Hosted
  <2>5. SaveAndRestart(a, combos) BY Zenon, <2>2
  <2> HIDE DEF a
  <2>6. Leads(combos') /\ IsList(combos')
    BY Zenon, <1>1, <1>2, <2>3, <2>4, <2>5, SaveLeads
  <2>7. phase' = "open" BY Zenon, <1>1
  <2>8. QED BY Zenon, <1>1, <1>4, <2>6, <2>7, Led
<1>7. QED BY Zenon, <1>5, <1>6 DEF CloseNetwork

LEMMA OpenSearchServes ==
    ASSUME SavedInv, CoreInv, OpenSearch
    PROVE  CoreInv' /\ StartsLive
<1>1. /\ Works /\ UNCHANGED <<phase, combos, world, legacy>> /\ dialog' = Search(FALSE)
      /\ StartCore(app, combos, disk) \/ UNCHANGED <<app, disk, core>>
  BY Zenon DEF OpenSearch, Idle
<1>2. /\ phase = "open" /\ dialog # Search(TRUE) /\ IsApp(app) /\ Hosted(app) /\ IsList(combos)
      /\ world \in Worlds /\ HostedFile(disk)
  BY Zenon, <1>1, EditedFrom DEF CoreInv
<1>3. dialog'.kind = "search" => dialog' \in {Search(TRUE), Search(FALSE)}
  BY Zenon, <1>1
<1>4. CASE StartCore(app, combos, disk)
  <2>1. Leads(combos') /\ IsList(combos')
    BY Zenon, <1>1, <1>2, <1>4, StartLeads
  <2>2. phase' = "open" BY Zenon, <1>1, <1>2
  <2>3. QED BY Zenon, <1>1, <1>3, <2>1, <2>2, Led
<1>5. CASE UNCHANGED <<app, disk, core>>
  BY Zenon, <1>1, <1>2, <1>3, <1>5, CoreUntouched
<1>6. QED BY Zenon, <1>1, <1>4, <1>5

\* The Core is not told of who is found before the search is closed.
LEMMA AddDiscoveredServes ==
    ASSUME SavedInv, CoreInv, AddDiscovered
    PROVE  CoreInv' /\ StartsLive
<1> DEFINE Found(peer) ==
        [DefaultContact EXCEPT
            !.name = IF peer.name = Empty THEN peer.address ELSE peer.name,
            !.host = peer.address, !.port = peer.port]
<1>1. /\ phase = "open" /\ UNCHANGED <<phase, combos, world, legacy, core>>
      /\ dialog' = Search(TRUE) /\ disk' = Saved(app', combos)
      /\ \E peer \in Discovered :
            /\ peer.port # 0 /\ peer.address # Empty
            /\ app' = [app EXCEPT !.contacts = Append(@, Found(peer))]
  BY Zenon DEF AddDiscovered
<1>2. PICK peer \in Discovered :
            /\ peer.port # 0 /\ peer.address # Empty
            /\ app' = [app EXCEPT !.contacts = Append(@, Found(peer))]
  BY Zenon, <1>1
<1>3. Found(peer) \in Contacts BY Zenon, <1>2, FoundIs
<1>4. Found(peer).host # Empty
  <2>1. "host" \in DOMAIN DefaultContact
    BY DefaultIsContact DEF Contacts
  <2>2. Found(peer).host = peer.address BY <2>1
  <2> HIDE DEF Found
  <2>3. QED BY Zenon, <1>2, <2>2
<1> HIDE DEF Found
<1>5. IsApp(app) /\ Hosted(app) BY Zenon DEF SavedInv, CoreInv
<1>6. IsApp(app') /\ Hosted(app')
  BY Zenon, <1>2, <1>3, <1>4, <1>5, ContactAdded, AddedHosted
<1>7. HostedFile(disk') BY Zenon, <1>1, <1>6, SavedHosted
<1>8. QED BY Zenon, <1>1, <1>6, <1>7 DEF CoreInv, StartsLive

LEMMA CloseSearchServes ==
    ASSUME SavedInv, CoreInv, CloseSearch
    PROVE  CoreInv' /\ StartsLive
<1>1. /\ phase = "open" /\ dialog.kind = "search" /\ dialog' = NoDialog
      /\ UNCHANGED <<phase, combos, world, legacy>>
      /\ IF dialog.added THEN RestartCore(app, combos, disk) ELSE UNCHANGED <<app, disk, core>>
  BY Zenon DEF CloseSearch
<1>2. IsApp(app) /\ Hosted(app) /\ IsList(combos) /\ world \in Worlds /\ HostedFile(disk)
  BY Zenon DEF SavedInv, CoreInv
<1>3. dialog \in {Search(TRUE), Search(FALSE)}
  BY Zenon, <1>1 DEF CoreInv
<1>4. dialog'.kind # "search" BY Zenon, <1>1, DialogsDiffer
<1>5. CASE dialog = Search(TRUE)
  <2>1. RestartCore(app, combos, disk)
    <3>1. dialog.added = TRUE BY Zenon, <1>5, DialogsDiffer
    <3>2. QED BY Zenon, <1>1, <3>1
  <2>2. Leads(combos') /\ IsList(combos')
    BY Zenon, <1>1, <1>2, <2>1, RestartLeads
  <2>3. phase' = "open" BY Zenon, <1>1
  <2>4. QED BY Zenon, <1>1, <1>4, <2>2, <2>3, Led
<1>6. CASE dialog = Search(FALSE)
  <2>1. UNCHANGED <<app, disk, core>>
    <3>1. dialog.added = FALSE BY Zenon, <1>6, DialogsDiffer
    <3>2. QED BY Zenon, <1>1, <3>1
  <2>2. dialog # Search(TRUE) BY Zenon, <1>6, DialogsDiffer
  <2>3. QED BY Zenon, <1>1, <1>2, <1>4, <2>1, <2>2, CoreUntouched
<1>7. QED BY Zenon, <1>3, <1>5, <1>6

LEMMA FirstHosted == Hosted(Remembered(DefaultSettings))
<1>1. Remembered(DefaultSettings).contacts = <<>>
  BY DEF Remembered, DefaultSettings
<1>2. DOMAIN <<>> = {} BY SMT
<1>3. QED BY Zenon, <1>1, <1>2 DEF Hosted

LEMMA FirstIsList == IsList(FirstLists)
<1>1. DOMAIN FirstLists = {"capture", "render"} BY DEF FirstLists
<1>2. ASSUME NEW flow \in DOMAIN FirstLists
      PROVE  FirstLists[flow].ids = {Empty} /\ FirstLists[flow].at = Empty
  BY <1>2 DEF FirstLists
<1>3. QED BY Zenon, <1>1, <1>2 DEF IsList

\* The rows of the list are endpoints.
LEMMA RowsAre ==
    ASSUME NEW w \in Worlds, NEW r \in print_device_list(w.plugged)
    PROVE  r[2] \in EndpointIds
<1>1. PICK k \in DOMAIN w.plugged : r = <<w.plugged[k].flow, w.plugged[k].id>>
  BY Zenon DEF print_device_list
<1>2. r[2] = w.plugged[k].id BY <1>1
<1>3. w.plugged[k] \in Endpoints BY Zenon, PluggedAre
<1>4. QED BY Zenon, <1>2, <1>3 DEF EndpointIds

LEMMA SearchKept ==
    ASSUME CoreInv, UNCHANGED dialog
    PROVE  dialog'.kind = "search" => dialog' \in {Search(TRUE), Search(FALSE)}
  BY Zenon DEF CoreInv

LEMMA CoreDiesServes ==
    ASSUME CoreInv, CoreDies
    PROVE  CoreInv' /\ StartsLive
<1>1. /\ core.state = "room" /\ core' = [state |-> "dead"]
      /\ UNCHANGED <<phase, app, combos, disk, legacy, world, dialog>>
  BY Zenon DEF CoreDies
<1>2. core'.state = "dead" /\ "dead" # "room" /\ "none" # "room"
  BY <1>1
<1>3. phase' = "open" BY Zenon, <1>1, <1>2 DEF CoreInv
<1>4. QED BY Zenon, <1>1, <1>2, <1>3 DEF CoreInv, CoreStates, StartsLive

LEMMA CoreGoneServes ==
    ASSUME SavedInv, CoreInv, CoreGone
    PROVE  CoreInv' /\ StartsLive
<1>1. /\ phase = "open" /\ UNCHANGED <<phase, combos, legacy, world, dialog>>
      /\ StartCore(app, combos, disk) \/ (core' = NoCore /\ app' = app /\ disk' = disk)
  BY Zenon DEF CoreGone
<1>2. dialog'.kind = "search" => dialog' \in {Search(TRUE), Search(FALSE)}
  BY Zenon, <1>1, SearchKept
<1>3. CASE StartCore(app, combos, disk)
  <2>1. Leads(combos') /\ IsList(combos')
    BY Zenon, <1>1, <1>3, StartLeads DEF SavedInv, CoreInv
  <2>2. phase' = "open" BY Zenon, <1>1
  <2>3. QED BY Zenon, <1>1, <1>2, <2>1, <2>2, Led
<1>4. CASE core' = NoCore /\ app' = app /\ disk' = disk
  <2>1. core'.state = "none" /\ "none" # "room" BY <1>4 DEF NoCore
  <2>2. QED BY Zenon, <1>1, <1>2, <1>4, <2>1 DEF CoreInv, CoreStates, StartsLive
<1>5. QED BY Zenon, <1>1, <1>3, <1>4

\* No Core, the first lists and the settings there are without a file
LEMMA NothingServes ==
    ASSUME HostedFile(disk'), HostedFile(legacy'), world' \in Worlds, Ended
    PROVE  CoreInv' /\ StartsLive
<1>1. /\ app' = Remembered(DefaultSettings) /\ combos' = FirstLists
      /\ core' = NoCore /\ dialog' = NoDialog
  BY Zenon DEF Ended
<1>2. core'.state = "none" /\ "none" # "room" BY <1>1 DEF NoCore
<1>3. dialog'.kind # "search" BY Zenon, <1>1, DialogsDiffer
<1>4. Hosted(app') BY Zenon, <1>1, FirstHosted
<1>5. IsList(combos') BY Zenon, <1>1, FirstIsList
<1>6. QED BY Zenon, <1>2, <1>3, <1>4, <1>5 DEF CoreInv, CoreStates, StartsLive

LEMMA ExitServes ==
    ASSUME SavedInv, CoreInv, Exit \/ Killed
    PROVE  CoreInv' /\ StartsLive
<1>1. /\ Ended /\ UNCHANGED <<legacy, world>>
      /\ disk' \in {Saved(app, combos), disk} \cup Torn(Saved(app, combos))
  BY Zenon DEF Exit, Killed
<1>2. IsApp(app) /\ Hosted(app) /\ HostedFile(disk)
  BY Zenon DEF SavedInv, CoreInv
<1>3. IsFile(Saved(app, combos)) /\ Hosted(Saved(app, combos))
  BY Zenon, <1>2, SavedIs, SavedHosted
<1>4. HostedFile(disk')
  <2>1. CASE disk' \in Torn(Saved(app, combos))
    BY Zenon, <1>3, <2>1, TornHosted DEF HostedFile
  <2>2. CASE disk' \in {Saved(app, combos), disk}
    BY Zenon, <1>2, <1>3, <2>2 DEF HostedFile
  <2>3. QED BY Zenon, <1>1, <2>1, <2>2
<1>5. HostedFile(legacy') /\ world' \in Worlds
  BY Zenon, <1>1 DEF CoreInv
<1>6. QED BY Zenon, <1>1, <1>4, <1>5, NothingServes

LEMMA WorldServes ==
    ASSUME CoreInv, OrphanEnds \/ WorldChanges \/ UNCHANGED prefs
    PROVE  CoreInv' /\ StartsLive
<1>1. UNCHANGED <<phase, app, combos, disk, legacy, dialog, core>>
  BY Zenon DEF OrphanEnds, WorldChanges, prefs, window
<1>2. world' \in Worlds
  BY Zenon DEF CoreInv, OrphanEnds, WorldChanges, prefs, window
<1>3. HostedFile(disk') BY Zenon, <1>1 DEF CoreInv
<1>4. dialog'.kind = "search" => dialog' \in {Search(TRUE), Search(FALSE)}
  BY Zenon, <1>1, SearchKept
<1>5. QED BY Zenon, <1>1, <1>2, <1>3, <1>4, CoreUntouched

LEMMA LoadServes ==
    ASSUME SavedInv, CoreInv, Load
    PROVE  CoreInv' /\ StartsLive
<1> DEFINE file == IF disk # Missing THEN disk ELSE legacy
<1>1. /\ core.state = "none" /\ combos' = FirstLists
      /\ UNCHANGED <<legacy, world, dialog, core>>
      /\ HostedFile(file) /\ Stored(file)
  BY Zenon DEF SavedInv, CoreInv, Load
<1>2. "none" # "room" BY SMT
<1>3. IsList(combos') BY Zenon, <1>1, FirstIsList
<1>4. Hosted(app') /\ HostedFile(disk')
  <2>1. CASE file = Missing
    <3>1. app' = Remembered(DefaultSettings) /\ disk' = disk
      BY Zenon, <2>1 DEF Load
    <3>2. QED BY Zenon, <3>1, FirstHosted DEF CoreInv
  <2>2. CASE file # Missing
    <3>1. /\ app' = Remembered(parse_settings(file))
          /\ disk' = IF disk = Missing THEN serialize_settings(parse_settings(file)) ELSE disk
      BY Zenon, <2>2 DEF Load
    <3> HIDE DEF file
    <3>2. IsFile(file) /\ Hosted(file)
      BY Zenon, <1>1, <2>2 DEF Stored, HostedFile
    <3>3. Hosted(app') /\ HostedFile(serialize_settings(parse_settings(file)))
      BY Zenon, <3>1, <3>2, LoadedHosted
    <3>4. QED BY Zenon, <3>1, <3>3 DEF CoreInv
  <2>3. QED BY Zenon, <2>1, <2>2
<1>5. dialog'.kind = "search" => dialog' \in {Search(TRUE), Search(FALSE)}
  BY Zenon, <1>1, SearchKept
<1>6. QED BY Zenon, <1>1, <1>2, <1>3, <1>4, <1>5 DEF CoreInv, StartsLive

LEMMA RefreshServes ==
    ASSUME CoreInv, Refresh
    PROVE  CoreInv' /\ StartsLive
<1>1. /\ phase # "open" /\ UNCHANGED <<app, disk, legacy, world, dialog, core>>
  <2>1. "loaded" # "open" BY SMT
  <2>2. QED BY Zenon, <2>1 DEF Refresh
<1>2. core.state = "none" /\ "none" # "room"
  BY Zenon, <1>1 DEF CoreInv
<1>3. IsList(combos')
  <2> DEFINE Rows(listed) == IF listed THEN print_device_list(world.plugged) ELSE {}
             Ids(listed, flow) ==
                {Empty} \cup {r[2] : r \in {x \in Rows(listed) : x[1] = flow}}
             Lists(listed) ==
                [flow \in DOMAIN combos |->
                    [ids |-> Ids(listed, flow),
                     at |-> IF app.devices[flow] \in Ids(listed, flow) THEN app.devices[flow]
                            ELSE Empty]]
  <2>1. \E listed \in BOOLEAN : combos' = Lists(listed)
    BY Zenon DEF Refresh
  <2>2. PICK listed \in BOOLEAN : combos' = Lists(listed)
    BY Zenon, <2>1
  <2>3. ASSUME NEW flow
        PROVE  Ids(listed, flow) \subseteq {Empty} \cup EndpointIds
    <3>1. \A r \in Rows(listed) : r[2] \in EndpointIds
      BY RowsAre DEF CoreInv
    <3> HIDE DEF Rows
    <3>2. QED BY Zenon, <3>1
  <2> HIDE DEF Ids
  <2>4. DOMAIN combos' = DOMAIN combos /\ DOMAIN combos = {"capture", "render"}
    BY Zenon, <2>2 DEF CoreInv, IsList
  <2>5. ASSUME NEW flow \in DOMAIN combos'
        PROVE  /\ combos'[flow].ids = Ids(listed, flow)
               /\ combos'[flow].at \in {Empty} \cup Ids(listed, flow)
    BY <2>2, <2>4, <2>5
  <2>6. QED BY Zenon, <2>3, <2>4, <2>5 DEF IsList
<1>4. dialog'.kind = "search" => dialog' \in {Search(TRUE), Search(FALSE)}
  BY Zenon, <1>1, SearchKept
<1>5. QED BY Zenon, <1>1, <1>2, <1>3, <1>4 DEF CoreInv, StartsLive

LEMMA OpenServes ==
    ASSUME SavedInv, CoreInv, Open
    PROVE  CoreInv' /\ StartsLive
<1> DEFINE a == Resolved(app)
           d == IF ResolveSaves(app) THEN Saved(a, combos) ELSE disk
<1>1. /\ phase' = "open" /\ StartCore(a, combos, d)
      /\ UNCHANGED <<combos, legacy, world, dialog>>
  BY Zenon DEF Open
<1>2. IsApp(app) /\ Hosted(app) /\ IsList(combos) /\ world \in Worlds /\ HostedFile(disk)
  BY Zenon DEF SavedInv, CoreInv
<1>3. IsApp(a) /\ Hosted(a) BY Zenon, <1>2, ResolvedIs DEF Hosted
<1>4. HostedFile(d) BY Zenon, <1>2, <1>3, SavedHosted
<1> HIDE DEF a, d
<1>5. Leads(combos') /\ IsList(combos')
  BY Zenon, <1>1, <1>2, <1>3, <1>4, StartLeads
<1>6. dialog'.kind = "search" => dialog' \in {Search(TRUE), Search(FALSE)}
  BY Zenon, <1>1, SearchKept
<1>7. QED BY Zenon, <1>1, <1>5, <1>6, Led

LEMMA CoreInvInit == LaunchInit => CoreInv
<1> SUFFICES ASSUME LaunchInit PROVE CoreInv
  OBVIOUS
<1>1. /\ app = Remembered(DefaultSettings) /\ combos = FirstLists /\ disk \in Files
      /\ legacy \in LegacyFiles /\ world \in Worlds /\ dialog = NoDialog /\ core = NoCore
  BY Zenon DEF LaunchInit, PrefsInit
<1>2. \A f \in Files \cup LegacyFiles : HostedFile(f)
  BY Zenon, HostsAssumption DEF HostedFile, Hosted
<1>3. core.state = "none" /\ "none" # "room" BY <1>1 DEF NoCore
<1>4. dialog.kind # "search" BY Zenon, <1>1, DialogsDiffer
<1>5. QED BY Zenon, <1>1, <1>2, <1>3, <1>4, FirstHosted, FirstIsList DEF CoreInv, CoreStates

LEMMA CoreInvNext ==
    SavedInv /\ CoreInv /\ [LaunchNext]_launchVars => CoreInv' /\ StartsLive
<1> SUFFICES ASSUME SavedInv, CoreInv, [LaunchNext]_launchVars PROVE CoreInv' /\ StartsLive
  OBVIOUS
<1>1. CASE Changing
  <2>1. CASE \E i \in DOMAIN app.contacts :
                EditContact(i) \/ RemoveContact(i) \/ StepGain(i) \/ DragGain(i)
                \/ ToggleMute(i) \/ TogglePtt(i)
    BY Zenon, <2>1, EditContactServes, RemoveContactServes, StepGainServes, DragGainServes,
       SwitchServes
  <2>2. CASE AddContact \/ SelectLanguage \/ AddDiscovered \/ CloseNetwork
    BY Zenon, <2>2, AddContactServes, SelectLanguageServes, AddDiscoveredServes,
       CloseNetworkServes
  <2>3. CASE \E flow \in {"capture", "render"} : SelectDevice(flow)
    BY Zenon, <2>3, SelectDeviceServes
  <2>4. CASE CoreDies \/ Killed \/ WorldChanges
    BY Zenon, <2>4, CoreDiesServes, WorldServes, ExitServes
  <2>5. QED BY Zenon, <1>1, <2>1, <2>2, <2>3, <2>4 DEF Changing
<1>2. CASE Happening
  BY Zenon, <1>2, LoadServes, RefreshServes, OpenServes, DropGainServes, OpenNetworkServes,
     OpenSearchServes, CloseSearchServes, ResizeServes, CoreGoneServes, ExitServes, WorldServes
     DEF Happening
<1>3. CASE UNCHANGED prefs BY Zenon, <1>3, WorldServes
<1>4. QED BY Zenon, <1>1, <1>2, <1>3 DEF LaunchNext, WindowNext, Type, launchVars

\* A Core never refuses the line the window starts it with, and the one that runs has the port,
\* the address, the devices and the contacts of the settings (build_command_line and
\* parse_options, restart_core_after_settings_change and send_contact_runtime_settings).
THEOREM TheCoreMeansTheSettings == LaunchSpec => []CoreMeansSettings
<1>1. CoreInv => CoreMeansSettings
  <2> SUFFICES ASSUME CoreInv PROVE CoreMeansSettings
    OBVIOUS
  <2>1. core.state # "refused"
    <3>1. "refused" \notin CoreStates BY DEF CoreStates
    <3>2. QED BY Zenon, <3>1 DEF CoreInv
  <2>2. core.state = "room" /\ dialog # Search(TRUE) => Serves(core, app, combos)
    BY Zenon DEF CoreInv
  <2>3. QED BY Zenon, <2>1, <2>2 DEF CoreMeansSettings, Serves, AllKnown, Knows
<1>2. QED BY <1>1, SavedInvInit, SavedInvNext, CoreInvInit, CoreInvNext, PTL DEF LaunchSpec

\* A Core starts on the address its adapter has at that moment, or on every address because no
\* adapter is chosen (resolve_saved_network_binding before every start).
THEOREM CoreBindsToLiveAdapter == LaunchSpec => BindsToLiveAdapter
<1>1. SavedInv /\ CoreInv /\ [LaunchNext]_launchVars =>
        [core.state # "room" /\ core'.state = "room" =>
            {core'.bind} = resolve_network_bind_address(world.adapters, app'.adapter)]_prefs
  BY Zenon, CoreInvNext DEF StartsLive
<1>2. QED BY <1>1, SavedInvInit, SavedInvNext, CoreInvInit, CoreInvNext, PTL
     DEF LaunchSpec, BindsToLiveAdapter

-----------------------------------------------------------------------------
(* Help, once asked for, stays.                                             *)

Sticks(o) == "help" \in DOMAIN o /\ o.help = TRUE
Helping(p) == \E o, rest : p = [o |-> o, rest |-> rest] /\ Sticks(o)

LEMMA HelpKept ==
    ASSUME NEW o, Sticks(o), NEW field, field # "help", NEW v
    PROVE  Sticks([o EXCEPT ![field] = v])
  BY DEF Sticks

LEMMA HelpAsked == ASSUME NEW o, "help" \in DOMAIN o PROVE Sticks(Helped(o))
  BY DEF Sticks, Helped

LEMMA HelpOver ==
    ASSUME NEW o, Sticks(o), NEW new, "help" \notin DOMAIN new
    PROVE  Sticks(Over(new, o))
<1>1. "help" \in DOMAIN new \cup DOMAIN o BY Zenon DEF Sticks
<1>2. QED BY Zenon, <1>1 DEF Sticks, Over

LEMMA TheIn == ASSUME NEW S, S # {} PROVE The(S) \in S
<1>1. PICK x : x \in S BY Zenon
<1>2. QED BY Zenon, <1>1 DEF The

LEMMA HelpingIs == ASSUME NEW o, NEW rest, Sticks(o) PROVE Helping([o |-> o, rest |-> rest])
  BY Zenon DEF Helping

LEMMA HelpingIn ==
    ASSUME NEW p, Helping(p)
    PROVE  \E o, rest : p.o = o /\ p.rest = rest /\ Sticks(o)
<1>1. PICK o : \E rest : p = [o |-> o, rest |-> rest] /\ Sticks(o)
  BY Zenon DEF Helping
<1>2. PICK rest : p = [o |-> o, rest |-> rest] /\ Sticks(o)
  BY Zenon, <1>1
<1>3. p.o = o /\ p.rest = rest BY Zenon, <1>2
<1>4. QED BY Zenon, <1>2, <1>3

LEMMA HelpingHas == ASSUME NEW p, Helping(p) PROVE Sticks(p.o)
  BY Zenon, HelpingIn

\* No option but the flag sets help.
LEMMA ValueFieldsAre == ASSUME NEW option, NEW v \in ValueOption(option) PROVE v.field # "help"
<1>1. CASE v \in DeviceOption(option) BY <1>1 DEF DeviceOption, Value
<1>2. CASE v \in HandleOption(option) BY <1>2 DEF HandleOption, Value
<1>3. CASE v \in DuckingOption(option)
  BY <1>3 DEF DuckingOption, Value
<1>4. QED BY Zenon, <1>1, <1>2, <1>3 DEF ValueOption

HelpIsNoneOf(m) ==
    /\ "help" \notin DOMAIN m.presets
    /\ \A k \in DOMAIN m.needs : m.needs[k][1] # "help"
    /\ \A k \in DOMAIN m.may : m.may[k][1] # "help"

LEMMA ModeFieldsAre == ASSUME NEW option, NEW m \in ModeOption(option) PROVE HelpIsNoneOf(m)
<1>1. CASE m \in TestMode(option)
  BY <1>1 DEF TestMode, Mode, HelpIsNoneOf, Seconds, Lasting, ToPort
<1>2. CASE m \in LoopMode(option)
  BY <1>2 DEF LoopMode, Mode, HelpIsNoneOf, Seconds, Local, Lasting, ToPort
<1>3. CASE m \in TalkMode(option)
  BY <1>3 DEF TalkMode, Mode, HelpIsNoneOf, Seconds, Lasting
<1>4. QED BY Zenon, <1>1, <1>2, <1>3 DEF ModeOption

LEMMA ValueKeepsHelp ==
    ASSUME NEW o, Sticks(o), NEW option, ValueOption(option) # {}, NEW args
    PROVE  Helping(TakeValue(o, option, args))
<1> DEFINE v == The(ValueOption(option))
           to == [o EXCEPT ![v.field] = The(Read(v.kind, Head(args)))]
<1>1. v.field # "help" BY Zenon, TheIn, ValueFieldsAre
<1>2. Sticks(to) BY Zenon, <1>1, HelpKept
<1>3. Sticks(Helped(o)) BY Zenon, HelpAsked DEF Sticks
<1> HIDE DEF to, v
<1>4. \/ TakeValue(o, option, args) = [o |-> Helped(o), rest |-> args]
      \/ TakeValue(o, option, args) = [o |-> Helped(o), rest |-> Tail(args)]
      \/ TakeValue(o, option, args) = [o |-> to, rest |-> Tail(args)]
  BY Zenon DEF TakeValue, to, v
<1>5. QED BY Zenon, <1>2, <1>3, <1>4, HelpingIs

LEMMA FollowedByKeepsHelp ==
    ASSUME NEW p, Helping(p), NEW may, NEW k, k \in DOMAIN may => may[k][1] # "help", NEW strict
    PROVE  Helping(FollowedBy(p, may, k, strict))
<1>1. PICK o : \E rest : p = [o |-> o, rest |-> rest] /\ Sticks(o)
  BY Zenon DEF Helping
<1>2. PICK rest : p = [o |-> o, rest |-> rest] /\ Sticks(o)
  BY Zenon, <1>1
<1>3. p.o = o /\ p.rest = rest BY Zenon, <1>2
<1>4. CASE k \notin DOMAIN may BY Zenon, <1>4 DEF FollowedBy
<1>5. CASE k \in DOMAIN may
  <2> DEFINE kind == may[k][2]
             to == [o EXCEPT ![may[k][1]] = The(Read(kind, Head(rest)))]
  <2>1. Sticks(to) BY Zenon, <1>2, <1>5, HelpKept
  <2>2. Sticks(Helped(o)) BY Zenon, <1>2, HelpAsked DEF Sticks
  <2>3. [p EXCEPT !.o = Helped(@)] = [o |-> Helped(o), rest |-> rest]
    BY <1>2
  <2> HIDE DEF to
  <2>4. \/ FollowedBy(p, may, k, strict) = [o |-> to, rest |-> Tail(rest)]
        \/ FollowedBy(p, may, k, strict) = [o |-> Helped(o), rest |-> rest]
        \/ FollowedBy(p, may, k, strict) = p
    BY Zenon, <1>3, <1>5, <2>3 DEF FollowedBy, to
  <2>5. QED BY Zenon, <2>1, <2>2, <2>4, HelpingIs
<1>6. QED BY Zenon, <1>4, <1>5

LEMMA FollowedKeepsHelp ==
    ASSUME NEW o, Sticks(o), NEW may, \A k \in DOMAIN may : may[k][1] # "help",
           NEW args, NEW strict
    PROVE  Helping(Followed(o, may, args, strict))
<1> DEFINE p == [o |-> o, rest |-> args]
           q == FollowedBy(p, may, 1, strict)
<1>1. Helping(p) BY Zenon, HelpingIs
<1> HIDE DEF p
<1>2. Helping(q) BY Zenon, <1>1, FollowedByKeepsHelp
<1> HIDE DEF q
<1>3. Helping(FollowedBy(q, may, 2, strict))
  BY Zenon, <1>2, FollowedByKeepsHelp
<1>4. QED BY Zenon, <1>3 DEF Followed, p, q

LEMMA ModeKeepsHelp ==
    ASSUME NEW o, Sticks(o), NEW option, ModeOption(option) # {}, NEW args
    PROVE  Helping(TakeMode(o, option, args))
<1> DEFINE m == The(ModeOption(option))
           n == Len(m.needs)
           set == SetMode(o, m.name)
           filled == Filled(m.needs, args)
           to == Over(m.presets, Over(filled, set))
           more == Followed(to, m.may, After(args, n), TRUE)
<1>1. HelpIsNoneOf(m) BY Zenon, TheIn, ModeFieldsAre
<1> HIDE DEF m
<1>2. Sticks(Helped(o)) BY Zenon, HelpAsked DEF Sticks
<1>3. Sticks([o EXCEPT !.mode = m.name]) BY DEF Sticks
<1>4. Sticks(set) BY Zenon, <1>2, <1>3 DEF SetMode
<1> HIDE DEF set
<1>5. "help" \notin DOMAIN filled
  BY Zenon, <1>1 DEF Filled, HelpIsNoneOf
<1> HIDE DEF filled
<1>6. Sticks(to)
  <2> DEFINE one == Over(filled, set)
  <2>1. Sticks(one) BY Zenon, <1>4, <1>5, HelpOver
  <2>2. "help" \notin DOMAIN m.presets BY Zenon, <1>1 DEF HelpIsNoneOf
  <2> HIDE DEF one
  <2>3. Sticks(Over(m.presets, one)) BY Zenon, <2>1, <2>2, HelpOver
  <2>4. QED BY Zenon, <2>3 DEF one
<1> HIDE DEF to
<1>7. Helping(more)
  BY Zenon, <1>1, <1>6, FollowedKeepsHelp DEF HelpIsNoneOf
<1>8. Sticks(Helped(set)) BY Zenon, <1>4, HelpAsked DEF Sticks
<1> HIDE DEF more
<1>9. \/ TakeMode(o, option, args) = [o |-> set, rest |-> args]
      \/ TakeMode(o, option, args) = [o |-> Helped(set), rest |-> args]
      \/ TakeMode(o, option, args) = [o |-> Helped(set), rest |-> After(args, n)]
      \/ TakeMode(o, option, args) = more
  BY Zenon DEF TakeMode, m, n, set, filled, to, more
<1>10. QED BY Zenon, <1>4, <1>7, <1>8, <1>9, HelpingIs

LEMMA PeerKeepsHelp ==
    ASSUME NEW o, Sticks(o), NEW args PROVE Helping(TakePeer(o, args))
<1> DEFINE more == Followed(PeerPresets, PeerMay, After(args, Len(PeerNeeds)), FALSE)
           added == [o EXCEPT !.peers = Append(@, Over(Filled(PeerNeeds, args), more.o))]
<1>1. Sticks(Helped(o)) BY Zenon, HelpAsked DEF Sticks
<1> HIDE DEF more
<1>2. Sticks(added) BY DEF Sticks
<1> HIDE DEF added
<1>3. \/ TakePeer(o, args) = [o |-> Helped(o), rest |-> args]
      \/ TakePeer(o, args) = [o |-> Helped(o), rest |-> more.rest]
      \/ TakePeer(o, args) = [o |-> added, rest |-> more.rest]
  BY Zenon DEF TakePeer, more, added
<1>4. QED BY Zenon, <1>1, <1>2, <1>3, HelpingIs

LEMMA JoinedKeepsHelp ==
    ASSUME NEW o, Sticks(o), NEW option, NEW t PROVE Sticks(TakeJoined(o, option, t))
<1>1. Sticks(Helped(o)) BY Zenon, HelpAsked DEF Sticks
<1>2. CASE option = "--capture-test"
  <2> DEFINE set == SetMode(o, "capture_test")
             to == [set EXCEPT !.captureSeconds = The(Read("seconds", t))]
  <2>1. Sticks([o EXCEPT !.mode = "capture_test"]) BY DEF Sticks
  <2>2. Sticks(set) BY Zenon, <1>1, <2>1 DEF SetMode
  <2> HIDE DEF set
  <2>3. Sticks(to) BY <2>2 DEF Sticks
  <2>4. Sticks(Helped(set)) BY Zenon, <2>2, HelpAsked DEF Sticks
  <2> HIDE DEF to
  <2>5. \/ TakeJoined(o, option, t) = Helped(o)
        \/ TakeJoined(o, option, t) = Helped(set)
        \/ TakeJoined(o, option, t) = to
    BY Zenon, <1>2 DEF TakeJoined, set, to
  <2>6. QED BY Zenon, <1>1, <2>3, <2>4, <2>5
<1>3. CASE option # "--capture-test" /\ \E v \in ValueOption(option) : v.joined
  <2>1. TakeJoined(o, option, t) = TakeValue(o, option, <<t>>).o
    BY Zenon, <1>3 DEF TakeJoined
  <2>2. ValueOption(option) # {} BY Zenon, <1>3
  <2> DEFINE p == TakeValue(o, option, <<t>>)
  <2>3. Helping(p) BY Zenon, <2>2, ValueKeepsHelp
  <2> HIDE DEF p
  <2>4. Sticks(p.o) BY Zenon, <2>3, HelpingHas
  <2>5. QED BY Zenon, <2>1, <2>4 DEF p
<1>4. CASE option # "--capture-test" /\ ~ \E v \in ValueOption(option) : v.joined
  <2>1. TakeJoined(o, option, t) = Helped(o)
    BY Zenon, <1>4 DEF TakeJoined
  <2>2. QED BY Zenon, <1>1, <2>1
<1>5. QED BY Zenon, <1>2, <1>3, <1>4

LEMMA FlagKeepsHelp ==
    ASSUME NEW o, Sticks(o), NEW field PROVE Sticks([o EXCEPT ![field] = TRUE])
  BY DEF Sticks

LEMMA ArgumentKeepsHelp ==
    ASSUME NEW o, Sticks(o), NEW t, NEW args PROVE Helping(Argument(o, t, args))
<1> DEFINE joined == TakeJoined(o, t[2], t[3])
           flagged == [o EXCEPT ![The(Flag(t[2]))] = TRUE]
<1>1. Sticks(joined) /\ Sticks(Helped(o)) /\ Sticks(flagged)
  BY Zenon, JoinedKeepsHelp, HelpAsked, FlagKeepsHelp DEF Sticks
<1> HIDE DEF joined, flagged
<1>2. \/ Argument(o, t, args) = [o |-> joined, rest |-> args]
      \/ Argument(o, t, args) = [o |-> Helped(o), rest |-> args]
      \/ ValueOption(t[2]) # {} /\ Argument(o, t, args) = TakeValue(o, t[2], args)
      \/ ModeOption(t[2]) # {} /\ Argument(o, t, args) = TakeMode(o, t[2], args)
      \/ Argument(o, t, args) = TakePeer(o, args)
      \/ Argument(o, t, args) = [o |-> flagged, rest |-> args]
  BY Zenon DEF Argument, joined, flagged
<1>3. Helping([o |-> joined, rest |-> args]) /\ Helping([o |-> Helped(o), rest |-> args])
      /\ Helping([o |-> flagged, rest |-> args])
  BY Zenon, <1>1, HelpingIs
<1>4. ValueOption(t[2]) # {} => Helping(TakeValue(o, t[2], args))
  BY Zenon, ValueKeepsHelp
<1>5. ModeOption(t[2]) # {} => Helping(TakeMode(o, t[2], args))
  BY Zenon, ModeKeepsHelp
<1>6. Helping(TakePeer(o, args)) BY Zenon, PeerKeepsHelp
<1>7. QED BY Zenon, <1>2, <1>3, <1>4, <1>5, <1>6

LEMMA HelpStep == ASSUME NEW p, Helping(p) PROVE Helping(TakeNext(p))
<1>1. Sticks(p.o) BY Zenon, HelpingHas
<1>2. Helping(Argument(p.o, Head(p.rest), Tail(p.rest)))
  BY Zenon, <1>1, ArgumentKeepsHelp
<1>3. QED BY Zenon, <1>2 DEF TakeNext

LEMMA HelpStays ==
    ASSUME NEW f, NEW args, Runs(f, args), Len(args) \in Nat,
           NEW n \in Nat, n <= Len(args), Helping(f[n])
    PROVE  Sticks(f[Len(args)].o)
<1> DEFINE T == {i \in Nat : n + i <= Len(args) => Helping(f[n + i])}
<1>1. 0 \in T
  <2>1. n + 0 = n /\ 0 \in Nat BY SMT
  <2>2. QED BY Zenon, <2>1
<1>2. ASSUME NEW i \in Nat, i \in T PROVE i + 1 \in T
  <2> DEFINE m == n + i
  <2> SUFFICES ASSUME n + (i + 1) <= Len(args) PROVE Helping(f[n + (i + 1)])
    <3>1. i + 1 \in Nat BY SMT
    <3>2. QED BY Zenon, <3>1
  <2>1. m \in Nat /\ m <= Len(args) /\ m + 1 <= Len(args) /\ n + (i + 1) = m + 1
    BY SMT
  <2>2. Helping(f[m]) BY Zenon, <1>2, <2>1
  <2> HIDE DEF m
  <2>3. f[m + 1] = TakeNext(f[m]) BY Zenon, <2>1, NextStep
  <2>4. Helping(TakeNext(f[m])) BY Zenon, <2>2, HelpStep
  <2>5. QED BY Zenon, <2>1, <2>3, <2>4
<1>3. /\ Len(args) - n \in Nat /\ n + (Len(args) - n) = Len(args)
      /\ n + (Len(args) - n) <= Len(args)
  BY SMT
<1>4. Len(args) - n \in T
  <2> HIDE DEF T
  <2>1. Nat \subseteq T BY Zenon, <1>1, <1>2, CountingUp
  <2>2. QED BY Zenon, <1>3, <2>1
<1>5. Helping(f[Len(args)]) BY Zenon, <1>3, <1>4
<1> DEFINE p == f[Len(args)]
<1>6. Helping(p) BY Zenon, <1>5
<1> HIDE DEF p
<1>7. Sticks(p.o) BY Zenon, <1>6, HelpingHas
<1>8. QED BY Zenon, <1>7 DEF p

-----------------------------------------------------------------------------
(* Sequences one after the other.                                           *)

\* g has what the first sequences make.
Lays(g, seqs, S) ==
    /\ g[0] = <<>> /\ FlattenSeq(seqs) = g[Len(seqs)]
    /\ \A i \in 0 .. Len(seqs) : g[i] \in Seq(S)
    /\ \A i \in 1 .. Len(seqs) : g[i] = g[i - 1] \o seqs[i]

LEMMA Laid == ASSUME NEW S, NEW seqs \in Seq(Seq(S)) PROVE \E g : Lays(g, seqs, S)
<1> DEFINE L == Len(seqs)
<1>1. L \in Nat /\ \A i \in 1 .. L : seqs[i] \in Seq(S) BY SMT
<1>2. CASE L = 0
  <2> DEFINE g == [i \in {0} |-> seqs]
  <2>1. seqs = <<>> /\ seqs \in Seq(S) BY <1>2
  <2>2. FlattenSeq(seqs) = seqs BY Zenon, <1>2 DEF FlattenSeq
  <2>3. 0 .. L = {0} /\ 1 .. L = {} /\ g[0] = seqs BY <1>2
  <2> HIDE DEF g
  <2>4. Lays(g, seqs, S) BY Zenon, <1>2, <2>1, <2>2, <2>3 DEF Lays
  <2>5. QED BY Zenon, <2>4
<1>3. CASE L # 0
  <2>1. PICK f : /\ FlattenSeq(seqs) = f[L]
                 /\ \A i \in 1 .. L : f[i] = IF i = 1 THEN seqs[i] ELSE f[i - 1] \o seqs[i]
    BY Zenon, <1>1, <1>3, Flattening
  <2> DEFINE g == [i \in 0 .. L |-> IF i = 0 THEN <<>> ELSE f[i]]
             T == {i \in Nat : i \in 0 .. L => g[i] \in Seq(S)}
  <2>2. g[0] = <<>> /\ g[L] = f[L] /\ \A i \in 1 .. L : g[i] = f[i]
    BY <1>1, <1>3
  <2>3. ASSUME NEW i \in 1 .. L PROVE g[i] = g[i - 1] \o seqs[i]
    <3>1. CASE i = 1
      <4>1. f[1] = seqs[1] /\ i - 1 = 0 /\ g[i] = f[1] /\ seqs[1] \in Seq(S)
        BY <1>1, <2>1, <2>2, <3>1
      <4> HIDE DEF g, L
      <4>2. <<>> \o seqs[1] = seqs[1] BY <4>1
      <4>3. QED BY Zenon, <2>2, <3>1, <4>1, <4>2
    <3>2. CASE i # 1
      <4>1. i - 1 \in 1 .. L BY <1>1, <3>2
      <4>2. g[i] = f[i] /\ g[i - 1] = f[i - 1] BY Zenon, <2>2, <4>1
      <4>3. QED BY Zenon, <2>1, <3>2, <4>2
    <3>3. QED BY Zenon, <3>1, <3>2
  <2> HIDE DEF g
  <2>4. 0 \in T
    <3>1. <<>> \in Seq(S) /\ 0 \in Nat BY SMT
    <3>2. QED BY Zenon, <2>2, <3>1
  <2>5. ASSUME NEW i \in Nat, i \in T PROVE i + 1 \in T
    <3> DEFINE m == i + 1
    <3> SUFFICES ASSUME m \in 0 .. L PROVE g[m] \in Seq(S)
      <4>1. m \in Nat BY SMT
      <4>2. QED BY Zenon, <4>1
    <3>1. i \in 0 .. L /\ m \in 1 .. L /\ m - 1 = i BY <1>1
    <3>2. g[i] \in Seq(S) /\ seqs[m] \in Seq(S)
      BY Zenon, <1>1, <2>5, <3>1
    <3> HIDE DEF m
    <3>3. g[m] = g[i] \o seqs[m] BY Zenon, <2>3, <3>1
    <3>4. g[i] \o seqs[m] \in Seq(S) BY Zenon, <3>2, ConcatIs
    <3>5. QED BY Zenon, <3>3, <3>4
  <2>6. \A i \in 0 .. L : g[i] \in Seq(S)
    <3>1. \A i \in 0 .. L : i \in Nat BY <1>1
    <3> HIDE DEF T
    <3>2. Nat \subseteq T BY Zenon, <2>4, <2>5, CountingUp
    <3>3. QED BY Zenon, <3>1, <3>2 DEF T
  <2>7. Lays(g, seqs, S) BY Zenon, <2>1, <2>2, <2>3, <2>6 DEF Lays
  <2>8. QED BY Zenon, <2>7
<1>4. QED BY Zenon, <1>2, <1>3

\* t begins with s.
BeginsWith(t, s) == Len(s) <= Len(t) /\ \A j \in 1 .. Len(s) : t[j] = s[j]

\* What is laid stays where it is when more is added.
LEMMA LaidStays ==
    ASSUME NEW S, NEW seqs \in Seq(Seq(S)), NEW g, Lays(g, seqs, S),
           NEW i \in 0 .. Len(seqs), NEW d \in Nat, i + d <= Len(seqs)
    PROVE  BeginsWith(g[i + d], g[i])
<1> DEFINE L == Len(seqs)
           Stay(e) == /\ Len(g[i]) <= Len(g[i + e])
                      /\ \A j \in 1 .. Len(g[i]) : g[i + e][j] = g[i][j]
           T == {e \in Nat : i + e <= L => Stay(e)}
<1>1. L \in Nat /\ \A n \in 1 .. L : seqs[n] \in Seq(S) BY SMT
<1>2. \A n \in 0 .. L : g[n] \in Seq(S) /\ Len(g[n]) \in Nat
  BY Zenon, LenProperties DEF Lays
<1>3. 0 \in T
  <2>1. i + 0 = i /\ 0 \in Nat BY SMT
  <2>2. Len(g[i]) <= Len(g[i]) BY <1>2
  <2>3. QED BY Zenon, <2>1, <2>2
<1>4. ASSUME NEW e \in Nat, e \in T PROVE e + 1 \in T
  <2> DEFINE m == i + e
             n == i + (e + 1)
             h == g[m]
             t == seqs[n]
  <2> SUFFICES ASSUME n <= L PROVE Stay(e + 1)
    <3>1. e + 1 \in Nat BY SMT
    <3>2. QED BY Zenon, <3>1
  <2>1. m <= L /\ m \in 0 .. L /\ n \in 1 .. L /\ n - 1 = m BY <1>1
  <2>2. Stay(e) BY Zenon, <1>4, <2>1
  <2>3. g[n] = h \o t BY Zenon, <2>1 DEF Lays
  <2>4. h \in Seq(S) /\ t \in Seq(S) /\ Len(h) \in Nat /\ Len(t) \in Nat /\ Len(g[i]) \in Nat
    BY Zenon, <1>1, <1>2, <2>1, LenProperties
  <2>5. Len(g[i]) <= Len(h) /\ \A j \in 1 .. Len(g[i]) : h[j] = g[i][j]
    BY Zenon, <2>2
  <2> HIDE DEF h, t, m, n
  <2>6. Len(h \o t) = Len(h) + Len(t) /\ \A j \in 1 .. Len(h) : (h \o t)[j] = h[j]
    BY Zenon, <2>4, ConcatIs
  <2>7. Len(g[i]) <= Len(h) + Len(t) /\ \A j \in 1 .. Len(g[i]) : j \in 1 .. Len(h)
    BY <2>4, <2>5
  <2>8. Len(g[i]) <= Len(g[n]) /\ \A j \in 1 .. Len(g[i]) : g[n][j] = g[i][j]
    BY Zenon, <2>3, <2>5, <2>6, <2>7
  <2>9. QED BY Zenon, <2>8 DEF n
<1>5. d \in T
  <2> HIDE DEF T
  <2>1. Nat \subseteq T BY Zenon, <1>3, <1>4, CountingUp
  <2>2. QED BY Zenon, <2>1
<1>6. QED BY Zenon, <1>5 DEF BeginsWith

\* Where each of the sequences is
IsPlaced(g, seqs, i) ==
    /\ Len(g[i]) = Len(g[i - 1]) + Len(seqs[i])
    /\ Len(g[i]) <= Len(FlattenSeq(seqs))
    /\ \A j \in 1 .. Len(seqs[i]) : FlattenSeq(seqs)[Len(g[i - 1]) + j] = seqs[i][j]

LEMMA Places ==
    ASSUME NEW S, NEW seqs \in Seq(Seq(S)), NEW g, Lays(g, seqs, S), NEW i \in 1 .. Len(seqs)
    PROVE  IsPlaced(g, seqs, i)
<1> DEFINE L == Len(seqs)
           h == g[i - 1]
           t == seqs[i]
           d == L - i
<1>1. L \in Nat /\ \A n \in 1 .. L : seqs[n] \in Seq(S) BY SMT
<1>2. i - 1 \in 0 .. L /\ i \in 0 .. L /\ d \in Nat /\ i + d <= L /\ i + d = L
  BY <1>1
<1>3. h \in Seq(S) /\ t \in Seq(S) /\ g[i] = h \o t /\ FlattenSeq(seqs) = g[L]
  BY Zenon, <1>1, <1>2 DEF Lays
<1> HIDE DEF h, t, d
<1>10. h \in Seq(S) /\ t \in Seq(S) BY Zenon, <1>3
<1>11. d \in Nat /\ i \in 0 .. L /\ i + d <= Len(seqs) BY Zenon, <1>2
<1>4. /\ Len(h \o t) = Len(h) + Len(t)
      /\ \A j \in 1 .. Len(t) : (h \o t)[Len(h) + j] = t[j]
      /\ Len(h) \in Nat /\ Len(t) \in Nat
  <2>1. /\ Len(h \o t) = Len(h) + Len(t)
        /\ \A j \in 1 .. Len(t) : (h \o t)[Len(h) + j] = t[j]
    BY <1>10, ConcatIs
  <2>2. Len(h) \in Nat /\ Len(t) \in Nat
    BY Zenon, <1>10, LenProperties
  <2>3. QED BY Zenon, <2>1, <2>2
<1>5. BeginsWith(g[i + d], g[i]) BY Zenon, <1>11, LaidStays
<1>6. \A j \in 1 .. Len(t) : Len(h) + j \in 1 .. Len(h) + Len(t)
  BY <1>4
<1>7. \A j \in 1 .. Len(t) : Len(h) + j \in 1 .. Len(g[i])
  BY Zenon, <1>3, <1>4, <1>6
<1>8. Len(g[i]) <= Len(g[L]) /\ \A j \in 1 .. Len(t) : g[L][Len(h) + j] = g[i][Len(h) + j]
  BY Zenon, <1>2, <1>5, <1>7 DEF BeginsWith
<1>9. QED BY Zenon, <1>3, <1>4, <1>8 DEF h, t, IsPlaced

-----------------------------------------------------------------------------
(* What a phrase makes of the options.                                      *)

\* Options without help, with contacts of S
Sound(o, S) == DOMAIN o = OptionFields /\ o.help = FALSE /\ o.peers \in Seq(S)

\* The options with what a phrase is meant to set
Put(p, o) ==
    [f \in DOMAIN o |-> IF f = "peers" THEN o.peers \o PeerOf(p)
                        ELSE IF f \in DOMAIN p.sets THEN p.sets[f] ELSE o[f]]

\* A phrase stands behind k; it is read as it is meant.
PhraseAt(s, k, p) == \A j \in 1 .. Len(p.tokens) : s[k + j] = p.tokens[j]
Understood(s, k, o, p) == Reads(s, k, o, k + Len(p.tokens), Put(p, o))

\* A phrase that sets one field
SetsOne(p, field, v) == DOMAIN p.sets = {field} /\ p.sets[field] = v

PutsOne(p, o, field, v) == Put(p, o) = [o EXCEPT ![field] = v]

LEMMA PutOne ==
    ASSUME NEW S, NEW o, Sound(o, S), NEW p, NEW field \in OptionFields \ {"peers"}, NEW v,
           SetsOne(p, field, v)
    PROVE  PutsOne(p, o, field, v)
<1>1. "peer" \notin OptionFields BY DEF OptionFields
<1>2. PeerOf(p) = <<>> BY Zenon, <1>1 DEF PeerOf, SetsOne
<1>3. o.peers \o <<>> = o.peers BY DEF Sound
<1> DEFINE w == [o EXCEPT ![field] = v]
<1>4. /\ w = [f \in DOMAIN o |-> w[f]]
      /\ \A f \in DOMAIN o : w[f] = IF f = field THEN v ELSE o[f]
  BY Zenon
<1> HIDE DEF w
<1>5. ASSUME NEW f \in DOMAIN o PROVE Put(p, o)[f] = w[f]
  <2>1. Put(p, o)[f] = IF f = "peers" THEN o.peers
                       ELSE IF f \in DOMAIN p.sets THEN p.sets[f] ELSE o[f]
    BY Zenon, <1>2, <1>3 DEF Put
  <2>2. CASE f = "peers" BY Zenon, <1>4, <2>1, <2>2
  <2>3. CASE f # "peers" /\ f = field
    BY Zenon, <1>4, <2>1, <2>3 DEF SetsOne
  <2>4. CASE f # "peers" /\ f # field
    BY Zenon, <1>4, <2>1, <2>4 DEF SetsOne
  <2>5. QED BY Zenon, <2>2, <2>3, <2>4
<1>6. Put(p, o) = [f \in DOMAIN o |-> Put(p, o)[f]] BY Zenon DEF Put
<1>7. QED BY Zenon, <1>4, <1>5, <1>6 DEF w, PutsOne

\* An option with its value
LEMMA ValuePhrase ==
    ASSUME NEW S, NEW s \in Seq(S), NEW k \in 0 .. Len(s), k + 2 <= Len(s),
           NEW P, NEW o, Sound(o, P), NEW p, Len(p.tokens) = 2,
           NEW field \in OptionFields \ {"peers"}, NEW v, SetsOne(p, field, v),
           NEW option, NEW kind, TakesValue(s, k, option, field, kind, v)
    PROVE  Understood(s, k, o, p)
<1>1. Reads(s, k, o, k + 2, [o EXCEPT ![field] = v])
  BY Zenon, ValueTaken
<1>2. PutsOne(p, o, field, v) BY Zenon, PutOne
<1>3. QED BY Zenon, <1>1, <1>2 DEF Understood, PutsOne

\* An option joined with its value
JoinsValue(s, k, option, field, kind, v) ==
    \E t : /\ s[k + 1] = Joined(option, t) /\ Read(kind, t) = {v}
           /\ ValueOption(option) = Value(field, kind, TRUE) /\ option # "--capture-test"

LEMMA JoinedPhrase ==
    ASSUME NEW S, NEW s \in Seq(S), NEW k \in 0 .. Len(s), k < Len(s),
           NEW P, NEW o, Sound(o, P), NEW p, Len(p.tokens) = 1,
           NEW field \in OptionFields \ {"peers"}, NEW v, SetsOne(p, field, v),
           NEW option, NEW kind, JoinsValue(s, k, option, field, kind, v)
    PROVE  Understood(s, k, o, p)
<1>1. PICK t : /\ s[k + 1] = Joined(option, t) /\ Read(kind, t) = {v}
               /\ ValueOption(option) = Value(field, kind, TRUE) /\ option # "--capture-test"
  BY Zenon DEF JoinsValue
<1> DEFINE r == [field |-> field, kind |-> kind, joined |-> TRUE]
           to == [o EXCEPT ![field] = v]
           a == <<t>>
           z == Joined(option, t)
<1>2. ValueOption(option) = {r} /\ r.field = field /\ r.kind = kind /\ r.joined
  BY Zenon, <1>1 DEF Value
<1>3. a # <<>> /\ Head(a) = t BY SMT
<1>4. z[1] = "joined" /\ z[2] = option /\ z[3] = t BY DEF Joined
<1> HIDE DEF r, a, z
<1>5. The(ValueOption(option)) = r /\ The({v}) = v /\ {v} # {}
  BY Zenon, <1>2, TheOne
<1>6. TakeValue(o, option, a) = [o |-> to, rest |-> Tail(a)]
  BY Zenon, <1>1, <1>2, <1>3, <1>5 DEF TakeValue
<1> DEFINE q == TakeValue(o, option, a)
<1>13. q = [o |-> to, rest |-> Tail(a)] BY Zenon, <1>6
<1>14. PutsOne(p, o, field, v) BY Zenon, PutOne
<1>11. Put(p, o) = to BY Zenon, <1>14 DEF PutsOne
<1> HIDE DEF q, to
<1>7. q.o = to BY Zenon, <1>13
<1>8. TakeJoined(o, option, t) = to
  <2>1. \E x \in ValueOption(option) : x.joined BY Zenon, <1>2
  <2>2. TakeJoined(o, option, t) = TakeValue(o, option, <<t>>).o
    BY Zenon, <1>1, <2>1 DEF TakeJoined
  <2>3. QED BY Zenon, <1>7, <2>2 DEF q, a
<1>9. TakeNext([o |-> o, rest |-> After(s, k)]) = Argument(o, z, After(s, k + 1))
  BY Zenon, <1>1, NextIs DEF z
<1>10. Argument(o, z, After(s, k + 1)) = [o |-> to, rest |-> After(s, k + 1)]
  BY Zenon, <1>4, <1>8 DEF Argument
<1>12. QED BY Zenon, <1>9, <1>10, <1>11 DEF Understood, Reads

\* A flag
LEMMA FlagPhrase ==
    ASSUME NEW S, NEW s \in Seq(S), NEW k \in 0 .. Len(s), k < Len(s),
           NEW P, NEW o, Sound(o, P), NEW p, Len(p.tokens) = 1, SetsOne(p, "listenOnly", TRUE),
           s[k + 1] = Opt("--listen-only")
    PROVE  Understood(s, k, o, p)
<1> DEFINE t == Opt("--listen-only")
           rest == After(s, k + 1)
           to == [o EXCEPT !["listenOnly"] = TRUE]
<1>1. TakeNext([o |-> o, rest |-> After(s, k)]) = Argument(o, t, rest)
  BY Zenon, NextIs
<1>2. t[1] = "opt" /\ t[2] = "--listen-only" /\ "opt" # "joined"
  BY DEF Opt
<1>3. Flag("--listen-only") = {"listenOnly"} BY DEF Flag
<1>4. /\ TestMode("--listen-only") = {} /\ LoopMode("--listen-only") = {}
      /\ TalkMode("--listen-only") = {} /\ "--listen-only" # "--peer"
      /\ DeviceOption("--listen-only") = {} /\ HandleOption("--listen-only") = {}
      /\ DuckingOption("--listen-only") = {}
  BY DEF TestMode, LoopMode, TalkMode, DeviceOption, HandleOption, DuckingOption
<1>5. ModeOption("--listen-only") = {} /\ ValueOption("--listen-only") = {}
  BY Zenon, <1>4 DEF ModeOption, ValueOption
<1>6. The(Flag("--listen-only")) = "listenOnly" /\ Flag("--listen-only") # {}
  BY Zenon, <1>3, TheOne
<1>9. "listenOnly" \in OptionFields \ {"peers"} BY DEF OptionFields
<1> HIDE DEF t, rest
<1>12. /\ t[1] # "joined" /\ t[1] = "opt" /\ ValueOption(t[2]) = {} /\ ModeOption(t[2]) = {}
       /\ t[2] # "--peer" /\ Flag(t[2]) # {} /\ The(Flag(t[2])) = "listenOnly"
  BY Zenon, <1>2, <1>4, <1>5, <1>6
<1>7. Argument(o, t, rest) = [o |-> to, rest |-> rest]
  BY Zenon, <1>12 DEF Argument
<1>11. PutsOne(p, o, "listenOnly", TRUE) BY Zenon, <1>9, PutOne
<1>8. Put(p, o) = to BY Zenon, <1>11 DEF PutsOne
<1>10. QED BY Zenon, <1>1, <1>7, <1>8 DEF t, rest, Understood, Reads

-----------------------------------------------------------------------------
(* What may follow, and where it ends.                                      *)

\* A token that begins a phrase, other than the stray one
Begins(t) == t[1] \in {"opt", "joined"} /\ t[2] # "/?"
Stray == Txt("stray")

LEMMA StrayIs == Stray[1] = "txt" /\ IsOperand(Stray)
  BY DEF Stray, IsOperand, Txt, Empty

LEMMA BeginsNone == ASSUME NEW t, Begins(t) PROVE ~ IsOperand(t)
  BY DEF Begins, IsOperand

LEMMA NoNumber ==
    ASSUME NEW t, Begins(t) \/ t = Stray
    PROVE  Read("seconds", t) = {} /\ Read("flag", t) = {} /\ Read("buffer", t) = {}
           /\ Read("gain", t) = {}
<1>1. t[1] # "num" /\ t[1] # "dec" BY StrayIs DEF Begins
<1>2. \A low, high : Whole(t, low, high) = {} BY Zenon, <1>1 DEF Whole
<1>3. Read("seconds", t) = {}
  <2>1. Read("seconds", t) = Whole(t, 1, 3600) BY DEF Read
  <2>2. QED BY <1>2, <2>1
<1>4. Read("flag", t) = {} /\ Read("buffer", t) = {}
  <2> DEFINE z == t[2] = 1
  <2>1. Read("flag", t) = {z : n \in Whole(t, 0, 1)} BY OtherReadsAre
  <2> HIDE DEF z
  <2>2. {z : n \in Whole(t, 0, 1)} = {} BY Zenon, <1>2
  <2>3. Read("buffer", t) = Whole(t, 1, 500) BY DEF Read
  <2>4. Read("buffer", t) = {} BY <1>2, <2>3
  <2>5. QED BY Zenon, <2>1, <2>2, <2>4
<1>5. Read("gain", t) = {}
  <2>1. {n * Unit : n \in Whole(t, 0, 8)} = {} BY Zenon, <1>2
  <2>2. Decimal(t, 0, 8) = {} BY Zenon, <1>1, <2>1 DEF Decimal
  <2>3. Read("gain", t) = Decimal(t, 0, 8) BY DEF Read
  <2>4. QED BY Zenon, <2>2, <2>3
<1>6. QED BY Zenon, <1>3, <1>4, <1>5

\* The end of the line or something that is no operand of the kind stands behind j.
NoMore(s, j, kind, strict) ==
    \/ j = Len(s)
    \/ j < Len(s) /\ Read(kind, s[j + 1]) = {} /\ (strict => ~ IsOperand(s[j + 1]))
Mistaken(s, j, kind) == j < Len(s) /\ Read(kind, s[j + 1]) = {} /\ IsOperand(s[j + 1])

LEMMA AfterAll == ASSUME NEW S, NEW s \in Seq(S) PROVE After(s, Len(s)) = <<>>
<1> DEFINE z == Len(s)
           rest == After(s, z)
<1>0. Len(s) \in Nat BY Zenon, LenProperties
<1>1. z \in 0 .. Len(s) /\ Len(s) - z = 0 BY <1>0
<1>2. rest \in Seq(S) /\ Len(rest) = 0 BY Zenon, <1>1, AfterIs
<1>3. rest = <<>>
  <2> HIDE DEF rest
  <2>1. QED BY <1>2
<1>4. QED BY Zenon, <1>3

LEMMA MayNot ==
    ASSUME NEW S, NEW s \in Seq(S), NEW j \in 0 .. Len(s), NEW o,
           NEW may, NEW i, NEW field, NEW kind, Allows(may, i, field, kind), NEW strict,
           NoMore(s, j, kind, strict)
    PROVE  Goes(s, may, i, strict, o, j, o, j)
<1> DEFINE p == [o |-> o, rest |-> After(s, j)]
<1>0. i \in DOMAIN may /\ may[i][2] = kind BY Zenon DEF Allows
<1>1. p.rest = After(s, j) BY Zenon
<1> HIDE DEF p
<1>2. ~ MayRead(kind, p.rest) /\ (strict => ~ MayMistake(kind, p.rest))
  <2>1. CASE j = Len(s)
    BY Zenon, <1>1, <2>1, AfterAll DEF MayRead, MayMistake
  <2>2. CASE j < Len(s) /\ Read(kind, s[j + 1]) = {} /\ (strict => ~ IsOperand(s[j + 1]))
    <3>1. Head(p.rest) = s[j + 1] BY Zenon, <1>1, <2>2, AfterHead
    <3>2. QED BY Zenon, <2>2, <3>1 DEF MayRead, MayMistake
  <2>3. QED BY Zenon, <2>1, <2>2 DEF NoMore
<1>3. FollowedBy(p, may, i, strict) = p
  BY Zenon, <1>0, <1>2 DEF FollowedBy
<1>4. QED BY Zenon, <1>3 DEF p, Goes

LEMMA MayHelp ==
    ASSUME NEW S, NEW s \in Seq(S), NEW j \in 0 .. Len(s), NEW o,
           NEW may, NEW i, NEW field, NEW kind, Allows(may, i, field, kind),
           Mistaken(s, j, kind)
    PROVE  Goes(s, may, i, TRUE, o, j, Helped(o), j)
<1> DEFINE p == [o |-> o, rest |-> After(s, j)]
<1>0. i \in DOMAIN may /\ may[i][2] = kind BY Zenon DEF Allows
<1>1. p.rest = After(s, j) /\ [p EXCEPT !.o = Helped(@)] = [o |-> Helped(o), rest |-> After(s, j)]
  BY SMT
<1> HIDE DEF p
<1>2. ~ MayRead(kind, p.rest) /\ MayMistake(kind, p.rest)
  <2>1. p.rest # <<>> /\ Head(p.rest) = s[j + 1]
    BY Zenon, <1>1, AfterHead DEF Mistaken
  <2>2. QED BY Zenon, <2>1 DEF MayRead, MayMistake, Mistaken
<1>3. FollowedBy(p, may, i, TRUE) = [p EXCEPT !.o = Helped(@)]
  BY Zenon, <1>0, <1>2 DEF FollowedBy
<1>4. QED BY Zenon, <1>1, <1>3 DEF p, Goes

LEMMA MayNone ==
    ASSUME NEW s, NEW j, NEW o, NEW may, NEW i, i \notin DOMAIN may, NEW strict
    PROVE  Goes(s, may, i, strict, o, j, o, j)
  BY Zenon DEF Goes, FollowedBy

Follows(s, may, strict, o, j, next, n) ==
    Followed(o, may, After(s, j), strict) = [o |-> next, rest |-> After(s, n)]

LEMMA TwoFollow ==
    ASSUME NEW s, NEW may, NEW strict, NEW o, NEW j, NEW x, NEW i, NEW y, NEW n,
           Goes(s, may, 1, strict, o, j, x, i), Goes(s, may, 2, strict, x, i, y, n)
    PROVE  Follows(s, may, strict, o, j, y, n)
  BY Zenon DEF Goes, Followed, Follows

-----------------------------------------------------------------------------
(* Modes.                                                                   *)

LEMMA ModeOptionsAre ==
    /\ ModeOption("--room") = Mode("room", <<<<"localPort", "port">>>>, Seconds(0), <<>>)
    /\ ModeOption("--capture-test")
        = Mode("capture_test", <<>>, [captureSeconds |-> 5], <<<<"captureSeconds", "seconds">>>>)
    /\ ModeOption("--udp-recv") = Mode("udp_recv", <<ToPort>>, Seconds(10), <<Lasting>>)
    /\ ModeOption("--udp-audio-loopback")
        = Mode("udp_audio_loopback", <<>>, Local(5), <<Lasting, ToPort>>)
    /\ ModeOption("--tone-test") = Mode("tone_test", <<>>, Seconds(5), <<Lasting>>)
<1>1. /\ TestMode("--room") = {} /\ LoopMode("--room") = {}
      /\ TalkMode("--room") = Mode("room", <<<<"localPort", "port">>>>, Seconds(0), <<>>)
  BY DEF TestMode, LoopMode, TalkMode
<1>2. /\ LoopMode("--capture-test") = {} /\ TalkMode("--capture-test") = {}
      /\ TestMode("--capture-test")
        = Mode("capture_test", <<>>, [captureSeconds |-> 5], <<<<"captureSeconds", "seconds">>>>)
  BY DEF TestMode, LoopMode, TalkMode
<1>3. /\ LoopMode("--udp-recv") = {} /\ TalkMode("--udp-recv") = {}
      /\ TestMode("--udp-recv") = Mode("udp_recv", <<ToPort>>, Seconds(10), <<Lasting>>)
  BY DEF TestMode, LoopMode, TalkMode
<1>4. /\ TestMode("--udp-audio-loopback") = {} /\ TalkMode("--udp-audio-loopback") = {}
      /\ LoopMode("--udp-audio-loopback")
        = Mode("udp_audio_loopback", <<>>, Local(5), <<Lasting, ToPort>>)
  BY DEF TestMode, LoopMode, TalkMode
<1>5. /\ LoopMode("--tone-test") = {} /\ TalkMode("--tone-test") = {}
      /\ TestMode("--tone-test") = Mode("tone_test", <<>>, Seconds(5), <<Lasting>>)
  BY DEF TestMode, LoopMode, TalkMode
<1>6. \A x : ModeOption(x) = TestMode(x) \cup LoopMode(x) \cup TalkMode(x)
  BY Zenon DEF ModeOption
<1>7. \A x : {} \cup {} \cup x = x /\ x \cup {} \cup {} = x /\ {} \cup x \cup {} = x
  BY Zenon
<1>8. QED BY Zenon, <1>1, <1>2, <1>3, <1>4, <1>5, <1>6, <1>7

ModeNames == {"--room", "--capture-test", "--udp-recv", "--udp-audio-loopback", "--tone-test"}

LEMMA ModesAreModes ==
    ASSUME NEW option \in ModeNames PROVE ValueOption(option) = {} /\ ModeOption(option) # {}
<1>1. DeviceOption(option) = {} /\ HandleOption(option) = {} /\ DuckingOption(option) = {}
  <2>1. /\ DeviceOption("--room") = {} /\ HandleOption("--room") = {}
        /\ DuckingOption("--room") = {}
    BY DEF DeviceOption, HandleOption, DuckingOption
  <2>2. /\ DeviceOption("--capture-test") = {} /\ HandleOption("--capture-test") = {}
        /\ DuckingOption("--capture-test") = {}
    BY DEF DeviceOption, HandleOption, DuckingOption
  <2>3. /\ DeviceOption("--udp-recv") = {} /\ HandleOption("--udp-recv") = {}
        /\ DuckingOption("--udp-recv") = {}
    BY DEF DeviceOption, HandleOption, DuckingOption
  <2>4. /\ DeviceOption("--udp-audio-loopback") = {} /\ HandleOption("--udp-audio-loopback") = {}
        /\ DuckingOption("--udp-audio-loopback") = {}
    BY DEF DeviceOption, HandleOption, DuckingOption
  <2>5. /\ DeviceOption("--tone-test") = {} /\ HandleOption("--tone-test") = {}
        /\ DuckingOption("--tone-test") = {}
    BY DEF DeviceOption, HandleOption, DuckingOption
  <2>6. QED BY Zenon, <2>1, <2>2, <2>3, <2>4, <2>5 DEF ModeNames
<1>2. ModeOption(option) # {}
  BY Zenon, ModeOptionsAre DEF ModeNames, Mode
<1>3. QED BY Zenon, <1>1, <1>2 DEF ValueOption

\* A second mode is refused.
LEMMA SecondMode ==
    ASSUME NEW S, NEW s \in Seq(S), NEW k \in 0 .. Len(s), k < Len(s),
           NEW P, NEW o, Sound(o, P), o.mode # "probe",
           NEW option \in ModeNames, s[k + 1] = Opt(option)
    PROVE  Helping(TakeNext([o |-> o, rest |-> After(s, k)]))
<1> DEFINE t == Opt(option)
           rest == After(s, k + 1)
<1>1. TakeNext([o |-> o, rest |-> After(s, k)]) = Argument(o, t, rest)
  BY Zenon, NextIs
<1>2. t[1] = "opt" /\ t[2] = option /\ "opt" # "joined" BY DEF Opt
<1>3. "help" \in DOMAIN o BY DEF Sound, OptionFields
<1> HIDE DEF t, rest
<1>4. Argument(o, t, rest) = TakeMode(o, option, rest)
  BY Zenon, <1>2, ModesAreModes DEF Argument
<1>5. TakeMode(o, option, rest) = [o |-> Helped(o), rest |-> rest]
  BY Zenon DEF TakeMode, SetMode
<1>6. Helping([o |-> Helped(o), rest |-> rest])
  BY Zenon, <1>3, HelpAsked, HelpingIs
<1>7. QED BY Zenon, <1>1, <1>4, <1>5, <1>6 DEF t, rest

\* A mode's option stands behind k; what its step begins with.
ModeAt(s, k, option, m) ==
    /\ s[k + 1] = Opt(option) /\ option \in ModeNames /\ ModeOption(option) = {m}
Begun(s, k, o, m) ==
    Over(m.presets, Over(Filled(m.needs, After(s, k + 1)), [o EXCEPT !.mode = m.name]))

LEMMA ModeBegins ==
    ASSUME NEW S, NEW s \in Seq(S), NEW k \in 0 .. Len(s), k < Len(s),
           NEW o, o.mode = "probe", NEW option, NEW m, ModeAt(s, k, option, m),
           NEW n \in 0 .. Len(s) - (k + 1), Len(m.needs) = n,
           Fits(m.needs, After(s, k + 1))
    PROVE  TakeNext([o |-> o, rest |-> After(s, k)])
             = Followed(Begun(s, k, o, m), m.may, After(s, (k + 1) + n), TRUE)
<1> DEFINE t == Opt(option)
           rest == After(s, k + 1)
           set == SetMode(o, m.name)
<1>1. TakeNext([o |-> o, rest |-> After(s, k)]) = Argument(o, t, rest)
  BY Zenon, NextIs DEF ModeAt
<1>2. t[1] = "opt" /\ t[2] = option /\ "opt" # "joined" BY DEF Opt
<1>3. k + 1 \in 0 .. Len(s) /\ Len(s) \in Nat BY SMT
<1>4. Len(rest) = Len(s) - (k + 1) /\ After(rest, n) = After(s, (k + 1) + n)
  <2> DEFINE z == k + 1
  <2>1. z \in 0 .. Len(s) /\ n \in 0 .. Len(s) - z BY Zenon, <1>3
  <2> HIDE DEF z
  <2>2. Len(After(s, z)) = Len(s) - z /\ After(After(s, z), n) = After(s, z + n)
    BY Zenon, <2>1, AfterIs, AfterAfter
  <2>3. QED BY Zenon, <2>2 DEF z
<1> HIDE DEF t
<1>5. Argument(o, t, rest) = TakeMode(o, option, rest)
  <2>1. option \in ModeNames BY Zenon DEF ModeAt
  <2>2. QED BY Zenon, <1>2, <2>1, ModesAreModes DEF Argument
<1>6. ~ (Len(rest) < Len(m.needs)) BY <1>3, <1>4
<1>7. set = [o EXCEPT !.mode = m.name] BY Zenon DEF SetMode
<1>8. The(ModeOption(option)) = m BY Zenon, TheOne DEF ModeAt
<1> DEFINE x == Over(m.presets, Over(Filled(m.needs, rest), set))
<1>9. x = Begun(s, k, o, m) BY Zenon, <1>7 DEF Begun
<1>12. Fits(m.needs, rest) BY Zenon
<1> HIDE DEF rest, set
<1>10. TakeMode(o, option, rest) = Followed(x, m.may, After(rest, n), TRUE)
  BY Zenon, <1>6, <1>8, <1>12 DEF TakeMode, set
<1>11. QED BY Zenon, <1>1, <1>4, <1>5, <1>9, <1>10 DEF t, rest

LEMMA ModeBeginsAlone ==
    ASSUME NEW S, NEW s \in Seq(S), NEW k \in 0 .. Len(s), k < Len(s),
           NEW o, o.mode = "probe", NEW option, NEW m, ModeAt(s, k, option, m),
           m.needs = <<>>, Fits(m.needs, After(s, k + 1))
    PROVE  TakeNext([o |-> o, rest |-> After(s, k)])
             = Followed(Begun(s, k, o, m), m.may, After(s, k + 1), TRUE)
<1> DEFINE n == 0
<1>1. n \in 0 .. Len(s) - (k + 1) /\ (k + 1) + n = k + 1 BY SMT
<1>2. Len(m.needs) = n
  <2>1. Len(<<>>) = 0 BY SMT
  <2>2. QED BY Zenon, <2>1
<1> HIDE DEF n
<1>3. TakeNext([o |-> o, rest |-> After(s, k)])
        = Followed(Begun(s, k, o, m), m.may, After(s, (k + 1) + n), TRUE)
  BY Zenon, <1>1, <1>2, ModeBegins
<1>4. QED BY Zenon, <1>1, <1>3

\* What is begun with, field by field: without needs, or with one
BegunAs(x, o, m, filled) ==
    /\ DOMAIN x = OptionFields /\ x = [f \in DOMAIN x |-> x[f]]
    /\ \A f \in OptionFields :
        x[f] = IF f \in DOMAIN m.presets THEN m.presets[f]
               ELSE IF f \in DOMAIN filled THEN filled[f]
               ELSE IF f = "mode" THEN m.name ELSE o[f]

LEMMA BegunIs ==
    ASSUME NEW s, NEW k, NEW P, NEW o, Sound(o, P), NEW m, DOMAIN m.presets \subseteq OptionFields,
           NEW filled, Filled(m.needs, After(s, k + 1)) = filled,
           DOMAIN filled \subseteq OptionFields
    PROVE  BegunAs(Begun(s, k, o, m), o, m, filled)
<1> DEFINE set == [o EXCEPT !.mode = m.name]
           one == Over(filled, set)
           x == Over(m.presets, one)
<1>1. DOMAIN set = OptionFields /\ \A f \in OptionFields : set[f] = IF f = "mode" THEN m.name ELSE o[f]
  BY DEF Sound
<1> HIDE DEF set
<1>2. /\ DOMAIN one = DOMAIN filled \cup OptionFields
      /\ \A f \in DOMAIN one : one[f] = IF f \in DOMAIN filled THEN filled[f] ELSE set[f]
  BY Zenon, <1>1 DEF Over
<1>3. DOMAIN one = OptionFields BY Zenon, <1>2
<1> HIDE DEF one
<1>4. /\ DOMAIN x = DOMAIN m.presets \cup OptionFields
      /\ \A f \in DOMAIN x : x[f] = IF f \in DOMAIN m.presets THEN m.presets[f] ELSE one[f]
      /\ x = [f \in DOMAIN x |-> x[f]]
  BY Zenon, <1>3 DEF Over
<1>5. DOMAIN x = OptionFields BY Zenon, <1>4
<1>6. x = Begun(s, k, o, m) BY Zenon DEF Begun, one, set
<1> HIDE DEF x
<1>7. BegunAs(x, o, m, filled)
  BY Zenon, <1>1, <1>2, <1>3, <1>4, <1>5 DEF BegunAs
<1>8. QED BY Zenon, <1>6, <1>7

LEMMA NothingFilled ==
    ASSUME NEW args
    PROVE  /\ Len(<<>>) = 0 /\ Fits(<<>>, args) /\ DOMAIN Filled(<<>>, args) = {}
<1>1. DOMAIN <<>> = {} /\ Len(<<>>) = 0 BY SMT
<1>2. QED BY Zenon, <1>1 DEF Fits, Filled

FillsOne(needs, field, kind) ==
    Len(needs) = 1 /\ DOMAIN needs = {1} /\ needs[1][1] = field /\ needs[1][2] = kind

FilledWith(needs, args, field, v) ==
    /\ Fits(needs, args)
    /\ DOMAIN Filled(needs, args) = {field} /\ Filled(needs, args)[field] = v

LEMMA OneFilled ==
    ASSUME NEW needs, NEW field, NEW kind, FillsOne(needs, field, kind), NEW args,
           NEW v, Read(kind, args[1]) = {v}
    PROVE  FilledWith(needs, args, field, v)
<1>0. Len(needs) = 1 /\ DOMAIN needs = {1} /\ needs[1][1] = field /\ needs[1][2] = kind
  BY Zenon DEF FillsOne
<1>1. {needs[j][1] : j \in DOMAIN needs} = {field} BY Zenon, <1>0
<1>2. (CHOOSE j \in DOMAIN needs : needs[j][1] = field) = 1
  BY Zenon, <1>0
<1>3. The(Read(needs[1][2], args[1])) = v BY Zenon, <1>0, TheOne
<1>4. DOMAIN Filled(needs, args) = {field} /\ Filled(needs, args)[field] = v
  BY Zenon, <1>1, <1>2, <1>3 DEF Filled
<1>5. Fits(needs, args) BY Zenon, <1>0 DEF Fits
<1>6. QED BY Zenon, <1>4, <1>5 DEF FilledWith

\* All that a phrase sets
PutsAll(p, o, y) ==
    /\ DOMAIN y = OptionFields /\ y = [f \in DOMAIN y |-> y[f]]
    /\ \A f \in OptionFields : y[f] = IF f \in DOMAIN p.sets THEN p.sets[f] ELSE o[f]

LEMMA PutAll ==
    ASSUME NEW P, NEW o, Sound(o, P), NEW p, "peer" \notin DOMAIN p.sets,
           "peers" \notin DOMAIN p.sets, NEW y, PutsAll(p, o, y)
    PROVE  Put(p, o) = y
<1>1. PeerOf(p) = <<>> BY Zenon DEF PeerOf
<1>2. o.peers \o <<>> = o.peers /\ DOMAIN o = OptionFields
  BY DEF Sound
<1>6. /\ \A f \in OptionFields : y[f] = IF f \in DOMAIN p.sets THEN p.sets[f] ELSE o[f]
      /\ DOMAIN y = OptionFields /\ y = [f \in DOMAIN y |-> y[f]]
  BY Zenon DEF PutsAll
<1> DEFINE u == Put(p, o)
<1>7. \A f \in OptionFields : u[f] = IF f = "peers" THEN o["peers"]
                                   ELSE IF f \in DOMAIN p.sets THEN p.sets[f] ELSE o[f]
  BY Zenon, <1>1, <1>2 DEF Put
<1> HIDE DEF u
<1>3. \A f \in OptionFields : u[f] = y[f] BY <1>6, <1>7
<1>4. u = [f \in OptionFields |-> u[f]] BY Zenon, <1>2 DEF Put, u
<1>5. QED BY Zenon, <1>3, <1>4, <1>6 DEF u

\* Two operands behind an option are the first two of its arguments.
LEMMA ArgumentsAt ==
    ASSUME NEW S, NEW s \in Seq(S), NEW k \in 0 .. Len(s), k + 2 <= Len(s)
    PROVE  After(s, k + 1)[1] = s[k + 2]
<1>0. /\ k + 1 \in 0 .. Len(s) /\ (k + 1) + 1 = k + 2 /\ 1 \in 1 .. Len(s) - (k + 1)
  BY SMT
<1> DEFINE z == k + 1
<1> HIDE DEF z
<1>1. z \in 0 .. Len(s) /\ z + 1 = k + 2 /\ 1 \in 1 .. Len(s) - z
  BY Zenon, <1>0 DEF z
<1>2. \A j \in 1 .. Len(s) - z : After(s, z)[j] = s[z + j]
  BY Zenon, <1>1, AfterIs
<1>3. QED BY Zenon, <1>1, <1>2 DEF z

\* What the mode phrases set
SetsRoom(p, n) ==
    /\ DOMAIN p.sets = {"mode", "localPort", "seconds"}
    /\ p.sets["mode"] = "room" /\ p.sets["localPort"] = n /\ p.sets["seconds"] = 0
SetsTest(p, v) ==
    /\ DOMAIN p.sets = {"mode", "captureSeconds"}
    /\ p.sets["mode"] = "capture_test" /\ p.sets["captureSeconds"] = v
SetsRecv(p, n, v) ==
    /\ DOMAIN p.sets = {"mode", "port", "seconds"}
    /\ p.sets["mode"] = "udp_recv" /\ p.sets["port"] = n /\ p.sets["seconds"] = v
SetsLoop(p, v, n) ==
    /\ DOMAIN p.sets = {"mode", "seconds", "port", "host"}
    /\ p.sets["mode"] = "udp_audio_loopback" /\ p.sets["seconds"] = v /\ p.sets["port"] = n
    /\ p.sets["host"] = Txt("127.0.0.1")

LEMMA PlacesBehind ==
    ASSUME NEW n \in Nat, NEW k \in 0 .. n, k < n
    PROVE  /\ k + 1 \in 0 .. n /\ 0 \in 0 .. n - (k + 1) /\ (k + 1) + 0 = k + 1
           /\ k + 2 <= n => /\ 1 \in 0 .. n - (k + 1) /\ (k + 1) + 1 = k + 2 /\ k + 1 < n
                            /\ k + 2 \in 0 .. n
           /\ k + 3 <= n => k + 2 <= n /\ k + 2 < n /\ (k + 2) + 1 = k + 3
  BY SMT

LEMMA RoomPhrase ==
    ASSUME NEW S, NEW s \in Seq(S), NEW k \in 0 .. Len(s), k < Len(s), k + 2 <= Len(s),
           NEW P, NEW o, Sound(o, P), o.mode = "probe", s[k + 1] = Opt("--room"),
           NEW n, Read("port", s[k + 2]) = {n}, NEW p, Len(p.tokens) = 2, SetsRoom(p, n)
    PROVE  Understood(s, k, o, p)
<1> DEFINE needs == <<<<"localPort", "port">>>>
           m == [name |-> "room", needs |-> needs, presets |-> Seconds(0), may |-> <<>>]
           rest == After(s, k + 1)
           filled == Filled(needs, rest)
           x == Begun(s, k, o, m)
<1>20. Len(s) \in Nat BY Zenon, LenProperties
<1>0. /\ 1 \in 0 .. Len(s) - (k + 1) /\ (k + 1) + 1 = k + 2
  BY Zenon, <1>20, PlacesBehind
<1>1. /\ m.name = "room" /\ m.needs = needs /\ m.presets = Seconds(0) /\ m.may = <<>>
      /\ FillsOne(needs, "localPort", "port")
  BY DEF FillsOne
<1>2. ModeAt(s, k, "--room", m)
  BY Zenon, ModeOptionsAre DEF ModeAt, Mode, ModeNames
<1>3. rest[1] = s[k + 2] BY Zenon, ArgumentsAt
<1> HIDE DEF needs, m, rest
<1>4. Read("port", rest[1]) = {n} BY Zenon, <1>3
<1>5. Fits(needs, rest) /\ DOMAIN filled = {"localPort"} /\ filled["localPort"] = n
      /\ Len(m.needs) = 1
  <2>1. FilledWith(needs, rest, "localPort", n)
    BY Zenon, <1>1, <1>4, OneFilled
  <2>2. QED BY Zenon, <1>1, <2>1 DEF FillsOne, FilledWith
<1> HIDE DEF filled
<1>6. TakeNext([o |-> o, rest |-> After(s, k)]) = Followed(x, m.may, After(s, (k + 1) + 1), TRUE)
  <2>1. Fits(m.needs, After(s, k + 1)) BY Zenon, <1>1, <1>5 DEF rest
  <2>2. Len(m.needs) = 1 BY Zenon, <1>5
  <2>3. 1 \in 0 .. Len(s) - (k + 1) BY Zenon, <1>0
  <2>4. QED BY Zenon, <1>2, <2>1, <2>2, <2>3, ModeBegins
<1>7. BegunAs(x, o, m, filled)
  <2>1. DOMAIN m.presets \subseteq OptionFields /\ DOMAIN filled \subseteq OptionFields
    BY <1>1, <1>5 DEF OptionFields, Seconds
  <2>2. Filled(m.needs, After(s, k + 1)) = filled
    BY Zenon, <1>1 DEF filled, rest
  <2>3. QED BY Zenon, <2>1, <2>2, BegunIs
<1> HIDE DEF x
<1>8. Follows(s, <<>>, TRUE, x, k + 2, x, k + 2)
  <2>1. 1 \notin DOMAIN <<>> /\ 2 \notin DOMAIN <<>> BY SMT
  <2>2. QED BY Zenon, <2>1, MayNone, TwoFollow
<1>9. Put(p, o) = x
  <2>1. DOMAIN m.presets = {"seconds"} /\ m.presets["seconds"] = 0
    BY <1>1 DEF Seconds
  <2>2. PutsAll(p, o, x)
    <3>1. \A f \in OptionFields : x[f] = IF f \in DOMAIN p.sets THEN p.sets[f] ELSE o[f]
      BY <1>1, <1>5, <1>7, <2>1 DEF BegunAs, SetsRoom
    <3>2. QED BY Zenon, <1>7, <3>1 DEF PutsAll, BegunAs
  <2>3. "peer" \notin DOMAIN p.sets /\ "peers" \notin DOMAIN p.sets
    BY DEF SetsRoom
  <2>4. QED BY Zenon, <2>2, <2>3, PutAll
<1>10. QED BY Zenon, <1>0, <1>1, <1>6, <1>8, <1>9 DEF Understood, Reads, Follows

LEMMA RecvPhrase ==
    ASSUME NEW S, NEW s \in Seq(S), NEW k \in 0 .. Len(s), k < Len(s), k + 2 <= Len(s),
           k + 3 <= Len(s),
           NEW P, NEW o, Sound(o, P), o.mode = "probe", s[k + 1] = Opt("--udp-recv"),
           NEW n, Read("port", s[k + 2]) = {n}, NEW v, Read("seconds", s[k + 3]) = {v},
           NEW p, Len(p.tokens) = 3, SetsRecv(p, n, v)
    PROVE  Understood(s, k, o, p)
<1> DEFINE needs == <<ToPort>>
           may == <<Lasting>>
           m == [name |-> "udp_recv", needs |-> needs, presets |-> Seconds(10), may |-> may]
           rest == After(s, k + 1)
           filled == Filled(needs, rest)
           x == Begun(s, k, o, m)
           y == [x EXCEPT !["seconds"] = v]
           z == k + 2
<1>20. Len(s) \in Nat BY Zenon, LenProperties
<1>0. /\ 1 \in 0 .. Len(s) - (k + 1) /\ (k + 1) + 1 = z /\ z \in 0 .. Len(s) /\ z < Len(s)
      /\ z + 1 = k + 3
  BY Zenon, <1>20, PlacesBehind
<1>1. /\ m.name = "udp_recv" /\ m.needs = needs /\ m.presets = Seconds(10) /\ m.may = may
      /\ FillsOne(needs, "port", "port")
      /\ Allows(may, 1, "seconds", "seconds") /\ 2 \notin DOMAIN may
  BY DEF FillsOne, ToPort, Lasting, Allows
<1>2. ModeAt(s, k, "--udp-recv", m)
  BY Zenon, ModeOptionsAre DEF ModeAt, Mode, ModeNames
<1>3. rest[1] = s[k + 2] BY Zenon, ArgumentsAt
<1> HIDE DEF needs, m, rest, may
<1>4. Read("port", rest[1]) = {n} BY Zenon, <1>3
<1>5. Fits(needs, rest) /\ DOMAIN filled = {"port"} /\ filled["port"] = n
      /\ Len(m.needs) = 1
  <2>1. FilledWith(needs, rest, "port", n)
    BY Zenon, <1>1, <1>4, OneFilled
  <2>2. QED BY Zenon, <1>1, <2>1 DEF FillsOne, FilledWith
<1> HIDE DEF filled
<1>6. TakeNext([o |-> o, rest |-> After(s, k)]) = Followed(x, m.may, After(s, (k + 1) + 1), TRUE)
  <2>1. Fits(m.needs, After(s, k + 1)) BY Zenon, <1>1, <1>5 DEF rest
  <2>2. Len(m.needs) = 1 BY Zenon, <1>5
  <2>3. 1 \in 0 .. Len(s) - (k + 1) BY Zenon, <1>0
  <2>4. QED BY Zenon, <1>2, <2>1, <2>2, <2>3, ModeBegins
<1>7. BegunAs(x, o, m, filled)
  <2>1. DOMAIN m.presets \subseteq OptionFields /\ DOMAIN filled \subseteq OptionFields
    BY <1>1, <1>5 DEF OptionFields, Seconds
  <2>2. Filled(m.needs, After(s, k + 1)) = filled
    BY Zenon, <1>1 DEF filled, rest
  <2>3. QED BY Zenon, <2>1, <2>2, BegunIs
<1>11. StandsFor(s, z, "seconds", v) BY Zenon, <1>0 DEF StandsFor
<1> HIDE DEF x, z
<1>8. Follows(s, may, TRUE, x, z, y, z + 1)
  <2>1. Goes(s, may, 1, TRUE, x, z, y, z + 1)
    BY Zenon, <1>0, <1>1, <1>11, MayTaken
  <2> HIDE DEF y
  <2>2. Goes(s, may, 2, TRUE, y, z + 1, y, z + 1)
    BY Zenon, <1>1, MayNone
  <2>3. QED BY Zenon, <2>1, <2>2, TwoFollow
<1>9. Put(p, o) = y
  <2>1. DOMAIN m.presets = {"seconds"} BY <1>1 DEF Seconds
  <2>4. /\ DOMAIN y = OptionFields /\ y = [f \in DOMAIN y |-> y[f]]
        /\ \A f \in OptionFields : y[f] = IF f = "seconds" THEN v ELSE x[f]
    BY Zenon, <1>7 DEF BegunAs
  <2> HIDE DEF y
  <2>2. PutsAll(p, o, y)
    <3>1. \A f \in OptionFields : y[f] = IF f \in DOMAIN p.sets THEN p.sets[f] ELSE o[f]
      BY <1>1, <1>5, <1>7, <2>1, <2>4 DEF BegunAs, SetsRecv
    <3>2. QED BY Zenon, <2>4, <3>1 DEF PutsAll
  <2>3. "peer" \notin DOMAIN p.sets /\ "peers" \notin DOMAIN p.sets
    BY DEF SetsRecv
  <2>5. QED BY Zenon, <2>2, <2>3, PutAll
<1>10. QED BY Zenon, <1>0, <1>1, <1>6, <1>8, <1>9 DEF Understood, Reads, Follows

LEMMA LoopPhrase ==
    ASSUME NEW S, NEW s \in Seq(S), NEW k \in 0 .. Len(s), k < Len(s), k + 2 <= Len(s),
           k + 3 <= Len(s),
           NEW P, NEW o, Sound(o, P), o.mode = "probe", s[k + 1] = Opt("--udp-audio-loopback"),
           NEW v, Read("seconds", s[k + 2]) = {v}, NEW n, Read("port", s[k + 3]) = {n},
           NEW p, Len(p.tokens) = 3, SetsLoop(p, v, n)
    PROVE  Understood(s, k, o, p)
<1> DEFINE may == <<Lasting, ToPort>>
           m == [name |-> "udp_audio_loopback", needs |-> <<>>, presets |-> Local(5),
                 may |-> may]
           rest == After(s, k + 1)
           filled == Filled(<<>>, rest)
           x == Begun(s, k, o, m)
           w == [x EXCEPT !["seconds"] = v]
           y == [w EXCEPT !["port"] = n]
           a == k + 1
           z == k + 2
<1>20. Len(s) \in Nat BY Zenon, LenProperties
<1>0. /\ 0 \in 0 .. Len(s) - (k + 1) /\ (k + 1) + 0 = a /\ a \in 0 .. Len(s) /\ a < Len(s)
      /\ a + 1 = z /\ z \in 0 .. Len(s) /\ z < Len(s) /\ z + 1 = k + 3
  BY Zenon, <1>20, PlacesBehind
<1>1. /\ m.name = "udp_audio_loopback" /\ m.needs = <<>> /\ m.presets = Local(5)
      /\ m.may = may
      /\ Allows(may, 1, "seconds", "seconds") /\ Allows(may, 2, "port", "port")
  BY DEF ToPort, Lasting, Allows
<1>2. ModeAt(s, k, "--udp-audio-loopback", m)
  BY Zenon, ModeOptionsAre DEF ModeAt, Mode, ModeNames
<1> HIDE DEF m, rest, may
<1>5. Fits(<<>>, rest) /\ DOMAIN filled = {} /\ Len(<<>>) = 0
  BY Zenon, NothingFilled
<1> HIDE DEF filled
<1>6. TakeNext([o |-> o, rest |-> After(s, k)]) = Followed(x, m.may, After(s, k + 1), TRUE)
  <2>1. Fits(m.needs, After(s, k + 1)) BY Zenon, <1>1, <1>5 DEF rest
  <2>4. QED BY Zenon, <1>1, <1>2, <2>1, ModeBeginsAlone
<1>7. BegunAs(x, o, m, filled)
  <2>1. DOMAIN m.presets \subseteq OptionFields /\ DOMAIN filled \subseteq OptionFields
    BY <1>1, <1>5 DEF OptionFields, Local
  <2>2. Filled(m.needs, After(s, k + 1)) = filled
    BY Zenon, <1>1 DEF filled, rest
  <2>3. QED BY Zenon, <2>1, <2>2, BegunIs
<1>11. StandsFor(s, a, "seconds", v) /\ StandsFor(s, z, "port", n)
  BY Zenon, <1>0 DEF StandsFor
<1>12. Goes(s, may, 1, TRUE, x, a, w, z)
  <2>1. Goes(s, may, 1, TRUE, x, a, w, a + 1)
    <3> HIDE DEF x, z, a
    <3>1. QED BY Zenon, <1>0, <1>1, <1>11, MayTaken
  <2>2. QED BY Zenon, <1>0, <2>1
<1>13. Goes(s, may, 2, TRUE, w, z, y, z + 1)
  <2> HIDE DEF x, z, a, w
  <2>1. QED BY Zenon, <1>0, <1>1, <1>11, MayTaken
<1>8. Follows(s, may, TRUE, x, a, y, z + 1)
  <2> HIDE DEF x, z, a, w, y
  <2>1. QED BY Zenon, <1>12, <1>13, TwoFollow
<1>9. Put(p, o) = y
  <2> HIDE DEF x
  <2>1. /\ DOMAIN m.presets = {"seconds", "host", "port"}
        /\ m.presets["host"] = Txt("127.0.0.1")
    BY <1>1 DEF Local
  <2>6. /\ DOMAIN w = OptionFields
        /\ \A f \in OptionFields : w[f] = IF f = "seconds" THEN v ELSE x[f]
    BY Zenon, <1>7 DEF BegunAs
  <2> HIDE DEF w
  <2>4. /\ DOMAIN y = OptionFields /\ y = [f \in DOMAIN y |-> y[f]]
        /\ \A f \in OptionFields : y[f] = IF f = "port" THEN n ELSE w[f]
    BY Zenon, <2>6
  <2> HIDE DEF y
  <2>2. PutsAll(p, o, y)
    <3>1. \A f \in OptionFields : y[f] = IF f \in DOMAIN p.sets THEN p.sets[f] ELSE o[f]
      BY <1>1, <1>5, <1>7, <2>1, <2>4, <2>6 DEF BegunAs, SetsLoop
    <3>2. QED BY Zenon, <2>4, <3>1 DEF PutsAll
  <2>3. "peer" \notin DOMAIN p.sets /\ "peers" \notin DOMAIN p.sets
    BY DEF SetsLoop
  <2>5. QED BY Zenon, <2>2, <2>3, PutAll
<1> HIDE DEF y, w, x
<1>10. QED BY Zenon, <1>0, <1>1, <1>6, <1>8, <1>9 DEF Understood, Reads, Follows

\* A mode that may be followed: by the next phrase, or by something it takes for a mistake
LEMMA TestPhrase ==
    ASSUME NEW S, NEW s \in Seq(S), NEW k \in 0 .. Len(s), k < Len(s),
           NEW P, NEW o, Sound(o, P), o.mode = "probe", s[k + 1] = Opt("--capture-test"),
           NEW p, Len(p.tokens) = 1, SetsTest(p, 5)
    PROVE  /\ NoMore(s, k + 1, "seconds", TRUE) => Understood(s, k, o, p)
           /\ Mistaken(s, k + 1, "seconds")
                => Helping(TakeNext([o |-> o, rest |-> After(s, k)]))
<1> DEFINE may == <<<<"captureSeconds", "seconds">>>>
           presets == [captureSeconds |-> 5]
           m == [name |-> "capture_test", needs |-> <<>>, presets |-> presets, may |-> may]
           rest == After(s, k + 1)
           filled == Filled(<<>>, rest)
           x == Begun(s, k, o, m)
           a == k + 1
<1>20. Len(s) \in Nat BY Zenon, LenProperties
<1>0. /\ 0 \in 0 .. Len(s) - (k + 1) /\ (k + 1) + 0 = a /\ a \in 0 .. Len(s)
  BY Zenon, <1>20, PlacesBehind
<1>1. /\ m.name = "capture_test" /\ m.needs = <<>> /\ m.presets = presets /\ m.may = may
      /\ Allows(may, 1, "captureSeconds", "seconds") /\ 2 \notin DOMAIN may
      /\ DOMAIN presets = {"captureSeconds"} /\ presets["captureSeconds"] = 5
  BY DEF Allows
<1>2. ModeAt(s, k, "--capture-test", m)
  BY Zenon, ModeOptionsAre DEF ModeAt, Mode, ModeNames
<1> HIDE DEF m, rest, may, presets
<1>5. Fits(<<>>, rest) /\ DOMAIN filled = {} /\ Len(<<>>) = 0
  BY Zenon, NothingFilled
<1> HIDE DEF filled
<1>6. TakeNext([o |-> o, rest |-> After(s, k)]) = Followed(x, may, After(s, a), TRUE)
  <2>1. Fits(m.needs, After(s, k + 1)) BY Zenon, <1>1, <1>5 DEF rest
  <2>4. TakeNext([o |-> o, rest |-> After(s, k)])
          = Followed(Begun(s, k, o, m), m.may, After(s, k + 1), TRUE)
    BY Zenon, <1>1, <1>2, <2>1, ModeBeginsAlone
  <2>5. QED BY Zenon, <1>0, <1>1, <2>4
<1>7. BegunAs(x, o, m, filled)
  <2>1. DOMAIN m.presets \subseteq OptionFields /\ DOMAIN filled \subseteq OptionFields
    BY <1>1, <1>5 DEF OptionFields
  <2>2. Filled(m.needs, After(s, k + 1)) = filled
    BY Zenon, <1>1 DEF filled, rest
  <2>3. QED BY Zenon, <2>1, <2>2, BegunIs
<1> HIDE DEF x, a
<1>8. ASSUME NoMore(s, a, "seconds", TRUE) PROVE Understood(s, k, o, p)
  <2>1. Goes(s, may, 1, TRUE, x, a, x, a)
    BY Zenon, <1>0, <1>1, <1>8, MayNot
  <2>2. Goes(s, may, 2, TRUE, x, a, x, a) BY Zenon, <1>1, MayNone
  <2>3. Follows(s, may, TRUE, x, a, x, a)
    BY Zenon, <2>1, <2>2, TwoFollow
  <2>4. PutsAll(p, o, x)
    <3>1. \A f \in OptionFields : x[f] = IF f \in DOMAIN p.sets THEN p.sets[f] ELSE o[f]
      BY <1>1, <1>5, <1>7 DEF BegunAs, SetsTest
    <3>2. QED BY Zenon, <1>7, <3>1 DEF PutsAll, BegunAs
  <2>5. "peer" \notin DOMAIN p.sets /\ "peers" \notin DOMAIN p.sets
    BY DEF SetsTest
  <2>6. Put(p, o) = x BY Zenon, <2>4, <2>5, PutAll
  <2>7. QED BY Zenon, <1>6, <2>3, <2>6 DEF Understood, Reads, Follows, a
<1>9. ASSUME Mistaken(s, a, "seconds")
      PROVE  Helping(TakeNext([o |-> o, rest |-> After(s, k)]))
  <2>1. Goes(s, may, 1, TRUE, x, a, Helped(x), a)
    BY Zenon, <1>0, <1>1, <1>9, MayHelp
  <2>2. Goes(s, may, 2, TRUE, Helped(x), a, Helped(x), a)
    BY Zenon, <1>1, MayNone
  <2>3. Follows(s, may, TRUE, x, a, Helped(x), a)
    BY Zenon, <2>1, <2>2, TwoFollow
  <2>4. "help" \in DOMAIN x BY <1>7 DEF BegunAs, OptionFields
  <2>5. Sticks(Helped(x)) BY Zenon, <2>4, HelpAsked
  <2>6. Helping([o |-> Helped(x), rest |-> After(s, a)])
    BY Zenon, <2>5, HelpingIs
  <2>7. QED BY Zenon, <1>6, <2>3, <2>6 DEF Follows
<1>10. QED BY Zenon, <1>8, <1>9 DEF a

\* The same with its operand joined to it
LEMMA JoinedTest ==
    ASSUME NEW S, NEW s \in Seq(S), NEW k \in 0 .. Len(s), k < Len(s),
           NEW P, NEW o, Sound(o, P), NEW t, s[k + 1] = Joined("--capture-test", t),
           NEW v, Read("seconds", t) = {v}, NEW p, Len(p.tokens) = 1, SetsTest(p, v)
    PROVE  /\ o.mode = "probe" => Understood(s, k, o, p)
           /\ o.mode # "probe" => Helping(TakeNext([o |-> o, rest |-> After(s, k)]))
<1> DEFINE z == Joined("--capture-test", t)
           set == [o EXCEPT !.mode = "capture_test"]
           y == [set EXCEPT !.captureSeconds = v]
           rest == After(s, k + 1)
<1>1. TakeNext([o |-> o, rest |-> After(s, k)]) = Argument(o, z, rest)
  BY Zenon, NextIs
<1>2. z[1] = "joined" /\ z[2] = "--capture-test" /\ z[3] = t
  BY DEF Joined
<1> HIDE DEF z, rest
<1>3. Argument(o, z, rest) = [o |-> TakeJoined(o, "--capture-test", t), rest |-> rest]
  BY Zenon, <1>2 DEF Argument
<1>4. ASSUME o.mode = "probe" PROVE Understood(s, k, o, p)
  <2>1. The(Read("seconds", t)) = v /\ Read("seconds", t) # {}
    BY Zenon, TheOne
  <2>2. SetMode(o, "capture_test") = set BY Zenon, <1>4 DEF SetMode
  <2>4. /\ DOMAIN set = OptionFields
        /\ \A f \in OptionFields : set[f] = IF f = "mode" THEN "capture_test" ELSE o[f]
    BY DEF Sound
  <2> HIDE DEF set
  <2>3. TakeJoined(o, "--capture-test", t) = y
    BY Zenon, <1>4, <2>1, <2>2 DEF TakeJoined
  <2>5. /\ DOMAIN y = OptionFields /\ y = [f \in DOMAIN y |-> y[f]]
        /\ \A f \in OptionFields : y[f] = IF f = "captureSeconds" THEN v ELSE set[f]
    BY Zenon, <2>4
  <2> HIDE DEF y
  <2>6. PutsAll(p, o, y)
    <3>1. \A f \in OptionFields : y[f] = IF f \in DOMAIN p.sets THEN p.sets[f] ELSE o[f]
      BY <2>4, <2>5 DEF SetsTest
    <3>2. QED BY Zenon, <2>5, <3>1 DEF PutsAll
  <2>7. "peer" \notin DOMAIN p.sets /\ "peers" \notin DOMAIN p.sets
    BY DEF SetsTest
  <2>8. Put(p, o) = y BY Zenon, <2>6, <2>7, PutAll
  <2>9. QED BY Zenon, <1>1, <1>3, <2>3, <2>8 DEF Understood, Reads, rest
<1>5. ASSUME o.mode # "probe" PROVE Helping(TakeNext([o |-> o, rest |-> After(s, k)]))
  <2>1. TakeJoined(o, "--capture-test", t) = Helped(o)
    BY Zenon, <1>5 DEF TakeJoined
  <2>2. "help" \in DOMAIN o BY DEF Sound, OptionFields
  <2>3. Helping([o |-> Helped(o), rest |-> rest])
    BY Zenon, <2>2, HelpAsked, HelpingIs
  <2>4. QED BY Zenon, <1>1, <1>3, <2>1, <2>3
<1>6. QED BY Zenon, <1>4, <1>5

-----------------------------------------------------------------------------
(* The phrases.                                                             *)

LEMMA NothingWhole ==
    ASSUME NEW n \in Int, NEW low \in Int, NEW high \in Int, n < low \/ high < n
    PROVE  Whole(Num(n), low, high) = {}
<1>1. Num(n)[1] = "num" /\ Num(n)[2] = n BY DEF Num
<1>2. n \notin low .. high BY SMT
<1>3. {n} \cap (low .. high) = {} BY Zenon, <1>2
<1>4. QED BY Zenon, <1>1, <1>3 DEF Whole

\* What the operands of the line are read as
LEMMA WholeReads ==
    /\ Read("seconds", Num(30)) = {30} /\ Read("seconds", Num(7)) = {7}
    /\ Read("seconds", Num(3)) = {3} /\ Read("handle", Num(64)) = {64}
    /\ Read("port", Num(Port)) = {Port} /\ Read("release", Num(LongestRelease)) = {LongestRelease}
    /\ Read("ms", Num(8)) = {8} /\ Read("ms", Num(80)) = {80} /\ Read("release", Num(120)) = {120}
    /\ Read("buffer", Num(40)) = {40}
<1>1. \A t : Read("seconds", t) = Whole(t, 1, 3600) /\ Read("handle", t) = Whole(t, 1, 65535)
  BY DEF Read
<1>2. Whole(Num(30), 1, 3600) = {30} /\ Whole(Num(7), 1, 3600) = {7} /\ Whole(Num(3), 1, 3600) = {3}
  BY WholeIs
<1>3. Whole(Num(64), 1, 65535) = {64} /\ Whole(Num(Port), 1, 65535) = {Port}
  BY WholeIs DEF Port
<1>4. /\ Whole(Num(LongestRelease), 0, 5000) = {LongestRelease}
      /\ Whole(Num(120), 0, 5000) = {120}
  BY WholeIs DEF LongestRelease
<1>5. /\ Whole(Num(8), 0, 1000) = {8} /\ Whole(Num(80), 0, 1000) = {80}
      /\ Whole(Num(40), 1, 500) = {40}
  BY WholeIs
<1>6. QED BY <1>1, <1>2, <1>3, <1>4, <1>5, ReadsAre

LEMMA DecimalReads ==
    /\ Read("gain", Dec(HalfLouder)) = {HalfLouder} /\ Read("gain", Num(8)) = {8 * Unit}
    /\ Read("db", Num(12)) = {12 * Unit} /\ Read("level", Dec(Fifth)) = {Fifth}
<1>1. Decimal(Dec(HalfLouder), 0, 8) = {HalfLouder}
  BY DecimalIs DEF HalfLouder, Unit
<1>2. Decimal(Dec(Fifth), 0, 1) = {Fifth} BY DecimalIs DEF Fifth, Unit
<1>3. Decimal(Num(8), 0, 8) = {8 * Unit} /\ Decimal(Num(12), 0, 60) = {12 * Unit}
  BY UnitsAre
<1>4. QED BY <1>1, <1>2, <1>3, ReadsAre

LEMMA TextReads ==
    Read("text", Txt("mic")) = {Txt("mic")} /\ Read("text", Txt("ann")) = {Txt("ann")}
<1>1. Txt("mic") # Empty /\ Txt("ann") # Empty BY DEF Txt, Empty
<1>2. {Txt("mic")} \ {Empty} = {Txt("mic")} /\ {Txt("ann")} \ {Empty} = {Txt("ann")}
  BY Zenon, <1>1
<1>3. QED BY Zenon, <1>2, OtherReadsAre

LEMMA FlagReads == Read("flag", Num(0)) = {FALSE} /\ Read("flag", Num(40)) = {}
<1> DEFINE a == Num(0)
           b == Num(40)
<1>1. Whole(a, 0, 1) = {0} /\ a[2] = 0 BY WholeIs DEF Num
<1>2. Whole(b, 0, 1) = {} BY NothingWhole
<1>3. (a[2] = 1) = FALSE BY <1>1
<1> HIDE DEF a, b
<1>4. /\ Read("flag", a) = {a[2] = 1 : n \in Whole(a, 0, 1)}
      /\ Read("flag", b) = {b[2] = 1 : n \in Whole(b, 0, 1)}
  BY OtherReadsAre
<1>5. {a[2] = 1 : n \in {0}} = {FALSE} BY Zenon, <1>3
<1>6. QED BY Zenon, <1>1, <1>2, <1>4, <1>5 DEF a, b

LEMMA WrongReads ==
    /\ Read("gain", Num(9)) = {} /\ Read("port", Num(0)) = {}
    /\ Read("seconds", Num(TooManySeconds)) = {} /\ Read("ms", Num(TooLongHold)) = {}
<1>1. Whole(Num(0), 1, 65535) = {} BY NothingWhole
<1>2. Whole(Num(TooManySeconds), 1, 3600) = {}
  BY NothingWhole DEF TooManySeconds
<1>3. Whole(Num(TooLongHold), 0, 1000) = {}
  BY NothingWhole DEF TooLongHold
<1>4. Decimal(Num(9), 0, 8) = {}
  <2> DEFINE t == Num(9)
  <2>1. Whole(t, 0, 8) = {} BY NothingWhole
  <2>2. t[1] = "num" /\ "num" # "dec" BY DEF Num
  <2> HIDE DEF t
  <2>3. {n * Unit : n \in {}} = {} BY Zenon
  <2>4. QED BY Zenon, <2>1, <2>2, <2>3 DEF Decimal, t
<1>5. \A t : Read("seconds", t) = Whole(t, 1, 3600) BY DEF Read
<1>6. QED BY <1>1, <1>2, <1>3, <1>4, <1>5, ReadsAre

\* A phrase stands behind k, with the next one or the end behind it, and the options are sound.
Ahead(s, n) == n = Len(s) \/ (n < Len(s) /\ (Begins(s[n + 1]) \/ s[n + 1] = Stray))
Ready(S, s, k, P, o, p) ==
    /\ s \in Seq(S) /\ k \in 0 .. Len(s) /\ k + Len(p.tokens) <= Len(s)
    /\ PhraseAt(s, k, p) /\ Ahead(s, k + Len(p.tokens)) /\ Sound(o, P)

\* It is taken as it is meant, or help is asked for: because of it, or of the stray one behind it.
Refused(o, p) == p.wrong \/ ("mode" \in DOMAIN p.sets /\ o.mode # "probe")
Answered(s, k, o, p) ==
    \/ ~ Refused(o, p) /\ Understood(s, k, o, p)
    \/ /\ Helping(TakeNext([o |-> o, rest |-> After(s, k)]))
       /\ \/ Refused(o, p)
          \/ k + Len(p.tokens) < Len(s) /\ s[(k + Len(p.tokens)) + 1] = Stray

\* The tokens of a phrase that is ready
OneAt(S, s, k, P, o, p) ==
    /\ s \in Seq(S) /\ k \in 0 .. Len(s) /\ k < Len(s) /\ s[k + 1] = p.tokens[1]
    /\ Ahead(s, k + 1) /\ Sound(o, P)
TwoAt(S, s, k, P, o, p) ==
    /\ s \in Seq(S) /\ k \in 0 .. Len(s) /\ k < Len(s) /\ k + 2 <= Len(s)
    /\ s[k + 1] = p.tokens[1] /\ s[k + 2] = p.tokens[2]
    /\ Ahead(s, k + 2) /\ Sound(o, P)
ThreeAt(S, s, k, P, o, p) ==
    /\ s \in Seq(S) /\ k \in 0 .. Len(s) /\ k < Len(s) /\ k + 2 <= Len(s) /\ k + 3 <= Len(s)
    /\ s[k + 1] = p.tokens[1] /\ s[k + 2] = p.tokens[2] /\ s[k + 3] = p.tokens[3]
    /\ Ahead(s, k + 3) /\ Sound(o, P)

LEMMA ReadyOne ==
    ASSUME NEW S, NEW s, NEW k, NEW P, NEW o, NEW p, Ready(S, s, k, P, o, p), Len(p.tokens) = 1
    PROVE  OneAt(S, s, k, P, o, p)
<1>1. Len(s) \in Nat /\ s \in Seq(S) BY Zenon, LenProperties DEF Ready
<1>2. k \in 0 .. Len(s) /\ k + 1 <= Len(s) BY Zenon DEF Ready
<1>3. k < Len(s) /\ 1 \in 1 .. 1 BY <1>1, <1>2
<1>4. QED BY Zenon, <1>1, <1>2, <1>3 DEF Ready, PhraseAt, OneAt

LEMMA ReadyTwo ==
    ASSUME NEW S, NEW s, NEW k, NEW P, NEW o, NEW p, Ready(S, s, k, P, o, p), Len(p.tokens) = 2
    PROVE  TwoAt(S, s, k, P, o, p)
<1>1. Len(s) \in Nat /\ s \in Seq(S) BY Zenon, LenProperties DEF Ready
<1>2. k \in 0 .. Len(s) /\ k + 2 <= Len(s) BY Zenon DEF Ready
<1>3. k < Len(s) /\ 1 \in 1 .. 2 /\ 2 \in 1 .. 2 BY <1>1, <1>2
<1>4. QED BY Zenon, <1>1, <1>2, <1>3 DEF Ready, PhraseAt, TwoAt

LEMMA ReadyThree ==
    ASSUME NEW S, NEW s, NEW k, NEW P, NEW o, NEW p, Ready(S, s, k, P, o, p), Len(p.tokens) = 3
    PROVE  ThreeAt(S, s, k, P, o, p)
<1>1. Len(s) \in Nat /\ s \in Seq(S) BY Zenon, LenProperties DEF Ready
<1>2. k \in 0 .. Len(s) /\ k + 3 <= Len(s) BY Zenon DEF Ready
<1>3. k < Len(s) /\ 1 \in 1 .. 3 /\ 2 \in 1 .. 3 /\ 3 \in 1 .. 3 /\ k + 2 <= Len(s)
  BY <1>1, <1>2
<1>4. QED BY Zenon, <1>1, <1>2, <1>3 DEF Ready, PhraseAt, ThreeAt

\* An option with a value that it may have
IsValue(p, option, field, kind, t, v) ==
    /\ Len(p.tokens) = 2 /\ p.tokens[1] = Opt(option) /\ p.tokens[2] = t
    /\ p.wrong = FALSE /\ SetsOne(p, field, v) /\ field \in OptionFields \ {"peers", "mode"}
    /\ Read(kind, t) = {v} /\ \E joined : ValueOption(option) = Value(field, kind, joined)

LEMMA ValueAnswered ==
    ASSUME NEW S, NEW s, NEW k, NEW P, NEW o, NEW p, Ready(S, s, k, P, o, p),
           NEW option, NEW field, NEW kind, NEW t, NEW v, IsValue(p, option, field, kind, t, v)
    PROVE  Answered(s, k, o, p)
<1>1. /\ Len(p.tokens) = 2 /\ p.tokens[1] = Opt(option) /\ p.tokens[2] = t
      /\ p.wrong = FALSE /\ SetsOne(p, field, v) /\ field \in OptionFields \ {"peers"}
      /\ field # "mode"
      /\ Read(kind, t) = {v} /\ \E joined : ValueOption(option) = Value(field, kind, joined)
  BY Zenon DEF IsValue
<1>2. /\ s \in Seq(S) /\ k \in 0 .. Len(s) /\ k + 2 <= Len(s)
      /\ s[k + 1] = p.tokens[1] /\ s[k + 2] = p.tokens[2] /\ Sound(o, P)
  <2>1. Len(p.tokens) = 2 BY Zenon, <1>1
  <2>2. TwoAt(S, s, k, P, o, p) BY Zenon, <2>1, ReadyTwo
  <2>3. QED BY Zenon, <2>2 DEF TwoAt
<1>3. TakesValue(s, k, option, field, kind, v)
  BY Zenon, <1>1, <1>2 DEF TakesValue
<1>4. Understood(s, k, o, p) BY Zenon, <1>1, <1>2, <1>3, ValuePhrase
<1>5. ~ Refused(o, p) BY Zenon, <1>1 DEF Refused, SetsOne
<1>6. QED BY Zenon, <1>4, <1>5 DEF Answered

\* The same joined
IsJoined(p, option, field, kind, t, v) ==
    /\ Len(p.tokens) = 1 /\ p.tokens[1] = Joined(option, t)
    /\ p.wrong = FALSE /\ SetsOne(p, field, v) /\ field \in OptionFields \ {"peers", "mode"}
    /\ Read(kind, t) = {v} /\ ValueOption(option) = Value(field, kind, TRUE)
    /\ option # "--capture-test"

LEMMA JoinedAnswered ==
    ASSUME NEW S, NEW s, NEW k, NEW P, NEW o, NEW p, Ready(S, s, k, P, o, p),
           NEW option, NEW field, NEW kind, NEW t, NEW v, IsJoined(p, option, field, kind, t, v)
    PROVE  Answered(s, k, o, p)
<1>1. /\ Len(p.tokens) = 1 /\ p.tokens[1] = Joined(option, t)
      /\ p.wrong = FALSE /\ SetsOne(p, field, v) /\ field \in OptionFields \ {"peers"}
      /\ field # "mode"
      /\ Read(kind, t) = {v} /\ ValueOption(option) = Value(field, kind, TRUE)
      /\ option # "--capture-test"
  BY Zenon DEF IsJoined
<1>2. s \in Seq(S) /\ k \in 0 .. Len(s) /\ k < Len(s) /\ s[k + 1] = p.tokens[1] /\ Sound(o, P)
  <2>1. Len(p.tokens) = 1 BY Zenon, <1>1
  <2>2. OneAt(S, s, k, P, o, p) BY Zenon, <2>1, ReadyOne
  <2>3. QED BY Zenon, <2>2 DEF OneAt
<1>3. JoinsValue(s, k, option, field, kind, v)
  BY Zenon, <1>1, <1>2 DEF JoinsValue
<1>4. Understood(s, k, o, p) BY Zenon, <1>1, <1>2, <1>3, JoinedPhrase
<1>5. ~ Refused(o, p) BY Zenon, <1>1 DEF Refused, SetsOne
<1>6. QED BY Zenon, <1>4, <1>5 DEF Answered

LEMMA LineOptionsAre ==
    /\ ValueOption("--test-seconds") = Value("seconds", "seconds", FALSE)
    /\ ValueOption("--input-gain") = Value("inputGain", "gain", TRUE)
    /\ ValueOption("--capture-device") = Value("captureDevice", "text", TRUE)
    /\ ValueOption("--telemetry-handle") = Value("telemetry", "handle", FALSE)
    /\ ValueOption("--self-duck-release-ms") = Value("duckRelease", "release", TRUE)
    /\ ValueOption("--self-duck-hold-ms") = Value("duckHold", "ms", TRUE)
<1>1. /\ DeviceOption("--test-seconds") = Value("seconds", "seconds", FALSE)
      /\ DeviceOption("--input-gain") = Value("inputGain", "gain", TRUE)
      /\ DeviceOption("--capture-device") = Value("captureDevice", "text", TRUE)
      /\ DeviceOption("--telemetry-handle") = {} /\ DeviceOption("--self-duck-release-ms") = {}
      /\ DeviceOption("--self-duck-hold-ms") = {}
  BY DEF DeviceOption
<1>2. /\ HandleOption("--test-seconds") = {} /\ HandleOption("--input-gain") = {}
      /\ HandleOption("--capture-device") = {}
      /\ HandleOption("--telemetry-handle") = Value("telemetry", "handle", FALSE)
      /\ HandleOption("--self-duck-release-ms") = {} /\ HandleOption("--self-duck-hold-ms") = {}
  BY DEF HandleOption
<1>3. /\ DuckingOption("--test-seconds") = {} /\ DuckingOption("--input-gain") = {}
      /\ DuckingOption("--capture-device") = {} /\ DuckingOption("--telemetry-handle") = {}
      /\ DuckingOption("--self-duck-release-ms") = Value("duckRelease", "release", TRUE)
      /\ DuckingOption("--self-duck-hold-ms") = Value("duckHold", "ms", TRUE)
  BY DEF DuckingOption
<1>4. \A x : {} \cup {} \cup x = x /\ x \cup {} \cup {} = x /\ {} \cup x \cup {} = x
  BY Zenon
<1>5. QED BY Zenon, <1>1, <1>2, <1>3, <1>4 DEF ValueOption

LEMMA SettingAnswered ==
    ASSUME NEW S, NEW s, NEW k, NEW P, NEW o, NEW p, Ready(S, s, k, P, o, p), p \in SettingPhrases
    PROVE  Answered(s, k, o, p)
<1>0. /\ {"seconds", "inputGain", "captureDevice", "duckRelease", "telemetry"}
            \subseteq OptionFields \ {"peers", "mode"}
      /\ "listenOnly" # "mode"
  BY DEF OptionFields
<1>1. CASE p = Phrase(<<Opt("--test-seconds"), Num(30)>>, [seconds |-> 30])
  <2>1. /\ Len(p.tokens) = 2 /\ p.tokens[1] = Opt("--test-seconds") /\ p.tokens[2] = Num(30)
        /\ p.wrong = FALSE /\ SetsOne(p, "seconds", 30)
    BY <1>1 DEF Phrase, SetsOne
  <2>2. IsValue(p, "--test-seconds", "seconds", "seconds", Num(30), 30)
    BY Zenon, <1>0, <2>1, WholeReads, LineOptionsAre DEF IsValue
  <2>3. QED BY Zenon, <2>2, ValueAnswered
<1>2. CASE p = Phrase(<<Opt("--input-gain"), Dec(HalfLouder)>>, [inputGain |-> HalfLouder])
  <2>1. /\ Len(p.tokens) = 2 /\ p.tokens[1] = Opt("--input-gain")
        /\ p.tokens[2] = Dec(HalfLouder)
        /\ p.wrong = FALSE /\ SetsOne(p, "inputGain", HalfLouder)
    BY <1>2 DEF Phrase, SetsOne
  <2>2. IsValue(p, "--input-gain", "inputGain", "gain", Dec(HalfLouder), HalfLouder)
    BY Zenon, <1>0, <2>1, DecimalReads, LineOptionsAre DEF IsValue
  <2>3. QED BY Zenon, <2>2, ValueAnswered
<1>3. CASE p = Phrase(<<Joined("--input-gain", Num(8))>>, [inputGain |-> 8 * Unit])
  <2>1. /\ Len(p.tokens) = 1 /\ p.tokens[1] = Joined("--input-gain", Num(8))
        /\ p.wrong = FALSE /\ SetsOne(p, "inputGain", 8 * Unit)
    BY <1>3 DEF Phrase, SetsOne
  <2>2. IsJoined(p, "--input-gain", "inputGain", "gain", Num(8), 8 * Unit)
    BY Zenon, <1>0, <2>1, DecimalReads, LineOptionsAre DEF IsJoined
  <2>3. QED BY Zenon, <2>2, JoinedAnswered
<1>4. CASE p = Phrase(<<Joined("--capture-device", Txt("mic"))>>, [captureDevice |-> Txt("mic")])
  <2>1. /\ Len(p.tokens) = 1 /\ p.tokens[1] = Joined("--capture-device", Txt("mic"))
        /\ p.wrong = FALSE /\ SetsOne(p, "captureDevice", Txt("mic"))
    BY <1>4 DEF Phrase, SetsOne
  <2>2. IsJoined(p, "--capture-device", "captureDevice", "text", Txt("mic"), Txt("mic"))
    BY Zenon, <1>0, <2>1, TextReads, LineOptionsAre DEF IsJoined
  <2>3. QED BY Zenon, <2>2, JoinedAnswered
<1>5. CASE p = Phrase(<<Opt("--self-duck-release-ms"), Num(LongestRelease)>>,
                      [duckRelease |-> LongestRelease])
  <2>1. /\ Len(p.tokens) = 2 /\ p.tokens[1] = Opt("--self-duck-release-ms")
        /\ p.tokens[2] = Num(LongestRelease)
        /\ p.wrong = FALSE /\ SetsOne(p, "duckRelease", LongestRelease)
    BY <1>5 DEF Phrase, SetsOne
  <2>2. IsValue(p, "--self-duck-release-ms", "duckRelease", "release", Num(LongestRelease),
                LongestRelease)
    BY Zenon, <1>0, <2>1, WholeReads, LineOptionsAre DEF IsValue
  <2>3. QED BY Zenon, <2>2, ValueAnswered
<1>6. CASE p = Phrase(<<Opt("--telemetry-handle"), Num(64)>>, [telemetry |-> 64])
  <2>1. /\ Len(p.tokens) = 2 /\ p.tokens[1] = Opt("--telemetry-handle") /\ p.tokens[2] = Num(64)
        /\ p.wrong = FALSE /\ SetsOne(p, "telemetry", 64)
    BY <1>6 DEF Phrase, SetsOne
  <2>2. IsValue(p, "--telemetry-handle", "telemetry", "handle", Num(64), 64)
    BY Zenon, <1>0, <2>1, WholeReads, LineOptionsAre DEF IsValue
  <2>3. QED BY Zenon, <2>2, ValueAnswered
<1>7. CASE p = Phrase(<<Opt("--listen-only")>>, [listenOnly |-> TRUE])
  <2>1. /\ Len(p.tokens) = 1 /\ p.tokens[1] = Opt("--listen-only")
        /\ p.wrong = FALSE /\ SetsOne(p, "listenOnly", TRUE)
    BY <1>7 DEF Phrase, SetsOne
  <2>2. s \in Seq(S) /\ k \in 0 .. Len(s) /\ k < Len(s) /\ s[k + 1] = p.tokens[1] /\ Sound(o, P)
    <3>1. Len(p.tokens) = 1 BY Zenon, <2>1
    <3>2. OneAt(S, s, k, P, o, p) BY Zenon, <3>1, ReadyOne
    <3>3. QED BY Zenon, <3>2 DEF OneAt
  <2>3. Understood(s, k, o, p) BY Zenon, <2>1, <2>2, FlagPhrase
  <2>4. ~ Refused(o, p) BY Zenon, <1>0, <2>1 DEF Refused, SetsOne
  <2>5. QED BY Zenon, <2>3, <2>4 DEF Answered
<1>8. QED BY Zenon, <1>1, <1>2, <1>3, <1>4, <1>5, <1>6, <1>7 DEF SettingPhrases

\* What stands behind a phrase is none of the operands that may follow it.
LEMMA AheadIs ==
    ASSUME NEW s, NEW n, Ahead(s, n)
    PROVE  /\ \/ NoMore(s, n, "seconds", TRUE)
              \/ Mistaken(s, n, "seconds") /\ n < Len(s) /\ s[n + 1] = Stray
           /\ NoMore(s, n, "flag", FALSE) /\ NoMore(s, n, "buffer", FALSE)
           /\ n < Len(s) => Read("gain", s[n + 1]) = {}
<1>1. CASE n < Len(s) /\ Begins(s[n + 1])
  <2> DEFINE t == s[n + 1]
  <2>0. Begins(t) /\ n < Len(s) BY Zenon, <1>1
  <2> HIDE DEF t
  <2>1. Read("seconds", t) = {} /\ Read("flag", t) = {} /\ Read("buffer", t) = {}
        /\ Read("gain", t) = {}
    BY Zenon, <2>0, NoNumber
  <2>2. ~ IsOperand(t) BY Zenon, <2>0, BeginsNone
  <2>3. QED BY Zenon, <2>0, <2>1, <2>2 DEF NoMore, t
<1>2. CASE n < Len(s) /\ s[n + 1] = Stray
  <2> DEFINE t == s[n + 1]
  <2>0. t = Stray /\ n < Len(s) BY Zenon, <1>2
  <2> HIDE DEF t
  <2>1. Read("seconds", t) = {} /\ Read("flag", t) = {} /\ Read("buffer", t) = {}
        /\ Read("gain", t) = {}
    BY Zenon, <2>0, NoNumber
  <2>2. IsOperand(t) BY Zenon, <2>0, StrayIs
  <2>3. QED BY Zenon, <2>0, <2>1, <2>2 DEF NoMore, Mistaken, t
<1>3. CASE n = Len(s)
  <2>1. NoMore(s, n, "seconds", TRUE) /\ NoMore(s, n, "flag", FALSE)
        /\ NoMore(s, n, "buffer", FALSE)
    BY Zenon, <1>3 DEF NoMore
  <2>2. n = Len(s) => ~ (n < Len(s)) BY SMT
  <2>3. QED BY Zenon, <1>3, <2>1, <2>2
<1>4. QED BY Zenon, <1>1, <1>2, <1>3 DEF Ahead

\* A phrase that names a mode
Names(p, option) ==
    /\ p.tokens[1] = Opt(option) /\ option \in ModeNames /\ p.wrong = FALSE
    /\ "mode" \in DOMAIN p.sets

LEMMA SecondAnswered ==
    ASSUME NEW S, NEW s, NEW k, NEW P, NEW o, s \in Seq(S), k \in 0 .. Len(s), k < Len(s),
           Sound(o, P), o.mode # "probe", NEW p, NEW option, Names(p, option),
           s[k + 1] = p.tokens[1]
    PROVE  Answered(s, k, o, p)
<1>1. option \in ModeNames /\ s[k + 1] = Opt(option)
  BY Zenon DEF Names
<1>2. Helping(TakeNext([o |-> o, rest |-> After(s, k)]))
  BY Zenon, <1>1, SecondMode
<1>3. Refused(o, p) BY Zenon DEF Refused, Names
<1>4. QED BY Zenon, <1>2, <1>3 DEF Answered

LEMMA FirstAnswered ==
    ASSUME NEW s, NEW k, NEW o, o.mode = "probe", NEW p, NEW option, Names(p, option),
           Understood(s, k, o, p)
    PROVE  Answered(s, k, o, p)
  BY Zenon DEF Answered, Refused, Names

LEMMA ModeAnswered ==
    ASSUME NEW S, NEW s, NEW k, NEW P, NEW o, NEW p, Ready(S, s, k, P, o, p), p \in ModePhrases
    PROVE  Answered(s, k, o, p)
<1>0. "--room" \in ModeNames /\ "--capture-test" \in ModeNames /\ "--udp-recv" \in ModeNames
      /\ "--udp-audio-loopback" \in ModeNames
  BY Zenon DEF ModeNames
<1>1. CASE p = Phrase(<<Opt("--room"), Num(Port)>>,
                      [mode |-> "room", localPort |-> Port, seconds |-> 0])
  <2>1. /\ Len(p.tokens) = 2 /\ p.tokens[1] = Opt("--room") /\ p.tokens[2] = Num(Port)
        /\ p.wrong = FALSE /\ SetsRoom(p, Port)
    BY <1>1 DEF Phrase, SetsRoom
  <2>3. TwoAt(S, s, k, P, o, p) BY Zenon, <2>1, ReadyTwo
  <2>4. Names(p, "--room") BY Zenon, <1>0, <2>1 DEF Names, SetsRoom
  <2>5. /\ s \in Seq(S) /\ k \in 0 .. Len(s) /\ k < Len(s) /\ k + 2 <= Len(s) /\ Sound(o, P)
        /\ s[k + 1] = p.tokens[1] /\ s[k + 1] = Opt("--room") /\ s[k + 2] = Num(Port)
    BY Zenon, <2>1, <2>3 DEF TwoAt
  <2>6. CASE o.mode = "probe"
    <3>1. Read("port", s[k + 2]) = {Port} BY Zenon, <2>5, WholeReads
    <3>2. Understood(s, k, o, p)
      BY Zenon, <2>1, <2>5, <2>6, <3>1, RoomPhrase
    <3>3. QED BY Zenon, <2>4, <2>6, <3>2, FirstAnswered
  <2>7. CASE o.mode # "probe"
    BY Zenon, <2>4, <2>5, <2>7, SecondAnswered
  <2>8. QED BY Zenon, <2>6, <2>7
<1>2. CASE p = Phrase(<<Opt("--capture-test")>>, [mode |-> "capture_test", captureSeconds |-> 5])
  <2>1. /\ Len(p.tokens) = 1 /\ p.tokens[1] = Opt("--capture-test")
        /\ p.wrong = FALSE /\ SetsTest(p, 5)
    BY <1>2 DEF Phrase, SetsTest
  <2>3. OneAt(S, s, k, P, o, p) BY Zenon, <2>1, ReadyOne
  <2>4. Names(p, "--capture-test")
    BY Zenon, <1>0, <2>1 DEF Names, SetsTest
  <2>5. /\ s \in Seq(S) /\ k \in 0 .. Len(s) /\ k < Len(s) /\ Sound(o, P) /\ Ahead(s, k + 1)
        /\ s[k + 1] = p.tokens[1] /\ s[k + 1] = Opt("--capture-test")
    BY Zenon, <2>1, <2>3 DEF OneAt
  <2>6. CASE o.mode = "probe"
    <3>1. /\ NoMore(s, k + 1, "seconds", TRUE) => Understood(s, k, o, p)
          /\ Mistaken(s, k + 1, "seconds")
                => Helping(TakeNext([o |-> o, rest |-> After(s, k)]))
      BY Zenon, <2>1, <2>5, <2>6, TestPhrase
    <3>2. \/ NoMore(s, k + 1, "seconds", TRUE)
          \/ Mistaken(s, k + 1, "seconds") /\ k + 1 < Len(s) /\ s[(k + 1) + 1] = Stray
      <4> DEFINE n == k + 1
      <4>1. Ahead(s, n) BY Zenon, <2>5
      <4> HIDE DEF n
      <4>2. \/ NoMore(s, n, "seconds", TRUE)
            \/ Mistaken(s, n, "seconds") /\ n < Len(s) /\ s[n + 1] = Stray
        BY Zenon, <4>1, AheadIs
      <4>3. QED BY Zenon, <4>2 DEF n
    <3>3. CASE Understood(s, k, o, p)
      BY Zenon, <2>4, <2>6, <3>3, FirstAnswered
    <3>4. CASE /\ Helping(TakeNext([o |-> o, rest |-> After(s, k)]))
               /\ k + 1 < Len(s) /\ s[(k + 1) + 1] = Stray
      BY Zenon, <2>1, <3>4 DEF Answered
    <3>5. QED BY Zenon, <3>1, <3>2, <3>3, <3>4
  <2>7. CASE o.mode # "probe"
    BY Zenon, <2>4, <2>5, <2>7, SecondAnswered
  <2>8. QED BY Zenon, <2>6, <2>7
<1>3. CASE p = Phrase(<<Joined("--capture-test", Num(7))>>,
                      [mode |-> "capture_test", captureSeconds |-> 7])
  <2>1. /\ Len(p.tokens) = 1 /\ p.tokens[1] = Joined("--capture-test", Num(7))
        /\ p.wrong = FALSE /\ SetsTest(p, 7)
    BY <1>3 DEF Phrase, SetsTest
  <2>3. OneAt(S, s, k, P, o, p) BY Zenon, <2>1, ReadyOne
  <2>5. /\ s \in Seq(S) /\ k \in 0 .. Len(s) /\ k < Len(s) /\ Sound(o, P)
        /\ s[k + 1] = Joined("--capture-test", Num(7))
    BY Zenon, <2>1, <2>3 DEF OneAt
  <2>6. Read("seconds", Num(7)) = {7} BY Zenon, WholeReads
  <2>7. /\ o.mode = "probe" => Understood(s, k, o, p)
        /\ o.mode # "probe" => Helping(TakeNext([o |-> o, rest |-> After(s, k)]))
    BY Zenon, <2>1, <2>5, <2>6, JoinedTest
  <2>8. "mode" \in DOMAIN p.sets /\ p.wrong = FALSE
    BY Zenon, <2>1 DEF SetsTest
  <2>9. Refused(o, p) <=> o.mode # "probe" BY Zenon, <2>8 DEF Refused
  <2>10. QED BY Zenon, <2>7, <2>9 DEF Answered
<1>4. CASE p = Phrase(<<Opt("--udp-recv"), Num(Port), Num(3)>>,
                      [mode |-> "udp_recv", port |-> Port, seconds |-> 3])
  <2>1. /\ Len(p.tokens) = 3 /\ p.tokens[1] = Opt("--udp-recv") /\ p.tokens[2] = Num(Port)
        /\ p.tokens[3] = Num(3) /\ p.wrong = FALSE /\ SetsRecv(p, Port, 3)
    BY <1>4 DEF Phrase, SetsRecv
  <2>3. ThreeAt(S, s, k, P, o, p) BY Zenon, <2>1, ReadyThree
  <2>4. Names(p, "--udp-recv")
    BY Zenon, <1>0, <2>1 DEF Names, SetsRecv
  <2>5. /\ s \in Seq(S) /\ k \in 0 .. Len(s) /\ k < Len(s) /\ k + 2 <= Len(s) /\ k + 3 <= Len(s)
        /\ Sound(o, P)
        /\ s[k + 1] = p.tokens[1] /\ s[k + 1] = Opt("--udp-recv") /\ s[k + 2] = Num(Port)
        /\ s[k + 3] = Num(3)
    BY Zenon, <2>1, <2>3 DEF ThreeAt
  <2>6. CASE o.mode = "probe"
    <3>1. Read("port", s[k + 2]) = {Port} /\ Read("seconds", s[k + 3]) = {3}
      BY Zenon, <2>5, WholeReads
    <3>2. Understood(s, k, o, p)
      BY Zenon, <2>1, <2>5, <2>6, <3>1, RecvPhrase
    <3>3. QED BY Zenon, <2>4, <2>6, <3>2, FirstAnswered
  <2>7. CASE o.mode # "probe"
    BY Zenon, <2>4, <2>5, <2>7, SecondAnswered
  <2>8. QED BY Zenon, <2>6, <2>7
<1>5. CASE p = Phrase(<<Opt("--udp-audio-loopback"), Num(3), Num(Port)>>,
                      [mode |-> "udp_audio_loopback", seconds |-> 3, port |-> Port,
                       host |-> Txt("127.0.0.1")])
  <2>1. /\ Len(p.tokens) = 3 /\ p.tokens[1] = Opt("--udp-audio-loopback")
        /\ p.tokens[2] = Num(3)
        /\ p.tokens[3] = Num(Port) /\ p.wrong = FALSE /\ SetsLoop(p, 3, Port)
    BY <1>5 DEF Phrase, SetsLoop
  <2>3. ThreeAt(S, s, k, P, o, p) BY Zenon, <2>1, ReadyThree
  <2>4. Names(p, "--udp-audio-loopback")
    BY Zenon, <1>0, <2>1 DEF Names, SetsLoop
  <2>5. /\ s \in Seq(S) /\ k \in 0 .. Len(s) /\ k < Len(s) /\ k + 2 <= Len(s) /\ k + 3 <= Len(s)
        /\ Sound(o, P)
        /\ s[k + 1] = p.tokens[1] /\ s[k + 1] = Opt("--udp-audio-loopback")
        /\ s[k + 2] = Num(3) /\ s[k + 3] = Num(Port)
    BY Zenon, <2>1, <2>3 DEF ThreeAt
  <2>6. CASE o.mode = "probe"
    <3>1. Read("seconds", s[k + 2]) = {3} /\ Read("port", s[k + 3]) = {Port}
      BY Zenon, <2>5, WholeReads
    <3>2. Understood(s, k, o, p)
      BY Zenon, <2>1, <2>5, <2>6, <3>1, LoopPhrase
    <3>3. QED BY Zenon, <2>4, <2>6, <3>2, FirstAnswered
  <2>7. CASE o.mode # "probe"
    BY Zenon, <2>4, <2>5, <2>7, SecondAnswered
  <2>8. QED BY Zenon, <2>6, <2>7
<1>6. QED BY Zenon, <1>1, <1>2, <1>3, <1>4, <1>5 DEF ModePhrases

\* What a wrong phrase does
Helps(s, k, o) == Helping(TakeNext([o |-> o, rest |-> After(s, k)]))

LEMMA HelpIn == ASSUME NEW P, NEW o, Sound(o, P) PROVE "help" \in DOMAIN o
  BY DEF Sound, OptionFields

LEMMA HelpedHelps ==
    ASSUME NEW s, NEW k, NEW P, NEW o, Sound(o, P), NEW rest,
           TakeNext([o |-> o, rest |-> After(s, k)]) = [o |-> Helped(o), rest |-> rest]
    PROVE  Helps(s, k, o)
<1>1. Sticks(Helped(o)) BY Zenon, HelpIn, HelpAsked
<1>2. Helping([o |-> Helped(o), rest |-> rest])
  BY Zenon, <1>1, HelpingIs
<1>3. QED BY Zenon, <1>2 DEF Helps

LEMMA WrongValue ==
    ASSUME NEW S, NEW s \in Seq(S), NEW k \in 0 .. Len(s), k < Len(s), k + 2 <= Len(s),
           NEW P, NEW o, Sound(o, P), NEW option, s[k + 1] = Opt(option), NEW field, NEW kind,
           NEW joined, ValueOption(option) = Value(field, kind, joined), Read(kind, s[k + 2]) = {}
    PROVE  Helps(s, k, o)
<1>1. k + 1 \in 0 .. Len(s) /\ k + 1 < Len(s) /\ (k + 1) + 1 = k + 2
  BY SMT
<1> DEFINE rest == After(s, k + 1)
           t == Opt(option)
           r == [field |-> field, kind |-> kind, joined |-> joined]
<1>2. rest # <<>> /\ Head(rest) = s[k + 2]
  <2> DEFINE n == k + 1
  <2>1. n \in 0 .. Len(s) /\ n < Len(s) /\ n + 1 = k + 2
    BY Zenon, <1>1
  <2> HIDE DEF n
  <2>2. After(s, n) # <<>> /\ Head(After(s, n)) = s[n + 1]
    BY Zenon, <2>1, AfterHead
  <2>3. QED BY Zenon, <2>1, <2>2 DEF n
<1>3. TakeNext([o |-> o, rest |-> After(s, k)]) = Argument(o, t, rest)
  BY Zenon, NextIs
<1>4. ValueOption(option) = {r} /\ r.kind = kind BY Zenon DEF Value
<1>5. t[1] = "opt" /\ t[2] = option /\ "opt" # "joined" BY DEF Opt
<1> HIDE DEF r, t, rest
<1>6. The(ValueOption(option)) = r /\ ValueOption(option) # {}
  BY Zenon, <1>4, TheOne
<1>7. Argument(o, t, rest) = TakeValue(o, option, rest)
  BY Zenon, <1>5, <1>6 DEF Argument
<1>8. TakeValue(o, option, rest) = [o |-> Helped(o), rest |-> Tail(rest)]
  BY Zenon, <1>2, <1>4, <1>6 DEF TakeValue
<1>9. QED BY Zenon, <1>3, <1>7, <1>8, HelpedHelps

LEMMA WrongJoined ==
    ASSUME NEW S, NEW s \in Seq(S), NEW k \in 0 .. Len(s), k < Len(s), NEW P, NEW o, Sound(o, P),
           NEW option, NEW t, s[k + 1] = Joined(option, t), TakeJoined(o, option, t) = Helped(o)
    PROVE  Helps(s, k, o)
<1> DEFINE z == Joined(option, t)
           rest == After(s, k + 1)
<1>1. TakeNext([o |-> o, rest |-> After(s, k)]) = Argument(o, z, rest)
  BY Zenon, NextIs
<1>2. z[1] = "joined" /\ z[2] = option /\ z[3] = t BY DEF Joined
<1> HIDE DEF z, rest
<1>3. Argument(o, z, rest) = [o |-> Helped(o), rest |-> rest]
  BY Zenon, <1>2 DEF Argument
<1>4. QED BY Zenon, <1>1, <1>3, HelpedHelps

LEMMA WrongHold ==
    ASSUME NEW o PROVE TakeJoined(o, "--self-duck-hold-ms", Num(TooLongHold)) = Helped(o)
<1> DEFINE option == "--self-duck-hold-ms"
           t == Num(TooLongHold)
           a == <<t>>
           r == [field |-> "duckHold", kind |-> "ms", joined |-> TRUE]
<1>1. option # "--capture-test" BY SMT
<1>2. ValueOption(option) = {r} /\ r.kind = "ms" /\ r.joined
  BY Zenon, LineOptionsAre DEF Value
<1>3. a # <<>> /\ Head(a) = t BY SMT
<1>4. Read("ms", t) = {} BY Zenon, WrongReads
<1> HIDE DEF option, t, a, r
<1>5. The(ValueOption(option)) = r BY Zenon, <1>2, TheOne
<1> DEFINE q == TakeValue(o, option, a)
<1>6. q = [o |-> Helped(o), rest |-> Tail(a)]
  BY Zenon, <1>2, <1>3, <1>4, <1>5 DEF TakeValue
<1> HIDE DEF q
<1>7. q.o = Helped(o) BY Zenon, <1>6
<1>8. TakeJoined(o, option, t) = TakeValue(o, option, <<t>>).o
  BY Zenon, <1>1, <1>2 DEF TakeJoined
<1>9. QED BY Zenon, <1>7, <1>8 DEF q, a, t, option

LEMMA WrongHandle ==
    ASSUME NEW o, NEW t PROVE TakeJoined(o, "--telemetry-handle", t) = Helped(o)
<1> DEFINE option == "--telemetry-handle"
           r == [field |-> "telemetry", kind |-> "handle", joined |-> FALSE]
<1>1. option # "--capture-test" BY SMT
<1>2. ValueOption(option) = {r} /\ ~ r.joined
  BY Zenon, LineOptionsAre DEF Value
<1> HIDE DEF option, r
<1>3. ~ \E v \in ValueOption(option) : v.joined BY Zenon, <1>2
<1>4. TakeJoined(o, option, t) = Helped(o)
  BY Zenon, <1>1, <1>3 DEF TakeJoined
<1>5. QED BY Zenon, <1>4 DEF option

LEMMA WrongStray ==
    ASSUME NEW S, NEW s \in Seq(S), NEW k \in 0 .. Len(s), k < Len(s), NEW P, NEW o, Sound(o, P),
           s[k + 1] = Stray
    PROVE  Helps(s, k, o)
<1> DEFINE t == Stray
           rest == After(s, k + 1)
<1>1. TakeNext([o |-> o, rest |-> After(s, k)]) = Argument(o, t, rest)
  BY Zenon, NextIs
<1>2. t[1] # "joined" /\ t[1] # "opt" BY StrayIs
<1> HIDE DEF t, rest
<1>3. Argument(o, t, rest) = [o |-> Helped(o), rest |-> rest]
  BY Zenon, <1>2 DEF Argument
<1>4. QED BY Zenon, <1>1, <1>3, HelpedHelps

\* What the mode of --room does with a wrong port
LEMMA WrongRoom ==
    ASSUME NEW S, NEW s \in Seq(S), NEW k \in 0 .. Len(s), k < Len(s), k + 2 <= Len(s),
           NEW P, NEW o, Sound(o, P), s[k + 1] = Opt("--room"), Read("port", s[k + 2]) = {}
    PROVE  Helps(s, k, o)
<1> DEFINE t == Opt("--room")
           rest == After(s, k + 1)
           needs == <<<<"localPort", "port">>>>
           m == [name |-> "room", needs |-> needs, presets |-> Seconds(0), may |-> <<>>]
           n == Len(needs)
           set == [o EXCEPT !.mode = "room"]
<1>1. TakeNext([o |-> o, rest |-> After(s, k)]) = Argument(o, t, rest)
  BY Zenon, NextIs
<1>2. t[1] = "opt" /\ t[2] = "--room" /\ "opt" # "joined" BY DEF Opt
<1>3. /\ m.name = "room" /\ m.needs = needs
      /\ DOMAIN needs = {1} /\ needs[1][2] = "port"
  BY SMT
<1>4. ModeOption("--room") = {m} BY Zenon, ModeOptionsAre DEF Mode
<1>5. rest[1] = s[k + 2] BY Zenon, ArgumentsAt
<1>6. "--room" \in ModeNames BY Zenon DEF ModeNames
<1>7. "help" \in DOMAIN set BY DEF Sound, OptionFields
<1> HIDE DEF t, rest, needs, m, n, set
<1>8. The(ModeOption("--room")) = m BY Zenon, <1>4, TheOne
<1>9. ~ Fits(needs, rest) BY Zenon, <1>3, <1>5 DEF Fits
<1>10. Argument(o, t, rest) = TakeMode(o, "--room", rest)
  BY Zenon, <1>2, <1>6, ModesAreModes DEF Argument
<1>11. CASE o.mode # "probe"
  BY Zenon, <1>6, <1>11, SecondMode DEF Helps
<1>12. CASE o.mode = "probe"
  <2>1. SetMode(o, m.name) = set
    BY Zenon, <1>3, <1>12 DEF SetMode, set
  <2>2. \/ TakeMode(o, "--room", rest) = [o |-> Helped(set), rest |-> rest]
        \/ TakeMode(o, "--room", rest) = [o |-> Helped(set), rest |-> After(rest, n)]
    BY Zenon, <1>3, <1>8, <1>9, <1>12, <2>1 DEF TakeMode, n
  <2>3. Sticks(Helped(set)) BY Zenon, <1>7, HelpAsked
  <2>4. Helping(TakeMode(o, "--room", rest))
    BY Zenon, <2>2, <2>3, HelpingIs
  <2>5. QED BY Zenon, <1>1, <1>10, <2>4 DEF Helps
<1>13. QED BY Zenon, <1>11, <1>12

\* An operand that may follow --tone-test but is none
LEMMA WrongTone ==
    ASSUME NEW S, NEW s \in Seq(S), NEW k \in 0 .. Len(s), k < Len(s), k + 2 <= Len(s),
           NEW P, NEW o, Sound(o, P), s[k + 1] = Opt("--tone-test"),
           Read("seconds", s[k + 2]) = {}, IsOperand(s[k + 2])
    PROVE  Helps(s, k, o)
<1> DEFINE may == <<Lasting>>
           m == [name |-> "tone_test", needs |-> <<>>, presets |-> Seconds(5), may |-> may]
           rest == After(s, k + 1)
           filled == Filled(<<>>, rest)
           x == Begun(s, k, o, m)
           a == k + 1
<1>0. a \in 0 .. Len(s) /\ a < Len(s) /\ a + 1 = k + 2 BY SMT
<1>1. /\ m.name = "tone_test" /\ m.needs = <<>> /\ m.presets = Seconds(5) /\ m.may = may
      /\ Allows(may, 1, "seconds", "seconds") /\ 2 \notin DOMAIN may
  BY DEF Allows, Lasting
<1>2. ModeAt(s, k, "--tone-test", m)
  BY Zenon, ModeOptionsAre DEF ModeAt, Mode, ModeNames
<1>3. "--tone-test" \in ModeNames BY Zenon DEF ModeNames
<1> HIDE DEF m, rest, may
<1>5. Fits(<<>>, rest) /\ DOMAIN filled = {} BY Zenon, NothingFilled
<1> HIDE DEF filled
<1>6. CASE o.mode # "probe" BY Zenon, <1>3, <1>6, SecondMode DEF Helps
<1>7. CASE o.mode = "probe"
  <2>1. TakeNext([o |-> o, rest |-> After(s, k)]) = Followed(x, may, After(s, a), TRUE)
    <3>1. Fits(m.needs, After(s, k + 1)) BY Zenon, <1>1, <1>5 DEF rest
    <3>2. TakeNext([o |-> o, rest |-> After(s, k)])
            = Followed(Begun(s, k, o, m), m.may, After(s, k + 1), TRUE)
      BY Zenon, <1>1, <1>2, <1>7, <3>1, ModeBeginsAlone
    <3>3. QED BY Zenon, <1>1, <3>2
  <2>2. BegunAs(x, o, m, filled)
    <3>1. DOMAIN m.presets \subseteq OptionFields /\ DOMAIN filled \subseteq OptionFields
      BY <1>1, <1>5 DEF OptionFields, Seconds
    <3>2. Filled(m.needs, After(s, k + 1)) = filled
      BY Zenon, <1>1 DEF filled, rest
    <3>3. QED BY Zenon, <3>1, <3>2, BegunIs
  <2> HIDE DEF x
  <2>3. Mistaken(s, a, "seconds")
    <3> HIDE DEF a
    <3>1. QED BY Zenon, <1>0 DEF Mistaken
  <2> HIDE DEF a
  <2>4. Goes(s, may, 1, TRUE, x, a, Helped(x), a)
    BY Zenon, <1>0, <1>1, <2>3, MayHelp
  <2>5. Goes(s, may, 2, TRUE, Helped(x), a, Helped(x), a)
    BY Zenon, <1>1, MayNone
  <2>6. Follows(s, may, TRUE, x, a, Helped(x), a)
    BY Zenon, <2>4, <2>5, TwoFollow
  <2>7. "help" \in DOMAIN x BY <2>2 DEF BegunAs, OptionFields
  <2>8. Helping([o |-> Helped(x), rest |-> After(s, a)])
    BY Zenon, <2>7, HelpAsked, HelpingIs
  <2>9. QED BY Zenon, <2>1, <2>6, <2>8 DEF Follows, Helps
<1>8. QED BY Zenon, <1>6, <1>7

\* A contact without all that it needs
LEMMA WrongPeer ==
    ASSUME NEW S, NEW s \in Seq(S), NEW k \in 0 .. Len(s), k < Len(s), k + 3 <= Len(s),
           NEW P, NEW o, Sound(o, P), s[k + 1] = Opt("--peer"),
           k + 3 < Len(s) => Read("gain", s[k + 4]) = {}
    PROVE  Helps(s, k, o)
<1> DEFINE t == Opt("--peer")
           a == k + 1
           rest == After(s, a)
           more == Followed(PeerPresets, PeerMay, After(rest, Len(PeerNeeds)), FALSE)
<1>0. a \in 0 .. Len(s) /\ a + 3 = k + 4 /\ Len(s) \in Nat BY SMT
<1>1. TakeNext([o |-> o, rest |-> After(s, k)]) = Argument(o, t, rest)
  BY Zenon, NextIs
<1>2. t[1] = "opt" /\ t[2] = "--peer" /\ "opt" # "joined" BY DEF Opt
<1>3. TestMode("--peer") = {} /\ LoopMode("--peer") = {} /\ TalkMode("--peer") = {}
  BY DEF TestMode, LoopMode, TalkMode
<1>4. ModeOption("--peer") = {} BY Zenon, <1>3 DEF ModeOption
<1> HIDE DEF t
<1>5. Argument(o, t, rest) = TakePeer(o, rest)
  BY Zenon, <1>2, <1>4, ValueOptionsAre DEF Argument
<1>6. CASE Len(rest) < Len(PeerNeeds)
  <2>1. TakePeer(o, rest) = [o |-> Helped(o), rest |-> rest]
    BY Zenon, <1>6 DEF TakePeer
  <2>2. QED BY Zenon, <1>1, <1>5, <2>1, HelpedHelps
<1>7. CASE ~ (Len(rest) < Len(PeerNeeds))
  <2>1. Len(rest) = Len(s) - a /\ \A j \in 1 .. Len(s) - a : rest[j] = s[a + j]
    <3> HIDE DEF a
    <3>1. QED BY Zenon, <1>0, AfterIs
  <2>2. Len(PeerNeeds) = 8 /\ DOMAIN PeerNeeds = 1 .. 8 /\ PeerNeeds[3] = <<"gain", "gain">>
    BY Zenon, PeerNeedsAre
  <2>3. 3 \in 1 .. Len(s) - a /\ k + 3 < Len(s) /\ 3 \in 1 .. 8
    <3> HIDE DEF rest
    <3>1. QED BY <1>0, <1>7, <2>1, <2>2
  <2> HIDE DEF rest
  <2>4. rest[3] = s[k + 4] BY Zenon, <1>0, <2>1, <2>3
  <2>5. PeerNeeds[3][2] = "gain" BY <2>2
  <2>6. ~ Fits(PeerNeeds, rest)
    BY Zenon, <2>2, <2>3, <2>4, <2>5 DEF Fits
  <2>7. TakePeer(o, rest) = [o |-> Helped(o), rest |-> more.rest]
    BY Zenon, <1>7, <2>6 DEF TakePeer
  <2>8. QED BY Zenon, <1>1, <1>5, <2>7, HelpedHelps
<1>8. QED BY Zenon, <1>6, <1>7

LEMMA WrongIs ==
    ASSUME NEW s, NEW k, NEW o, NEW p, p.wrong = TRUE, Helps(s, k, o)
    PROVE  Answered(s, k, o, p)
  BY Zenon DEF Answered, Refused, Helps

LEMMA OperandsAre == IsOperand(Num(TooManySeconds))
  BY DEF IsOperand, Num, TooManySeconds, Empty, Txt

\* A wrong phrase of an option and a value
WrongStands(S, s, k, P, o, p, option, t) ==
    /\ s \in Seq(S) /\ k \in 0 .. Len(s) /\ k < Len(s) /\ k + 2 <= Len(s) /\ Sound(o, P)
    /\ s[k + 1] = Opt(option) /\ s[k + 2] = t /\ p.wrong = TRUE

LEMMA WrongTwo ==
    ASSUME NEW S, NEW s, NEW k, NEW P, NEW o, NEW p, Ready(S, s, k, P, o, p),
           NEW option, NEW t, p = Wrong(<<Opt(option), t>>)
    PROVE  WrongStands(S, s, k, P, o, p, option, t)
<1>1. /\ Len(p.tokens) = 2 /\ p.tokens[1] = Opt(option) /\ p.tokens[2] = t /\ p.wrong = TRUE
  BY DEF Wrong
<1>2. TwoAt(S, s, k, P, o, p) BY Zenon, <1>1, ReadyTwo
<1>3. QED BY Zenon, <1>1, <1>2 DEF TwoAt, WrongStands

LEMMA WrongAnswered ==
    ASSUME NEW S, NEW s, NEW k, NEW P, NEW o, NEW p, Ready(S, s, k, P, o, p), p \in WrongPhrases
    PROVE  Answered(s, k, o, p)
<1>1. CASE p = Wrong(<<Opt("--input-gain"), Num(9)>>)
  <2>1. WrongStands(S, s, k, P, o, p, "--input-gain", Num(9)) BY Zenon, <1>1, WrongTwo
  <2>2. Read("gain", s[k + 2]) = {} BY Zenon, <2>1, WrongReads DEF WrongStands
  <2>3. Helps(s, k, o)
    BY Zenon, <2>1, <2>2, LineOptionsAre, WrongValue DEF WrongStands
  <2>4. QED BY Zenon, <2>1, <2>3, WrongIs DEF WrongStands
<1>2. CASE p = Wrong(<<Opt("--room"), Num(0)>>)
  <2>1. WrongStands(S, s, k, P, o, p, "--room", Num(0)) BY Zenon, <1>2, WrongTwo
  <2>2. Read("port", s[k + 2]) = {} BY Zenon, <2>1, WrongReads DEF WrongStands
  <2>3. Helps(s, k, o) BY Zenon, <2>1, <2>2, WrongRoom DEF WrongStands
  <2>4. QED BY Zenon, <2>1, <2>3, WrongIs DEF WrongStands
<1>3. CASE p = Wrong(<<Opt("--tone-test"), Num(TooManySeconds)>>)
  <2>1. WrongStands(S, s, k, P, o, p, "--tone-test", Num(TooManySeconds)) BY Zenon, <1>3, WrongTwo
  <2>2. Read("seconds", s[k + 2]) = {} /\ IsOperand(s[k + 2])
    BY Zenon, <2>1, WrongReads, OperandsAre DEF WrongStands
  <2>3. Helps(s, k, o) BY Zenon, <2>1, <2>2, WrongTone DEF WrongStands
  <2>4. QED BY Zenon, <2>1, <2>3, WrongIs DEF WrongStands
<1>4. CASE p = Wrong(<<Joined("--self-duck-hold-ms", Num(TooLongHold))>>)
  <2>1. /\ Len(p.tokens) = 1 /\ p.tokens[1] = Joined("--self-duck-hold-ms", Num(TooLongHold))
        /\ p.wrong = TRUE
    BY <1>4 DEF Wrong
  <2>3. OneAt(S, s, k, P, o, p) BY Zenon, <2>1, ReadyOne
  <2>4. /\ s \in Seq(S) /\ k \in 0 .. Len(s) /\ k < Len(s) /\ Sound(o, P)
        /\ s[k + 1] = Joined("--self-duck-hold-ms", Num(TooLongHold))
    BY Zenon, <2>1, <2>3 DEF OneAt
  <2>5. Helps(s, k, o) BY Zenon, <2>4, WrongHold, WrongJoined
  <2>6. QED BY Zenon, <2>1, <2>5, WrongIs
<1>5. CASE p = Wrong(<<Joined("--telemetry-handle", Num(64))>>)
  <2>1. /\ Len(p.tokens) = 1 /\ p.tokens[1] = Joined("--telemetry-handle", Num(64))
        /\ p.wrong = TRUE
    BY <1>5 DEF Wrong
  <2>3. OneAt(S, s, k, P, o, p) BY Zenon, <2>1, ReadyOne
  <2>4. /\ s \in Seq(S) /\ k \in 0 .. Len(s) /\ k < Len(s) /\ Sound(o, P)
        /\ s[k + 1] = Joined("--telemetry-handle", Num(64))
    BY Zenon, <2>1, <2>3 DEF OneAt
  <2>5. Helps(s, k, o) BY Zenon, <2>4, WrongHandle, WrongJoined
  <2>6. QED BY Zenon, <2>1, <2>5, WrongIs
<1>6. CASE p = Wrong(<<Opt("--peer"), Txt("ann"), Num(Port)>>)
  <2>1. Len(p.tokens) = 3 /\ p.tokens[1] = Opt("--peer") /\ p.wrong = TRUE
    BY <1>6 DEF Wrong
  <2>3. ThreeAt(S, s, k, P, o, p) BY Zenon, <2>1, ReadyThree
  <2>4. /\ s \in Seq(S) /\ k \in 0 .. Len(s) /\ k < Len(s) /\ k + 3 <= Len(s) /\ Sound(o, P)
        /\ s[k + 1] = Opt("--peer") /\ Ahead(s, k + 3)
    BY Zenon, <2>1, <2>3 DEF ThreeAt
  <2>5. k + 3 < Len(s) => Read("gain", s[k + 4]) = {}
    <3> DEFINE n == k + 3
    <3>1. Ahead(s, n) BY Zenon, <2>4
    <3>2. n + 1 = k + 4 BY <2>4
    <3> HIDE DEF n
    <3>3. n < Len(s) => Read("gain", s[n + 1]) = {}
      BY Zenon, <3>1, AheadIs
    <3>4. QED BY Zenon, <3>2, <3>3 DEF n
  <2>6. Helps(s, k, o) BY Zenon, <2>4, <2>5, WrongPeer
  <2>7. QED BY Zenon, <2>1, <2>6, WrongIs
<1>7. CASE p = Wrong(<<Txt("stray")>>)
  <2>1. Len(p.tokens) = 1 /\ p.tokens[1] = Stray /\ p.wrong = TRUE
    BY <1>7 DEF Wrong, Stray
  <2>3. OneAt(S, s, k, P, o, p) BY Zenon, <2>1, ReadyOne
  <2>4. /\ s \in Seq(S) /\ k \in 0 .. Len(s) /\ k < Len(s) /\ Sound(o, P) /\ s[k + 1] = Stray
    BY Zenon, <2>1, <2>3 DEF OneAt
  <2>5. Helps(s, k, o) BY Zenon, <2>4, WrongStray
  <2>6. QED BY Zenon, <2>1, <2>5, WrongIs
<1>8. QED BY Zenon, <1>1, <1>2, <1>3, <1>4, <1>5, <1>6, <1>7 DEF WrongPhrases

-----------------------------------------------------------------------------
(* A contact.                                                               *)

\* Nine tokens that begin a contact, and its record
PeerTokens(p) ==
    /\ p.tokens[1] = Opt("--peer") /\ p.tokens[2] = Txt("ann") /\ p.tokens[3] = Num(Port)
    /\ p.tokens[4] = Dec(HalfLouder) /\ p.tokens[5] = Num(12) /\ p.tokens[6] = Dec(Fifth)
    /\ p.tokens[7] = Num(8) /\ p.tokens[8] = Num(80) /\ p.tokens[9] = Num(120)
PeerRecord(ptt, buffer) ==
    [host |-> Txt("ann"), port |-> Port, gain |-> HalfLouder, db |-> 12 * Unit,
     threshold |-> Fifth, attack |-> 8, hold |-> 80, release |-> 120,
     ptt |-> ptt, buffer |-> buffer]

RecordOf(t, ptt, buffer) == IsPeer(t) /\ t.ptt = ptt /\ t.buffer = buffer

LEMMA RecordIs ==
    ASSUME NEW ptt, NEW buffer PROVE RecordOf(PeerRecord(ptt, buffer), ptt, buffer)
<1> DEFINE T == PeerRecord(ptt, buffer)
<1>1. T = [f \in DOMAIN T |-> T[f]] BY DEF PeerRecord
<1>2. DOMAIN T = {"host", "port", "gain", "db", "threshold", "attack", "hold", "release",
                  "ptt", "buffer"}
  BY Zenon DEF PeerRecord
<1>3. T.ptt = ptt /\ T.buffer = buffer BY DEF PeerRecord
<1> HIDE DEF T
<1>4. DOMAIN T = NeededFields \cup {"ptt", "buffer"}
  BY <1>2 DEF NeededFields
<1>5. IsPeer(T) BY Zenon, <1>1, <1>4 DEF IsPeer
<1>6. QED BY Zenon, <1>3, <1>5 DEF T, RecordOf

LEMMA RecordNeeded ==
    ASSUME NEW s, NEW k, NEW p, PeerTokens(p),
           \A j \in 1 .. 9 : s[k + j] = p.tokens[j], NEW ptt, NEW buffer
    PROVE  PeerNeeded(s, k, PeerRecord(ptt, buffer))
<1> DEFINE T == PeerRecord(ptt, buffer)
<1>1. /\ 1 \in 1 .. 9 /\ 2 \in 1 .. 9 /\ 3 \in 1 .. 9 /\ 4 \in 1 .. 9 /\ 5 \in 1 .. 9
      /\ 6 \in 1 .. 9 /\ 7 \in 1 .. 9 /\ 8 \in 1 .. 9 /\ 9 \in 1 .. 9
  BY SMT
<1>2. /\ s[k + 1] = Opt("--peer") /\ s[k + 2] = Txt("ann") /\ s[k + 3] = Num(Port)
      /\ s[k + 4] = Dec(HalfLouder) /\ s[k + 5] = Num(12) /\ s[k + 6] = Dec(Fifth)
      /\ s[k + 7] = Num(8) /\ s[k + 8] = Num(80) /\ s[k + 9] = Num(120)
  BY Zenon, <1>1 DEF PeerTokens
<1>3. /\ T.host = Txt("ann") /\ T.port = Port /\ T.gain = HalfLouder /\ T.db = 12 * Unit
      /\ T.threshold = Fifth /\ T.attack = 8 /\ T.hold = 80 /\ T.release = 120
  BY DEF PeerRecord
<1> HIDE DEF T
<1>4. PeerNeeded(s, k, T)
  BY Zenon, <1>2, <1>3, TextReads, WholeReads, DecimalReads DEF PeerNeeded
<1>5. QED BY Zenon, <1>4 DEF T

\* The contact is put behind the others.
LEMMA PeerPut ==
    ASSUME NEW P, NEW o, Sound(o, P), NEW p, NEW T, DOMAIN p.sets = {"peer"}, p.sets.peer = T
    PROVE  Put(p, o) = [o EXCEPT !.peers = Append(@, T)]
<1>1. DOMAIN o = OptionFields /\ o.peers \in Seq(P) /\ "peer" \notin OptionFields
      /\ "peers" \in OptionFields
  BY DEF Sound, OptionFields
<1>2. PeerOf(p) = <<T>> BY Zenon DEF PeerOf
<1>3. o.peers \o <<T>> = Append(o.peers, T) BY <1>1
<1> DEFINE u == Put(p, o)
           w == [o EXCEPT !.peers = Append(@, T)]
<1>4. /\ u = [f \in OptionFields |-> u[f]]
      /\ \A f \in OptionFields : u[f] = IF f = "peers" THEN Append(o.peers, T) ELSE o[f]
  BY Zenon, <1>1, <1>2, <1>3 DEF Put
<1>5. /\ w = [f \in OptionFields |-> w[f]]
      /\ \A f \in OptionFields : w[f] = IF f = "peers" THEN Append(o.peers, T) ELSE o[f]
  <2> DEFINE v == Append(o.peers, T)
  <2>1. w = [o EXCEPT !["peers"] = v] BY Zenon
  <2> HIDE DEF v, w
  <2>2. /\ w = [f \in DOMAIN o |-> w[f]]
        /\ \A f \in DOMAIN o : w[f] = IF f = "peers" THEN v ELSE o[f]
    BY Zenon, <2>1
  <2>3. QED BY Zenon, <1>1, <2>2 DEF v
<1> HIDE DEF u, w
<1>6. \A f \in OptionFields : u[f] = w[f] BY <1>4, <1>5
<1>7. u = w BY Zenon, <1>4, <1>5, <1>6
<1>8. QED BY Zenon, <1>7 DEF u, w

\* What a contact's phrase is made of
PeerPhraseOf(p, more, ptt, buffer) ==
    /\ PeerTokens(p) /\ Len(p.tokens) = 9 + Len(more) /\ p.wrong = FALSE
    /\ \A j \in 1 .. Len(more) : p.tokens[9 + j] = more[j]
    /\ DOMAIN p.sets = {"peer"} /\ p.sets.peer = PeerRecord(ptt, buffer)

LEMMA PeerPhraseIs ==
    ASSUME NEW S, NumericPeer \in Seq(S), NEW more \in Seq(S), NEW ptt, NEW buffer,
           NEW p, p = PeerPhrase(more, ptt, buffer)
    PROVE  PeerPhraseOf(p, more, ptt, buffer)
<1> DEFINE a == NumericPeer
           t == NumericPeer \o more
           sets == [peer |-> PeerRecord(ptt, buffer)]
<1>1. p = [tokens |-> t, sets |-> sets, wrong |-> FALSE]
  BY Zenon DEF PeerPhrase, PeerRecord, Phrase
<1>2. /\ Len(a) = 9 /\ a[1] = Opt("--peer") /\ a[2] = Txt("ann") /\ a[3] = Num(Port)
      /\ a[4] = Dec(HalfLouder) /\ a[5] = Num(12) /\ a[6] = Dec(Fifth)
      /\ a[7] = Num(8) /\ a[8] = Num(80) /\ a[9] = Num(120)
  BY DEF NumericPeer
<1>3. DOMAIN sets = {"peer"} /\ sets.peer = PeerRecord(ptt, buffer)
  BY Zenon
<1>4. a \in Seq(S) /\ more \in Seq(S) BY Zenon
<1> HIDE DEF sets, t
<1>5. p.tokens = t /\ p.sets = sets /\ p.wrong = FALSE BY <1>1
<1>6. /\ Len(t) = Len(a) + Len(more)
      /\ \A j \in 1 .. Len(a) : t[j] = a[j]
      /\ \A j \in 1 .. Len(more) : t[Len(a) + j] = more[j]
  <2> HIDE DEF a
  <2>1. /\ Len(a \o more) = Len(a) + Len(more)
        /\ \A j \in 1 .. Len(a) : (a \o more)[j] = a[j]
        /\ \A j \in 1 .. Len(more) : (a \o more)[Len(a) + j] = more[j]
    BY <1>4, ConcatIs
  <2>2. QED BY Zenon, <2>1 DEF a, t
<1> HIDE DEF a, t
<1>7. /\ 1 \in 1 .. 9 /\ 2 \in 1 .. 9 /\ 3 \in 1 .. 9 /\ 4 \in 1 .. 9 /\ 5 \in 1 .. 9
      /\ 6 \in 1 .. 9 /\ 7 \in 1 .. 9 /\ 8 \in 1 .. 9 /\ 9 \in 1 .. 9
  BY SMT
<1>8. PeerTokens(p)
  <2>1. \A j \in 1 .. 9 : p.tokens[j] = a[j]
    BY Zenon, <1>2, <1>5, <1>6
  <2>2. QED BY Zenon, <1>2, <1>7, <2>1 DEF PeerTokens
<1>9. QED BY Zenon, <1>2, <1>3, <1>5, <1>6, <1>8 DEF PeerPhraseOf

\* The places of a contact's tokens
PeerStands(S, s, k, P, o, p, n) ==
    /\ s \in Seq(S) /\ k \in 0 .. Len(s) /\ k + 9 <= Len(s) /\ Sound(o, P)
    /\ \A j \in 1 .. 9 : s[k + j] = p.tokens[j]
    /\ k + 9 \in 0 .. Len(s)
    /\ n >= 1 => k + 9 < Len(s) /\ k + 10 \in 0 .. Len(s) /\ s[k + 10] = p.tokens[10]
                 /\ (k + 9) + 1 = k + 10
    /\ n = 2 => k + 10 < Len(s) /\ s[k + 11] = p.tokens[11] /\ (k + 10) + 1 = k + 11

LEMMA PeerReady ==
    ASSUME NEW S, NEW s, NEW k, NEW P, NEW o, NEW p, Ready(S, s, k, P, o, p),
           NEW n \in 0 .. 2, Len(p.tokens) = 9 + n
    PROVE  PeerStands(S, s, k, P, o, p, n)
<1>1. s \in Seq(S) /\ Len(s) \in Nat /\ k \in 0 .. Len(s) /\ Sound(o, P)
      /\ k + (9 + n) <= Len(s)
  BY Zenon, LenProperties DEF Ready
<1>2. \A j \in 1 .. 9 + n : s[k + j] = p.tokens[j]
  BY Zenon DEF Ready, PhraseAt
<1>3. /\ k + 9 <= Len(s) /\ k + 9 \in 0 .. Len(s) /\ \A j \in 1 .. 9 : j \in 1 .. 9 + n
  BY <1>1
<1>4. /\ n >= 1 => /\ k + 9 < Len(s) /\ k + 10 \in 0 .. Len(s) /\ 10 \in 1 .. 9 + n
                   /\ (k + 9) + 1 = k + 10
      /\ n = 2 => k + 10 < Len(s) /\ (k + 10) + 1 = k + 11 /\ 11 \in 1 .. 9 + n
  BY <1>1
<1>5. QED BY Zenon, <1>1, <1>2, <1>3, <1>4 DEF PeerStands

LEMMA PeerPhraseAnswered ==
    ASSUME NEW S, NEW s \in Seq(S), NEW k \in 0 .. Len(s), k + 9 <= Len(s),
           NEW P, NEW o, Sound(o, P), NEW p, p.wrong = FALSE,
           NEW ptt, NEW buffer, PeerNeeded(s, k, PeerRecord(ptt, buffer)),
           DOMAIN p.sets = {"peer"}, p.sets.peer = PeerRecord(ptt, buffer),
           PeerFollowed(s, k, PeerRecord(ptt, buffer), k + Len(p.tokens))
    PROVE  Answered(s, k, o, p)
<1> DEFINE T == PeerRecord(ptt, buffer)
           n == k + Len(p.tokens)
<1>1. PeerNeeded(s, k, T) BY Zenon
<1>2. IsPeer(T) BY Zenon, RecordIs DEF RecordOf
<1>3. PeerFollowed(s, k, T, n) BY Zenon
<1>4. p.sets.peer = T BY Zenon
<1> HIDE DEF T, n
<1>5. Reads(s, k, o, n, [o EXCEPT !.peers = Append(@, T)])
  BY Zenon, <1>1, <1>2, <1>3, PeerIsTaken
<1>6. Put(p, o) = [o EXCEPT !.peers = Append(@, T)]
  BY Zenon, <1>4, PeerPut
<1>7. Understood(s, k, o, p) BY Zenon, <1>5, <1>6 DEF Understood, n
<1>8. "mode" # "peer" BY SMT
<1>9. ~ Refused(o, p) BY Zenon, <1>8 DEF Refused
<1>10. QED BY Zenon, <1>7, <1>9 DEF Answered

LEMMA PeerAnswered ==
    ASSUME NEW S, NEW s, NEW k, NEW P, NEW o, NEW p, Ready(S, s, k, P, o, p), p \in PeerPhrases
    PROVE  Answered(s, k, o, p)
<1> DEFINE C == {Opt("--peer"), Txt("ann"), Num(Port), Dec(HalfLouder), Num(12), Dec(Fifth),
                 Num(8), Num(80), Num(120), Num(0), Num(40)}
<1>1. NumericPeer \in Seq(C) /\ <<>> \in Seq(C) /\ <<Num(0), Num(40)>> \in Seq(C)
      /\ <<Num(40)>> \in Seq(C)
  BY DEF NumericPeer
<1> HIDE DEF C
<1>2. CASE p = PeerPhrase(<<>>, TRUE, 20)
  <2>1. /\ PeerTokens(p) /\ Len(p.tokens) = 9 + Len(<<>>) /\ p.wrong = FALSE
        /\ DOMAIN p.sets = {"peer"} /\ p.sets.peer = PeerRecord(TRUE, 20)
    <3> DEFINE more == <<>>
    <3>1. more \in Seq(C) /\ p = PeerPhrase(more, TRUE, 20)
      BY Zenon, <1>1, <1>2
    <3> HIDE DEF more
    <3>2. PeerPhraseOf(p, more, TRUE, 20)
      BY Zenon, <1>1, <3>1, PeerPhraseIs
    <3>3. QED BY Zenon, <3>2 DEF PeerPhraseOf, more
  <2>2. Len(p.tokens) = 9 + 0 /\ 0 \in 0 .. 2 /\ Len(p.tokens) = 9
    BY <2>1
  <2>3. /\ s \in Seq(S) /\ k \in 0 .. Len(s) /\ k + 9 <= Len(s) /\ Sound(o, P)
        /\ \A j \in 1 .. 9 : s[k + j] = p.tokens[j]
        /\ k + 9 \in 0 .. Len(s)
    <3> DEFINE n == 0
    <3>1. n \in 0 .. 2 /\ Len(p.tokens) = 9 + n BY Zenon, <2>2
    <3> HIDE DEF n
    <3>2. PeerStands(S, s, k, P, o, p, n) BY Zenon, <3>1, PeerReady
    <3>3. QED BY Zenon, <3>1, <3>2 DEF PeerStands
  <2> DEFINE T == PeerRecord(TRUE, 20)
             m == k + 9
  <2>4. T.ptt = TRUE /\ T.buffer = 20 BY DEF PeerRecord
  <2>5. Ahead(s, m) BY Zenon, <2>2 DEF Ready
  <2>6. DOMAIN PeerPresets = {"ptt", "buffer"} /\ PeerPresets["ptt"] = TRUE
        /\ PeerPresets["buffer"] = 20
    BY DEF PeerPresets
  <2>7. m \in 0 .. Len(s) /\ s \in Seq(S) BY Zenon, <2>3
  <2> HIDE DEF m, T
  <2>8. NoMore(s, m, "flag", FALSE) /\ NoMore(s, m, "buffer", FALSE)
    BY Zenon, <2>5, AheadIs
  <2>9. Goes(s, PeerMay, 1, FALSE, PeerPresets, m, PeerPresets, m)
    BY Zenon, <2>7, <2>8, PeerMayAre, MayNot
  <2>10. Goes(s, PeerMay, 2, FALSE, PeerPresets, m, PeerPresets, m)
    BY Zenon, <2>7, <2>8, PeerMayAre, MayNot
  <2>11. Follows(s, PeerMay, FALSE, PeerPresets, m, PeerPresets, m)
    BY Zenon, <2>9, <2>10, TwoFollow
  <2>12. PeerFollowed(s, k, T, k + Len(p.tokens))
    BY Zenon, <2>2, <2>4, <2>6, <2>11 DEF PeerFollowed, Follows, m
  <2>14. PeerNeeded(s, k, T) BY Zenon, <2>1, <2>3, RecordNeeded DEF T
  <2>13. QED BY Zenon, <2>1, <2>3, <2>12, <2>14, PeerPhraseAnswered DEF T
<1>3. CASE p = PeerPhrase(<<Num(0), Num(40)>>, FALSE, 40)
  <2> DEFINE more == <<Num(0), Num(40)>>
  <2>20. Len(more) = 2 /\ 1 \in 1 .. 2 /\ 2 \in 1 .. 2 /\ 9 + 1 = 10 /\ 9 + 2 = 11
         /\ more[1] = Num(0) /\ more[2] = Num(40)
    BY SMT
  <2>21. more \in Seq(C) /\ p = PeerPhrase(more, FALSE, 40)
    BY Zenon, <1>1, <1>3
  <2> HIDE DEF more
  <2>1. /\ PeerTokens(p) /\ Len(p.tokens) = 9 + Len(more) /\ p.wrong = FALSE
        /\ DOMAIN p.sets = {"peer"} /\ p.sets.peer = PeerRecord(FALSE, 40)
        /\ \A j \in 1 .. Len(more) : p.tokens[9 + j] = more[j]
    <3>1. PeerPhraseOf(p, more, FALSE, 40)
      BY Zenon, <1>1, <2>21, PeerPhraseIs
    <3>2. QED BY Zenon, <3>1 DEF PeerPhraseOf
  <2>2. /\ Len(p.tokens) = 9 + 2 /\ 2 \in 0 .. 2 /\ Len(p.tokens) = 11 /\ 2 >= 1
        /\ p.tokens[10] = Num(0) /\ p.tokens[11] = Num(40)
    <3>1. Len(p.tokens) = 9 + 2 /\ 2 \in 0 .. 2 /\ Len(p.tokens) = 11 /\ 2 >= 1
      BY <2>1, <2>20
    <3>2. p.tokens[10] = Num(0) /\ p.tokens[11] = Num(40)
      BY Zenon, <2>1, <2>20
    <3>3. QED BY Zenon, <3>1, <3>2
  <2>3. /\ s \in Seq(S) /\ k \in 0 .. Len(s) /\ k + 9 <= Len(s) /\ Sound(o, P)
        /\ \A j \in 1 .. 9 : s[k + j] = p.tokens[j]
        /\ k + 9 \in 0 .. Len(s)
        /\ k + 9 < Len(s) /\ k + 10 \in 0 .. Len(s) /\ s[k + 10] = p.tokens[10]
        /\ (k + 9) + 1 = k + 10
        /\ k + 10 < Len(s) /\ s[k + 11] = p.tokens[11] /\ (k + 10) + 1 = k + 11
    <3> DEFINE n == 2
    <3>1. n \in 0 .. 2 /\ Len(p.tokens) = 9 + n /\ n >= 1 /\ n = 2
      BY Zenon, <2>2
    <3> HIDE DEF n
    <3>2. PeerStands(S, s, k, P, o, p, n) BY Zenon, <3>1, PeerReady
    <3>3. QED BY Zenon, <3>1, <3>2 DEF PeerStands
  <2> DEFINE T == PeerRecord(FALSE, 40)
             one == [PeerPresets EXCEPT !["ptt"] = FALSE]
             two == [one EXCEPT !["buffer"] = 40]
             m == k + 9
             n == k + 10
  <2>4. T.ptt = FALSE /\ T.buffer = 40 BY DEF PeerRecord
  <2>5. StandsFor(s, m, "flag", FALSE) /\ StandsFor(s, n, "buffer", 40)
    <3>1. s[m + 1] = Num(0) /\ s[n + 1] = Num(40) BY Zenon, <2>2, <2>3
    <3> HIDE DEF m, n
    <3>2. QED BY Zenon, <3>1, FlagReads, WholeReads DEF StandsFor
  <2>6. m \in 0 .. Len(s) /\ m < Len(s) /\ n \in 0 .. Len(s) /\ n < Len(s) /\ s \in Seq(S)
    BY Zenon, <2>3
  <2>7. m + 1 = n /\ n + 1 = k + 11 BY Zenon, <2>3
  <2>8. DOMAIN two = {"ptt", "buffer"} /\ two["ptt"] = FALSE /\ two["buffer"] = 40
    BY DEF PeerPresets
  <2> HIDE DEF one, two, m, n, T
  <2>9. Goes(s, PeerMay, 1, FALSE, PeerPresets, m, one, m + 1)
    BY Zenon, <2>5, <2>6, PeerMayAre, MayTaken DEF one
  <2>10. Goes(s, PeerMay, 2, FALSE, one, n, two, n + 1)
    BY Zenon, <2>5, <2>6, PeerMayAre, MayTaken DEF two
  <2>11. Follows(s, PeerMay, FALSE, PeerPresets, m, two, n + 1)
    BY Zenon, <2>7, <2>9, <2>10, TwoFollow
  <2>12. PeerFollowed(s, k, T, k + Len(p.tokens))
    BY Zenon, <2>2, <2>4, <2>7, <2>8, <2>11 DEF PeerFollowed, Follows, m
  <2>14. PeerNeeded(s, k, T) BY Zenon, <2>1, <2>3, RecordNeeded DEF T
  <2>13. QED BY Zenon, <2>1, <2>3, <2>12, <2>14, PeerPhraseAnswered DEF T
<1>4. CASE p = PeerPhrase(<<Num(40)>>, TRUE, 40)
  <2> DEFINE more == <<Num(40)>>
  <2>20. Len(more) = 1 /\ 1 \in 1 .. 1 /\ 9 + 1 = 10 /\ more[1] = Num(40)
    BY SMT
  <2>21. more \in Seq(C) /\ p = PeerPhrase(more, TRUE, 40)
    BY Zenon, <1>1, <1>4
  <2> HIDE DEF more
  <2>1. /\ PeerTokens(p) /\ Len(p.tokens) = 9 + Len(more) /\ p.wrong = FALSE
        /\ DOMAIN p.sets = {"peer"} /\ p.sets.peer = PeerRecord(TRUE, 40)
        /\ \A j \in 1 .. Len(more) : p.tokens[9 + j] = more[j]
    <3>1. PeerPhraseOf(p, more, TRUE, 40)
      BY Zenon, <1>1, <2>21, PeerPhraseIs
    <3>2. QED BY Zenon, <3>1 DEF PeerPhraseOf
  <2>2. /\ Len(p.tokens) = 9 + 1 /\ 1 \in 0 .. 2 /\ Len(p.tokens) = 10 /\ 1 >= 1
        /\ p.tokens[10] = Num(40)
    <3>1. Len(p.tokens) = 9 + 1 /\ 1 \in 0 .. 2 /\ Len(p.tokens) = 10 /\ 1 >= 1
      BY <2>1, <2>20
    <3>2. p.tokens[10] = Num(40) BY Zenon, <2>1, <2>20
    <3>3. QED BY Zenon, <3>1, <3>2
  <2>3. /\ s \in Seq(S) /\ k \in 0 .. Len(s) /\ k + 9 <= Len(s) /\ Sound(o, P)
        /\ \A j \in 1 .. 9 : s[k + j] = p.tokens[j]
        /\ k + 9 \in 0 .. Len(s)
        /\ k + 9 < Len(s) /\ s[k + 10] = p.tokens[10] /\ (k + 9) + 1 = k + 10
    <3> DEFINE n == 1
    <3>1. n \in 0 .. 2 /\ Len(p.tokens) = 9 + n /\ n >= 1
      BY Zenon, <2>2
    <3> HIDE DEF n
    <3>2. PeerStands(S, s, k, P, o, p, n) BY Zenon, <3>1, PeerReady
    <3>3. QED BY Zenon, <3>1, <3>2 DEF PeerStands
  <2> DEFINE T == PeerRecord(TRUE, 40)
             two == [PeerPresets EXCEPT !["buffer"] = 40]
             m == k + 9
  <2>4. T.ptt = TRUE /\ T.buffer = 40 BY DEF PeerRecord
  <2>5. StandsFor(s, m, "buffer", 40) /\ Read("flag", s[m + 1]) = {}
    BY Zenon, <2>2, <2>3, FlagReads, WholeReads DEF StandsFor
  <2>6. m \in 0 .. Len(s) /\ m < Len(s) /\ s \in Seq(S) /\ m + 1 = k + 10
    BY Zenon, <2>3
  <2>8. DOMAIN two = {"ptt", "buffer"} /\ two["ptt"] = TRUE /\ two["buffer"] = 40
    BY DEF PeerPresets
  <2> HIDE DEF two, m, T
  <2>7. NoMore(s, m, "flag", FALSE) BY Zenon, <2>5, <2>6 DEF NoMore
  <2>9. Goes(s, PeerMay, 1, FALSE, PeerPresets, m, PeerPresets, m)
    BY Zenon, <2>6, <2>7, PeerMayAre, MayNot
  <2>10. Goes(s, PeerMay, 2, FALSE, PeerPresets, m, two, m + 1)
    BY Zenon, <2>5, <2>6, PeerMayAre, MayTaken DEF two
  <2>11. Follows(s, PeerMay, FALSE, PeerPresets, m, two, m + 1)
    BY Zenon, <2>9, <2>10, TwoFollow
  <2>12. PeerFollowed(s, k, T, k + Len(p.tokens))
    BY Zenon, <2>2, <2>4, <2>6, <2>8, <2>11 DEF PeerFollowed, Follows, m
  <2>14. PeerNeeded(s, k, T) BY Zenon, <2>1, <2>3, RecordNeeded DEF T
  <2>13. QED BY Zenon, <2>1, <2>3, <2>12, <2>14, PeerPhraseAnswered DEF T
<1>5. QED BY Zenon, <1>2, <1>3, <1>4 DEF PeerPhrases

\* Any phrase
LEMMA PhraseAnswered ==
    ASSUME NEW S, NEW s, NEW k, NEW P, NEW o, NEW p, Ready(S, s, k, P, o, p), p \in Phrases
    PROVE  Answered(s, k, o, p)
  BY Zenon, SettingAnswered, ModeAnswered, PeerAnswered, WrongAnswered DEF Phrases

-----------------------------------------------------------------------------
(* What all phrases have in common.                                         *)

\* All that phrases are made of
Written == UNION {{p.tokens[j] : j \in 1 .. Len(p.tokens)} : p \in Phrases}

PeersMeant == {PeerRecord(TRUE, 20), PeerRecord(FALSE, 40), PeerRecord(TRUE, 40)}

IsPhrase(p) ==
    /\ (\E S : p.tokens \in Seq(S)) /\ Len(p.tokens) >= 1
    /\ Begins(p.tokens[1]) \/ (p.tokens[1] = Stray /\ p.wrong = TRUE)
    /\ "help" \notin DOMAIN p.sets /\ "peers" \notin DOMAIN p.sets
    /\ "mode" \in DOMAIN p.sets => p.sets["mode"] # "probe"
    /\ "peer" \in DOMAIN p.sets => p.sets.peer \in PeersMeant

LEMMA OptBegins == ASSUME NEW s, s # "/?" PROVE Begins(Opt(s)) /\ \A t : Begins(Joined(s, t))
  BY DEF Begins, Opt, Joined

LEMMA SettingIsPhrase == ASSUME NEW p \in SettingPhrases PROVE IsPhrase(p)
<1>1. CASE p = Phrase(<<Opt("--test-seconds"), Num(30)>>, [seconds |-> 30])
  <2> DEFINE Own == {Opt("--test-seconds"), Num(30)}
  <2>1. Opt("--test-seconds") \in Own /\ Num(30) \in Own BY Zenon
  <2> HIDE DEF Own
  <2>2. /\ p.tokens \in Seq(Own) /\ Len(p.tokens) >= 1 /\ p.tokens[1] = Opt("--test-seconds")
        /\ DOMAIN p.sets = {"seconds"}
    BY <1>1, <2>1 DEF Phrase
  <2>3. QED BY <2>2 DEF IsPhrase, Begins, Opt, Joined
<1>2. CASE p = Phrase(<<Opt("--input-gain"), Dec(HalfLouder)>>, [inputGain |-> HalfLouder])
  <2> DEFINE Own == {Opt("--input-gain"), Dec(HalfLouder)}
  <2>1. Opt("--input-gain") \in Own /\ Dec(HalfLouder) \in Own
    BY Zenon
  <2> HIDE DEF Own
  <2>2. /\ p.tokens \in Seq(Own) /\ Len(p.tokens) >= 1 /\ p.tokens[1] = Opt("--input-gain")
        /\ DOMAIN p.sets = {"inputGain"}
    BY <1>2, <2>1 DEF Phrase
  <2>3. QED BY <2>2 DEF IsPhrase, Begins, Opt, Joined
<1>3. CASE p = Phrase(<<Joined("--input-gain", Num(8))>>, [inputGain |-> 8 * Unit])
  <2> DEFINE Own == {Joined("--input-gain", Num(8))}
  <2>1. Joined("--input-gain", Num(8)) \in Own BY Zenon
  <2> HIDE DEF Own
  <2>2. /\ p.tokens \in Seq(Own) /\ Len(p.tokens) >= 1
        /\ p.tokens[1] = Joined("--input-gain", Num(8)) /\ DOMAIN p.sets = {"inputGain"}
    BY <1>3, <2>1 DEF Phrase
  <2>3. QED BY <2>2 DEF IsPhrase, Begins, Opt, Joined
<1>4. CASE p = Phrase(<<Joined("--capture-device", Txt("mic"))>>, [captureDevice |-> Txt("mic")])
  <2> DEFINE Own == {Joined("--capture-device", Txt("mic"))}
  <2>1. Joined("--capture-device", Txt("mic")) \in Own BY Zenon
  <2> HIDE DEF Own
  <2>2. /\ p.tokens \in Seq(Own) /\ Len(p.tokens) >= 1
        /\ p.tokens[1] = Joined("--capture-device", Txt("mic"))
        /\ DOMAIN p.sets = {"captureDevice"}
    BY <1>4, <2>1 DEF Phrase
  <2>3. QED BY <2>2 DEF IsPhrase, Begins, Opt, Joined
<1>5. CASE p = Phrase(<<Opt("--self-duck-release-ms"), Num(LongestRelease)>>,
                      [duckRelease |-> LongestRelease])
  <2> DEFINE Own == {Opt("--self-duck-release-ms"), Num(LongestRelease)}
  <2>1. Opt("--self-duck-release-ms") \in Own /\ Num(LongestRelease) \in Own
    BY Zenon
  <2> HIDE DEF Own
  <2>2. /\ p.tokens \in Seq(Own) /\ Len(p.tokens) >= 1
        /\ p.tokens[1] = Opt("--self-duck-release-ms") /\ DOMAIN p.sets = {"duckRelease"}
    BY <1>5, <2>1 DEF Phrase
  <2>3. QED BY <2>2 DEF IsPhrase, Begins, Opt, Joined
<1>6. CASE p = Phrase(<<Opt("--telemetry-handle"), Num(64)>>, [telemetry |-> 64])
  <2> DEFINE Own == {Opt("--telemetry-handle"), Num(64)}
  <2>1. Opt("--telemetry-handle") \in Own /\ Num(64) \in Own BY Zenon
  <2> HIDE DEF Own
  <2>2. /\ p.tokens \in Seq(Own) /\ Len(p.tokens) >= 1
        /\ p.tokens[1] = Opt("--telemetry-handle") /\ DOMAIN p.sets = {"telemetry"}
    BY <1>6, <2>1 DEF Phrase
  <2>3. QED BY <2>2 DEF IsPhrase, Begins, Opt, Joined
<1>7. CASE p = Phrase(<<Opt("--listen-only")>>, [listenOnly |-> TRUE])
  <2> DEFINE Own == {Opt("--listen-only")}
  <2>1. Opt("--listen-only") \in Own BY Zenon
  <2> HIDE DEF Own
  <2>2. /\ p.tokens \in Seq(Own) /\ Len(p.tokens) >= 1 /\ p.tokens[1] = Opt("--listen-only")
        /\ DOMAIN p.sets = {"listenOnly"}
    BY <1>7, <2>1 DEF Phrase
  <2>3. QED BY <2>2 DEF IsPhrase, Begins, Opt, Joined
<1>8. QED BY Zenon, <1>1, <1>2, <1>3, <1>4, <1>5, <1>6, <1>7 DEF SettingPhrases

LEMMA ModeIsPhrase == ASSUME NEW p \in ModePhrases PROVE IsPhrase(p)
<1>1. CASE p = Phrase(<<Opt("--room"), Num(Port)>>,
                      [mode |-> "room", localPort |-> Port, seconds |-> 0])
  <2> DEFINE Own == {Opt("--room"), Num(Port)}
  <2>1. Opt("--room") \in Own /\ Num(Port) \in Own BY Zenon
  <2> HIDE DEF Own
  <2>2. /\ p.tokens \in Seq(Own) /\ Len(p.tokens) >= 1 /\ p.tokens[1] = Opt("--room")
        /\ DOMAIN p.sets = {"mode", "localPort", "seconds"} /\ p.sets["mode"] # "probe"
    BY <1>1, <2>1 DEF Phrase
  <2>3. QED BY <2>2 DEF IsPhrase, Begins, Opt, Joined
<1>2. CASE p = Phrase(<<Opt("--capture-test")>>, [mode |-> "capture_test", captureSeconds |-> 5])
  <2> DEFINE Own == {Opt("--capture-test")}
  <2>1. Opt("--capture-test") \in Own BY Zenon
  <2> HIDE DEF Own
  <2>2. /\ p.tokens \in Seq(Own) /\ Len(p.tokens) >= 1 /\ p.tokens[1] = Opt("--capture-test")
        /\ DOMAIN p.sets = {"mode", "captureSeconds"} /\ p.sets["mode"] # "probe"
    BY <1>2, <2>1 DEF Phrase
  <2>3. QED BY <2>2 DEF IsPhrase, Begins, Opt, Joined
<1>3. CASE p = Phrase(<<Joined("--capture-test", Num(7))>>,
                      [mode |-> "capture_test", captureSeconds |-> 7])
  <2> DEFINE Own == {Joined("--capture-test", Num(7))}
  <2>1. Joined("--capture-test", Num(7)) \in Own BY Zenon
  <2> HIDE DEF Own
  <2>2. /\ p.tokens \in Seq(Own) /\ Len(p.tokens) >= 1
        /\ p.tokens[1] = Joined("--capture-test", Num(7))
        /\ DOMAIN p.sets = {"mode", "captureSeconds"} /\ p.sets["mode"] # "probe"
    BY <1>3, <2>1 DEF Phrase
  <2>3. QED BY <2>2 DEF IsPhrase, Begins, Opt, Joined
<1>4. CASE p = Phrase(<<Opt("--udp-recv"), Num(Port), Num(3)>>,
                      [mode |-> "udp_recv", port |-> Port, seconds |-> 3])
  <2> DEFINE Own == {Opt("--udp-recv"), Num(Port), Num(3)}
  <2>1. Opt("--udp-recv") \in Own /\ Num(Port) \in Own /\ Num(3) \in Own
    BY Zenon
  <2> HIDE DEF Own
  <2>2. /\ p.tokens \in Seq(Own) /\ Len(p.tokens) >= 1 /\ p.tokens[1] = Opt("--udp-recv")
        /\ DOMAIN p.sets = {"mode", "port", "seconds"} /\ p.sets["mode"] # "probe"
    BY <1>4, <2>1 DEF Phrase
  <2>3. QED BY <2>2 DEF IsPhrase, Begins, Opt, Joined
<1>5. CASE p = Phrase(<<Opt("--udp-audio-loopback"), Num(3), Num(Port)>>,
                      [mode |-> "udp_audio_loopback", seconds |-> 3, port |-> Port,
                       host |-> Txt("127.0.0.1")])
  <2> DEFINE Own == {Opt("--udp-audio-loopback"), Num(Port), Num(3)}
  <2>1. Opt("--udp-audio-loopback") \in Own /\ Num(Port) \in Own /\ Num(3) \in Own
    BY Zenon
  <2> HIDE DEF Own
  <2>2. /\ p.tokens \in Seq(Own) /\ Len(p.tokens) >= 1
        /\ p.tokens[1] = Opt("--udp-audio-loopback")
        /\ DOMAIN p.sets = {"mode", "seconds", "port", "host"} /\ p.sets["mode"] # "probe"
    BY <1>5, <2>1 DEF Phrase
  <2>3. QED BY <2>2 DEF IsPhrase, Begins, Opt, Joined
<1>6. QED BY Zenon, <1>1, <1>2, <1>3, <1>4, <1>5 DEF ModePhrases

LEMMA PeerIsPhrase == ASSUME NEW p \in PeerPhrases PROVE IsPhrase(p)
<1> DEFINE Own == {Opt("--peer"), Txt("ann"), Num(Port), Dec(HalfLouder), Num(12), Dec(Fifth), Num(8),
                  Num(80), Num(120), Num(0), Num(40)}
<1>1. /\ Opt("--peer") \in Own /\ Txt("ann") \in Own /\ Num(Port) \in Own
      /\ Dec(HalfLouder) \in Own /\ Num(12) \in Own /\ Dec(Fifth) \in Own
      /\ Num(8) \in Own /\ Num(80) \in Own /\ Num(120) \in Own
      /\ Num(0) \in Own /\ Num(40) \in Own
  BY Zenon
<1> HIDE DEF Own
<1>2. NumericPeer \in Seq(Own) BY <1>1 DEF NumericPeer
<1>3. <<>> \in Seq(Own) /\ <<Num(0), Num(40)>> \in Seq(Own) /\ <<Num(40)>> \in Seq(Own)
  BY <1>1
<1>4. ASSUME NEW more \in Seq(Own), NEW ptt, NEW buffer, p = PeerPhrase(more, ptt, buffer),
             PeerRecord(ptt, buffer) \in PeersMeant
      PROVE  IsPhrase(p)
  <2>1. PeerPhraseOf(p, more, ptt, buffer)
    BY Zenon, <1>2, <1>4, PeerPhraseIs
  <2>2. /\ Len(p.tokens) = 9 + Len(more) /\ p.tokens[1] = Opt("--peer")
        /\ DOMAIN p.sets = {"peer"} /\ p.sets.peer \in PeersMeant
    BY Zenon, <1>4, <2>1 DEF PeerPhraseOf, PeerTokens
  <2>3. Len(more) \in Nat BY Zenon, LenProperties
  <2>4. Len(p.tokens) >= 1 BY <2>2, <2>3
  <2>5. p.tokens \in Seq(Own)
    <3>1. p.tokens = NumericPeer \o more
      BY <1>4 DEF PeerPhrase, Phrase
    <3>2. NumericPeer \o more \in Seq(Own) BY <1>2, ConcatIs
    <3>3. QED BY Zenon, <3>1, <3>2
  <2>6. Begins(Opt("--peer")) BY OptBegins
  <2>7. "help" # "peer" /\ "peers" # "peer" /\ "mode" # "peer" BY SMT
  <2>8. QED BY Zenon, <2>2, <2>4, <2>5, <2>6, <2>7 DEF IsPhrase
<1>5. /\ PeerRecord(TRUE, 20) \in PeersMeant /\ PeerRecord(FALSE, 40) \in PeersMeant
      /\ PeerRecord(TRUE, 40) \in PeersMeant
  BY Zenon DEF PeersMeant
<1>6. QED BY Zenon, <1>3, <1>4, <1>5 DEF PeerPhrases

LEMMA WrongIsPhrase == ASSUME NEW p \in WrongPhrases PROVE IsPhrase(p)
<1>1. ASSUME NEW S, NEW t \in Seq(S), Len(t) >= 1, p = Wrong(t), Begins(t[1]) \/ t[1] = Stray
      PROVE  IsPhrase(p)
  <2>1. p.tokens = t /\ p.wrong = TRUE /\ DOMAIN p.sets = {}
    BY <1>1 DEF Wrong
  <2>2. QED BY Zenon, <1>1, <2>1 DEF IsPhrase
<1>2. CASE p = Wrong(<<Opt("--input-gain"), Num(9)>>)
  <2> DEFINE t == <<Opt("--input-gain"), Num(9)>>
  <2> DEFINE Own == {Opt("--input-gain"), Num(9)}
  <2>1. Opt("--input-gain") \in Own /\ Num(9) \in Own BY Zenon
  <2> HIDE DEF Own
  <2>2. t \in Seq(Own) /\ Len(t) >= 1 /\ t[1] = Opt("--input-gain")
    BY <2>1
  <2>3. Begins(t[1]) BY <2>2 DEF Begins, Opt, Joined
  <2> HIDE DEF t
  <2>4. QED BY Zenon, <1>1, <1>2, <2>2, <2>3 DEF t
<1>3. CASE p = Wrong(<<Opt("--room"), Num(0)>>)
  <2> DEFINE t == <<Opt("--room"), Num(0)>>
  <2> DEFINE Own == {Opt("--room"), Num(0)}
  <2>1. Opt("--room") \in Own /\ Num(0) \in Own BY Zenon
  <2> HIDE DEF Own
  <2>2. t \in Seq(Own) /\ Len(t) >= 1 /\ t[1] = Opt("--room") BY <2>1
  <2>3. Begins(t[1]) BY <2>2 DEF Begins, Opt, Joined
  <2> HIDE DEF t
  <2>4. QED BY Zenon, <1>1, <1>3, <2>2, <2>3 DEF t
<1>4. CASE p = Wrong(<<Opt("--tone-test"), Num(TooManySeconds)>>)
  <2> DEFINE t == <<Opt("--tone-test"), Num(TooManySeconds)>>
  <2> DEFINE Own == {Opt("--tone-test"), Num(TooManySeconds)}
  <2>1. Opt("--tone-test") \in Own /\ Num(TooManySeconds) \in Own
    BY Zenon
  <2> HIDE DEF Own
  <2>2. t \in Seq(Own) /\ Len(t) >= 1 /\ t[1] = Opt("--tone-test")
    BY <2>1
  <2>3. Begins(t[1]) BY <2>2 DEF Begins, Opt, Joined
  <2> HIDE DEF t
  <2>4. QED BY Zenon, <1>1, <1>4, <2>2, <2>3 DEF t
<1>5. CASE p = Wrong(<<Joined("--self-duck-hold-ms", Num(TooLongHold))>>)
  <2> DEFINE t == <<Joined("--self-duck-hold-ms", Num(TooLongHold))>>
  <2> DEFINE Own == {Joined("--self-duck-hold-ms", Num(TooLongHold))}
  <2>1. Joined("--self-duck-hold-ms", Num(TooLongHold)) \in Own
    BY Zenon
  <2> HIDE DEF Own
  <2>2. t \in Seq(Own) /\ Len(t) >= 1
        /\ t[1] = Joined("--self-duck-hold-ms", Num(TooLongHold))
    BY <2>1
  <2>3. Begins(t[1]) BY <2>2 DEF Begins, Opt, Joined
  <2> HIDE DEF t
  <2>4. QED BY Zenon, <1>1, <1>5, <2>2, <2>3 DEF t
<1>6. CASE p = Wrong(<<Joined("--telemetry-handle", Num(64))>>)
  <2> DEFINE t == <<Joined("--telemetry-handle", Num(64))>>
  <2> DEFINE Own == {Joined("--telemetry-handle", Num(64))}
  <2>1. Joined("--telemetry-handle", Num(64)) \in Own BY Zenon
  <2> HIDE DEF Own
  <2>2. t \in Seq(Own) /\ Len(t) >= 1 /\ t[1] = Joined("--telemetry-handle", Num(64))
    BY <2>1
  <2>3. Begins(t[1]) BY <2>2 DEF Begins, Opt, Joined
  <2> HIDE DEF t
  <2>4. QED BY Zenon, <1>1, <1>6, <2>2, <2>3 DEF t
<1>7. CASE p = Wrong(<<Opt("--peer"), Txt("ann"), Num(Port)>>)
  <2> DEFINE t == <<Opt("--peer"), Txt("ann"), Num(Port)>>
  <2> DEFINE Own == {Opt("--peer"), Txt("ann"), Num(Port)}
  <2>1. Opt("--peer") \in Own /\ Txt("ann") \in Own /\ Num(Port) \in Own
    BY Zenon
  <2> HIDE DEF Own
  <2>2. t \in Seq(Own) /\ Len(t) >= 1 /\ t[1] = Opt("--peer") BY <2>1
  <2>3. Begins(t[1]) BY <2>2 DEF Begins, Opt, Joined
  <2> HIDE DEF t
  <2>4. QED BY Zenon, <1>1, <1>7, <2>2, <2>3 DEF t
<1>8. CASE p = Wrong(<<Txt("stray")>>)
  <2> DEFINE t == <<Txt("stray")>>
  <2> DEFINE Own == {Txt("stray")}
  <2>1. Txt("stray") \in Own BY Zenon
  <2> HIDE DEF Own
  <2>2. t \in Seq(Own) /\ Len(t) >= 1 /\ t[1] = Stray
    BY <2>1 DEF Stray
  <2> HIDE DEF t
  <2>4. QED BY Zenon, <1>1, <1>8, <2>2 DEF t
<1>9. QED BY Zenon, <1>2, <1>3, <1>4, <1>5, <1>6, <1>7, <1>8 DEF WrongPhrases

LEMMA PhrasesAre == ASSUME NEW p \in Phrases PROVE IsPhrase(p)
  BY Zenon, SettingIsPhrase, ModeIsPhrase, PeerIsPhrase, WrongIsPhrase DEF Phrases

-----------------------------------------------------------------------------
(* What a line means so far.                                                *)

SetBy(L, k, field) == field \in DOMAIN L[k].sets

\* After i phrases a field has its default, or what the last phrase that sets it means.
MeantBy(L, i, field, v) ==
    \/ v = Defaults[field] /\ \A k \in 1 .. i : ~ SetBy(L, k, field)
    \/ \E k \in 1 .. i : /\ SetBy(L, k, field) /\ v = L[k].sets[field]
                         /\ \A j \in 1 .. i : SetBy(L, j, field) => j <= k
Meaning(L, i, o) == \A field \in OptionFields \ {"peers"} : MeantBy(L, i, field, o[field])

\* None of i phrases is wrong, and no two name a mode.
Right(L, i) ==
    /\ \A k \in 1 .. i : ~ L[k].wrong
    /\ \A j, k \in 1 .. i : SetBy(L, j, "mode") /\ SetBy(L, k, "mode") => j = k

LEMMA UpToNext ==
    ASSUME NEW i \in Nat, NEW n, n = i + 1
    PROVE  /\ n \in 1 .. n /\ \A k : k \in 1 .. n <=> k \in 1 .. i \/ k = n
           /\ \A k \in 1 .. i : k \in 1 .. n /\ k <= n /\ k # n
           /\ n <= n
  BY SMT

LEMMA StillMeant ==
    ASSUME NEW L, NEW i \in Nat, NEW field, NEW v, MeantBy(L, i, field, v),
           NEW n, n = i + 1, ~ SetBy(L, n, field)
    PROVE  MeantBy(L, n, field, v)
<1>1. \A k : k \in 1 .. n <=> k \in 1 .. i \/ k = n BY Zenon, UpToNext
<1>2. CASE v = Defaults[field] /\ \A k \in 1 .. i : ~ SetBy(L, k, field)
  BY Zenon, <1>1, <1>2 DEF MeantBy
<1>3. CASE \E k \in 1 .. i : /\ SetBy(L, k, field) /\ v = L[k].sets[field]
                             /\ \A j \in 1 .. i : SetBy(L, j, field) => j <= k
  <2>1. PICK k \in 1 .. i : /\ SetBy(L, k, field) /\ v = L[k].sets[field]
                            /\ \A j \in 1 .. i : SetBy(L, j, field) => j <= k
    BY Zenon, <1>3
  <2>2. k \in 1 .. n /\ \A j \in 1 .. n : SetBy(L, j, field) => j <= k
    BY Zenon, <1>1, <2>1
  <2>3. QED BY Zenon, <2>1, <2>2 DEF MeantBy
<1>4. QED BY Zenon, <1>2, <1>3 DEF MeantBy

LEMMA NowMeant ==
    ASSUME NEW L, NEW i \in Nat, NEW field, NEW n, n = i + 1, SetBy(L, n, field)
    PROVE  MeantBy(L, n, field, L[n].sets[field])
<1>1. n \in 1 .. n /\ \A j \in 1 .. n : j <= n BY SMT
<1>2. QED BY Zenon, <1>1 DEF MeantBy

\* A phrase that is taken adds what it means.
LEMMA MeaningGrows ==
    ASSUME NEW L, NEW i \in Nat, NEW n, n = i + 1, NEW S, NEW o, Sound(o, S), Meaning(L, i, o),
           IsPhrase(L[n])
    PROVE  Meaning(L, n, Put(L[n], o))
<1> DEFINE p == L[n]
           x == Put(p, o)
<1>1. ASSUME NEW field \in OptionFields \ {"peers"} PROVE MeantBy(L, n, field, x[field])
  <2>1. MeantBy(L, i, field, o[field]) BY Zenon DEF Meaning
  <2>2. x[field] = IF field \in DOMAIN p.sets THEN p.sets[field] ELSE o[field]
    BY Zenon DEF Put, Sound
  <2>3. CASE field \in DOMAIN p.sets
    <3>1. SetBy(L, n, field) /\ x[field] = L[n].sets[field]
      BY Zenon, <2>2, <2>3 DEF SetBy
    <3>2. QED BY Zenon, <3>1, NowMeant
  <2>4. CASE field \notin DOMAIN p.sets
    <3>1. ~ SetBy(L, n, field) /\ x[field] = o[field]
      BY Zenon, <2>2, <2>4 DEF SetBy
    <3>2. MeantBy(L, n, field, o[field])
      BY Zenon, <2>1, <3>1, StillMeant
    <3>3. QED BY Zenon, <3>1, <3>2
  <2>5. QED BY Zenon, <2>3, <2>4
<1>2. QED BY Zenon, <1>1 DEF Meaning

LEMMA ContactWritten == ASSUME NEW p, IsPhrase(p) PROVE PeerOf(p) \in Seq(PeersMeant)
<1>1. CASE "peer" \in DOMAIN p.sets
  <2>1. p.sets.peer \in PeersMeant /\ PeerOf(p) = <<p.sets.peer>>
    BY Zenon, <1>1 DEF PeerOf, IsPhrase
  <2>2. \A x \in PeersMeant : <<x>> \in Seq(PeersMeant) BY SMT
  <2>3. QED BY Zenon, <2>1, <2>2
<1>2. CASE "peer" \notin DOMAIN p.sets
  <2>1. PeerOf(p) = <<>> /\ <<>> \in Seq(PeersMeant)
    BY <1>2 DEF PeerOf
  <2>2. QED BY Zenon, <2>1
<1>3. QED BY Zenon, <1>1, <1>2

LEMMA SoundGrows ==
    ASSUME NEW o, Sound(o, PeersMeant), NEW p, IsPhrase(p)
    PROVE  /\ Sound(Put(p, o), PeersMeant) /\ Put(p, o).peers = o.peers \o PeerOf(p)
           /\ PeerOf(p) \in Seq(PeersMeant)
<1>1. "help" \in OptionFields /\ "peers" \in OptionFields /\ "help" # "peers"
  BY DEF OptionFields
<1>2. PeerOf(p) \in Seq(PeersMeant) BY Zenon, ContactWritten
<1> DEFINE x == Put(p, o)
<1>3. DOMAIN x = OptionFields /\ x["help"] = o["help"] /\ x["peers"] = o.peers \o PeerOf(p)
  BY Zenon, <1>1 DEF Put, Sound, IsPhrase
<1>4. o.peers \in Seq(PeersMeant) BY Zenon DEF Sound
<1>5. o.peers \o PeerOf(p) \in Seq(PeersMeant) BY <1>2, <1>4, ConcatIs
<1>6. x.help = FALSE /\ x.peers = o.peers \o PeerOf(p)
  BY Zenon, <1>3 DEF Sound
<1> HIDE DEF x
<1>7. Sound(x, PeersMeant) BY Zenon, <1>3, <1>5, <1>6 DEF Sound
<1>8. QED BY Zenon, <1>2, <1>6, <1>7 DEF x

\* A mode that is named is the first one exactly when none is there.
LEMMA ModeFree ==
    ASSUME NEW L, NEW i \in Nat, NEW o, Meaning(L, i, o),
           \A k \in 1 .. i : IsPhrase(L[k])
    PROVE  o.mode = "probe" <=> \A k \in 1 .. i : ~ SetBy(L, k, "mode")
<1>1. "mode" \in OptionFields \ {"peers"} /\ Defaults["mode"] = "probe"
  BY DEF OptionFields, Defaults
<1>2. MeantBy(L, i, "mode", o["mode"]) BY Zenon, <1>1 DEF Meaning
<1>3. CASE o["mode"] = Defaults["mode"] /\ \A k \in 1 .. i : ~ SetBy(L, k, "mode")
  BY Zenon, <1>1, <1>3
<1>4. CASE \E k \in 1 .. i : /\ SetBy(L, k, "mode") /\ o["mode"] = L[k].sets["mode"]
                             /\ \A j \in 1 .. i : SetBy(L, j, "mode") => j <= k
  <2>1. PICK k \in 1 .. i : SetBy(L, k, "mode") /\ o["mode"] = L[k].sets["mode"]
    BY Zenon, <1>4
  <2>2. L[k].sets["mode"] # "probe" BY Zenon, <2>1 DEF IsPhrase, SetBy
  <2>3. QED BY Zenon, <2>1, <2>2
<1>5. QED BY Zenon, <1>2, <1>3, <1>4 DEF MeantBy

LEMMA RightGrows ==
    ASSUME NEW L, NEW i \in Nat, NEW n, n = i + 1, NEW o, Meaning(L, i, o), Right(L, i),
           \A k \in 1 .. i : IsPhrase(L[k]), ~ Refused(o, L[n])
    PROVE  Right(L, n)
<1>1. \A k : k \in 1 .. n <=> k \in 1 .. i \/ k = n BY Zenon, UpToNext
<1>2. ~ L[n].wrong /\ (SetBy(L, n, "mode") => o.mode = "probe")
  BY Zenon DEF Refused, SetBy
<1>3. SetBy(L, n, "mode") => \A k \in 1 .. i : ~ SetBy(L, k, "mode")
  BY Zenon, <1>2, ModeFree
<1>4. QED BY Zenon, <1>1, <1>2, <1>3 DEF Right

LEMMA WrongSpoils ==
    ASSUME NEW L, NEW i \in Nat, NEW n, n = i + 1, NEW o, Meaning(L, i, o),
           \A k \in 1 .. i : IsPhrase(L[k]), Refused(o, L[n]), NEW m \in Nat, n <= m
    PROVE  ~ Right(L, m)
<1>1. n \in 1 .. m /\ \A k \in 1 .. i : k \in 1 .. m /\ k # n BY SMT
<1>2. CASE L[n].wrong BY Zenon, <1>1, <1>2 DEF Right
<1>3. CASE SetBy(L, n, "mode") /\ o.mode # "probe"
  <2>1. PICK k \in 1 .. i : SetBy(L, k, "mode")
    BY Zenon, <1>3, ModeFree
  <2>2. QED BY Zenon, <1>1, <1>3, <2>1 DEF Right
<1>4. QED BY Zenon, <1>2, <1>3 DEF Refused, SetBy

-----------------------------------------------------------------------------
(* Reading a line, phrase by phrase.                                        *)

TokensOf(L) == [k \in DOMAIN L |-> L[k].tokens]
ContactsOf(L) == [k \in DOMAIN L |-> PeerOf(L[k])]
ArgumentsOf(L) == FlattenSeq(TokensOf(L))

\* g has the arguments and h the contacts of the first phrases.
Spelled(L, g, h) ==
    /\ L \in Seq(Phrases)
    /\ Lays(g, TokensOf(L), Written) /\ Lays(h, ContactsOf(L), PeersMeant)

LEMMA MadeOf == ASSUME NEW S, NEW T, NEW s \in Seq(S), \A j \in 1 .. Len(s) : s[j] \in T
                PROVE  s \in Seq(T)
  BY SMT

LEMMA MadeInto ==
    ASSUME NEW n \in Nat, NEW T, NEW F, F = [k \in 1 .. n |-> F[k]], \A k \in 1 .. n : F[k] \in T
    PROVE  F \in Seq(T) /\ Len(F) = n
  BY SMT

LEMMA PhraseWritten == ASSUME NEW p \in Phrases PROVE p.tokens \in Seq(Written)
<1>0. IsPhrase(p) BY Zenon, PhrasesAre
<1>1. PICK S : p.tokens \in Seq(S) BY Zenon, <1>0 DEF IsPhrase
<1> DEFINE Own == {p.tokens[j] : j \in 1 .. Len(p.tokens)}
<1>2. \A j \in 1 .. Len(p.tokens) : p.tokens[j] \in Own BY Zenon
<1>3. Own \in {{q.tokens[j] : j \in 1 .. Len(q.tokens)} : q \in Phrases}
  BY Zenon
<1> HIDE DEF Own
<1>4. \A j \in 1 .. Len(p.tokens) : p.tokens[j] \in Written
  BY Zenon, <1>2, <1>3 DEF Written
<1>5. QED BY Zenon, <1>1, <1>4, MadeOf

LEMMA LineHas ==
    ASSUME NEW L \in Seq(Phrases)
    PROVE  /\ Len(L) \in Nat /\ DOMAIN L = 1 .. Len(L)
           /\ \A k \in 1 .. Len(L) : L[k] \in Phrases
           /\ \A k \in 1 .. Len(L) : IsPhrase(L[k])
<1>1. Len(L) \in Nat /\ DOMAIN L = 1 .. Len(L) /\ \A k \in 1 .. Len(L) : L[k] \in Phrases
  BY SMT
<1>2. \A k \in 1 .. Len(L) : IsPhrase(L[k]) BY Zenon, <1>1, PhrasesAre
<1>3. QED BY Zenon, <1>1, <1>2

LEMMA TokensAre ==
    ASSUME NEW L \in Seq(Phrases)
    PROVE  /\ TokensOf(L) \in Seq(Seq(Written)) /\ Len(TokensOf(L)) = Len(L)
           /\ \A k \in 1 .. Len(L) : TokensOf(L)[k] = L[k].tokens
<1> DEFINE F == TokensOf(L)
           n == Len(L)
<1>1. n \in Nat /\ DOMAIN L = 1 .. n /\ \A k \in 1 .. n : L[k].tokens \in Seq(Written)
  BY Zenon, LineHas, PhraseWritten
<1>2. F = [k \in 1 .. n |-> L[k].tokens] BY Zenon, <1>1 DEF TokensOf
<1> HIDE DEF F, n
<1>3. /\ F = [k \in 1 .. n |-> F[k]] /\ \A k \in 1 .. n : F[k] \in Seq(Written)
      /\ \A k \in 1 .. n : F[k] = L[k].tokens
  BY Zenon, <1>1, <1>2
<1>4. F \in Seq(Seq(Written)) /\ Len(F) = n
  BY Zenon, <1>1, <1>3, MadeInto
<1>5. QED BY Zenon, <1>3, <1>4 DEF F, n

LEMMA ContactsAre ==
    ASSUME NEW L \in Seq(Phrases)
    PROVE  /\ ContactsOf(L) \in Seq(Seq(PeersMeant)) /\ Len(ContactsOf(L)) = Len(L)
           /\ \A k \in 1 .. Len(L) : ContactsOf(L)[k] = PeerOf(L[k])
<1> DEFINE F == ContactsOf(L)
           n == Len(L)
<1>1. n \in Nat /\ DOMAIN L = 1 .. n /\ \A k \in 1 .. n : PeerOf(L[k]) \in Seq(PeersMeant)
  BY Zenon, LineHas, ContactWritten
<1>2. F = [k \in 1 .. n |-> PeerOf(L[k])]
  BY Zenon, <1>1 DEF ContactsOf
<1> HIDE DEF F, n
<1>3. /\ F = [k \in 1 .. n |-> F[k]] /\ \A k \in 1 .. n : F[k] \in Seq(PeersMeant)
      /\ \A k \in 1 .. n : F[k] = PeerOf(L[k])
  BY Zenon, <1>1, <1>2
<1>4. F \in Seq(Seq(PeersMeant)) /\ Len(F) = n
  BY Zenon, <1>1, <1>3, MadeInto
<1>5. QED BY Zenon, <1>3, <1>4 DEF F, n

LEMMA SpelledIs ==
    ASSUME NEW L, NEW g, NEW h, Spelled(L, g, h)
    PROVE  /\ Len(L) \in Nat /\ ArgumentsOf(L) \in Seq(Written) /\ Len(ArgumentsOf(L)) \in Nat
           /\ g[0] = <<>> /\ h[0] = <<>> /\ ArgumentsOf(L) = g[Len(L)]
           /\ FlattenSeq(ContactsOf(L)) = h[Len(L)]
           /\ \A i \in 0 .. Len(L) : Len(g[i]) \in Nat
<1> DEFINE seqs == TokensOf(L)
           n == Len(L)
<1>1. L \in Seq(Phrases) /\ Lays(g, seqs, Written) /\ Lays(h, ContactsOf(L), PeersMeant)
  BY Zenon DEF Spelled
<1>2. n \in Nat /\ Len(seqs) = n /\ Len(ContactsOf(L)) = n /\ n \in 0 .. n
  <2>1. n \in Nat BY Zenon, <1>1, LineHas
  <2>2. n \in 0 .. n BY <2>1
  <2>3. QED BY Zenon, <1>1, <2>1, <2>2, TokensAre, ContactsAre
<1> HIDE DEF seqs, n
<1>3. \A i \in 0 .. n : g[i] \in Seq(Written)
  BY Zenon, <1>1, <1>2 DEF Lays
<1>4. \A i \in 0 .. n : Len(g[i]) \in Nat
  BY Zenon, <1>3, LenProperties
<1>5. FlattenSeq(seqs) = g[n] /\ g[0] = <<>> /\ h[0] = <<>> /\ FlattenSeq(ContactsOf(L)) = h[n]
  BY Zenon, <1>1, <1>2 DEF Lays
<1>6. g[n] \in Seq(Written) /\ Len(g[n]) \in Nat
  BY Zenon, <1>2, <1>3, <1>4
<1>7. ArgumentsOf(L) = g[n] BY Zenon, <1>5 DEF ArgumentsOf, seqs
<1>8. ArgumentsOf(L) \in Seq(Written) /\ Len(ArgumentsOf(L)) \in Nat
  BY Zenon, <1>6, <1>7
<1>9. QED BY Zenon, <1>2, <1>4, <1>5, <1>7, <1>8 DEF n

\* The next phrase is where the ones before it end.
IsNext(L, g, h, i, n) ==
    /\ n \in 1 .. Len(L) /\ i \in 0 .. Len(L) /\ n \in 0 .. Len(L)
    /\ Len(g[n]) = Len(g[i]) + Len(L[n].tokens)
    /\ Len(g[n]) <= Len(ArgumentsOf(L)) /\ PhraseAt(ArgumentsOf(L), Len(g[i]), L[n])
    /\ h[n] = h[i] \o PeerOf(L[n])

LEMMA NextPlace ==
    ASSUME NEW L, NEW g, NEW h, Spelled(L, g, h), NEW i \in Nat, NEW n, n = i + 1, n <= Len(L)
    PROVE  IsNext(L, g, h, i, n)
<1> DEFINE seqs == TokensOf(L)
           m == Len(L)
<1>1. L \in Seq(Phrases) /\ Lays(g, seqs, Written) /\ Lays(h, ContactsOf(L), PeersMeant)
  BY Zenon DEF Spelled
<1>2. m \in Nat /\ Len(seqs) = m /\ Len(ContactsOf(L)) = m /\ seqs \in Seq(Seq(Written))
  BY Zenon, <1>1, LineHas, TokensAre, ContactsAre
<1>3. n <= m BY Zenon
<1> HIDE DEF m
<1>4. n \in 1 .. m /\ i \in 0 .. m /\ n \in 0 .. m /\ n - 1 = i
  BY <1>2, <1>3
<1>5. seqs[n] = L[n].tokens /\ ContactsOf(L)[n] = PeerOf(L[n])
  BY Zenon, <1>1, <1>4, TokensAre, ContactsAre DEF m
<1> HIDE DEF seqs
<1>6. n \in 1 .. Len(seqs) /\ n \in 1 .. Len(ContactsOf(L))
  BY Zenon, <1>2, <1>4
<1>7. /\ Len(g[n]) = Len(g[i]) + Len(seqs[n])
      /\ Len(g[n]) <= Len(FlattenSeq(seqs))
      /\ \A j \in 1 .. Len(seqs[n]) : FlattenSeq(seqs)[Len(g[i]) + j] = seqs[n][j]
  <2>1. IsPlaced(g, seqs, n) BY Zenon, <1>1, <1>2, <1>6, Places
  <2>2. QED BY Zenon, <1>4, <2>1 DEF IsPlaced
<1>8. h[n] = h[i] \o PeerOf(L[n])
  BY Zenon, <1>1, <1>4, <1>5, <1>6 DEF Lays
<1>9. ArgumentsOf(L) = FlattenSeq(seqs) BY Zenon DEF ArgumentsOf, seqs
<1>10. /\ Len(g[n]) = Len(g[i]) + Len(L[n].tokens) /\ Len(g[n]) <= Len(ArgumentsOf(L))
       /\ PhraseAt(ArgumentsOf(L), Len(g[i]), L[n])
  BY Zenon, <1>5, <1>7, <1>9 DEF PhraseAt
<1>11. QED BY Zenon, <1>4, <1>8, <1>10 DEF m, IsNext

\* Every phrase has an argument.
LEMMA PlacesCount ==
    ASSUME NEW L, NEW g, NEW h, Spelled(L, g, h), NEW i \in 0 .. Len(L)
    PROVE  i <= Len(g[i]) /\ Len(g[i]) <= Len(ArgumentsOf(L))
<1> DEFINE m == Len(L)
           z == Len(ArgumentsOf(L))
           T == {e \in Nat : e <= m => e <= Len(g[e]) /\ Len(g[e]) <= z}
<1>1. m \in Nat /\ z \in Nat /\ g[0] = <<>> /\ \A e \in 0 .. m : Len(g[e]) \in Nat
  BY Zenon, SpelledIs
<1>2. L \in Seq(Phrases) BY Zenon DEF Spelled
<1> HIDE DEF z
<1>3. 0 \in T
  <2>1. Len(<<>>) = 0 /\ 0 \in Nat /\ 0 <= 0 /\ 0 <= z BY <1>1
  <2>2. QED BY Zenon, <1>1, <2>1
<1>4. ASSUME NEW e \in Nat, e \in T PROVE e + 1 \in T
  <2> DEFINE n == e + 1
  <2>0. n \in Nat BY SMT
  <2> SUFFICES ASSUME n <= m PROVE n <= Len(g[n]) /\ Len(g[n]) <= z
    BY Zenon, <2>0
  <2>1. e <= m /\ n \in 1 .. m /\ e \in 0 .. m BY <1>1
  <2>2. e <= Len(g[e]) /\ Len(g[e]) \in Nat BY Zenon, <1>1, <1>4, <2>1
  <2>3. n = e + 1 /\ n <= Len(L) BY Zenon
  <2> HIDE DEF n
  <2>4. Len(g[n]) = Len(g[e]) + Len(L[n].tokens) /\ Len(g[n]) <= z
    <3>1. IsNext(L, g, h, e, n) BY Zenon, <2>3, NextPlace
    <3>2. QED BY Zenon, <3>1 DEF z, IsNext
  <2>5. Len(L[n].tokens) >= 1 /\ Len(L[n].tokens) \in Nat
    <3>1. L[n] \in Phrases BY Zenon, <1>2, <2>1, LineHas
    <3>2. IsPhrase(L[n]) /\ L[n].tokens \in Seq(Written)
      BY Zenon, <3>1, PhrasesAre, PhraseWritten
    <3>3. QED BY Zenon, <3>2, LenProperties DEF IsPhrase
  <2>6. n <= Len(g[n])
    <3> DEFINE a == Len(g[e])
               b == Len(L[n].tokens)
               c == Len(g[n])
    <3>1. a \in Nat /\ b \in Nat /\ b >= 1 /\ c = a + b /\ e <= a /\ n = e + 1
      BY Zenon, <2>2, <2>3, <2>4, <2>5
    <3> HIDE DEF a, b, c
    <3>2. n <= c BY <3>1
    <3>3. QED BY Zenon, <3>2 DEF c
  <2>7. QED BY Zenon, <2>4, <2>6
<1>5. i \in Nat /\ i <= m BY <1>1
<1> HIDE DEF T
<1>6. Nat \subseteq T BY Zenon, <1>3, <1>4, CountingUp
<1>7. QED BY Zenon, <1>5, <1>6 DEF T, z

\* Behind a phrase the line ends, or another begins, or there is what no phrase begins with.
LEMMA BehindIs ==
    ASSUME NEW L, NEW g, NEW h, Spelled(L, g, h), NEW n \in 1 .. Len(L)
    PROVE  /\ Ahead(ArgumentsOf(L), Len(g[n]))
           /\ Len(g[n]) < Len(ArgumentsOf(L)) /\ ArgumentsOf(L)[Len(g[n]) + 1] = Stray
                => ~ Right(L, Len(L))
<1> DEFINE m == Len(L)
           s == ArgumentsOf(L)
           z == Len(s)
           a == Len(g[n])
<1>1. m \in Nat /\ z \in Nat /\ s = g[m] /\ L \in Seq(Phrases) /\ a \in Nat
  <2>1. n \in 0 .. m BY SMT
  <2>2. QED BY Zenon, <2>1, SpelledIs DEF Spelled
<1>2. n \in Nat /\ n <= m BY <1>1
<1>3. CASE n = m
  <2>1. a = z /\ ~ (a < z)
    <3>1. a = z BY Zenon, <1>1, <1>3
    <3> HIDE DEF a, z
    <3>2. QED BY <1>1, <3>1
  <2>2. QED BY Zenon, <2>1 DEF Ahead
<1>4. CASE n # m
  <2> DEFINE q == n + 1
  <2>1. q \in Nat /\ q = n + 1 /\ q <= m /\ q \in 1 .. m
    BY <1>1, <1>2, <1>4
  <2> HIDE DEF q
  <2>2. IsNext(L, g, h, n, q) BY Zenon, <1>2, <2>1, NextPlace
  <2>3. IsPhrase(L[q]) BY Zenon, <1>1, <2>1, LineHas
  <2> DEFINE t == L[q].tokens
  <2>4. Len(t) >= 1 /\ Len(t) \in Nat /\ (Begins(t[1]) \/ (t[1] = Stray /\ L[q].wrong = TRUE))
    <3>1. t \in Seq(Written)
      BY Zenon, <1>1, <2>1, LineHas, PhraseWritten
    <3>2. QED BY Zenon, <2>3, <3>1, LenProperties DEF IsPhrase
  <2>5. 1 \in 1 .. Len(t) BY <2>4
  <2>6. s[a + 1] = t[1] /\ Len(g[q]) = a + Len(t) /\ Len(g[q]) <= z
    BY Zenon, <2>2, <2>5 DEF IsNext, PhraseAt
  <2>7. a < z
    <3> DEFINE b == Len(t)
               c == Len(g[q])
    <3>1. a \in Nat /\ b \in Nat /\ z \in Nat /\ b >= 1 /\ c = a + b /\ c <= z
      BY Zenon, <1>1, <2>4, <2>6
    <3> HIDE DEF a, b, c, z
    <3>2. QED BY <3>1
  <2>8. ~ Begins(Stray) BY DEF Begins, Stray, Txt
  <2>9. s[a + 1] = Stray => ~ Right(L, m)
    BY Zenon, <2>1, <2>4, <2>6, <2>8 DEF Right
  <2>10. Begins(s[a + 1]) \/ s[a + 1] = Stray BY Zenon, <2>4, <2>6
  <2> HIDE DEF t
  <2>11. QED BY Zenon, <2>7, <2>9, <2>10 DEF Ahead
<1>5. QED BY Zenon, <1>3, <1>4

\* After i steps help was asked for, and rightly; or i phrases are taken as they are meant.
Taken(L, f, g, h, i, o) ==
    /\ Stands(f, ArgumentsOf(L), i, Len(g[i]), o) /\ Sound(o, PeersMeant) /\ o.peers = h[i]
    /\ Meaning(L, i, o) /\ Right(L, i)
SoFarRead(L, f, g, h, i) ==
    \/ Helping(f[i]) /\ ~ Right(L, Len(L))
    \/ \E o : Taken(L, f, g, h, i, o)

LEMMA ReadyHere ==
    ASSUME NEW L, NEW g, NEW h, Spelled(L, g, h), NEW i \in Nat, NEW n, n = i + 1, n <= Len(L),
           NEW o, Sound(o, PeersMeant)
    PROVE  Ready(Written, ArgumentsOf(L), Len(g[i]), PeersMeant, o, L[n])
<1>1. IsNext(L, g, h, i, n) BY Zenon, NextPlace
<1> DEFINE s == ArgumentsOf(L)
           a == Len(g[i])
           c == Len(g[n])
           z == Len(s)
<1>2. n \in 1 .. Len(L) /\ i \in 0 .. Len(L) /\ c = a + Len(L[n].tokens) /\ c <= z
      /\ PhraseAt(s, a, L[n])
  BY Zenon, <1>1 DEF IsNext
<1>3. a \in Nat /\ s \in Seq(Written) /\ z \in Nat
  BY Zenon, <1>2, SpelledIs
<1>4. a <= z BY Zenon, <1>2, PlacesCount
<1>5. Ahead(s, c) BY Zenon, <1>2, BehindIs
<1> HIDE DEF s, a, c, z
<1>6. a \in 0 .. z BY <1>3, <1>4
<1>7. z = Len(s) BY Zenon DEF z
<1>8. Ready(Written, s, a, PeersMeant, o, L[n])
  BY Zenon, <1>2, <1>3, <1>5, <1>6, <1>7 DEF Ready
<1>9. QED BY Zenon, <1>8 DEF s, a

LEMMA NextPhraseRead ==
    ASSUME NEW L, NEW f, NEW g, NEW h, Spelled(L, g, h), Runs(f, ArgumentsOf(L)),
           NEW i \in Nat, NEW n, n = i + 1, n <= Len(L), SoFarRead(L, f, g, h, i)
    PROVE  SoFarRead(L, f, g, h, n)
<1> DEFINE s == ArgumentsOf(L)
           z == Len(s)
           k == Len(g[i])
           p == L[n]
<1>1. IsNext(L, g, h, i, n) BY Zenon, NextPlace
<1>2. n \in 1 .. Len(L) /\ i \in 0 .. Len(L) /\ n \in 0 .. Len(L) /\ Len(g[n]) = k + Len(p.tokens)
      /\ h[n] = h[i] \o PeerOf(p)
  BY Zenon, <1>1 DEF IsNext
<1>3. s \in Seq(Written) /\ z \in Nat /\ Len(L) \in Nat /\ L \in Seq(Phrases)
  BY Zenon, SpelledIs DEF Spelled
<1>4. n <= z
  <2>1. n <= Len(g[n]) /\ Len(g[n]) <= z /\ Len(g[n]) \in Nat
    BY Zenon, <1>2, PlacesCount, SpelledIs
  <2> DEFINE c == Len(g[n])
  <2> HIDE DEF c, z
  <2>2. n <= c /\ c <= z /\ c \in Nat BY Zenon, <2>1 DEF c
  <2>3. QED BY <1>3, <2>2
<1>5. f[n] = TakeNext(f[i])
  <2>1. i + 1 <= z BY Zenon, <1>4
  <2>2. f[i + 1] = TakeNext(f[i]) BY Zenon, <1>3, <2>1, NextStep
  <2>3. QED BY Zenon, <2>2
<1>6. p \in Phrases /\ IsPhrase(p) /\ \A j \in 1 .. i : IsPhrase(L[j])
  <2>1. \A j \in 1 .. i : j \in 1 .. Len(L) BY <1>2, <1>3
  <2>2. QED BY Zenon, <1>2, <1>3, <2>1, LineHas
<1>7. CASE Helping(f[i]) /\ ~ Right(L, Len(L))
  <2>1. Helping(f[n]) BY Zenon, <1>5, <1>7, HelpStep
  <2>2. QED BY Zenon, <1>7, <2>1 DEF SoFarRead
<1>8. ASSUME NEW o, Taken(L, f, g, h, i, o) PROVE SoFarRead(L, f, g, h, n)
  <2>1. /\ Stands(f, s, i, k, o) /\ Sound(o, PeersMeant) /\ o.peers = h[i]
        /\ Meaning(L, i, o) /\ Right(L, i)
    BY Zenon, <1>8 DEF Taken
  <2>2. Ready(Written, s, k, PeersMeant, o, p)
    BY Zenon, <2>1, ReadyHere
  <2>3. Answered(s, k, o, p) BY Zenon, <1>6, <2>2, PhraseAnswered
  <2>4. CASE ~ Refused(o, p) /\ Understood(s, k, o, p)
    <3> DEFINE x == Put(p, o)
    <3>1. Reads(s, k, o, k + Len(p.tokens), x)
      BY Zenon, <2>4 DEF Understood
    <3>2. Stands(f, s, n, Len(g[n]), x)
      BY Zenon, <1>2, <1>5, <2>1, <3>1 DEF Stands, Reads
    <3>3. Sound(x, PeersMeant) /\ x.peers = o.peers \o PeerOf(p)
      BY Zenon, <1>6, <2>1, SoundGrows
    <3>4. x.peers = h[n] BY Zenon, <1>2, <2>1, <3>3
    <3>5. Meaning(L, n, x) BY Zenon, <1>6, <2>1, MeaningGrows
    <3>6. Right(L, n) BY Zenon, <1>6, <2>1, <2>4, RightGrows
    <3> HIDE DEF x
    <3>7. Taken(L, f, g, h, n, x)
      BY Zenon, <3>2, <3>3, <3>4, <3>5, <3>6 DEF Taken
    <3>8. QED BY Zenon, <3>7 DEF SoFarRead
  <2>5. CASE /\ Helping(TakeNext([o |-> o, rest |-> After(s, k)]))
             /\ \/ Refused(o, p)
                \/ k + Len(p.tokens) < Len(s) /\ s[(k + Len(p.tokens)) + 1] = Stray
    <3>1. Helping(f[n]) BY Zenon, <1>5, <2>1, <2>5 DEF Stands
    <3>2. ~ Right(L, Len(L))
      <4>1. CASE Refused(o, p)
        BY Zenon, <1>3, <1>6, <2>1, <4>1, WrongSpoils
      <4>2. CASE k + Len(p.tokens) < Len(s) /\ s[(k + Len(p.tokens)) + 1] = Stray
        <5>1. Len(g[n]) < Len(s) /\ s[Len(g[n]) + 1] = Stray
          BY Zenon, <1>2, <4>2
        <5>2. QED BY Zenon, <1>2, <5>1, BehindIs
      <4>3. QED BY Zenon, <2>5, <4>1, <4>2
    <3>3. QED BY Zenon, <3>1, <3>2 DEF SoFarRead
  <2>6. QED BY Zenon, <2>3, <2>4, <2>5 DEF Answered
<1>9. QED BY Zenon, <1>7, <1>8 DEF SoFarRead

LEMMA AfterNone == ASSUME NEW S, NEW s \in Seq(S) PROVE After(s, 0) = s
<1> DEFINE all == After(s, 0)
<1>1. Len(s) \in Nat BY Zenon, LenProperties
<1>2. 0 \in 0 .. Len(s) /\ Len(s) - 0 = Len(s) /\ \A j \in 1 .. Len(s) : 0 + j = j
  BY <1>1
<1>3. all \in Seq(S) /\ Len(all) = Len(s) - 0 /\ \A j \in 1 .. Len(s) - 0 : all[j] = s[0 + j]
  BY Zenon, <1>2, AfterIs
<1> HIDE DEF all
<1>4. Len(all) = Len(s) /\ \A j \in 1 .. Len(all) : all[j] = s[j]
  BY Zenon, <1>2, <1>3
<1>5. all = s BY Zenon, <1>3, <1>4, SeqEqual
<1>6. QED BY Zenon, <1>5 DEF all

LEMMA NothingRead ==
    ASSUME NEW L, NEW f, NEW g, NEW h, Spelled(L, g, h), Runs(f, ArgumentsOf(L))
    PROVE  SoFarRead(L, f, g, h, 0)
<1> DEFINE s == ArgumentsOf(L)
<1>1. s \in Seq(Written) /\ g[0] = <<>> /\ h[0] = <<>>
  BY Zenon, SpelledIs
<1>2. Len(<<>>) = 0 /\ 1 .. 0 = {} /\ <<>> \in Seq(PeersMeant) BY SMT
<1>3. After(s, 0) = s BY Zenon, <1>1, AfterNone
<1>4. f[0] = [o |-> Defaults, rest |-> s] BY Zenon DEF Runs
<1>5. Stands(f, s, 0, Len(g[0]), Defaults)
  BY Zenon, <1>1, <1>2, <1>3, <1>4 DEF Stands
<1>6. Defaults.help = FALSE /\ Defaults.peers = <<>> BY DEF Defaults
<1>7. Sound(Defaults, PeersMeant) /\ Defaults.peers = h[0]
  BY Zenon, <1>1, <1>2, <1>6, OptionFieldsAre DEF Sound
<1>8. Meaning(L, 0, Defaults) BY Zenon, <1>2 DEF Meaning, MeantBy
<1>9. Right(L, 0) BY Zenon, <1>2 DEF Right
<1> HIDE DEF s
<1>10. Taken(L, f, g, h, 0, Defaults)
  BY Zenon, <1>5, <1>7, <1>8, <1>9 DEF Taken, s
<1>11. QED BY Zenon, <1>10 DEF SoFarRead

LEMMA AllRead ==
    ASSUME NEW L, NEW f, NEW g, NEW h, Spelled(L, g, h), Runs(f, ArgumentsOf(L))
    PROVE  SoFarRead(L, f, g, h, Len(L))
<1> DEFINE T == {i \in Nat : i <= Len(L) => SoFarRead(L, f, g, h, i)}
<1>1. Len(L) \in Nat BY Zenon, SpelledIs
<1>2. 0 \in T
  <2>1. 0 \in Nat BY SMT
  <2>2. QED BY Zenon, <2>1, NothingRead
<1>3. ASSUME NEW i \in Nat, i \in T PROVE i + 1 \in T
  <2> DEFINE n == i + 1
  <2>1. n \in Nat /\ (n <= Len(L) => i <= Len(L)) BY <1>1
  <2> SUFFICES ASSUME n <= Len(L) PROVE SoFarRead(L, f, g, h, n)
    BY Zenon, <2>1
  <2>2. SoFarRead(L, f, g, h, i) BY Zenon, <1>3, <2>1
  <2>3. n = i + 1 /\ n <= Len(L) BY Zenon
  <2> HIDE DEF n
  <2>4. QED BY Zenon, <2>2, <2>3, NextPhraseRead
<1>4. Len(L) <= Len(L) BY <1>1
<1> HIDE DEF T
<1>5. Nat \subseteq T BY Zenon, <1>2, <1>3, CountingUp
<1>6. QED BY Zenon, <1>1, <1>4, <1>5 DEF T

\* A line of any number of phrases is read as it is meant, or answered with the usage.
ReadAsMeant(L, o) ==
    \/ Sticks(o) /\ ~ Right(L, Len(L))
    \/ /\ Sound(o, PeersMeant) /\ o.peers = FlattenSeq(ContactsOf(L))
       /\ Meaning(L, Len(L), o) /\ Right(L, Len(L))

LEMMA WholeLineRead ==
    ASSUME NEW L, L \in Seq(Phrases)
    PROVE  ReadAsMeant(L, parse_options(ArgumentsOf(L)))
<1> DEFINE s == ArgumentsOf(L)
           z == Len(s)
           m == Len(L)
<1>1. PICK g : Lays(g, TokensOf(L), Written) BY Zenon, TokensAre, Laid
<1>2. PICK h : Lays(h, ContactsOf(L), PeersMeant)
  BY Zenon, ContactsAre, Laid
<1>3. Spelled(L, g, h) BY Zenon, <1>1, <1>2 DEF Spelled
<1>4. /\ m \in Nat /\ s \in Seq(Written) /\ z \in Nat /\ s = g[m]
      /\ FlattenSeq(ContactsOf(L)) = h[m]
  BY Zenon, <1>3, SpelledIs
<1>5. PICK f : f[0] = [o |-> Defaults, rest |-> s]
               /\ (\A n \in 1 .. z : f[n] = TakeNext(f[n - 1])) /\ parse_options(s) = f[z].o
  BY Zenon, <1>4, Parsing
<1>6. Runs(f, s) BY Zenon, <1>5 DEF Runs
<1>7. SoFarRead(L, f, g, h, m) BY Zenon, <1>3, <1>6, AllRead
<1>8. m \in 0 .. m BY <1>4
<1>9. m <= z
  <2>1. m <= Len(g[m]) BY Zenon, <1>3, <1>8, PlacesCount
  <2>2. QED BY Zenon, <1>4, <2>1
<1>10. CASE Helping(f[m]) /\ ~ Right(L, m)
  <2>1. Sticks(f[z].o) BY Zenon, <1>4, <1>6, <1>9, <1>10, HelpStays
  <2>2. QED BY Zenon, <1>5, <1>10, <2>1 DEF ReadAsMeant
<1>11. ASSUME NEW o, Taken(L, f, g, h, m, o) PROVE ReadAsMeant(L, parse_options(s))
  <2>1. /\ Stands(f, s, m, Len(g[m]), o) /\ Sound(o, PeersMeant) /\ o.peers = h[m]
        /\ Meaning(L, m, o) /\ Right(L, m)
    BY Zenon, <1>11 DEF Taken
  <2>2. Stands(f, s, m, Len(s), o) BY Zenon, <1>4, <2>1
  <2>3. f[z].o = o BY Zenon, <1>4, <1>6, <1>9, <2>2, EndRead
  <2>4. parse_options(s) = o BY Zenon, <1>5, <2>3
  <2>5. ReadAsMeant(L, o) BY Zenon, <1>4, <2>1 DEF ReadAsMeant
  <2>6. QED BY Zenon, <2>4, <2>5
<1>12. QED BY Zenon, <1>7, <1>10, <1>11 DEF SoFarRead

-----------------------------------------------------------------------------
(* The line is read as it is written.                                       *)

ManyCounted(S) == Cardinality(S) > 1 <=> \E j, k \in S : j # k

LEMMA TwoCounted ==
    ASSUME NEW n \in Nat, NEW S, S \subseteq 1 .. n
    PROVE  ManyCounted(S)
<1>1. IsFiniteSet(S) /\ Cardinality(S) \in Nat
  <2>1. IsFiniteSet(1 .. n)
    <3>1. 1 \in Int /\ n \in Int BY SMT
    <3>2. QED BY Zenon, <3>1, FS_Interval
  <2>2. IsFiniteSet(S) BY Zenon, <2>1, FS_Subset
  <2>3. QED BY Zenon, <2>2, FS_CardinalityType
<1>2. CASE \E j, k \in S : j # k
  <2>1. PICK j \in S : \E k \in S : j # k BY Zenon, <1>2
  <2>2. PICK k \in S : j # k BY Zenon, <2>1
  <2>3. IsFiniteSet({j}) /\ Cardinality({j}) = 1 /\ k \notin {j}
    BY Zenon, <2>2, FS_Singleton
  <2> DEFINE two == {j} \cup {k}
  <2>4. Cardinality(two) = Cardinality({j}) + 1
    BY Zenon, <2>3, FS_AddElement
  <2>5. two \in SUBSET S BY Zenon
  <2> HIDE DEF two
  <2>6. Cardinality(two) <= Cardinality(S)
    BY Zenon, <1>1, <2>5, FS_Subset
  <2>7. QED BY <1>1, <1>2, <2>3, <2>4, <2>6 DEF ManyCounted
<1>3. CASE ~ \E j, k \in S : j # k
  <2>1. CASE S = {}
    <3>1. Cardinality(S) = 0 BY Zenon, <2>1, FS_EmptySet
    <3>2. QED BY <1>3, <3>1 DEF ManyCounted
  <2>2. CASE S # {}
    <3>1. PICK j : j \in S BY Zenon, <2>2
    <3>2. S = {j} BY Zenon, <1>3, <3>1
    <3>3. Cardinality(S) = 1 BY Zenon, <3>2, FS_Singleton
    <3>4. QED BY <1>3, <3>3 DEF ManyCounted
  <2>3. QED BY Zenon, <2>1, <2>2
<1>4. QED BY Zenon, <1>2, <1>3 DEF ManyCounted

\* Two name a mode exactly when more than one does.
LEMMA RightIs ==
    ASSUME line \in Seq(Phrases)
    PROVE  ~ Right(line, Len(line)) <=> \/ \E k \in DOMAIN line : line[k].wrong
                                        \/ Cardinality(Naming("mode")) > 1
<1> DEFINE n == Len(line)
           S == Naming("mode")
<1>1. n \in Nat /\ DOMAIN line = 1 .. n BY Zenon, LineHas
<1>2. S \subseteq 1 .. n /\ \A k : k \in S <=> k \in 1 .. n /\ SetBy(line, k, "mode")
  BY Zenon, <1>1 DEF Naming, SetBy
<1> HIDE DEF n, S
<1>3. Cardinality(S) > 1 <=> \E j, k \in S : j # k
  <2>1. n \in Nat BY Zenon, <1>1
  <2>2. S \subseteq 1 .. n BY Zenon, <1>2
  <2>3. ManyCounted(S) BY Zenon, <2>1, <2>2, TwoCounted
  <2>4. QED BY Zenon, <2>3 DEF ManyCounted
<1>4. Right(line, n) <=> /\ \A k \in 1 .. n : ~ line[k].wrong
                         /\ ~ \E j, k \in S : j # k
  BY Zenon, <1>2 DEF Right
<1>5. ~ Right(line, n) <=> \/ \E k \in 1 .. n : line[k].wrong
                           \/ Cardinality(S) > 1
  BY Zenon, <1>3, <1>4
<1>6. QED BY Zenon, <1>1, <1>5 DEF n, S

\* The last of the phrases that set a field is the one that counts.
LEMMA MeaningIs ==
    ASSUME line \in Seq(Phrases), NEW field, field # "peers", NEW v,
           MeantBy(line, Len(line), field, v)
    PROVE  v = Meant(field)
<1> DEFINE n == Len(line)
           S == Naming(field)
<1>1. n \in Nat /\ DOMAIN line = 1 .. n BY Zenon, LineHas
<1>2. \A k : k \in S <=> k \in 1 .. n /\ SetBy(line, k, field)
  BY Zenon, <1>1 DEF Naming, SetBy
<1>3. Meant(field) = IF S = {} THEN Defaults[field] ELSE line[Max(S)].sets[field]
  BY Zenon DEF Meant
<1> HIDE DEF S
<1>4. CASE v = Defaults[field] /\ \A k \in 1 .. n : ~ SetBy(line, k, field)
  <2>1. S = {} BY Zenon, <1>2, <1>4
  <2>2. QED BY Zenon, <1>3, <1>4, <2>1
<1>5. CASE \E k \in 1 .. n : /\ SetBy(line, k, field) /\ v = line[k].sets[field]
                             /\ \A j \in 1 .. n : SetBy(line, j, field) => j <= k
  <2>1. PICK k \in 1 .. n : /\ SetBy(line, k, field) /\ v = line[k].sets[field]
                            /\ \A j \in 1 .. n : SetBy(line, j, field) => j <= k
    BY Zenon, <1>5
  <2>2. k \in S /\ \A j \in S : j \in 1 .. n /\ j <= k
    BY Zenon, <1>2, <2>1
  <2>3. Max(S) = k
    <3> DEFINE m == Max(S)
    <3>1. k \in Int /\ \A j \in S : j \in Int /\ j <= k /\ k >= j
      BY <1>1, <2>2
    <3>2. m \in S /\ \A j \in S : m >= j BY Zenon, <2>2, <3>1 DEF Max
    <3> HIDE DEF m
    <3>3. m = k BY <2>2, <3>1, <3>2
    <3>4. QED BY Zenon, <3>3 DEF m
  <2>4. QED BY Zenon, <1>3, <2>1, <2>2, <2>3
<1>6. QED BY Zenon, <1>4, <1>5 DEF MeantBy

LEMMA AnyLineParsed == ASSUME line \in Seq(Phrases) PROVE ParsedAsWritten
<1> DEFINE o == parse_options(FlattenSeq([k \in DOMAIN line |-> line[k].tokens]))
<1>1. ReadAsMeant(line, o)
  BY Zenon, WholeLineRead DEF ArgumentsOf, TokensOf
<1>2. DOMAIN Defaults = OptionFields BY Zenon, OptionFieldsAre
<1>3. ~ Right(line, Len(line)) <=> \/ \E k \in DOMAIN line : line[k].wrong
                                   \/ Cardinality(Naming("mode")) > 1
  BY Zenon, RightIs
<1> HIDE DEF o
<1>4. CASE Sticks(o) /\ ~ Right(line, Len(line))
  <2>1. o.help = TRUE BY Zenon, <1>4 DEF Sticks
  <2>2. QED BY Zenon, <1>3, <1>4, <2>1 DEF ParsedAsWritten, o
<1>5. CASE /\ Sound(o, PeersMeant) /\ o.peers = FlattenSeq(ContactsOf(line))
           /\ Meaning(line, Len(line), o) /\ Right(line, Len(line))
  <2>1. o.help = FALSE BY Zenon, <1>5 DEF Sound
  <2>2. ASSUME NEW field \in OptionFields PROVE o[field] = Meant(field)
    <3>1. CASE field = "peers"
      <4>1. Meant("peers") = FlattenSeq(ContactsOf(line))
        BY Zenon DEF Meant, ContactsOf
      <4>2. QED BY Zenon, <1>5, <3>1, <4>1
    <3>2. CASE field # "peers"
      <4>1. MeantBy(line, Len(line), field, o[field])
        BY Zenon, <1>5, <3>2 DEF Meaning
      <4>2. QED BY Zenon, <3>2, <4>1, MeaningIs
    <3>3. QED BY Zenon, <3>1, <3>2
  <2>3. QED BY Zenon, <1>2, <1>3, <1>5, <2>1, <2>2 DEF ParsedAsWritten, o
<1>6. QED BY Zenon, <1>1, <1>4, <1>5 DEF ReadAsMeant

\* Every line that is typed is of phrases.
LEMMA TypedInit == LaunchInit => line \in Seq(Phrases)
<1>1. <<>> \in Seq(Phrases) BY SMT
<1>2. QED BY Zenon, <1>1 DEF LaunchInit

LEMMA TypedNext == line \in Seq(Phrases) /\ [LaunchNext]_launchVars => (line \in Seq(Phrases))'
<1> SUFFICES ASSUME line \in Seq(Phrases), [LaunchNext]_launchVars PROVE line' \in Seq(Phrases)
  OBVIOUS
<1>1. CASE line' = line BY Zenon, <1>1
<1>2. ASSUME NEW phrase \in Phrases, line' = Append(line, phrase) PROVE line' \in Seq(Phrases)
  <2>1. Append(line, phrase) \in Seq(Phrases) BY SMT
  <2>2. QED BY Zenon, <1>2, <2>1
<1>3. QED BY Zenon, <1>1, <1>2 DEF LaunchNext, Type, launchVars

\* Every line of any number of phrases is answered with the usage exactly when one of them is
\* wrong or two name a mode, and otherwise read as it is written (parse_options).
THEOREM LinesAreParsedAsWritten == LaunchSpec => []ParsedAsWritten
<1>1. line \in Seq(Phrases) => ParsedAsWritten BY Zenon, AnyLineParsed
<1>2. QED BY <1>1, TypedInit, TypedNext, PTL DEF LaunchSpec

-----------------------------------------------------------------------------
(* The room.                                                                *)

\* TypeOK in parts: the threads and their results, the flags, the packet
ThreadsTyped ==
    /\ main \in {"waits", "starts", "renders", "leaves", "joins", "returned"}
    /\ receiver \in {"binds", "unbound", "refused", "loops", "closes", "done"}
    /\ sender \in {"none", "sleeps", "captures", "drains", "ends", "done"}
    /\ control \in {"none", "runs", "applies", "done"}
    /\ telemetry \in {"none", "runs", "done"}
ResultsTyped ==
    /\ send_result \in {0, 1} /\ play_result \in {0, 1}
    /\ faults \subseteq {"render", "capture", "send", "receive"}
FlagsTyped ==
    /\ stop \in BOOLEAN /\ ready \in BOOLEAN /\ failed \in BOOLEAN
    /\ presence_enabled \in BOOLEAN /\ presence \in BOOLEAN /\ muted \in BOOLEAN
TalkTyped == private \subseteq Peers /\ global \subseteq Peers /\ packet \in Packets
PacketDrained == packet = NoPacket \/ sender = "drains"

\* The receiver's flags say no more than what happened to it, and what depends on them
\* has waited for them.
Up == {"loops", "closes", "done"}
FlagsTrue ==
    /\ receiver = "binds" => ~ready /\ ~failed
    /\ receiver = "unbound" => ~ready
    /\ receiver \in {"unbound", "refused"} => failed
    /\ main \in {"starts", "renders"} \/ presence_enabled => receiver \in Up
    /\ presence_enabled => main \notin {"waits", "starts"}
    /\ presence => presence_enabled

\* What went wrong is in the result of the thread it happened to.
FaultsCounted ==
    /\ main = "waits" => sender = "none"
    /\ "render" \in faults => play_result = 1
    /\ {"capture", "send"} \cap faults # {} => sender \notin {"none", "sleeps"}
    /\ "capture" \in faults => sender \in {"ends", "done"}
    /\ sender \in {"ends", "done"} /\ {"capture", "send"} \cap faults # {} => send_result = 1
    /\ main = "returned" =>
        sender \in {"none", "done"} /\ (sender = "done" /\ send_result = 1 => play_result = 1)

\* Half-way through the contacts, the targets are right for the ones considered.
RoutedSoFar ==
    packet.next # 0 /\ packet.calm =>
        /\ packet.muted = muted
        /\ packet.targets = {p \in Peers : p < packet.next /\
                                (p \in private \/ (~muted /\ p \in global))}

IInv ==
    /\ ThreadsTyped /\ ResultsTyped /\ FlagsTyped /\ TalkTyped /\ PacketDrained
    /\ FlagsTrue /\ FaultsCounted /\ RoutedSoFar

-----------------------------------------------------------------------------
LEMMA NoPacketTyped == NoPacket \in Packets /\ NoPacket.next = 0
  BY RoomAssumption DEF NoPacket, Packets, Peers

LEMMA IInvTypes == IInv => TypeOK
<1> SUFFICES ASSUME IInv PROVE TypeOK
  OBVIOUS
<1>1. {stop, ready, failed, presence_enabled, presence, muted} \subseteq BOOLEAN
  BY DEF IInv, FlagsTyped
<1>2. QED BY <1>1 DEF IInv, TypeOK, ThreadsTyped, ResultsTyped, TalkTyped, PacketDrained

LEMMA InitIInv == Init => IInv
<1> SUFFICES ASSUME Init PROVE IInv
  OBVIOUS
<1>1. ThreadsTyped /\ ResultsTyped /\ FlagsTrue /\ FaultsCounted
  BY DEF Init, ThreadsTyped, ResultsTyped, FlagsTrue, FaultsCounted
<1>2. FlagsTyped BY DEF Init, FlagsTyped
<1>3. TalkTyped /\ PacketDrained
  BY NoPacketTyped DEF Init, TalkTyped, PacketDrained
<1>4. RoutedSoFar BY NoPacketTyped DEF Init, RoutedSoFar
<1>5. QED BY <1>1, <1>2, <1>3, <1>4 DEF IInv

-----------------------------------------------------------------------------
(* The steps that touch neither the packet nor the talk flags: one lemma   *)
(* for each thread.                                                        *)

LEMMA QuietTyped ==
    ASSUME IInv, packet' = packet, talk' = talk
    PROVE  TalkTyped' /\ RoutedSoFar' /\ muted' = muted
<1>0. private' = private /\ global' = global /\ muted' = muted
  BY DEF talk
<1>1. TalkTyped' BY <1>0 DEF IInv, TalkTyped
<1>2. RoutedSoFar' BY <1>0 DEF IInv, RoutedSoFar
<1>3. QED BY <1>0, <1>1, <1>2

LEMMA MainSteps == ASSUME IInv, MainNext PROVE IInv'
<1> USE DEF StopAndJoin, atomics, results, MainNext, WaitEnds, WaitFails, StartFails,
            StartDone, RenderEnds, RenderFails, Leave, Return
<1>1. packet' = packet /\ talk' = talk OBVIOUS
<1>2. ThreadsTyped' /\ ResultsTyped'
  <2>1. ThreadsTyped' BY DEF IInv, ThreadsTyped
  <2>2. ResultsTyped' BY DEF IInv, ResultsTyped
  <2>3. QED BY <2>1, <2>2
<1>3. FlagsTyped' BY <1>1, QuietTyped DEF IInv, FlagsTyped
<1>4. PacketDrained' BY <1>1 DEF IInv, PacketDrained, FaultsCounted
<1>5. FlagsTrue' BY DEF IInv, FlagsTrue, FlagsTyped, ThreadsTyped, Up
<1>6. FaultsCounted'
  BY DEF IInv, FaultsCounted, ThreadsTyped, ResultsTyped, Gone
<1>7. QED BY <1>1, <1>2, <1>3, <1>4, <1>5, <1>6, QuietTyped DEF IInv

LEMMA ReceiverSteps == ASSUME IInv, ReceiverNext \/ TelemetryEnds PROVE IInv'
<1> USE DEF atomics, results, threads, ReceiverNext, TelemetryEnds, Bind, BindFails,
            BindFailed, StartPresence, ReceiveFails, ReceiveEnds, SayGoodbye
<1>1. packet' = packet /\ talk' = talk OBVIOUS
<1>2. ThreadsTyped' /\ ResultsTyped'
  <2>1. ThreadsTyped' BY DEF IInv, ThreadsTyped
  <2>2. ResultsTyped' BY DEF IInv, ResultsTyped
  <2>3. QED BY <2>1, <2>2
<1>3. FlagsTyped'
  <2>1. failed' \in BOOLEAN BY DEF IInv, FlagsTyped
  <2>2. QED BY <1>1, <2>1, QuietTyped DEF IInv, FlagsTyped
<1>4. PacketDrained' BY <1>1 DEF IInv, PacketDrained
<1>5. FlagsTrue' BY DEF IInv, FlagsTrue, FlagsTyped, ThreadsTyped, Up
<1>6. FaultsCounted' BY DEF IInv, FaultsCounted, ThreadsTyped
<1>7. QED BY <1>1, <1>2, <1>3, <1>4, <1>5, <1>6, QuietTyped DEF IInv

LEMMA SenderQuietSteps ==
    ASSUME IInv, SenderStarts \/ SenderStops \/ Captured \/ Drained \/ SenderEnds
    PROVE  IInv'
<1> USE DEF SenderOnly, atomics, results, SenderStarts, SenderStops, Captured, Drained,
            SenderEnds
<1>1. packet' = packet /\ talk' = talk OBVIOUS
<1>2. ThreadsTyped' /\ ResultsTyped'
  <2>1. ThreadsTyped' BY DEF IInv, ThreadsTyped
  <2>2. ResultsTyped' BY DEF IInv, ResultsTyped
  <2>3. QED BY <2>1, <2>2
<1>3. FlagsTyped' BY <1>1, QuietTyped DEF IInv, FlagsTyped
<1>4. PacketDrained' BY <1>1 DEF IInv, PacketDrained
<1>5. FlagsTrue' BY DEF IInv, FlagsTrue, FlagsTyped, ThreadsTyped, Up
<1>6. FaultsCounted' BY DEF IInv, FaultsCounted, ThreadsTyped
<1>7. QED BY <1>1, <1>2, <1>3, <1>4, <1>5, <1>6, QuietTyped DEF IInv

LEMMA ControlQuietSteps ==
    ASSUME IInv, ControlReads \/ ControlApplied \/ ControlEnds \/ ApplyShutdown
    PROVE  IInv'
<1> USE DEF ControlOnly, Line, results, ControlReads, ControlApplied, ControlEnds,
            ApplyShutdown
<1>1. packet' = packet /\ talk' = talk OBVIOUS
<1>2. ThreadsTyped' /\ ResultsTyped'
  <2>1. ThreadsTyped' BY DEF IInv, ThreadsTyped
  <2>2. ResultsTyped' BY DEF IInv, ResultsTyped
  <2>3. QED BY <2>1, <2>2
<1>3. FlagsTyped' BY <1>1, QuietTyped DEF IInv, FlagsTyped
<1>4. PacketDrained' BY <1>1 DEF IInv, PacketDrained
<1>5. FlagsTrue' /\ FaultsCounted'
  BY DEF IInv, FlagsTrue, FaultsCounted
<1>6. QED BY <1>1, <1>2, <1>3, <1>4, <1>5, QuietTyped DEF IInv

-----------------------------------------------------------------------------
(* The packet on its way and the lines that change who hears the user.      *)

LEMMA NothingRouted ==
    ASSUME packet' = NoPacket PROVE RoutedSoFar' /\ PacketDrained'
  BY NoPacketTyped DEF RoutedSoFar, PacketDrained

LEMMA SenderFailsStep == ASSUME IInv, SenderFails PROVE IInv'
<1> USE DEF SenderOnly, atomics, SenderFails
<1>1. packet' = NoPacket /\ talk' = talk OBVIOUS
<1>2. private' = private /\ global' = global /\ muted' = muted
  BY <1>1 DEF talk
<1>3. ThreadsTyped' BY DEF IInv, ThreadsTyped
<1>4. ResultsTyped' BY DEF IInv, ResultsTyped
<1>5. FlagsTyped' BY <1>2 DEF IInv, FlagsTyped
<1>6. TalkTyped' BY <1>1, <1>2, NoPacketTyped DEF IInv, TalkTyped
<1>7. FlagsTrue' BY DEF IInv, FlagsTrue
<1>8. FaultsCounted' BY DEF IInv, FaultsCounted, ThreadsTyped
<1>9. QED BY <1>1, <1>3, <1>4, <1>5, <1>6, <1>7, <1>8, NothingRouted DEF IInv

\* A step of the sender between two looks at the device
LEMMA RouteFrame ==
    ASSUME IInv, SenderOnly, sender' = sender, send_result' = send_result,
           faults' = faults \/ (faults' = faults \cup {"send"} /\ sender = "drains")
    PROVE  /\ ThreadsTyped' /\ ResultsTyped' /\ FlagsTyped' /\ FlagsTrue' /\ FaultsCounted'
           /\ private' = private /\ global' = global /\ muted' = muted
<1> USE DEF SenderOnly, atomics
<1>1. talk' = talk OBVIOUS
<1>2. private' = private /\ global' = global /\ muted' = muted
  BY <1>1 DEF talk
<1>3. ThreadsTyped' BY DEF IInv, ThreadsTyped
<1>4. ResultsTyped' BY DEF IInv, ResultsTyped
<1>5. FlagsTyped' BY <1>2 DEF IInv, FlagsTyped
<1>6. FlagsTrue' BY DEF IInv, FlagsTrue
<1>7. FaultsCounted' BY DEF IInv, FaultsCounted
<1>8. QED BY <1>2, <1>3, <1>4, <1>5, <1>6, <1>7

LEMMA RouteBeginStep == ASSUME IInv, RouteBegin PROVE IInv'
<1>1. /\ ThreadsTyped' /\ ResultsTyped' /\ FlagsTyped' /\ FlagsTrue' /\ FaultsCounted'
      /\ private' = private /\ global' = global /\ muted' = muted /\ sender' = "drains"
  BY RouteFrame DEF RouteBegin
<1>2. muted \in BOOLEAN BY DEF IInv, FlagsTyped
<1>3. /\ packet' \in Packets /\ packet'.next = 1 /\ packet'.targets = {}
      /\ packet'.muted = muted
  <2>1. packet' = [muted |-> muted, next |-> 1, targets |-> {}, calm |-> TRUE]
    BY DEF RouteBegin, NoPacket
  <2>2. 1 \in 0 .. PeerCount + 1 /\ {} \in SUBSET Peers
    BY RoomAssumption
  <2>3. QED BY <1>2, <2>1, <2>2 DEF Packets
<1>4. TalkTyped' /\ PacketDrained'
  BY <1>1, <1>3 DEF IInv, TalkTyped, PacketDrained
<1>5. {p \in Peers : p < packet'.next /\ (p \in private \/ (~muted /\ p \in global))} = {}
  BY <1>3, RoomAssumption DEF Peers
<1>6. RoutedSoFar' BY <1>1, <1>3, <1>5 DEF RoutedSoFar
<1>7. QED BY <1>1, <1>4, <1>6 DEF IInv

LEMMA RouteConsiderStep == ASSUME IInv, RouteConsider PROVE IInv'
<1>1. /\ ThreadsTyped' /\ ResultsTyped' /\ FlagsTyped' /\ FlagsTrue' /\ FaultsCounted'
      /\ private' = private /\ global' = global /\ muted' = muted /\ sender' = sender
  BY RouteFrame DEF RouteConsider
<1>2. packet \in Packets /\ packet.next \in Peers
  BY DEF IInv, TalkTyped, RouteConsider
<1>3. sender = "drains"
  BY <1>2, NoPacketTyped, RoomAssumption DEF IInv, PacketDrained, Peers
<1> DEFINE n == packet.next
           hears == n \in private \/ (~packet.muted /\ n \in global)
           targets == IF hears THEN packet.targets \cup {n} ELSE packet.targets
<1>4. packet' = [packet EXCEPT !.next = n + 1, !.targets = targets]
  BY DEF RouteConsider
<1>5. n \in Nat /\ n + 1 \in 0 .. PeerCount + 1
  BY <1>2, RoomAssumption DEF Peers
<1>6. targets \in SUBSET Peers BY <1>2 DEF Packets
<1> HIDE DEF n, targets, hears
<1>7. /\ packet' \in Packets /\ packet'.next = n + 1 /\ packet'.targets = targets
      /\ packet'.muted = packet.muted /\ packet'.calm = packet.calm
  BY <1>2, <1>4, <1>5, <1>6 DEF Packets
<1>8. TalkTyped' /\ PacketDrained'
  BY <1>1, <1>3, <1>7 DEF IInv, TalkTyped, PacketDrained
<1>9. RoutedSoFar'
  <2>1. SUFFICES ASSUME packet.calm
                 PROVE  /\ packet.muted = muted
                        /\ targets = {p \in Peers : p < n + 1 /\
                                         (p \in private \/ (~muted /\ p \in global))}
    BY <1>1, <1>7 DEF RoutedSoFar
  <2>2. n \in Peers /\ n # 0 BY <1>2, RoomAssumption DEF n, Peers
  <2>3. /\ packet.muted = muted
        /\ packet.targets = {p \in Peers : p < n /\
                                (p \in private \/ (~muted /\ p \in global))}
    BY <2>1, <2>2 DEF IInv, RoutedSoFar, n
  <2>4. \A p \in Peers : p < n + 1 <=> p < n \/ p = n
    BY <1>5, RoomAssumption DEF Peers
  <2>5. CASE hears BY <2>2, <2>3, <2>4, <2>5 DEF targets, hears
  <2>6. CASE ~hears BY <2>2, <2>3, <2>4, <2>6 DEF targets, hears
  <2>7. QED BY <2>3, <2>5, <2>6
<1>10. QED BY <1>1, <1>8, <1>9 DEF IInv

LEMMA SendVoiceStep == ASSUME IInv, SendVoice PROVE IInv'
<1>1. packet # NoPacket BY NoPacketTyped, RoomAssumption DEF SendVoice
<1>2. sender = "drains" BY <1>1 DEF IInv, PacketDrained
<1>3. /\ ThreadsTyped' /\ ResultsTyped' /\ FlagsTyped' /\ FlagsTrue' /\ FaultsCounted'
      /\ private' = private /\ global' = global /\ muted' = muted
  BY <1>2, RouteFrame DEF SendVoice
<1>4. packet' = NoPacket BY DEF SendVoice
<1>5. TalkTyped' BY <1>3, <1>4, NoPacketTyped DEF IInv, TalkTyped
<1>6. QED BY <1>3, <1>4, <1>5, NothingRouted DEF IInv

LEMMA RerouteSteps ==
    ASSUME IInv, Reroute,
           private' \subseteq Peers, global' \subseteq Peers, muted' \in BOOLEAN
    PROVE  IInv'
<1> USE DEF Reroute, Line, ControlOnly, results
<1>1. ThreadsTyped' BY DEF IInv, ThreadsTyped
<1>2. ResultsTyped' BY DEF IInv, ResultsTyped
<1>3. FlagsTyped' BY DEF IInv, FlagsTyped
<1>4. packet \in Packets /\ (packet = NoPacket) \in BOOLEAN
  BY DEF IInv, TalkTyped
<1>5. /\ packet' = [packet EXCEPT !.calm = (packet = NoPacket)]
      /\ sender' = sender
  OBVIOUS
<1>6. /\ packet' \in Packets /\ packet'.next = packet.next
      /\ packet'.calm <=> packet = NoPacket
  BY <1>4, <1>5 DEF Packets
<1>7. FlagsTrue' /\ FaultsCounted'
  BY DEF IInv, FlagsTrue, FaultsCounted
<1>8. RoutedSoFar' /\ PacketDrained'
  <2>1. CASE packet = NoPacket
    <3>1. packet' = NoPacket BY <1>5, <2>1 DEF NoPacket
    <3>2. QED BY <3>1, NothingRouted
  <2>2. CASE packet # NoPacket
    BY <1>5, <1>6, <2>2 DEF IInv, RoutedSoFar, PacketDrained
  <2>3. QED BY <2>1, <2>2
<1>9. QED BY <1>1, <1>2, <1>3, <1>6, <1>7, <1>8 DEF IInv, TalkTyped

LEMMA TalkSteps ==
    ASSUME IInv,
           ApplyInputMuted \/ \E p \in Peers : ApplyPeerTalk(p) \/ ApplyPeerSettings(p)
    PROVE  IInv'
<1>1. muted \in BOOLEAN /\ private \subseteq Peers /\ global \subseteq Peers
  BY DEF IInv, FlagsTyped, TalkTyped
<1>2. CASE ApplyInputMuted
  BY <1>1, <1>2, RerouteSteps DEF ApplyInputMuted
<1>3. ASSUME NEW p \in Peers, ApplyPeerTalk(p) PROVE IInv'
  BY <1>1, <1>3, RerouteSteps DEF ApplyPeerTalk
<1>4. ASSUME NEW p \in Peers, ApplyPeerSettings(p) PROVE IInv'
  BY <1>1, <1>4, RerouteSteps DEF ApplyPeerSettings
<1>5. QED BY <1>2, <1>3, <1>4

LEMMA IdleStep == ASSUME IInv, UNCHANGED vars PROVE IInv'
<1> USE DEF vars, threads, atomics, results
<1>1. packet' = packet /\ talk' = talk OBVIOUS
<1>2. ThreadsTyped' /\ ResultsTyped'
  <2>1. ThreadsTyped' BY DEF IInv, ThreadsTyped
  <2>2. ResultsTyped' BY DEF IInv, ResultsTyped
  <2>3. QED BY <2>1, <2>2
<1>3. FlagsTyped' BY <1>1, QuietTyped DEF IInv, FlagsTyped
<1>4. PacketDrained' BY <1>1 DEF IInv, PacketDrained
<1>5. FlagsTrue' /\ FaultsCounted'
  BY DEF IInv, FlagsTrue, FaultsCounted
<1>6. QED BY <1>1, <1>2, <1>3, <1>4, <1>5, QuietTyped DEF IInv

LEMMA NextIInv == IInv /\ [Next]_vars => IInv'
<1> SUFFICES ASSUME IInv, [Next]_vars PROVE IInv'
  OBVIOUS
<1>1. CASE MainNext \/ ReceiverNext \/ TelemetryEnds
  BY <1>1, MainSteps, ReceiverSteps
<1>2. CASE SenderNext
  BY <1>2, SenderQuietSteps, SenderFailsStep, RouteBeginStep, RouteConsiderStep, SendVoiceStep
  DEF SenderNext
<1>3. CASE ControlNext
  BY <1>3, ControlQuietSteps, TalkSteps DEF ControlNext
<1>4. CASE UNCHANGED vars BY <1>4, IdleStep
<1>5. QED BY <1>1, <1>2, <1>3, <1>4 DEF Next

THEOREM IInvHolds == Spec => []IInv
  BY InitIInv, NextIInv, PTL DEF Spec

-----------------------------------------------------------------------------
\* Every state a room reaches has its type, whatever the threads, the window and the devices
\* do and in whatever order.
THEOREM TypeCorrect == Spec => []TypeOK
  BY IInvHolds, IInvTypes, PTL

\* The room plays and shows itself only with its port bound, however the receiver's two flags
\* and the main thread's polls of them interleave.
THEOREM OpensOnlyWhenBound == Spec => []OpenOnlyWhenBound
<1>1. IInv => OpenOnlyWhenBound
  BY DEF IInv, FlagsTrue, Up, OpenOnlyWhenBound
<1>2. QED BY <1>1, IInvHolds, PTL

\* Exit code 0 means that neither the devices nor sending failed, for any set of contacts.
THEOREM FaultsAreReported == Spec => []FaultsReported
<1>1. IInv => FaultsReported
  <2>1. SUFFICES ASSUME IInv, main = "returned", play_result = 0
                 PROVE  faults \subseteq {"receive"}
    BY DEF FaultsReported
  <2>2. faults \subseteq {"render", "capture", "send", "receive"} /\ "render" \notin faults
    BY <2>1 DEF IInv, ResultsTyped, FaultsCounted
  <2>3. "capture" \notin faults /\ "send" \notin faults
    BY <2>1 DEF IInv, FaultsCounted
  <2>4. QED BY <2>2, <2>3
<1>2. QED BY <1>1, IInvHolds, PTL

\* A packet of the microphone goes to exactly the contacts the control lines name, for any
\* number of contacts.
THEOREM RoutesExactly == Spec => []RoutedExactly
<1>1. IInv => RoutedExactly
  <2>1. SUFFICES ASSUME IInv, packet.next = PeerCount + 1, packet.calm
                 PROVE  packet.targets = private \cup (IF muted THEN {} ELSE global)
    BY DEF RoutedExactly
  <2>2. private \subseteq Peers /\ global \subseteq Peers
    BY <2>1 DEF IInv, TalkTyped
  <2>3. \A p \in Peers : p < PeerCount + 1 BY RoomAssumption DEF Peers
  <2>4. PeerCount + 1 # 0 BY RoomAssumption
  <2>5. packet.targets = {p \in Peers : p \in private \/ (~muted /\ p \in global)}
    BY <2>1, <2>3, <2>4 DEF IInv, RoutedSoFar
  <2>6. QED BY <2>2, <2>5
<1>2. QED BY <1>1, IInvHolds, PTL
=============================================================================
