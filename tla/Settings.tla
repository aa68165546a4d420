------------------------------ MODULE Settings ------------------------------
(***************************************************************************)
(* The settings of the window: what the settings file keeps of them        *)
(* (gui/settings_store.cpp), what the dialogs make of what is typed        *)
(* (gui/contact_dialog.cpp, gui/network_settings_dialog.cpp), and the texts *)
(* that carry a contact to the Core (gui/application.cpp,                   *)
(* core/room_session.cpp).                                                 *)
(*                                                                         *)
(* Gains, decibels and thresholds are whole numbers of 1/Unit, as on the   *)
(* command line; half of a step is rounded up.                             *)
(***************************************************************************)
EXTENDS Options

Clamp(v, low, high) == IF v < low THEN low ELSE IF v > high THEN high ELSE v
Rounded(v, step) == ((v + step \div 2) \div step) * step
GainMax == 3 * Unit
Near(x, y, step) == x - y \in -step .. step

\* A gain goes in steps: kContactGainStep of the list and of a command line, and the finer
\* kGainStep of the contact dialog
GainStep == Unit \div 10
DialogGainStep == Unit \div 20

\* What the numbers of a contact may be
PortNumbers == 1 .. 65535
GainRange == 0 .. GainMax
DbRange == 0 .. 60 * Unit
LevelRange == 0 .. Unit
TimeRange == 0 .. 1000
ReleaseRange == 0 .. 5000
BufferRange == 5 .. 100
KeyRange == 1 .. 255
NoHotkey == [modifiers |-> 0, vk |-> 0]
HotkeyRange == {NoHotkey} \cup [modifiers : 0 .. 15, vk : KeyRange]

\* A contact as the window keeps it, and as a line of the file may hold it
Contacts ==
    [name : Tokens, host : Tokens, port : PortNumbers, gain : GainRange,
     muted : BOOLEAN, ptt : BOOLEAN, selfDuck : BOOLEAN, db : DbRange, threshold : LevelRange,
     attack : TimeRange, hold : TimeRange, release : ReleaseRange, buffer : BufferRange,
     hotkey : HotkeyRange]
ContactLines ==
    [name : Tokens, host : Tokens, port : Int, gain : Int,
     muted : BOOLEAN, ptt : BOOLEAN, selfDuck : BOOLEAN, db : Int, threshold : Int,
     attack : Int, hold : Int, release : Int, buffer : Int,
     hotkey : [modifiers : Nat, vk : Nat], fields : 9 .. 14]

DefaultContact ==
    [name |-> Empty, host |-> Txt("127.0.0.1"), port |-> DefaultUdpPort, gain |-> Unit,
     muted |-> FALSE, ptt |-> TRUE, selfDuck |-> TRUE, db |-> 12 * Unit, threshold |-> 20000,
     attack |-> 8, hold |-> 80, release |-> 120, buffer |-> 20, hotkey |-> NoHotkey]
DefaultSettings ==
    [language |-> "auto", port |-> DefaultUdpPort, adapter |-> Empty,
     devices |-> [flow \in {"capture", "render"} |-> Empty], contacts |-> <<>>]

-----------------------------------------------------------------------------
(* The settings file: settings, with each contact as the fields of its line. *)

encode_hotkey(key) == IF key.vk = 0 THEN NoHotkey ELSE key
decode_hotkey(key) ==
    IF key.vk \in 1 .. 255 THEN [modifiers |-> key.modifiers % 16, vk |-> key.vk] ELSE NoHotkey

\* A contact's line is written with fields 1 .. 14.
ContactLine(contact) ==
    [name |-> contact.name, host |-> contact.host, port |-> contact.port,
     gain |-> Rounded(contact.gain, 100),
     selfDuck |-> contact.selfDuck, db |-> Rounded(contact.db, 100),
     threshold |-> contact.threshold, attack |-> contact.attack, hold |-> contact.hold,
     release |-> contact.release, muted |-> contact.muted,
     hotkey |-> encode_hotkey(contact.hotkey), ptt |-> contact.ptt,
     buffer |-> contact.buffer, fields |-> 14]

serialize_settings(s) ==
    [s EXCEPT !.contacts = [k \in DOMAIN s.contacts |-> ContactLine(s.contacts[k])]]

\* A line of nine fields, of the first versions, has no name; of ten, none of the last four.
parse_contact(line) ==
    LET d == DefaultContact
    IN  [name      |-> IF line.fields = 9 THEN line.host ELSE line.name,
         host      |-> line.host,
         port      |-> Clamp(line.port, 1, 65535),
         gain      |-> Clamp(line.gain, 0, 3 * Unit),
         selfDuck  |-> line.selfDuck,
         db        |-> Clamp(line.db, 0, 60 * Unit),
         threshold |-> Clamp(line.threshold, 0, Unit),
         attack    |-> Clamp(line.attack, 0, 1000),
         hold      |-> Clamp(line.hold, 0, 1000),
         release   |-> Clamp(line.release, 0, 5000),
         muted     |-> IF line.fields >= 11 THEN line.muted ELSE d.muted,
         hotkey    |-> IF line.fields >= 12 THEN decode_hotkey(line.hotkey) ELSE d.hotkey,
         ptt       |-> IF line.fields >= 13 THEN line.ptt ELSE d.ptt,
         buffer    |-> IF line.fields >= 14 THEN Clamp(line.buffer, 5, 100) ELSE d.buffer]

parse_settings(file) ==
    [file EXCEPT !.port = Clamp(@, 1, 65535),
                 !.contacts = [k \in DOMAIN file.contacts |-> parse_contact(file.contacts[k])]]

-----------------------------------------------------------------------------
(* The contact dialog: an edit control holds a token, Empty when it is blank. *)

\* format_decimal: the zeros at the end go, and the point if nothing is left behind it
format_decimal(v, step) ==
    LET r == Rounded(v, step) IN IF r % Unit = 0 THEN Num(r \div Unit) ELSE Dec(r)
format_gain(v) == format_decimal(Rounded(Clamp(v, 0, GainMax), DialogGainStep), 1000)

parse_port(t) ==
    IF Whole(t, 1, 65535) = {} THEN 0 ELSE t[2]
parse_double(t, fallback, low, high) ==
    IF t[1] = "num" THEN Clamp(t[2] * Unit, low, high)
    ELSE IF t[1] = "dec" THEN Clamp(t[2], low, high) ELSE fallback
parse_int(t, fallback, low, high) ==
    IF t[1] = "num" THEN Clamp(t[2], low, high) ELSE fallback

\* create_controls: what the controls show of a contact
Shown(contact) ==
    [name |-> contact.name, host |-> contact.host, port |-> Num(contact.port),
     gain |-> format_gain(contact.gain), selfDuck |-> contact.selfDuck,
     db |-> format_decimal(contact.db, 1000),
     threshold |-> format_decimal(contact.threshold, 10),
     attack |-> Num(contact.attack), hold |-> Num(contact.hold),
     release |-> Num(contact.release), buffer |-> Num(Clamp(contact.buffer, 5, 100))]

\* contact_from_dialog: what has no control is kept.
contact_from_dialog(controls, initial) ==
    [name      |-> controls.name,
     host      |-> controls.host,
     port      |-> parse_port(controls.port),
     gain      |-> parse_double(controls.gain, Unit, 0, GainMax),
     selfDuck  |-> controls.selfDuck,
     db        |-> parse_double(controls.db, 12 * Unit, 0, 60 * Unit),
     threshold |-> parse_double(controls.threshold, 20000, 0, Unit),
     attack    |-> parse_int(controls.attack, 8, 0, 1000),
     hold      |-> parse_int(controls.hold, 80, 0, 1000),
     release   |-> parse_int(controls.release, 120, 0, 5000),
     buffer    |-> parse_int(controls.buffer, 20, 5, 100),
     muted     |-> initial.muted,
     ptt       |-> initial.ptt,
     hotkey    |-> initial.hotkey]

validate(contact) == contact.name # Empty /\ contact.host # Empty /\ contact.port # 0

\* show_contact_dialog: the contact it gives when OK closes it, none while OK is refused
DialogResult(initial, typed) ==
    LET shown == Shown(initial)
        controls == [f \in DOMAIN shown |-> IF f \in DOMAIN typed THEN typed[f] ELSE shown[f]]
        contact == contact_from_dialog(controls, initial)
    IN  IF validate(contact) THEN {contact} ELSE {}

\* read_result of the network dialog: its port, none while it is refused
PortResult(t) == Whole(t, 1, 65535)

-----------------------------------------------------------------------------
(* A contact on its way to the Core.                                        *)

contact_runtime_gain_text(contact) ==
    IF contact.muted THEN Num(0)
    ELSE Dec(Rounded(Clamp(contact.gain, 0, GainMax), GainStep))

\* The --peer of build_command_line
PeerArguments(contact) ==
    <<Opt("--peer"), contact.host, Num(contact.port), contact_runtime_gain_text(contact),
      IF contact.selfDuck THEN format_decimal(contact.db, 1000) ELSE Num(0),
      format_decimal(contact.threshold, 10), Num(contact.attack), Num(contact.hold),
      Num(contact.release), Num(IF contact.ptt THEN 1 ELSE 0), Num(contact.buffer)>>

\* The line peer_settings of send_contact_runtime_settings: six significant digits
SixDigits(v) == IF v >= 10 * Unit THEN Rounded(v, 10) ELSE v
RuntimeSettings(contact) ==
    [gain |-> IF contact.muted THEN 0 ELSE SixDigits(contact.gain),
     db |-> IF contact.selfDuck THEN SixDigits(contact.db) ELSE 0,
     threshold |-> SixDigits(contact.threshold),
     attack |-> contact.attack, hold |-> contact.hold, release |-> contact.release,
     ptt |-> contact.ptt]

valid_room_peer_settings(update) ==
    /\ update.gain \in 0 .. 8 * Unit
    /\ update.db \in 0 .. 60 * Unit
    /\ update.threshold \in 0 .. Unit
    /\ update.attack \in 0 .. 1000 /\ update.hold \in 0 .. 1000
    /\ update.release \in 0 .. 5000

\* apply_room_control_line, peer_settings: a contact the Core has and settings it allows
Applied(peers, index, update) ==
    IF index \in DOMAIN peers /\ valid_room_peer_settings(update)
    THEN [peers EXCEPT ![index] = Over(update, @)]
    ELSE peers
=============================================================================
