------------------------------ MODULE Speaking ------------------------------
(***************************************************************************)
(* Who is shown to speak: the voice packets the Core receives and plays     *)
(* (core/application.cpp), its snapshot of them (telemetry_snapshot.cpp),   *)
(* the contacts' meters (gui/contact_list_model.cpp) and the overlay with   *)
(* its timer (gui/application.cpp), while contacts are added and removed    *)
(* and Cores end and start.                                                 *)
(*                                                                         *)
(* Time goes by in intervals of telemetry.  A Core at work plays a block    *)
(* and writes a snapshot in each, and the window handles in it what was     *)
(* posted.  One that was told to end writes one more at the most, and ends  *)
(* before the interval does.  A contact is the person at its endpoint; of a *)
(* packet it matters that it marks the stream and whether what it holds is  *)
(* loud.  The user's own talk, which has rows in the overlay too, is left   *)
(* out.                                                                     *)
(***************************************************************************)
EXTENDS Integers, Sequences, SequencesExt, FiniteSets

CONSTANTS
    Callers,     \* people who may be contacts
    StreamHold,  \* kRoomStreamActivityHoldMs, in intervals
    OsdHold,     \* kOsdVoiceHoldMs, in intervals
    MaxCores,    \* bound: Cores started
    MaxVoice     \* bound: voice packets

ASSUME SpeakingAssumption ==
    /\ IsFiniteSet(Callers)
    /\ StreamHold \in Nat \ {0} /\ OsdHold \in Nat /\ StreamHold <= OsdHold
    /\ MaxCores \in Nat \ {0} /\ MaxVoice \in Nat

VARIABLES
    listed,   \* who the window's contacts are
    meters,   \* the meter of each
    overlay,  \* the OSD: whether the program is in front, who is in a row, the timer
    room,     \* the Core
    again,    \* restart_after_stop
    mail,     \* the messages posted to the window, and the snapshot to be taken by them
    packets,  \* the voice packets that may come yet (not a variable of the code)
    played    \* how long ago a loud block of each was played (not a variable of the code)

vars == <<listed, meters, overlay, room, again, mail, packets, played>>

-----------------------------------------------------------------------------
\* A moment is kept as the intervals since, up to Never, the value 0 of the code.
Never == OsdHold + 3
Older(age) == IF age = Never THEN Never ELSE age + 1

Silent == [voice |-> FALSE, stream |-> FALSE, last |-> Never]
Meters(n) == [i \in 1 .. n |-> Silent]

\* A Core as it starts for the contacts in list
Room(list, number) ==
    [phase |-> "runs", number |-> number, list |-> list,
     last |-> [i \in DOMAIN list |-> Never], loud |-> [i \in DOMAIN list |-> FALSE],
     queued |-> [i \in DOMAIN list |-> FALSE], due |-> {"block", "snapshot"}]
NoRoom == [Room(<<>>, 0) EXCEPT !.phase = "none", !.due = {}]
Works == room.phase = "runs"

NoMail == [posted |-> <<>>, latest |-> <<>>]

Hidden(front) == [front |-> front, rows |-> {}, timer |-> Never]

Init ==
    /\ listed = SetToSeq(Callers) /\ meters = Meters(Len(listed)) /\ overlay = Hidden(TRUE)
    /\ room = Room(listed, 1) /\ again = FALSE /\ mail = NoMail /\ packets = MaxVoice
    /\ played = [p \in Callers |-> Never]

-----------------------------------------------------------------------------
\* active_osd_rows, as far as others speak
Rows(list, m) == {list[i] : i \in {j \in DOMAIN m : m[j].voice \/ m[j].last <= OsdHold}}

\* schedule_osd_hold_timer
HoldTimer(m) ==
    LET held == {i \in DOMAIN m : ~m[i].voice /\ m[i].last < OsdHold}
    IN  IF held = {} THEN Never
        ELSE CHOOSE t \in {OsdHold - m[i].last : i \in held} :
                \A i \in held : t <= OsdHold - m[i].last

\* update_osd_overlay
Overlay(front, list, m) ==
    IF front \/ Rows(list, m) = {} THEN Hidden(front)
    ELSE [front |-> front, rows |-> Rows(list, m), timer |-> HoldTimer(m)]

\* TelemetrySnapshot::serialize
Serialize == [i \in DOMAIN room.list |->
    [voice |-> room.loud[i], stream |-> room.last[i] <= StreamHold]]

\* ContactMeterBank::update for each contact the snapshot speaks of
Updated(m, snapshot) == [i \in DOMAIN m |->
    IF i \notin DOMAIN snapshot THEN m[i]
    ELSE [voice |-> snapshot[i].voice, stream |-> snapshot[i].stream,
          last |-> IF snapshot[i].voice THEN 0 ELSE m[i].last]]

-----------------------------------------------------------------------------
\* receive_room_udp_audio: a voice packet of a contact; one that is flagged silent marks
\* nothing and is not modelled.
VoiceArrives(i, loud) ==
    /\ Works /\ i \in DOMAIN room.list /\ packets > 0 /\ packets' = packets - 1
    /\ room' = [room EXCEPT !.last[i] = 0, !.queued[i] = @ \/ loud]
    /\ UNCHANGED <<listed, meters, overlay, again, mail, played>>

\* fill_render_buffer_from_room_peers: of those who have something loud queued, some are heard.
BlockPlayed ==
    /\ Works /\ "block" \in room.due
    /\ \E now \in SUBSET {i \in DOMAIN room.list : room.queued[i]} :
        /\ room' = [room EXCEPT !.due = @ \ {"block"}, !.loud = [i \in DOMAIN @ |-> i \in now],
                                !.queued = [i \in DOMAIN @ |-> @[i] /\ i \notin now]]
        /\ played' = [p \in Callers |-> IF \E i \in now : room.list[i] = p THEN 0 ELSE played[p]]
    /\ UNCHANGED <<listed, meters, overlay, again, mail>>

\* A notice of telemetry is posted unless one waits.
Posted(message) == [mail EXCEPT !.posted = IF message \in ToSet(@) THEN @ ELSE Append(@, message)]

\* A Core that was told to end, or ends, leaves its last snapshot.
RoomLeft(phase) ==
    /\ room' = [NoRoom EXCEPT !.phase = phase, !.number = room.number]
    /\ played' = [p \in Callers |-> Never]

\* write_room_telemetry, and the reader of the window
SnapshotWritten ==
    /\ Works /\ "snapshot" \in room.due
    /\ room' = [room EXCEPT !.due = @ \ {"snapshot"}]
    /\ mail' = [Posted("telemetry") EXCEPT !.latest = Serialize]
    /\ UNCHANGED <<listed, meters, overlay, again, played>>

\* The Core ends: by itself, and a last snapshot may be read behind its notice, or because it
\* was told to.
RoomEnds ==
    /\ room.phase \in {"runs", "stopping"}
    /\ RoomLeft("ended")
    /\ \/ mail' = Posted("exit")
       \/ /\ Works /\ "telemetry" \notin ToSet(mail.posted)
          /\ mail' = [posted |-> mail.posted \o <<"exit", "telemetry">>, latest |-> Serialize]
    /\ UNCHANGED <<listed, meters, overlay, again>>

-----------------------------------------------------------------------------
\* Mutated form: the generation of what is read is not looked at.
StartUnaware(list) ==
    /\ room.number < MaxCores
    /\ room' = Room(list, room.number + 1) /\ meters' = Meters(Len(list))
    /\ overlay' = Hidden(overlay.front)
    /\ mail' = [mail EXCEPT !.posted = SelectSeq(@, LAMBDA m : m = "telemetry")]
    /\ played' = [p \in Callers |-> Never]

\* start_core: what was posted for the Core before is not looked at any more.
Start(list) ==
    /\ room.number < MaxCores
    /\ room' = Room(list, room.number + 1) /\ meters' = Meters(Len(list))
    /\ overlay' = Hidden(overlay.front) /\ mail' = NoMail
    /\ played' = [p \in Callers |-> Never]

\* restart_core_after_settings_change, with the contacts and meters as they are now; a start
\* may fail.
RestartWith(list, m) ==
    /\ listed' = list
    /\ \/ Works /\ RoomLeft("stopping") /\ again' = TRUE
          /\ mail' \in {mail, [Posted("telemetry") EXCEPT !.latest = Serialize]}
          /\ meters' = m /\ UNCHANGED overlay
       \/ /\ room.phase = "stopping" /\ again' = TRUE
          /\ meters' = m /\ UNCHANGED <<overlay, room, mail, played>>
       \/ /\ room.phase \notin {"runs", "stopping"} /\ UNCHANGED again
          /\ \/ Start(list)
             \/ meters' = m /\ UNCHANGED <<overlay, room, mail, played>>

AddListed(p) == p \notin ToSet(listed) /\ RestartWith(Append(listed, p), Append(meters, Silent))
RemoveListed(i) ==
    i \in DOMAIN listed /\ RestartWith(RemoveAt(listed, i), RemoveAt(meters, i))

\* cleanup_finished_process
ExitTaken ==
    /\ mail.posted # <<>> /\ Head(mail.posted) = "exit"
    /\ again' = FALSE
    /\ \/ again /\ Start(listed)
       \/ /\ room' = [room EXCEPT !.phase = "none"]
          /\ meters' = Meters(Len(listed)) /\ overlay' = Hidden(overlay.front)
          /\ mail' = [mail EXCEPT !.posted = Tail(@)] /\ UNCHANGED played
    /\ UNCHANGED listed

\* WM_APP_CORE_TELEMETRY: apply_telemetry_snapshot
SnapshotTaken ==
    /\ mail.posted # <<>> /\ Head(mail.posted) = "telemetry"
    /\ mail' = [posted |-> Tail(mail.posted), latest |-> <<>>]
    /\ meters' = Updated(meters, mail.latest)
    /\ overlay' = Overlay(overlay.front, listed, meters')
    /\ UNCHANGED <<listed, room, again, played>>

\* WM_ACTIVATEAPP
Activated ==
    /\ overlay' = Overlay(~overlay.front, listed, meters)
    /\ UNCHANGED <<listed, meters, room, again, mail, played>>

\* WM_TIMER of IDT_OSD_HOLD
HoldOver ==
    /\ overlay.timer = 0
    /\ overlay' = Overlay(overlay.front, listed, meters)
    /\ UNCHANGED <<listed, meters, room, again, mail, played>>

IntervalPasses ==
    /\ mail.posted = <<>> /\ overlay.timer # 0
    /\ room.phase # "stopping" /\ room.due = {}
    /\ room' = [room EXCEPT !.last = [i \in DOMAIN @ |-> Older(@[i])],
                            !.due = IF Works THEN {"block", "snapshot"} ELSE {}]
    /\ meters' = [i \in DOMAIN meters |-> [meters[i] EXCEPT !.last = Older(@)]]
    /\ overlay' = [overlay EXCEPT !.timer = IF @ = Never THEN @ ELSE @ - 1]
    /\ played' = [p \in Callers |-> Older(played[p])]
    /\ UNCHANGED <<listed, again, mail>>

Next ==
    \/ \E i \in DOMAIN room.list, loud \in BOOLEAN : VoiceArrives(i, loud)
    \/ /\ \/ \E i \in DOMAIN listed : RemoveListed(i)
          \/ \E p \in Callers : AddListed(p)
          \/ BlockPlayed \/ SnapshotWritten \/ RoomEnds \/ ExitTaken \/ SnapshotTaken
          \/ Activated \/ HoldOver \/ IntervalPasses
       /\ UNCHANGED packets

Spec == Init /\ [][Next]_vars

-----------------------------------------------------------------------------
\* A card is lit two intervals after its contact was heard at the latest, and not when nothing
\* has been heard of it for the hold; its level is that of somebody played just now.
CardsFollow == \A i \in DOMAIN listed :
    /\ room.last[i] \in 2 .. StreamHold => meters[i].stream
    /\ meters[i].stream => room.last[i] <= StreamHold + 1
    /\ meters[i].voice => played[listed[i]] <= 2

\* The overlay has a row for who speaks, unless the program is in front, and for nobody else
\* when the hold is over.
OverlayFollows ==
    /\ \A p \in overlay.rows : p \in ToSet(listed) /\ played[p] <= OsdHold + 2
    /\ \A i \in DOMAIN listed : meters[i].voice /\ ~overlay.front => listed[i] \in overlay.rows
    /\ overlay.front => overlay.rows = {}

\* While a Core works for the contacts as they are, who is shown to speak on the cards and in
\* the overlay is who was heard by that Core, and not who was heard by the one before, or at
\* the same place in a list of earlier contacts (CHANGELOG.md:55, "In-game OSD for incoming
\* and outgoing voice activity").
SpeakersShown == room.phase = "runs" /\ room.list = listed => CardsFollow /\ OverlayFollows
=============================================================================
