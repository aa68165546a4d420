---------------------------- MODULE RoomSession ----------------------------
(***************************************************************************)
(* A Core's room (core/application.cpp, run_room_test): the main thread    *)
(* opens the render device and plays, the receiver owns the sockets, the   *)
(* sender captures and routes the voice, the control reader takes the      *)
(* window's lines and a telemetry thread reports.  They share the atomics  *)
(* stop, receiver_ready, receiver_failed, presence_enabled, input_muted    *)
(* and the talk flags of each contact, and nothing else that matters here. *)
(***************************************************************************)
EXTENDS Integers

CONSTANTS
    PeerCount,      \* contacts are numbered 1 .. PeerCount
    Options         \* the sets of options a Core may be started with

ASSUME RoomAssumption ==
    /\ PeerCount \in Nat
    /\ Options \subseteq SUBSET {"sender", "control", "telemetry", "limit"}

Peers == 1 .. PeerCount

VARIABLES
    options,        \* which of these the Core was started with: "sender" (not listen_only),
                    \* "control" and "telemetry" (their pipes), "limit" (a duration)
    main,           \* what the main thread does; its next step, the threads' likewise
    receiver, sender, control, telemetry,
    stop, ready, failed, presence_enabled,
    presence,       \* presence_started; the Core answers and sends PINGs
    muted,          \* input_muted
    private,        \* contacts with private_talk
    global,         \* contacts with global_ptt_enabled
    packet,         \* the captured packet the sender routes
    send_result,    \* what run_room_send_test returned, or is to return; 0 or 1
    play_result,    \* play_result, or the code of an early return
    faults          \* history: which device calls went wrong

atomics == <<stop, ready, failed, presence_enabled>>
talk == <<muted, private, global>>
threads == <<main, receiver, sender, control, telemetry>>
results == <<send_result, play_result, faults>>
vars == <<options, threads, atomics, presence, talk, packet, results>>

NoPacket == [muted |-> TRUE, next |-> 0, targets |-> {}, calm |-> TRUE]
Gone == {"none", "refused", "done"}

Init ==
    /\ options \in Options
    /\ main = "waits" /\ receiver = "binds" /\ sender = "none"
    /\ control = IF "control" \in options THEN "runs" ELSE "none"
    /\ telemetry = IF "telemetry" \in options THEN "runs" ELSE "none"
    /\ stop = FALSE /\ ready = FALSE /\ failed = FALSE /\ presence_enabled = FALSE
    /\ presence = FALSE
    /\ muted \in BOOLEAN /\ private = {} /\ global \in SUBSET Peers
    /\ packet = NoPacket
    /\ send_result = 0 /\ play_result = 0 /\ faults = {}

-----------------------------------------------------------------------------
(* The main thread.                                                         *)

\* stop_and_join_room_threads, up to the joins
StopAndJoin == stop' = TRUE /\ main' = "joins"

\* Mutated form: a receiver that could not bind is taken for one that is ready.
WaitEndsReady ==
    /\ main = "waits" /\ ready
    /\ main' = "starts"
    /\ sender' = IF "sender" \in options THEN "sleeps" ELSE "none"
    /\ UNCHANGED <<options, receiver, control, telemetry, atomics, presence, talk, packet,
                   results>>

\* The receiver is up within a second.
WaitEnds ==
    /\ main = "waits" /\ ready /\ ~failed
    /\ main' = "starts"
    /\ sender' = IF "sender" \in options THEN "sleeps" ELSE "none"
    /\ UNCHANGED <<options, receiver, control, telemetry, atomics, presence, talk, packet,
                   results>>

WaitFails ==
    /\ main = "waits" /\ (~ready \/ failed)
    /\ StopAndJoin
    /\ play_result' = 1
    /\ UNCHANGED <<options, receiver, sender, control, telemetry, ready, failed,
                   presence_enabled, presence, talk, packet, send_result, faults>>

\* Prefilling or starting the render device fails.
StartFails ==
    /\ main = "starts"
    /\ StopAndJoin
    /\ play_result' = 1
    /\ faults' = faults \cup {"render"}
    /\ UNCHANGED <<options, receiver, sender, control, telemetry, ready, failed,
                   presence_enabled, presence, talk, packet, send_result>>

StartDone ==
    /\ main = "starts"
    /\ main' = "renders"
    /\ presence_enabled' = TRUE
    /\ UNCHANGED <<options, receiver, sender, control, telemetry, stop, ready, failed,
                   presence, talk, packet, results>>

\* A turn of the render loop ends it: stop is seen, or the time is up, ...
RenderEnds ==
    /\ main = "renders" /\ (stop \/ "limit" \in options)
    /\ main' = "leaves"
    /\ UNCHANGED <<options, receiver, sender, control, telemetry, atomics, presence, talk,
                   packet, results>>

\* ... or the device fails.
RenderFails ==
    /\ main = "renders"
    /\ main' = "leaves"
    /\ play_result' = 1
    /\ faults' = faults \cup {"render"}
    /\ UNCHANGED <<options, receiver, sender, control, telemetry, atomics, presence, talk,
                   packet, send_result>>

\* Behind the loop; the device may fail to stop.
Leave ==
    /\ main = "leaves"
    /\ StopAndJoin
    /\ \/ UNCHANGED <<play_result, faults>>
       \/ play_result' = 1 /\ faults' = faults \cup {"render"}
    /\ UNCHANGED <<options, receiver, sender, control, telemetry, ready, failed,
                   presence_enabled, presence, talk, packet, send_result>>

\* Mutated form: the sender, which may not have been started, is not joined.
ReturnEarly ==
    /\ main = "joins"
    /\ {receiver, control, telemetry} \subseteq Gone
    /\ main' = "returned"
    /\ play_result' = IF play_result # 0 THEN play_result ELSE send_result
    /\ UNCHANGED <<options, receiver, sender, control, telemetry, atomics, presence, talk,
                   packet, send_result, faults>>

\* The joins end and run_room_test returns.
Return ==
    /\ main = "joins"
    /\ {receiver, sender, control, telemetry} \subseteq Gone
    /\ main' = "returned"
    /\ play_result' = IF play_result # 0 THEN play_result ELSE send_result
    /\ UNCHANGED <<options, receiver, sender, control, telemetry, atomics, presence, talk,
                   packet, send_result, faults>>

-----------------------------------------------------------------------------
(* The receiver: receive_room_udp_audio.                                    *)

Bind ==
    /\ receiver = "binds"
    /\ receiver' = "loops"
    /\ ready' = TRUE
    /\ UNCHANGED <<options, main, sender, control, telemetry, stop, failed,
                   presence_enabled, presence, talk, packet, results>>

\* The port is taken, or there is no socket.
BindFails ==
    /\ receiver = "binds"
    /\ receiver' = "unbound"
    /\ failed' = TRUE
    /\ UNCHANGED <<options, main, sender, control, telemetry, stop, ready, presence_enabled,
                   presence, talk, packet, results>>

BindFailed ==
    /\ receiver = "unbound"
    /\ receiver' = "refused"
    /\ ready' = TRUE
    /\ UNCHANGED <<options, main, sender, control, telemetry, stop, failed,
                   presence_enabled, presence, talk, packet, results>>

\* The first turn of the loop that finds presence enabled
StartPresence ==
    /\ receiver = "loops" /\ ~stop /\ presence_enabled
    /\ presence' = TRUE
    /\ UNCHANGED <<options, threads, atomics, talk, packet, results>>

\* recvfrom fails: the loop ends, and nobody is told.
ReceiveFails ==
    /\ receiver = "loops"
    /\ receiver' = "closes"
    /\ failed' = (failed \/ ~stop)
    /\ faults' = faults \cup {"receive"}
    /\ UNCHANGED <<options, main, sender, control, telemetry, stop, ready, presence_enabled,
                   presence, talk, packet, send_result, play_result>>

ReceiveEnds ==
    /\ receiver = "loops" /\ stop
    /\ receiver' = "closes"
    /\ UNCHANGED <<options, main, sender, control, telemetry, atomics, presence, talk,
                   packet, results>>

\* A GOODBYE to every contact, if presence was started
SayGoodbye ==
    /\ receiver = "closes"
    /\ receiver' = "done"
    /\ UNCHANGED <<options, main, sender, control, telemetry, atomics, presence, talk,
                   packet, results>>

-----------------------------------------------------------------------------
(* The sender: run_room_send_test in its thread.                            *)

SenderOnly == UNCHANGED <<options, main, receiver, control, telemetry, atomics, presence, talk,
                          play_result>>

\* After 250 ms the capture device is opened.
SenderStarts ==
    /\ sender = "sleeps"
    /\ sender' = "captures"
    /\ SenderOnly /\ UNCHANGED <<packet, send_result, faults>>

\* A device call, or the socket, fails: the sender returns at once.
SenderFails ==
    /\ sender \in {"sleeps", "captures", "drains"}
    /\ sender' = "ends"
    /\ send_result' = 1
    /\ packet' = NoPacket
    /\ faults' = faults \cup {"capture"}
    /\ SenderOnly

\* The loop sees stop or its time is up; a datagram that could not be sent counts as a failure.
SenderStops ==
    /\ sender = "captures" /\ (stop \/ "limit" \in options)
    /\ sender' = "ends"
    /\ send_result' = IF "send" \in faults THEN 1 ELSE 0
    /\ SenderOnly /\ UNCHANGED <<packet, faults>>

\* The device has packets: they are taken until none is left, without a look at stop.
Captured ==
    /\ sender = "captures" /\ ~stop
    /\ sender' = "drains"
    /\ SenderOnly /\ UNCHANGED <<packet, send_result, faults>>

Drained ==
    /\ sender = "drains" /\ packet = NoPacket
    /\ sender' = "captures"
    /\ SenderOnly /\ UNCHANGED <<packet, send_result, faults>>

\* PeerRouter::begin
RouteBegin ==
    /\ sender = "drains" /\ packet = NoPacket
    /\ packet' = [NoPacket EXCEPT !.muted = muted, !.next = 1]
    /\ SenderOnly /\ UNCHANGED <<sender, send_result, faults>>

\* Mutated form: a muted microphone silences private talk too.
RouteConsiderMuted ==
    /\ packet.next \in Peers
    /\ packet' = [packet EXCEPT
            !.next = @ + 1,
            !.targets = IF ~packet.muted /\ packet.next \in private \cup global
                        THEN @ \cup {packet.next} ELSE @]
    /\ SenderOnly /\ UNCHANGED <<sender, send_result, faults>>

\* PeerRouter::consider, one contact after the other
RouteConsider ==
    /\ packet.next \in Peers
    /\ packet' = [packet EXCEPT
            !.next = @ + 1,
            !.targets = IF packet.next \in private \/ (~packet.muted /\ packet.next \in global)
                        THEN @ \cup {packet.next} ELSE @]
    /\ SenderOnly /\ UNCHANGED <<sender, send_result, faults>>

\* The packet goes to the targets; sendto may fail for any of them.
SendVoice ==
    /\ packet.next = PeerCount + 1
    /\ packet' = NoPacket
    /\ \/ UNCHANGED faults
       \/ packet.targets # {} /\ faults' = faults \cup {"send"}
    /\ SenderOnly /\ UNCHANGED <<sender, send_result>>

\* Mutated form: the room is not told that the sender ended.
SenderEndsAlone ==
    /\ sender = "ends"
    /\ sender' = "done"
    /\ UNCHANGED <<options, main, receiver, control, telemetry, atomics, presence, talk, packet,
                   results>>

SenderEnds ==
    /\ sender = "ends"
    /\ sender' = "done"
    /\ stop' = TRUE
    /\ UNCHANGED <<options, main, receiver, control, telemetry, ready, failed,
                   presence_enabled, presence, talk, packet, results>>

-----------------------------------------------------------------------------
(* The control reader: read_room_control_commands, apply_room_control_line. *)

ControlOnly == UNCHANGED <<options, main, receiver, sender, telemetry, ready, failed,
                           presence_enabled, presence, results>>

\* Some lines have arrived; all of them are applied before stop is looked at again.
ControlReads ==
    /\ control = "runs" /\ ~stop
    /\ control' = "applies"
    /\ ControlOnly /\ UNCHANGED <<stop, talk, packet>>

ControlApplied ==
    /\ control = "applies"
    /\ control' = "runs"
    /\ ControlOnly /\ UNCHANGED <<stop, talk, packet>>

\* stop is seen, or the window closed the pipe
ControlEnds ==
    /\ control = "runs"
    /\ control' = "done"
    /\ ControlOnly /\ UNCHANGED <<stop, talk, packet>>

Line == control = "applies" /\ control' = control /\ ControlOnly

ApplyShutdown ==
    /\ Line
    /\ stop' = TRUE
    /\ UNCHANGED <<talk, packet>>

\* A line that changes who hears the user; the packet under way may miss it.
Reroute ==
    /\ Line
    /\ talk' # talk
    /\ packet' = [packet EXCEPT !.calm = (packet = NoPacket)]
    /\ UNCHANGED stop

ApplyInputMuted == muted' = ~muted /\ UNCHANGED <<private, global>> /\ Reroute

ApplyPeerTalk(p) ==
    /\ private' \in {private \cup {p}, private \ {p}}
    /\ UNCHANGED <<muted, global>> /\ Reroute

ApplyPeerSettings(p) ==
    /\ global' \in {global \cup {p}, global \ {p}}
    /\ UNCHANGED <<muted, private>> /\ Reroute

TelemetryEnds ==
    /\ telemetry = "runs" /\ stop
    /\ telemetry' = "done"
    /\ UNCHANGED <<options, main, receiver, sender, control, atomics, presence, talk, packet,
                   results>>

-----------------------------------------------------------------------------
MainNext ==
    WaitEnds \/ WaitFails \/ StartFails \/ StartDone \/ RenderEnds \/ RenderFails \/ Leave \/ Return
ReceiverNext ==
    Bind \/ BindFails \/ BindFailed \/ StartPresence \/ ReceiveFails \/ ReceiveEnds \/ SayGoodbye
SenderNext ==
    \/ SenderStarts \/ SenderFails \/ SenderStops \/ Captured \/ Drained
    \/ RouteBegin \/ RouteConsider \/ SendVoice \/ SenderEnds
ControlNext ==
    \/ ControlReads \/ ControlApplied \/ ControlEnds
    \/ ApplyShutdown \/ ApplyInputMuted
    \/ \E p \in Peers : ApplyPeerTalk(p) \/ ApplyPeerSettings(p)

Next == MainNext \/ ReceiverNext \/ SenderNext \/ ControlNext \/ TelemetryEnds

Spec == Init /\ [][Next]_vars

\* Every thread goes on, and the sender catches up with the capture device.  Nothing need
\* fail, no line need come, and the pipes may stay open for ever.
FairSpec ==
    /\ Spec
    /\ WF_vars(WaitEnds \/ WaitFails) /\ WF_vars(StartDone \/ StartFails)
    /\ WF_vars(RenderEnds) /\ WF_vars(Leave) /\ WF_vars(Return)
    /\ WF_vars(Bind \/ BindFails) /\ WF_vars(BindFailed)
    /\ WF_vars(ReceiveEnds) /\ WF_vars(SayGoodbye)
    /\ WF_vars(SenderStarts \/ SenderFails) /\ WF_vars(SenderStops) /\ SF_vars(Drained)
    /\ WF_vars(RouteConsider \/ SendVoice) /\ WF_vars(SenderEnds)
    /\ WF_vars(ControlApplied) /\ WF_vars(stop /\ ControlEnds) /\ WF_vars(TelemetryEnds)

-----------------------------------------------------------------------------
Packets == [muted : BOOLEAN, next : 0 .. PeerCount + 1, targets : SUBSET Peers, calm : BOOLEAN]

TypeOK ==
    /\ main \in {"waits", "starts", "renders", "leaves", "joins", "returned"}
    /\ receiver \in {"binds", "unbound", "refused", "loops", "closes", "done"}
    /\ sender \in {"none", "sleeps", "captures", "drains", "ends", "done"}
    /\ control \in {"none", "runs", "applies", "done"}
    /\ telemetry \in {"none", "runs", "done"}
    /\ {stop, ready, failed, presence_enabled, presence, muted} \subseteq BOOLEAN
    /\ private \subseteq Peers /\ global \subseteq Peers
    /\ packet \in Packets /\ (packet = NoPacket \/ sender = "drains")
    /\ send_result \in {0, 1} /\ play_result \in {0, 1}
    /\ faults \subseteq {"render", "capture", "send", "receive"}

\* The room plays, and the Core shows itself to others, only when it could open its port
\* and its render device: the two flags of the receiver are set one after the other while
\* the main thread polls them.
OpenOnlyWhenBound ==
    /\ main \in {"starts", "renders"} => receiver \notin {"binds", "unbound", "refused"}
    /\ presence => main \notin {"waits", "starts"} /\ receiver # "refused"

\* A room that ended with code 0 had no trouble with its devices or with sending.  (That
\* receiving failed is not reported.)
FaultsReported ==
    main = "returned" /\ play_result = 0 => faults \subseteq {"receive"}

\* When no control line came in between, a packet goes exactly to the contacts the lines so
\* far say: to those talked to privately, muted or not, and to the group if not muted.
RoutedExactly ==
    packet.next = PeerCount + 1 /\ packet.calm =>
        packet.targets = private \cup (IF muted THEN {} ELSE global)

\* Whatever ends the room, a line, a device or the time, all threads end and it returns;
\* the process never stays behind with a thread that nobody told.
Ending == stop \/ main \in {"leaves", "joins"} \/ sender \in {"ends", "done"}
AllEnd == Ending ~> (main = "returned")

\* While it plays, the Core hears its contacts, as it must for what the window says of them to
\* be true: "the tooltip reports the exact state and RTT" (CHANGELOG.md:19).
ListensWhileOpen == main = "renders" /\ ~stop => receiver = "loops"
=============================================================================
