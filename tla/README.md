# LanSpeak: a TLA+ verification project

LanSpeak is a peer-to-peer voice chat for a LAN.  Two Windows processes make one node:
`LanSpeakCore.exe` (`src/src/core`) owns audio devices, UDP sockets, jitter buffers and the
mixer; `LanSpeak.exe` (`src/src/gui`) owns settings, hotkeys and windows, starts the Core, sends
it control lines over a pipe and reads telemetry lines from another.  Nodes talk to each
other over UDP only: there is no server, and every datagram may be lost, repeated, delayed or
reordered.

Line numbers below and in `PROJECT.json` are those of the repository's files.

## 1. Inventory

| Part | Source | State | Operations | Interacts with |
|---|---|---|---|---|
| Jitter buffer | `core/jitter_buffer` | expected number, pending map, ready ring, started, counters | push, pop_into, reset | receiver thread pushes, render thread pops |
| Presence | `core/presence_tracker`, `udp_presence_packet` | per peer: state, remote session, RTT, outstanding ping | start, tick, on_packet, on_audio_packet, shutdown | receiver thread; PING/PONG/GOODBYE datagrams |
| Peer info | `core/peer_info_tracker`, `udp_peer_info_packet` | per peer: local and remote latency profile with revision, retry state | set_local_profile, update_presence, tick, on_packet | fed by presence; INFO/ACK/REQUEST datagrams |
| Latency model | `core/latency_model` | estimator windows, shared profile | add_packet, publish, estimate | sender thread writes, receiver thread reads |
| Discovery | `core/network_discovery`, `udp_discovery_packet` | reply cache, discovered peers in the telemetry snapshot | should_reply, begin_discovery, add_discovered_peer | broadcast datagrams, GUI command `discover` |
| Room receiver | `core/application.cpp` `receive_room_udp_audio` | sockets, presence, peer info, discovery request | one loop: tick, send, receive, dispatch | sets `receiver_ready`, `receiver_failed`, reads `stop`, `presence_enabled` |
| Room session | `core/application.cpp` `run_room_test`, `core/room_session` | threads, atomics `stop`, `input_muted`, per-peer talk flags | start, control lines, stop and join | receiver, sender, control, telemetry, render threads |
| Sender and routing | `core/application.cpp` `run_room_send_test`, `core/peer_router` | per-peer send sequence, send buffers | consider, send | capture device, UDP |
| Mixer and ducking | `core/room_mixer`, `core/application.cpp` `fill_render_buffer_from_room_peers` | smoothed gains, self-ducking | mix | jitter buffers, render device |
| Telemetry | `core/telemetry_snapshot`, `gui/telemetry_protocol`, `common/line_buffer` | snapshot, line buffer | publish, parse | Core's pipe, GUI |
| Core process controller | `gui/core_process_controller` | process handle, generation, running, stop_requested | start, write_control, request_stop, finalize, shutdown_and_wait | GUI thread, reader thread, exit waiter, stop fallback |
| Talk state | `gui/application.cpp` (push-to-talk, restart) | talk sources, latches, restart bookkeeping | buttons, hotkeys, latches, contact edits, start/stop/restart of the Core | controller, control pipe |
| Hotkeys | `gui/application.cpp` (hooks, hotkey dialog), `gui/hotkey_utils` | hotkeys, hooks installed, what is held | hook procedures, record, clear | keyboard and mouse; posts to talk state |
| Settings file and dialogs | `gui/settings_store`, `gui/contact_dialog`, `gui/network_settings_dialog`, `gui/application.cpp` | settings in memory and on disk, combo boxes, adapter | load, save, every edit | file system, audio devices, network adapters, Core's command line and pipe |
| Single instance, window, tray | `gui/application.cpp`, `gui/tray_icon` | mutex, event, window, icon | launch, hide, show, exit | other instances, Core |
| Contact list, meters, overlay | `gui/contact_list_model`, `gui/osd_overlay`, `gui/vu_math`, `gui/application.cpp` | meter of each contact, rows of the overlay, hold timer | update, schedule, hide | telemetry |
| Other dialogs, drawing, localization | `gui/about_dialog`, `gui/audio_latency_dialog`, `gui/localization`, ... | window state | message handlers | user |
| Options | `core/options` | none | parse | console, window's command line |
| Devices, diagnostics | `core/wasapi_*`, diagnostic modes of `core/application.cpp` | none shared | one-shot commands | console, WASAPI |

What is hard about the parts, and what makes them correct:

* **Jitter buffer.** Packets overtake each other, repeat and vanish; two threads share the
  buffer; a new sender session is told from a late packet only by its number.  Correct: what is
  played is the stream in order, no frame twice; memory is bounded; a hole does not silence
  the peer; the counters add up.
* **Presence.** Both sides probe on their own clocks; datagrams of an earlier session come late;
  GOODBYE is sent once.  Correct: two nodes that stay see each other online; a crashed one is
  noticed; the RTT is one of the present session; answers do not answer each other for ever.
* **Peer info.** Presence and INFO arrive in either order; revisions change while an ACK is
  under way; retries end after three attempts.  Correct: the profile used is of the contact's
  present session and never an older revision; both sides end up with the last one; the
  exchange ends.
* **Discovery.** Answers come late, twice and to a request that was superseded; telemetry carries
  them in pieces; the Core may end or be restarted behind the open dialog.  Correct: only
  answers to the search on show are shown, each of them once and all of them; nobody becomes a
  contact twice.
* **Room session, receiver, sender.** Five threads, one `stop` flag that any of them may set;
  start-up waits one second for the receiver; any device call may fail.  Correct: whoever
  fails, all threads end and are joined; nothing is sent before presence may start; a peer
  gets voice exactly when routed.
* **Telemetry.** Writer and reader on a pipe that splits lines anywhere; the reader coalesces.
  Correct: a snapshot is applied whole or not at all, the last one is applied.
* **Controller.** Four threads; handles and thread objects replaced by the next start; exit
  notices that outlive their process.  Correct: nobody waits for a working process, a stop
  ends, each end is cleaned up once, telemetry is announced.
* **Talk state.** Hotkeys arrive by messages that other handlers overtake; the Core may end at
  any moment; every settings change restarts it.  Correct: the microphone is open only while
  the user means it, to those the window shows; latches survive a restart; the Core works with
  the settings shown.

* **Hotkeys.** Two hooks see every key and only post; keys, modifiers and repeats come in any
  order; the hooks are taken away while hotkeys are recorded.  Correct: who is talked to by
  hotkey is whose hotkey is held.
* **Settings.** A change reaches the Core by a control line or by a new Core; the file is saved
  by every handler for itself; devices and adapters come and go.  Correct: the Core works with
  what the window shows, the file brings back what it shows, the Core binds where it should.
* **Single instance and exit.** Programs are launched and ended at any moment of each other, and
  the exit from the tray may come upon an open dialog.  Correct: one Core at a time; a launch
  that gives way has the window shown.
* **Meters and overlay.** Snapshots of a Core that is gone speak of contacts by index; two holds
  and a timer decide how long somebody is shown.  Correct: who is shown to speak is who is
  heard.
* **Options.** Operands that may follow, presets of a mode, and a second mode make an option's
  meaning depend on its neighbours.  Correct: a line means what its options mean.

`PROJECT.json` lists the hazards line by line, with the properties that watch them.

## 2. Modules

| Module | Models | Used by |
|---|---|---|
| `JitterBuffer` | the buffer: one action per branch of push, pop_into step by step | `JitterStats` |
| `OrderedPlayout` | abstract: frames are played in stream order, some left out | refined by `JitterBuffer` |
| `JitterStats` | the balance of the counters, on top of `JitterBuffer`'s actions | `MCJitterStats` |
| `PresenceTracker` | one contact's record and what each call makes of it (no variables) | `PresenceNetwork` |
| `PresenceNetwork` | two Cores and the network | `MCPresence` |
| `PeerInfoTracker` | one contact's record and what each call makes of it (no variables) | `PeerInfoExchange` |
| `PeerInfoExchange` | two Cores, presence as an environment, the network | `MCPeerInfo` |
| `CoreController` | the controller's threads, the GUI thread's calls, the message queue | `MCCoreController` |
| `CoreProcess` | abstract: what the window may expect of a Core process | refined by `CoreController` and by `TalkState` |
| `TalkState` | push-to-talk, hooks, settings changes and restarts in the window | `MCTalkState` |
| `RoomSession` | the five threads of a Core's room, their flags, the routing of a packet | `MCRoomSession` |
| `Options` | `parse_options` and all it reads (no variables) | `Settings`, `CoreLaunch` |
| `Settings` | the settings file, the dialogs' texts, a contact's way to the Core (no variables) | `Preferences` |
| `CoreLaunch` | what a Core does of its command line, the choice of endpoints (no variables) | `Preferences` |
| `Preferences` | the window's settings, every edit of them, and the Core that is to run with them | `Launch` |
| `Launch` | the window of `Preferences`, or somebody at a console | `MCLaunch` |
| `Discovery` | the search for people, in the dialog, the Core, other people's Cores and the telemetry | `AppWindow` |
| `Hotkeys` | the hooks, what they post, the dialog that records hotkeys | `AppWindow` |
| `AppWindow` | the programs launched, the window and its icon, the exit; composes the two above | `MCWindow` |
| `Speaking` | voice from its packet to the card and the overlay, over Cores and lists that change | itself |
| `*Proofs` | theorems of the module they are named after; `AppWindowProofs` also of `Discovery` and `Hotkeys`, `LaunchProofs` also of `RoomSession` | |

`CoreProcess` joins two modules that would be too large together: `CoreController` is shown to
implement it (`ImplementsProcess`), and `TalkState`, which keeps only a few fields of the
controller, is shown to use no more of it (`UsesController`).  Its notices are the set of those
under way; both properties also say that the message queue holds them in the order of the
processes (`NoticesInOrder`).

### Jitter buffer

Audio is positions in the sender's stream: packet *s* holds the frames from `FrameStart[s]` up to
`FrameStart[s+1]`.  `expected`, `have`, `pending`, `ready`, `started` are the class members;
`missing` is what a `pop_into` call still owes (the mutex is held while it is not 0), `cursor`
records the last frame played.  `PushFirst`, `PushRestart`, `PushInWindow`, `PushRejected` are
the branches of `push` (22-61); `PopStartupSilence`, `PopBegin`, `PopCopy`, `PopSkipGap`,
`PopUnderrun` those of `pop_into` (113-171); `Reset` is `reset`.  `JitterStats` adds what each
branch does to `stats_`.  The counters grow for ever, so of those that have to balance the
balance is kept: frames pushed against rendered, silent, dropped and thrown away ones, packets
pushed and gaps since the session began.  `late_or_duplicate_packets` and `render_events` are
left out.

### Presence and peer info

`PresenceTracker` and `PeerInfoTracker` turn every method into an operator on one peer's
record; `PresenceNetwork` and `PeerInfoExchange` put two of them on a network whose datagrams are
a set: they may be received in any order, `MaxLost` may vanish, `MaxDuplicated` may be received
twice, `MaxDelayed` may be under way while a second passes; `MaxSpent` bounds duplicates, voice packets
and sessions together.  In `PeerInfoExchange` a second by which datagrams are late also counts as a
loss, so that `MaxLost` bounds what the retries have to bear.  Deadlines are counted down in
seconds (the code's intervals, 1 s, 2 s, 25-35 s and so on, are CONSTANTS or small numbers); the
receiver loop waits at most 50 ms, so a second passes only when nothing is due.  A Core ends
with a GOODBYE or without one and starts with a new session id.

### Core process controller

The GUI thread's call in progress (`call`) is a variable, and every operation that another thread
can interleave with is a step: `StartCall`/`StartDone`/`StartFails`/`StartUndone` are `start`
(31-148), `AskCall`/`AskDone` are `request_stop` (174-198), `FinalizeCall`/`FinalizeDone` are
`finalize` with the joins (224-233), `Leave`/`LeaveAwaits`/`LeaveKills` are
`shutdown_and_wait` (200-221).  `WaiterSees`/`WaiterPosts`, `ReaderReads`/`ReaderPosts`/
`ReaderEnds`, `FallbackSees`/`FallbackKills` are the three threads.  The window's message queue
is a sequence of exit and telemetry messages.

### Talk state

One variable per group of `ApplicationState` fields (184-223): `talk` (the group's button, hotkey
and continuous sources, `push_to_talk_down`, `input_muted`), `private` (`contact_ptt_refs`,
`contact_ptt_latched`, `mouse_contact_ptt_index`), `hook` (what the hooks hold down), `app`
(`stop_requested`, `restart_after_stop`, the saved latches, whether the buttons are enabled).
`core` is what the Core was told over the pipe: `write_control` fails exactly when the process
has ended.  A settings change is split where it asks whether the Core runs (`RestartFinds`,
`RestartStarts`, `StopPending`, `StopAsks`), as the exit waiter may clear `running` in between.
`meant` is not in the code: whom the user latched and did not unlatch.

`Events` names what may happen.  The runs of properties that hold allow a crashing Core and a
failing start (`talk_live`); each of the other events is a rare order that breaks a property,
"restart" in the run `talk_mic`, the others as section 5 tells.  They are "restart" (a settings change between the
end of a Core and its clean-up), "hotkey" (a contact's hotkey pressed behind an exit notice),
"command" (a settings change handled before a contact's hotkey pressed earlier), "removal" (a
contact removed while a restart is pending), "unrestored" (a start that fails before the last
Core is cleaned up).  What the passing runs show of the window is therefore shown outside
these orders only.

### Room session

The local variables of `run_room_test` (application.cpp:4146-4542) that several threads share are
the variables of `RoomSession`; `main`, `receiver`, `sender`, `control` and `telemetry` say where
each thread is.  The main thread waits for the receiver (`WaitEnds`, `WaitFails`), starts the
render device, plays, and stops and joins the others, from any of four places (`StopAndJoin`).
The receiver sets its two flags in two steps when it cannot bind (`BindFails`, `BindFailed`).
The sender takes packets off the capture device without a look at `stop` (`Captured`,
`Drained`, 3737) and asks `PeerRouter` contact by contact (`RouteBegin`, `RouteConsider`,
`SendVoice`), while lines of the control pipe change the flags it asks for.  `faults`, and
`calm` in the packet, are history: what failed, and whether no line came while the packet was
routed.  An atomic is read as it was last written: the talk flags and `stop` are relaxed in
the code, so a write may take a moment to become visible, which the model counts as the line
arriving that much later; no other relaxed flag is read together with one of them.

### Settings and command lines

A text is a token: a word, a whole number, a decimal number in units of 1/100000, an option,
or an option joined to its operand by `=` (`Options`).  `parse_options` is translated argument by
argument with its presets and what may follow; the `parse_` functions become `Read`, the set
of values an operand has, empty when it has none.  `Settings` keeps numbers and what the formats
do to them: a gain has one digit on the command line, three in the file and six significant ones
in a control line (`contact_runtime_gain_text`, `ContactLine`, `RuntimeSettings`); the list and the
command line round it to steps of 0.1 (`GainStep`), the contact dialog shows it, and gives it back
when OK is pressed, in steps of 0.05 (`DialogGainStep`).  Half of a step is rounded up; the doubles
of the code may round such a value down, which no property tells apart.

`Preferences` has one action for every handler that changes a setting, and each contains the save
and the restart or control line that the handler makes: `SaveAndRestart`, `TellOrRestart`,
`SetGain`.  `Load`, `Refresh`, `Open` are the parts of `WM_CREATE`; `Killed` leaves the file as a
kill in the middle of a save may (`Torn`) and the Core alone with its port (`orphan`).
`WorldChanges` plugs and unplugs devices and adapters.  `Launch` adds the console: a line is
put together of phrases, each with what it is meant to set.

### Window, search, hotkeys

`Discovery` follows one request: `BeginSearch` (the dialog), `CoreSearches`, `Answers` (the same
receiver code, run by somebody else), `CoreHears`, `Report`, `ReadTelemetry`, `TakeTelemetry`.
A pipe is a sequence of lines of which any number may have come.  A person is a number, in the
order of names, with the endpoints it may answer from; a restart gives it a new session.

`Hotkeys` has one record for the hotkeys, the hooks' fields (application.cpp:184-223) and the
dialog's.  `Press` and `Release` go to the dialog while it is open, else to the hook that is
installed for the key, whose code is `KeyboardDown`, `KeyboardUp`, `MouseButtonDown`,
`MouseButtonUp`; the messages they post wait in `posted`.

`AppWindow` has the stages of a program: it creates the event, takes the mutex or is late, gives
way or opens its window, runs, closes, leaves the message loop, and ends.  `SearchReturns` is
the rest of `show_peer_discovery_dialog` when the exit came while the dialog was open.

### Speaking

Time is counted in intervals of telemetry.  `VoiceArrives` marks a contact's stream,
`BlockPlayed` decides whose sound is loud, `SnapshotWritten` reports both, `SnapshotTaken` puts
them on the cards and into the overlay; a moment such as `last_voice_tick` is the number of
intervals since.  `Start`, `RestartWith`, `ExitTaken` are the places where the window changes
Cores.  `played` is history: when somebody was last heard.

## 3. Runs

| Run | Question | Bounds, and why they suffice |
|---|---|---|
| `jitter_buffer` | order, bounds, progress and counters of playback under any delivery | 8 packets of 1 and 2 frames, ring of 4, gap of 3: overflow, skipped holes, restarts forwards and backwards all occur |
| `presence` | is a silent contact noticed and a live one kept, do both settle, do they become quiet | three sessions for two Cores, so that either restarts beside the other, and two losses (one fewer than the attempts); with two sessions also a duplicate or a voice packet (`MaxSpent` 3) |
| `peer_info` | whose profile is used, does it step back, do profiles arrive, does the exchange end | a restart on one side, a change on one side, two losses, of which a second that a datagram is late is one (`MaxLost`), one duplicate, one datagram late at a time, a notice by voice: two losses are one fewer than the three attempts |
| `core_controller` | joins, notices, telemetry; refinement of `CoreProcess`; do stops end, do snapshots arrive | three processes: a notice of the first meets the start of the third; a Core that may hang for ever |
| `talk_state` | is the microphone open as shown and as meant | any list of two contacts to begin with, two Cores, and `QueueLimit` 1: a hotkey is pressed only when no message waits; its release and an exit notice may wait behind it |
| `talk_live` | do latches survive, is the controller used as promised, does a restart take place | three Cores that may crash or fail to start: two restarts in a row, the second asked for while the first is under way |
| `talk_mic` | finding, section 5 | as `talk_state`, with the event "restart" |
| `room_session` | who opens, ends, reports and is sent to | two contacts: a line falls between the questions for the one and the other; a Core with sender and control pipe, one with a telemetry pipe and a duration, and one that only listens for a while; every device call may fail |
| `room_deaf` | finding, section 5 | as `room_session` |
| `launch` | does the Core work with the settings shown, are they saved, what does a line mean | three changes or mishaps: a change, the death of the Core or a kill, and another change; up to two contacts, files of the present and the first format, three states of devices and adapters; every line of three phrases out of 22 |
| `window` | is the search right, do hotkeys follow the keys, one Core, one shown window | two searches and a person with two sessions: an answer to the first meets the second; three hotkeys on one key, with a modifier and without, and on a mouse button; three programs: the second gives way while the third starts |
| `speaking` | who is shown to speak | two contacts, two Cores, two voice packets; the holds are 2 and 3 intervals (6 and 30 in the code): the packet, the last snapshot of a Core and the end of either hold meet in every order |

`AppWindow` has one subject in a behaviour: programs are launched, or people are sought, or
hotkeys are used.  The exit comes in each.  In `Hotkeys` one hotkey is changed between the opening
of the dialog and its end (`Unchanged`), and a key is pressed when fewer than `MaxPosted`
messages wait; releases post without a bound.  In `Discovery` a snapshot is written when the one
before has been read.  In `Speaking` a Core that was told to stop writes one more snapshot at
most and ends within the interval, and what a Core at work and the window have to do in an
interval is done in it.

Deadlock is checked where a process loops for ever (jitter buffer, presence, peer info, speaking).
The other specifications end when the processes of `LastGeneration`, the programs or the changes
are used up, which is no deadlock of the program; their progress is checked by liveness
properties instead.

**Fairness.** Presence and peer info: weak fairness of each Core's tick (the receiver loop never
waits longer than 50 ms), of arrival (a datagram that is not lost arrives) and of time.
Controller: each thread makes progress while it can, the GUI thread takes its messages, the
stop fallback's wait times out; the Core itself need not do anything.  Talk state: the GUI
thread finishes its handlers and takes its messages (strongly, as settings changes may disable
the taking again and again), and a Core that was asked to stop ends, which
`StopEnds` shows for the controller.  Room session: each thread goes on, the waits on the devices
time out (`wait_ms_for_duration`), and the sender sooner or later finds the capture device
empty (it encodes faster than the device records; strongly fair, as packets keep coming); the
telemetry pipe is read by the window.  Devices need not fail, lines need not come, and the pipe
may stay open for ever.  Jitter buffer: the render thread goes on popping.  Window: a program
that owns the mutex opens its window (it is in the code between the two without waiting for
anybody), the thread that waits for the event wakes, the window takes its messages, and a Core
writes telemetry every period; it is read and taken.  Answers need not come.  No fairness is assumed of the user.

Every property is matched by a mutant, a plausible bug in a mapped definition that makes TLC
find it violated; mutated forms are defined next to the definition they replace.

Some properties say more than their names.  `NoStepBack` asks of every step within a session that
the revision known of a contact's profile is not less than before.  `CountersBalance` is the
conjunction of `FramesConserved` and `PacketsAccounted`, and `SpeakersShown` that of `CardsFollow`
and `OverlayFollows` while the Core works for the contacts as they are.

## 4. Proofs

The theorems hold for every value of the constants that satisfies the modules' ASSUMEs.

| Module | Theorems | Inductive invariant |
|---|---|---|
| `JitterBufferProofs` | `TypeCorrect`, `PendingStaysInWindow`, `RingNeverOverflows`, `PlayedInOrderOnce`, `Implements` (of `OrderedPlayout`), `CountersAddUp` | the four properties together, and that nothing is ready before the first packet: a restart's new window is right only because pending packets are dropped with the ring, and playback stays in order only because ready frames are one stretch that ends where `expected` begins; for the counters `Counted`: during a call the frames taken are not counted as rendered yet |
| `PresenceProofs` | `TypeCorrect`, `RoundTripOfSession`, `SilenceIsBounded`, `NobodyGivenUp` | each contact's record is `Sound` (age, probe and deadlines bound each other), and the datagrams under way are finitely many, so that a new nonce exists; for `NobodyGivenUp` `LossInv`: each attempt of a probe that was not answered, and is not to be, cost a datagram, and sessions are given out in order, so that a Core that restarted is never taken for the one that was asked |
| `PeerInfoProofs` | `TypeCorrect`, `ProfileBelongs`, `NeverStepsBack` | each record is `Sound`, and no datagram names a session or revision that was not given out (`Numbered`) |
| `CoreControllerProofs` | `TypeCorrect`, `NeverJoinsAWorkingCore`, `NothingUnannounced`, `Implements` (of `CoreProcess`) | `Watched` (a live process has its waiter), `NoticesTrue` (a notice names a process that ended), `CallsSound` (where the GUI thread is agrees with the threads), `Announced` (the pending flag agrees with the queue and the reader); for `Implements` also `NoticesOnce` (the notices under way and the one to come are of different processes, in their order) |
| `LaunchProofs` | `WhatIsShownIsKept`, `TheCoreMeansTheSettings`, `CoreBindsToLiveAdapter`, `LinesAreParsedAsWritten`; of the room `TypeCorrect`, `OpensOnlyWhenBound`, `FaultsAreReported`, `RoutesExactly` | `SavedInv`: the settings are contacts whose numbers are in their ranges, the files on disk can be read (whole or torn), only an open window without a dialog drags a gain, and but for such a gain the file brings back the settings, from loading on; with it `CoreInv`: a Core that runs `Serves` the settings unless a search is open that has found somebody, there is none before the window is open, every contact in memory and in the files has a host, and the combo boxes offer endpoints; for a line from the console only that it is made of phrases, the invariant being one of the parser's steps (`SoFarRead`); of the room `FlagsTrue` (the flags agree with what became of the receiver, in every state between its two writes), `FaultsCounted` (a fault is in its thread's result, and the thread on its way out), `RoutedSoFar` (half-way through the contacts the targets are right for those asked) |
| `TalkStateProofs` | `TypeCorrect`, `TransmissionShown`, `HeldToTalk`, `ChangesReachTheCore`, `NoLatchMisplaced`, `LatchesSurvive`, `HeldToTalkPrivately`, `WithinThePromise` | `ProcessTrue` (what the window knows of the process agrees with it, apart from an exit not noticed yet), `RestartTrue` (a restart is pending only while an old Core is to end), `Applied`, `Shown`, `SourcesTrue` (the sources agree with what is held and with the messages under way), `LatchesMeant`; for `LatchesSurvive` also that latches put aside for a restart are not lost; for `HeldToTalkPrivately` also `PressInv` (the messages about a contact's hotkey take turns, and what is counted is held as far as the messages tell); for `WithinThePromise` only `NoticesSound` (which notices can be under way) |
| `AppWindowProofs` | `TypeCorrect`, `CoreBelongs`, `ShownIsAnswered`, `ContactsOnce`, `TalkedToAsHeld` | `SearchInv`: what is under way (requests, answers, lines, rows) was truly answered, of a search not later than the current one, and no session is there twice; that the owner of the mutex is the only program between taking it and its end; `KeysInv`: the hotkeys are `KeysSound` while the program runs, and at rest else. `KeysSound`: what the hooks believe is held is held, by a key that repeats only as what it was pressed as (`Steady`), the group's and a contact's hotkey by different keys (`Apart`); and the messages posted about anybody take turns, so that they lead from what is heard to what the hooks believe (`Chain`) |
| `SpeakingProofs` | `TypeCorrect`, `HeardIsShown` | `Sound`: a Core at work works for the contacts as they are, and what is in the Core, in its last snapshot, on the cards and in the overlay's rows is each true as of at most `Lag` intervals ago (one, until this interval's snapshot has been taken) |

The argument is the same in each: `Init => IInv`, one lemma or step per action for
`IInv /\ [Next]_vars => IInv'`, and the property from `IInv`.  Operators on records are treated
in lemmas of their own, so that a step of the composed system cites what a call does to one
record.

Some of what is proved is in no run any more: the type invariants, `RoundTripOfSession`, and
`RingNeverOverflows`.  They are parts of the inductive invariants.

The theorems of `TalkStateProofs` on what is shown and meant assume `Orderly`: the events "restart", "removal" and
"unrestored" do not occur.  With each of them the properties are false (section 5), in the model
and in the program; the crash of a Core, a failing start and the two orders of hotkeys may occur.
`LatchesSurvive` also assumes `~Removable`, as a latch of a contact that is removed is gone.
`HeldToTalkPrivately` also assumes that "hotkey" and "command" do not occur (`Prompt`): a press that
reaches the window behind the end or the restart of its Core is counted without its release
(section 5).  `WithinThePromise` assumes none of these.

`NobodyGivenUp` assumes what its property says: fewer losses than a probe has attempts
(`MaxLost < Attempts`) and nothing that is late by a second (`MaxDelayed = 0`).  Duplicates,
reordering, restarts and crashes may occur in any number.

`TalkedToAsHeld` assumes of the hotkeys in the settings that they are such as the dialog records
(`HotkeysAssumption`): a mouse button without modifiers, no modifier as the key.  A file changed by
hand may hold others (gui/settings_store.cpp:103): a button with Ctrl would work without Ctrl, as
the mouse hook asks for no modifiers.  It also rests on keyboards repeating the key pressed last
only (section 5): without that guard in `Press`, `Steady` is lost.

The two refinements of `CoreProcess` make the join that no run could: `CoreController` implements
it for any number of processes, and `TalkState` uses no more than it promises, in every order of
events, so that what is proved of the window does not rest on a controller of its own.

`WhatIsShownIsKept` assumes of the constants (`PreferencesAssumption`) what their types in the code
say: a file's numbers are numbers (`parse_long` and `parse_double` give nothing else), a control
holds a text or is a switch, a discovered port has 16 bits.  They need not be in range: that they
are brought into it, and that what was in range is read back as written, are lemmas
(`ContactReadBack`, `DialogIs`, `LineRead`).  One more conjunct states that two texts of the program
are strings, for which the provers have no axiom.

`TheCoreMeansTheSettings` rests on what `parse_options` makes of the window's whole line
(`LineParsed`), eleven arguments for each of any number of contacts.  The parser is a recursive
function, one argument with its operands at a step; `Parsing` gives its run, and the steps are
counted with `CountingUp`, the induction over the naturals stated for a set (`WFMin` of
WellFoundedInduction), as the provers take no operator as a parameter.  Two more assumptions are
about what is outside the program: the ids of endpoints, which Windows makes up, are no numbers and
are found in no other endpoint, and an adapter that is up has an address (`WorldsAssumption`); and no
file has a contact without a host (`HostsAssumption`).  No dialog lets such a contact into the
settings, so no file the window wrote has one (`SavedHosted`, and `TornHosted` for one it was killed
over), but `load_settings` would take it from a file changed by hand, and the Core would refuse its
line at every start.

`LinesAreParsedAsWritten` is about a line of any number of the phrases of `Launch`, in any order.
After as many steps as phrases were read (`SoFarRead`), either help was asked for, and the line
deserves it, or the options so far mean what the phrases so far mean: each field what the last one
that sets it says, the contacts in their order, no phrase wrong and no two naming a mode.  One step
reads one phrase (`PhraseAnswered`), whatever is before it, because none begins with what could be
taken for an operand of the one before (`Begins`, `AheadIs`); only a stray argument could, and then
the line is wrong (`BehindIs`).  Help, once asked for, stays (`HelpStays`).  The phrases are a
sample of the parser's options (a value behind its option or joined with it, a flag, modes with and
without operands, contacts with and without what may follow), with values in their ranges and
beyond; what is proved is that their order and number make no difference but the one the property
names.

Only model-checked: all liveness properties, as fairness and ENABLED are out of the provers' reach.

## 5. Findings

Each is a run in which TLC finds the quoted claim violated; `PROJECT.json` has the details.

* `talk_mic`: a settings change between the end of a Core and its clean-up leaves
  `stop_requested` set for good; the microphone may then stay open with nothing held.
* `room_deaf`: any error of `recvfrom` ends the receiver for good, on Windows also the report that
  an earlier PING met a closed port; the room plays and sends on, nobody is told, and what the
  tooltip reports of the contacts no longer changes.

Other limits of the code that show in the models, and that the passing runs exclude or do not ask
for.  Of the Core:

* A room whose receiver failed returns 0 (`FaultsReported` excludes that fault), and a Core whose
  window died plays on (`ControlEnds` does not set `stop`).
* A contact that is heard while the last attempt of a probe waits is still given up and shown
  offline until its own next probe (`LossTolerated` asks who was there when the probe began).
* The round trip of a repeated PING counts the wait for the repetition (not in the model).
* With two changes of a profile, an INFO of the first that arrives after the contact was given
  up and met again by its voice is kept (`ProfilesSettle` is checked for one change).
* `--test-seconds N` before `--room` is reset to 0 by the mode; an option whose value is missing
  swallows the next option where any text will do (`--bind-address`; not among `Phrases`).
* Two contacts with one IP address: the first in the list gets the packets of both (Speaking
  has one address each).

Of talking:

* Latches saved for a restart are restored by index even if a contact was removed meanwhile
  (gui/application.cpp:4102; `Events` with "removal" breaks `OnlyMeant`).
* A contact's hotkey pressed behind an exit notice is never released (`Events` with "hotkey" and
  `QueueLimit` 2 break `PrivateOnlyWhileHeld`).
* Removing a contact clears everyone's latches before they are saved (`Removable` breaks
  `LatchesKept`).
* A contact's hotkey that was refused because the group was being talked to stays without effect
  until it is pressed again.  A modifier released before the key it belongs to lets the
  key's repetitions match another hotkey (`KeyboardDown`).
* Keyboards repeat only the key pressed last.  If another one were repeated (injected input), a
  contact with F and the group with Ctrl+F could leave the contact talked to
  (application.cpp:357-365).

Of the window:

* Telemetry posted behind an exit notice has the generation of the process just cleaned up
  (core_process_controller.cpp:238): with no restart the cards and the overlay go on showing a
  speaker although no Core runs (`SpeakersShown` asks of a Core that works).
* After a contact's removal, telemetry of the old Core, by the old places, is applied to the
  shifted cards until that Core has gone.
* The selection in the search dialog is kept by row when telemetry rebuilds the list: Add may add
  somebody who has moved there (`AddSelected` takes any row).  A person with two addresses may
  be added twice, once for each.
* A search opened right after an addition, while the Core stops, is lost: it finds nobody
  (`BeginSearch` with a stopping Core); one refreshed after the Core's death tells an error.
* A gain of 1.25 reaches a running Core as 1.25 and the next one as 1.3 (`Means` asks for half a
  step).
* A device that is absent when the window starts, or a list of devices that cannot be had, is
  forgotten with the next save; an adapter that is down when any Core starts is forgotten at
  once.
* A kill in the middle of a save loses the contacts behind the cut, and the torn file hides that
  of the first versions (`Torn`).  A killed window's Core keeps the port (`orphan`), so that
  the next window's Core fails.
* Dragging a gain saves when the button is released or its capture lost, not before.
* A launch while another program exits gives way to it and is lost (`owed` is not raised then).
  A window hidden while its icon cannot be added again is reached only by a second launch.
* An exit from the tray behind an open search that added somebody starts a Core after the instance
  was released (`SearchReturns`); a window started at that moment contends for the port.

## 6. Plan

Done: the parts of section 2.  What would add most beyond them:

1. The per-peer sequence numbers of the frames sent, composed with `JitterBuffer` for a sender that
   restarts, and with presence for the voice behind a GOODBYE.
2. The line buffer's overflow, which hands on a line without its beginning.
3. Self-ducking's hold and release, and the latency estimator's warm-up.

## 7. Not modelled

* Samples, resampling, mixing, gains and latencies: arithmetic on floating point.
* Drawing, layout, wording, localization; levels and figures for display.
* The payload and the encoding of datagrams; the wrap of 64-bit counters (a packet number would
  need millions of years).
* The capacity of the control pipe (a Core would have to hang over hundreds of control lines), the
  overflow of the telemetry's line buffer, the Core's console output.
* Of a search: the reply cache's 10 seconds and 64 entries, several addresses of the computer that
  seeks, the filter of its own answers, discovery before presence has started.
* Of the settings: the group's hotkey, the window's size, the debug console, the hotkey dialog's
  save, a save that fails; a contact line with an empty host in a file written by hand, with
  which every Core answers the usage.
* Of the hotkeys: left and right modifiers are one key; a window's thread that is busy for longer
  than Windows waits for a hook.
* Of the overlay: the user's own rows, edited contacts, an overlay that cannot be shown, a loud
  block with a quiet one behind it before the snapshot (the code reports the last block only).
* A program that is killed while others are launched.
* Listener mode of the window; the one-shot measuring modes of the Core behind the opening of
  their devices.
