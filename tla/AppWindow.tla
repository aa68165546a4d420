------------------------------ MODULE AppWindow ------------------------------
(***************************************************************************)
(* The window's program from its launch to its end (gui/application.cpp,    *)
(* gui/tray_icon.cpp): the one instance that runs and the launches that     *)
(* give way to it, the window and its tray icon, the exit from the tray,    *)
(* which may come upon an open dialog, and the Core that ends with it.      *)
(*                                                                         *)
(* Bound: a behaviour has one subject.  In "launches" programs are          *)
(* launched; in "search" and "hotkeys" one runs with its window shown, and  *)
(* people are sought (Discovery) or hotkeys pressed and set (Hotkeys) until *)
(* it is ended.  No program is killed.                                      *)
(***************************************************************************)
EXTENDS Discovery, Hotkeys

CONSTANT Launches   \* bound: the number of programs launched

ASSUME LaunchesAssumption == Launches \in Nat \ {0}

VARIABLES
    subject,    \* what the behaviour is about (not a variable of the code)
    stage,      \* how far each program has come
    mutex,      \* the program that owns the mutex, or 0
    signal,     \* show_existing_event is set
    app,        \* the window of the program that owns the mutex
    straggler,  \* the program whose Core was started behind the window's end, or 0
    owed        \* a launch gave way and the window has not been shown since
                \* (not a variable of the code)

instanceVars == <<stage, mutex, signal, app, straggler, owed>>
vars == <<subject, searchVars, keys, instanceVars>>

Programs == 1 .. Launches
Runs == mutex # 0 /\ stage[mutex] = "runs"

\* The window, its tray icon, the thread that waits for the event, and whether what it
\* posted, WM_APP_SHOW_EXISTING, waits to be handled
NoWindow == [view |-> "none", icon |-> FALSE, waits |-> FALSE, posted |-> FALSE]
OpenedAs(view, added) == [NoWindow EXCEPT !.view = view, !.icon = added, !.waits = TRUE]

Unset == KeysAt(NotSet, [i \in Listed |-> NotSet])

Init ==
    /\ SearchInit /\ straggler = 0 /\ owed = FALSE /\ signal = FALSE
    /\ \/ /\ subject = "launches" /\ keys = Unset /\ contacts = <<>> /\ core = Down
          /\ stage = [p \in Programs |-> "off"] /\ mutex = 0 /\ app = NoWindow
       \/ /\ \/ /\ subject = "search" /\ keys = Unset
                /\ contacts \in {SetToSeq(s) : s \in SUBSET FirstContacts}
             \/ subject = "hotkeys" /\ KeysInit /\ contacts = <<>>
          /\ core = Fresh(ToSet(contacts))
          /\ stage = [p \in Programs |-> IF p = 1 THEN "runs" ELSE "off"]
          /\ mutex = 1 /\ app = OpenedAs("shown", TRUE)

-----------------------------------------------------------------------------
\* An event exists as long as somebody has a handle to it.
Holders == {p \in Programs : stage[p] \in {"event", "late", "owner", "runs", "closing"}}

\* initialize_single_instance: the event is there before the mutex.
Launch(p) ==
    /\ subject = "launches" /\ stage[p] = "off"
    /\ stage' = [stage EXCEPT ![p] = "event"]
    /\ UNCHANGED <<mutex, signal, app, straggler, owed, core>>

TakeMutex(p) ==
    /\ stage[p] = "event"
    /\ IF mutex # 0 \/ \E q \in Programs : stage[q] = "late"
       THEN stage' = [stage EXCEPT ![p] = "late"] /\ UNCHANGED mutex
       ELSE stage' = [stage EXCEPT ![p] = "owner"] /\ mutex' = p
    /\ UNCHANGED <<signal, app, straggler, owed, core>>

\* The one that came late sets the event and leaves.
GiveWay(p) ==
    /\ stage[p] = "late"
    /\ stage' = [stage EXCEPT ![p] = "ended"]
    /\ signal' = (Holders # {p})
    /\ owed' = (owed \/ (mutex # 0 /\ stage[mutex] # "closing" /\ app.view # "shown"))
    /\ UNCHANGED <<mutex, app, straggler, core>>

\* WM_CREATE and ShowWindow: a shortcut may have the window minimised, and the icon may not
\* be added.
OpenWindow(p) ==
    /\ stage[p] = "owner"
    /\ stage' = [stage EXCEPT ![p] = "runs"]
    /\ \E view \in {"shown", "minimised"}, added \in BOOLEAN : app' = OpenedAs(view, added)
    /\ owed' = (owed /\ app'.view # "shown")
    /\ core' = Fresh(ToSet(contacts))
    /\ UNCHANGED <<mutex, signal, straggler>>

\* Mutated form: the thread that waits ends with the first launch.
WaitOnce ==
    /\ app.waits /\ signal
    /\ signal' = FALSE /\ app' = [app EXCEPT !.posted = TRUE, !.waits = FALSE]
    /\ UNCHANGED <<stage, mutex, straggler, owed, core>>

\* start_single_instance_waiter's thread
Wait ==
    /\ app.waits /\ signal
    /\ signal' = FALSE /\ app' = [app EXCEPT !.posted = TRUE]
    /\ UNCHANGED <<stage, mutex, straggler, owed, core>>

\* WM_APP_SHOW_EXISTING
ShowExisting ==
    /\ Runs /\ app.posted
    /\ app' = [app EXCEPT !.view = "shown", !.posted = FALSE] /\ owed' = FALSE
    /\ UNCHANGED <<stage, mutex, signal, straggler, core>>

\* hide_main_window_to_tray: by WM_CLOSE or a click on the icon
Hide ==
    /\ Runs /\ subject = "launches" /\ app.view = "shown"
    /\ \/ app' = [app EXCEPT !.view = "hidden", !.icon = TRUE]
       \/ ~app.icon /\ app' = [app EXCEPT !.view = "minimised"]
    /\ UNCHANGED <<stage, mutex, signal, straggler, owed, core>>

\* show_main_window_from_tray, or a minimised window restored
Restore ==
    /\ Runs
    /\ app.view = "minimised" \/ (app.view = "hidden" /\ app.icon)
    /\ app' = [app EXCEPT !.view = "shown"] /\ owed' = FALSE
    /\ UNCHANGED <<stage, mutex, signal, straggler, core>>

\* "TaskbarCreated": the icon is gone, and may not be added again.
TaskbarRestarts ==
    /\ Runs /\ subject = "launches" /\ app.icon
    /\ app' = [app EXCEPT !.icon = FALSE]
    /\ UNCHANGED <<stage, mutex, signal, straggler, owed, core>>

\* request_application_exit, from the tray or the menu of a window without a dialog, and
\* WM_DESTROY as far as the Core is asked to end: dialogs go with the window, and what a
\* hotkey held ends.  Answers on their way come to nobody: they are forgotten.
ExitRequested ==
    /\ Runs
    /\ app.icon \/ (app.view = "shown" /\ ~search.open /\ ~keys.dialog.open)
    /\ stage' = [stage EXCEPT ![mutex] = "closing"]
    /\ app' = [NoWindow EXCEPT !.waits = app.waits] /\ owed' = FALSE
    /\ search' = [Dialog EXCEPT !.added = IF search.open THEN search.added ELSE {}]
    /\ tele' = NoTelemetry /\ net' = {} /\ people' = [p \in People |-> Unasked]
    /\ keys' = KeysAt(keys.all, keys.of)
    /\ core' = IF Alive THEN [Down EXCEPT !.phase = "stopping"] ELSE Down
    /\ UNCHANGED <<subject, mutex, signal, straggler, contacts>>

\* shutdown_and_wait
CoreShutDown ==
    /\ mutex # 0 /\ stage[mutex] = "closing" /\ Alive
    /\ core' = Down
    /\ UNCHANGED <<stage, mutex, signal, app, straggler, owed>>

\* Mutated form: the instance is released before the Core has ended.
ReleaseFirst ==
    /\ mutex # 0 /\ stage[mutex] = "closing"
    /\ stage' = [stage EXCEPT ![mutex] = "leaves"] /\ mutex' = 0
    /\ signal' = (signal /\ Holders # {mutex}) /\ app' = NoWindow
    /\ UNCHANGED <<straggler, owed, core>>

\* release_single_instance
ReleaseInstance ==
    /\ mutex # 0 /\ stage[mutex] = "closing" /\ ~Alive
    /\ stage' = [stage EXCEPT ![mutex] = "leaves"] /\ mutex' = 0
    /\ signal' = (signal /\ Holders # {mutex}) /\ app' = NoWindow
    /\ UNCHANGED <<straggler, owed, core>>

\* show_peer_discovery_dialog goes on behind the exit: with somebody added, a Core is started.
SearchReturns(p) ==
    /\ stage[p] = "leaves" /\ search.added # {} /\ straggler = 0
    /\ straggler' = p
    /\ UNCHANGED <<stage, mutex, signal, app, owed, core>>

\* run_application returns; ~CoreProcessController ends what runs yet.
ProgramEnds(p) ==
    /\ stage[p] = "leaves"
    /\ stage' = [stage EXCEPT ![p] = "ended"]
    /\ straggler' = IF straggler = p THEN 0 ELSE straggler
    /\ UNCHANGED <<mutex, signal, app, owed, core>>

-----------------------------------------------------------------------------
InstanceStep ==
    /\ \/ \E p \in Programs : Launch(p) \/ TakeMutex(p) \/ GiveWay(p) \/ OpenWindow(p)
                                  \/ SearchReturns(p) \/ ProgramEnds(p)
       \/ Wait \/ ShowExisting \/ Hide \/ Restore \/ TaskbarRestarts
       \/ CoreShutDown \/ ReleaseInstance
    /\ UNCHANGED <<subject, keys, search, contacts, tele, net, people>>

Seeking(Step) ==
    /\ subject = "search" /\ Runs /\ Step
    /\ UNCHANGED <<subject, keys, instanceVars>>

Keying(Step) ==
    /\ subject = "hotkeys" /\ Runs /\ Step
    /\ UNCHANGED <<subject, searchVars, instanceVars>>

Next == InstanceStep \/ ExitRequested \/ Seeking(SearchStep) \/ Keying(KeysStep)

\* A program that owns the mutex opens its window; its thread waits and its window handles
\* messages; a Core reports each period, and what it reports is read and shown.
Spec ==
    /\ Init /\ [][Next]_vars
    /\ \A p \in Programs : WF_vars(OpenWindow(p) /\ InstanceStep)
    /\ WF_vars(Wait /\ InstanceStep) /\ WF_vars(ShowExisting /\ InstanceStep)
    /\ WF_vars(Seeking(Report)) /\ WF_vars(Seeking(ReadTelemetry)) /\ WF_vars(Seeking(TakeTelemetry))

-----------------------------------------------------------------------------
\* A Core works for the program that owns the mutex, until that lets the next one begin: two
\* Cores never contend for the port.  The one exception is the Core that an exit from the
\* tray starts, where it ends a search that added somebody; and that one does not outlive
\* its program (WM_DESTROY, shutdown_and_wait, release_single_instance).
CoreWithInstance ==
    /\ Alive => mutex # 0 /\ stage[mutex] \in {"runs", "closing"}
    /\ straggler # 0 => stage[straggler] = "leaves" /\ search.added # {}

\* A launch that gives way has the window shown, whether it was hidden, minimised, without its
\* icon or not yet there, unless the program is ended meanwhile (README.md:25,
\* "System tray integration and single-instance behavior").
LaunchShows == owed ~> ~owed
=============================================================================
