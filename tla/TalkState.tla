----------------------------- MODULE TalkState -----------------------------
(***************************************************************************)
(* Who is talked to (gui/application.cpp): the group's and the contacts'   *)
(* push-to-talk as the GUI keeps it, the hotkey hooks that post to the     *)
(* window, what the Core was told, and the restart of the Core that every  *)
(* settings change brings about.                                           *)
(*                                                                         *)
(* All of it runs on the GUI thread; the Core and the thread that waits    *)
(* for its end do not, so a handler is split wherever it reads whether     *)
(* the Core runs before it acts on the answer.  The control pipe has one   *)
(* writer and one reader: a line is applied when it is written.  A line    *)
(* written after "shutdown" does no harm.                                  *)
(*                                                                         *)
(* A Core that ended has no state, and what it was told is compared only   *)
(* while it works.  Hotkeys match one contact each.                        *)
(***************************************************************************)
EXTENDS Integers, Sequences, SequencesExt, FiniteSets

CONSTANTS
    Contacts,           \* those the user may have, by identity
    LastGeneration,     \* bound on the processes started
    QueueLimit,         \* bound on the messages waiting when a hotkey is pressed
    Removable,          \* whether contacts may be removed
    Events              \* what is allowed to happen, a subset of AllEvents

\* What may happen besides the usual: a Core that ends unasked, a Core that cannot be
\* started; and the rare orders:
\*   "restart"     a settings change between the end of a Core and its clean-up
\*   "hotkey"      a contact's hotkey pressed behind an exit notice
\*   "command"     a settings change handled before a contact's hotkey pressed earlier
\*   "removal"     a contact removed while a restart is pending
\*   "unrestored"  a start that fails before the last Core is cleaned up
AllEvents == {"crash", "failure", "restart", "hotkey", "command", "removal", "unrestored"}

ASSUME TalkAssumption ==
    /\ IsFiniteSet(Contacts) /\ LastGeneration \in Nat /\ QueueLimit \in Nat
    /\ Removable \in BOOLEAN /\ Events \subseteq AllEvents

VARIABLES
    contacts,   \* contacts, in the order of the list
    stale,      \* the settings the Core does not have yet: a restart brings it the device
                \* and the list of contacts, a control line a level
    talk,       \* the group's push-to-talk
    private,    \* the contacts' push-to-talk, by index
    hook,       \* the hotkeys held, as the hooks keep them
    app,        \* the restart under way
    proc,       \* the controller and its process
    core,       \* what the Core that runs was told
    queue,      \* messages posted to the window
    call,       \* where the GUI thread is in a settings change
    meant       \* those the user latched (not a variable of the code)

vars == <<contacts, stale, talk, private, hook, app, proc, core, queue, call, meant>>

Idle == call = "idle"
Indices == 1 .. Len(contacts)

-----------------------------------------------------------------------------
\* reset_push_to_talk_state
Silent == [button |-> FALSE, hotkey |-> FALSE, continuous |-> FALSE, down |-> FALSE, muted |-> TRUE]

\* The contacts' state after reset_contact_push_to_talk_state; mouse 0 is no contact
Unpressed(n) == [refs |-> [i \in 1 .. n |-> 0], latched |-> [i \in 1 .. n |-> FALSE], mouse |-> 0]

GroupOn == talk.down /\ ~talk.muted

\* contact_push_to_talk_active
Active(p, i) == p.refs[i] > 0 \/ p.latched[i]
ActiveOf(p) == {i \in DOMAIN p.refs : Active(p, i)}

\* update_button_state: what it leaves of the group's state
Buttons(t, stopping, running) ==
    IF t.down /\ (stopping \/ ~running \/ contacts = <<>>) THEN Silent ELSE t

TalkEnabled(stopping, running) == ~stopping /\ running /\ contacts # <<>>

Refresh(t) ==
    /\ talk' = Buttons(t, app.stopping, proc.running)
    /\ app' = [app EXCEPT !.enabled = TalkEnabled(app.stopping, proc.running)]

\* The Core after a control line that sets a field
Told(field, value) == IF proc.alive THEN [core EXCEPT ![field] = value] ELSE core

Post(message) == queue' = Append(queue, message)
Exit(g) == [type |-> "exit", of |-> g, on |-> FALSE]
Group(on) == [type |-> "group", of |-> 0, on |-> on]
Private(i, on) == [type |-> "private", of |-> i, on |-> on]
Behind(type) == \E k \in DOMAIN queue : queue[k].type = type

-----------------------------------------------------------------------------
NoCore == [open |-> FALSE, talk |-> {}]

Init ==
    /\ contacts \in {s \in SeqOf(Contacts, Cardinality(Contacts)) : IsInjective(s)}
    /\ stale = {}
    /\ talk = Silent /\ private = Unpressed(Len(contacts))
    /\ hook = [group |-> FALSE, keys |-> {}]
    /\ app = [stopping |-> FALSE, again |-> FALSE, enabled |-> FALSE,
              restore |-> FALSE, continuous |-> FALSE, latched |-> <<>>]
    /\ proc = [generation |-> 0, alive |-> FALSE, running |-> FALSE, asked |-> FALSE, owed |-> FALSE]
    /\ core = NoCore
    /\ queue = <<>> /\ call = "change" /\ meant = {}

\* Mutated form: each latch is taken from the next place in the list.
RestoredShifted(n) ==
    [i \in 1 .. n |-> app.restore /\ i < Len(app.latched) /\ app.latched[i + 1]]

\* restore_latched_talk_state_after_restart: the latches and the group's state it restores
RestoredLatches(n) ==
    [i \in 1 .. n |-> app.restore /\ i <= Len(app.latched) /\ app.latched[i]]

RestoredGroup ==
    IF app.restore /\ app.continuous /\ contacts # <<>>
    THEN [Silent EXCEPT !.continuous = TRUE, !.down = TRUE, !.muted = FALSE]
    ELSE Silent

\* start_core, given the restart record it finds: the threads of the last process
\* are joined, a new one is started, and the talk state is reset and restored.  Were
\* the buttons still disabled, restoring a latch would reset the group's state
\* without telling the Core.
Started(a) ==
    LET latches == RestoredLatches(Len(contacts))
        disabled == a.stopping /\ \E i \in Indices : latches[i]
    IN  /\ ~proc.owed /\ proc.generation < LastGeneration
        /\ proc' = [proc EXCEPT !.generation = @ + 1, !.alive = TRUE, !.running = TRUE,
                                !.asked = FALSE]
        /\ private' = [Unpressed(Len(contacts)) EXCEPT !.latched = latches]
        /\ talk' = IF disabled THEN Silent ELSE RestoredGroup
        /\ core' = [open |-> RestoredGroup.down, talk |-> {i \in Indices : latches[i]}]
        /\ stale' = {}
        /\ hook' = [hook EXCEPT !.keys = {}]
        /\ app' = [a EXCEPT !.enabled = TalkEnabled(a.stopping, TRUE), !.restore = FALSE,
                            !.continuous = FALSE, !.latched = <<>>]
        /\ meant' = IF app.restore THEN meant ELSE {}

\* start_core without an executable, or with a process that cannot be created
StartFails ==
    /\ ~proc.owed /\ "failure" \in Events /\ ("unrestored" \in Events \/ ~app.restore)
    /\ UNCHANGED <<stale, talk, private, hook, app, proc, core, meant>>

-----------------------------------------------------------------------------
\* A handler that changes the settings goes on to restart_core_after_settings_change.
MayChange ==
    /\ Idle
    /\ "restart" \in Events \/ ~app.stopping \/ proc.running
    /\ "command" \in Events \/ ~Behind("private")

\* A device, the network, or a contact's address
ChangeDevice ==
    /\ MayChange
    /\ stale' = stale \cup {"device"}
    /\ call' = "change"
    /\ UNCHANGED <<contacts, talk, private, hook, app, proc, core, queue, meant>>

\* Mutated form: a new contact does not restart the Core.
AddQuietly(c) ==
    /\ MayChange /\ c \notin ToSet(contacts)
    /\ contacts' = Append(contacts, c) /\ stale' = stale \cup {"list"}
    /\ private' = [private EXCEPT !.refs = Append(@, 0), !.latched = Append(@, FALSE)]
    /\ UNCHANGED <<talk, hook, app, proc, core, queue, call, meant>>

AddContact(c) ==
    /\ MayChange /\ c \notin ToSet(contacts)
    /\ contacts' = Append(contacts, c) /\ stale' = stale \cup {"list"}
    /\ private' = [private EXCEPT !.refs = Append(@, 0), !.latched = Append(@, FALSE)]
    /\ call' = "change"
    /\ UNCHANGED <<talk, hook, app, proc, core, queue, meant>>

\* remove_selected_contact
RemoveContact(i) ==
    /\ MayChange /\ Removable /\ ("removal" \in Events \/ ~app.restore)
    /\ contacts' = RemoveAt(contacts, i) /\ stale' = stale \cup {"list"}
    /\ private' = Unpressed(Len(contacts) - 1)
    /\ core' = Told("talk", core.talk \ ActiveOf(private))
    /\ hook' = [hook EXCEPT !.keys = {}]
    /\ Refresh(talk)
    /\ meant' = meant \ {contacts[i]}
    /\ call' = "change"
    /\ UNCHANGED <<proc, queue>>

\* A gain, a mute or the group routing of a contact: the Core is told, or restarted
\* when it cannot be told.
ChangeLevel ==
    /\ MayChange /\ contacts # <<>>
    /\ IF proc.alive
       THEN stale' = stale \ {"level"} /\ UNCHANGED call
       ELSE stale' = stale \cup {"level"} /\ call' = "change"
    /\ UNCHANGED <<contacts, talk, private, hook, app, proc, core, queue, meant>>

\* Mutated form: a second change overwrites what the first one saved.
SavedAgain ==
    [app EXCEPT !.restore = TRUE, !.continuous = talk.continuous, !.latched = private.latched]

\* restart_core_after_settings_change
Saved ==
    IF app.restore THEN app
    ELSE [app EXCEPT !.restore = TRUE, !.continuous = talk.continuous, !.latched = private.latched]

RestartFinds ==
    /\ call = "change" /\ proc.running
    /\ app' = Saved
    /\ call' = "stop"
    /\ UNCHANGED <<contacts, stale, talk, private, hook, proc, core, queue, meant>>

\* It, or the stop_core it calls, finds that no Core runs.
RestartStarts ==
    /\ call \in {"change", "stop"} /\ ~proc.running
    /\ Started(app) \/ StartFails
    /\ call' = "idle"
    /\ UNCHANGED <<contacts, queue>>

\* stop_core, while a stop is pending
StopPending ==
    /\ call = "stop" /\ proc.running /\ app.stopping
    /\ app' = [app EXCEPT !.again = TRUE]
    /\ call' = "idle"
    /\ UNCHANGED <<contacts, stale, talk, private, hook, proc, core, queue, meant>>

\* stop_core: the buttons are disabled, nobody is talked to, the Core is asked to stop.
StopAsks ==
    /\ call = "stop" /\ proc.running /\ ~app.stopping
    /\ app' = [app EXCEPT !.again = TRUE, !.stopping = TRUE, !.enabled = FALSE]
    /\ talk' = Silent
    /\ private' = Unpressed(Len(contacts))
    /\ core' = Told("talk", core.talk \ ActiveOf(private))
    /\ hook' = [hook EXCEPT !.keys = {}]
    /\ proc' = [proc EXCEPT !.asked = TRUE]
    /\ call' = "idle"
    /\ UNCHANGED <<contacts, stale, queue, meant>>

-----------------------------------------------------------------------------
\* can_start_global_talk
CanTalk == proc.running /\ contacts # <<>>

\* apply_global_talk_sources, with the sources of t
Apply(t) ==
    LET active == t.button \/ t.hotkey \/ t.continuous
        settled == (active /\ ~CanTalk) \/ (t.down = active /\ t.muted = ~active)
    IN  /\ talk' = IF settled THEN t
                   ELSE IF active /\ ~proc.alive THEN Silent
                   ELSE [t EXCEPT !.down = active, !.muted = ~active]
        /\ core' = IF settled THEN core ELSE Told("open", active)

SetSource(source, on) ==
    /\ Idle
    /\ IF on /\ ~CanTalk THEN UNCHANGED <<talk, core>> ELSE Apply([talk EXCEPT ![source] = on])
    /\ UNCHANGED <<contacts, stale, private, hook, app, proc, call, meant>>

\* Mutated form: the button's release ends the transmission whatever else is held.
ReleaseAll ==
    /\ Idle /\ talk.button
    /\ talk' = [talk EXCEPT !.button = FALSE, !.down = FALSE]
    /\ UNCHANGED <<contacts, stale, private, hook, app, proc, core, queue, call, meant>>

ButtonDown == app.enabled /\ ~talk.button /\ SetSource("button", TRUE) /\ UNCHANGED queue
ButtonUp == talk.button /\ SetSource("button", FALSE) /\ UNCHANGED queue
ClickContinuous ==
    app.enabled /\ SetSource("continuous", ~talk.continuous) /\ UNCHANGED queue

\* set_contact_push_to_talk_active(i, TRUE); i is pressed unless it returns false
MayPress == proc.running /\ ~GroupOn
Pressed(i) == MayPress /\ (Active(private, i) \/ proc.alive)

Press(i, mouse) ==
    IF Pressed(i)
    THEN /\ private' = [private EXCEPT !.refs[i] = @ + 1, !.mouse = IF mouse THEN i ELSE @]
         /\ core' = Told("talk", core.talk \cup {i})
         /\ Refresh(talk)
    ELSE /\ UNCHANGED <<private, core>>
         /\ IF MayPress THEN Refresh(talk) ELSE UNCHANGED <<talk, app>>

\* set_contact_push_to_talk_active(i, FALSE); mouse is the contact the mouse then holds
Release(i, mouse) ==
    IF private.refs[i] = 0
    THEN private' = [private EXCEPT !.mouse = mouse] /\ UNCHANGED <<talk, app, core>>
    ELSE /\ private' = [private EXCEPT !.refs[i] = @ - 1, !.mouse = mouse]
         /\ core' = IF Active(private', i) THEN core ELSE Told("talk", core.talk \ {i})
         /\ Refresh(talk)

MouseDown(i) ==
    /\ Idle /\ private.mouse = 0 /\ ~GroupOn
    /\ Press(i, TRUE)
    /\ UNCHANGED <<contacts, stale, hook, proc, queue, call, meant>>

MouseUp ==
    /\ Idle /\ private.mouse # 0
    /\ Release(private.mouse, 0)
    /\ UNCHANGED <<contacts, stale, hook, proc, queue, call, meant>>

\* set_contact_push_to_talk_latched.  What is latched on the way to a restart lasts only
\* as long as the old Core.
Latch(i) ==
    LET flipped == [private EXCEPT !.latched[i] = ~@]
        told == Active(flipped, i) = Active(private, i) \/ proc.alive
    IN  /\ Idle
        /\ private.latched[i] \/ proc.running
        /\ private' = IF told THEN flipped ELSE private
        /\ core' = Told("talk", ActiveOf(flipped))
        /\ Refresh(talk)
        /\ meant' = IF ~told \/ app.stopping THEN meant
                    ELSE IF private.latched[i] THEN meant \ {contacts[i]}
                    ELSE meant \cup {contacts[i]}
        /\ UNCHANGED <<contacts, stale, hook, proc, queue, call>>

-----------------------------------------------------------------------------
\* low_level_keyboard_proc and low_level_mouse_proc, called while the GUI thread waits
\* for messages: they only post.
GroupKeyDown ==
    /\ Idle /\ ~hook.group /\ Len(queue) < QueueLimit
    /\ hook' = [hook EXCEPT !.group = TRUE]
    /\ Post(Group(TRUE))
    /\ UNCHANGED <<contacts, stale, talk, private, app, proc, core, call, meant>>

\* Mutated form: the release is not seen while a contact's hotkey is held.
GroupKeyUpUnseen ==
    /\ Idle /\ hook.group
    /\ hook' = [hook EXCEPT !.group = FALSE]
    /\ IF hook.keys # {} THEN UNCHANGED queue ELSE Post(Group(FALSE))
    /\ UNCHANGED <<contacts, stale, talk, private, app, proc, core, call, meant>>

GroupKeyUp ==
    /\ Idle /\ hook.group
    /\ hook' = [hook EXCEPT !.group = FALSE]
    /\ Post(Group(FALSE))
    /\ UNCHANGED <<contacts, stale, talk, private, app, proc, core, call, meant>>

ContactKeyDown(i) ==
    /\ Idle /\ hook.keys = {} /\ ~GroupOn /\ Len(queue) < QueueLimit
    /\ "hotkey" \in Events \/ ~Behind("exit")
    /\ hook' = [hook EXCEPT !.keys = {i}]
    /\ Post(Private(i, TRUE))
    /\ UNCHANGED <<contacts, stale, talk, private, app, proc, core, call, meant>>

\* Mutated form: the release is not posted while the group is talked to.
KeyUpUnposted(i) ==
    /\ Idle /\ hook.keys = {i}
    /\ hook' = [hook EXCEPT !.keys = {}]
    /\ IF GroupOn THEN UNCHANGED queue ELSE Post(Private(i, FALSE))
    /\ UNCHANGED <<contacts, stale, talk, private, app, proc, core, call, meant>>

\* deactivate_contact_hotkey_ptt
ContactKeyUp(i) ==
    /\ Idle /\ hook.keys = {i}
    /\ hook' = [hook EXCEPT !.keys = {}]
    /\ Post(Private(i, FALSE))
    /\ UNCHANGED <<contacts, stale, talk, private, app, proc, core, call, meant>>

Receives(type) == Idle /\ queue # <<>> /\ Head(queue).type = type /\ queue' = Tail(queue)

\* WM_APP_GLOBAL_PTT
TakeGroup == Receives("group") /\ SetSource("hotkey", Head(queue).on)

\* WM_APP_CONTACT_PTT
TakePrivate ==
    /\ Receives("private")
    /\ LET i == Head(queue).of
       IN  IF i \notin Indices THEN UNCHANGED <<talk, private, app, core>>
           ELSE IF Head(queue).on THEN Press(i, FALSE) ELSE Release(i, private.mouse)
    /\ UNCHANGED <<contacts, stale, hook, proc, call, meant>>

-----------------------------------------------------------------------------
\* cleanup_finished_process: the window begins anew with the bookkeeping a, and with
\* another Core if a restart was asked for and its start does not fail.
CleanUp(a) ==
    /\ \/ app.again /\ Started(a)
       \/ /\ ~app.again \/ "failure" \in Events
          /\ talk' = Silent /\ private' = Unpressed(Len(contacts))
          /\ hook' = [hook EXCEPT !.keys = {}]
          /\ app' = a /\ proc' = [proc EXCEPT !.asked = FALSE]
          /\ meant' = IF app.restore THEN meant ELSE {}
          /\ UNCHANGED <<stale, core>>
    /\ UNCHANGED <<contacts, call>>

\* Mutated form: the restart stays asked for.
ExitKeepsAgain ==
    /\ Receives("exit") /\ Head(queue).of = proc.generation
    /\ CleanUp([app EXCEPT !.stopping = FALSE, !.enabled = FALSE])

\* Mutated form: every exit notice is taken for one of the present process.
TakeAnyExit ==
    /\ Receives("exit")
    /\ CleanUp([app EXCEPT !.stopping = FALSE, !.again = FALSE, !.enabled = FALSE])

\* WM_APP_CORE_EXIT, unless another Core was started since
TakeExit ==
    /\ Receives("exit") /\ Head(queue).of = proc.generation
    /\ CleanUp([app EXCEPT !.stopping = FALSE, !.again = FALSE, !.enabled = FALSE])

TakeOldExit ==
    /\ Receives("exit") /\ Head(queue).of # proc.generation
    /\ UNCHANGED <<contacts, stale, talk, private, hook, app, proc, core, call, meant>>

\* The Core ends: asked to, ended by the controller, or of itself.
CoreEnds ==
    /\ proc.alive /\ (proc.asked \/ "crash" \in Events)
    /\ proc' = [proc EXCEPT !.alive = FALSE]
    /\ core' = NoCore
    /\ UNCHANGED <<contacts, stale, talk, private, hook, app, queue, call, meant>>

\* wait_for_exit
WaiterSees ==
    /\ proc.running /\ ~proc.alive
    /\ "restart" \in Events \/ Idle \/ ~app.stopping
    /\ proc' = [proc EXCEPT !.running = FALSE, !.owed = TRUE]
    /\ UNCHANGED <<contacts, stale, talk, private, hook, app, core, queue, call, meant>>

WaiterPosts ==
    /\ proc.owed
    /\ proc' = [proc EXCEPT !.owed = FALSE]
    /\ Post(Exit(proc.generation))
    /\ UNCHANGED <<contacts, stale, talk, private, hook, app, core, call, meant>>

-----------------------------------------------------------------------------
ChangeSettings ==
    \/ ChangeDevice \/ ChangeLevel
    \/ \E c \in Contacts : AddContact(c)
    \/ \E i \in Indices : RemoveContact(i)
RestartCore == RestartFinds \/ RestartStarts \/ StopPending \/ StopAsks
Talk ==
    \/ ButtonDown \/ ButtonUp \/ ClickContinuous \/ MouseUp
    \/ \E i \in Indices : MouseDown(i) \/ Latch(i)
Keys ==
    \/ GroupKeyDown \/ GroupKeyUp
    \/ \E i \in Indices : ContactKeyDown(i)
    \/ \E i \in hook.keys : ContactKeyUp(i)
TakeMessage == TakeGroup \/ TakePrivate \/ TakeExit \/ TakeOldExit
Process == CoreEnds \/ WaiterSees \/ WaiterPosts

Next == ChangeSettings \/ RestartCore \/ Talk \/ Keys \/ TakeMessage \/ Process

Spec == Init /\ [][Next]_vars

\* The GUI thread finishes its handlers and takes its messages; a Core that was asked to
\* stop is ended by the controller at the latest, and its end is seen.
FairSpec ==
    /\ Spec
    /\ WF_vars(RestartCore) /\ SF_vars(TakeMessage)
    /\ WF_vars(proc.asked /\ CoreEnds) /\ SF_vars(WaiterSees) /\ WF_vars(WaiterPosts)

-----------------------------------------------------------------------------
TypeOK ==
    /\ IsInjective(contacts) /\ ToSet(contacts) \subseteq Contacts
    /\ stale \subseteq {"device", "level", "list"}
    /\ talk \in [button : BOOLEAN, hotkey : BOOLEAN, continuous : BOOLEAN, down : BOOLEAN,
                 muted : BOOLEAN]
    /\ Len(private.refs) = Len(contacts) /\ Len(private.latched) = Len(contacts)
    /\ private.mouse \in 0 .. Len(contacts)
    /\ hook.keys \subseteq Indices
    /\ core.talk \subseteq Indices
    /\ meant \subseteq Contacts

\* A Core that works and is not asked to stop, seen between two handlers
Working == Idle /\ proc.alive /\ ~proc.asked

\* The Core's microphone is open to the group if and only if the button says so, and it sends
\* privately to exactly those contacts whose cards say so.
TransmitsAsShown ==
    Working =>
        /\ core.open = talk.down /\ talk.muted = ~talk.down
        /\ core.talk = ActiveOf(private)

\* The group hears the user only while a source is held or latched: "The group talk button now
\* always transmits only while held" (CHANGELOG.md:31).  A hotkey is released in the
\* hook, and the window learns of it by a message that other handlers overtake.
GroupOnlyWhileHeld ==
    Working /\ queue = <<>> /\ core.open =>
        talk.button \/ talk.continuous \/ (talk.hotkey /\ hook.group)

\* A contact that is not latched is talked to only while its card or its hotkey is held.
PrivateOnlyWhileHeld ==
    Working /\ queue = <<>> =>
        \A i \in Indices : private.refs[i] <=
            (IF private.mouse = i THEN 1 ELSE 0) + (IF i \in hook.keys THEN 1 ELSE 0)

\* The Core works with the settings and the contacts the user sees.
SettingsApplied == Working => stale = {}

Exits == {k \in DOMAIN queue : queue[k].type = "exit"}

\* Each process has one notice, and the notices come in the order of the processes.
NoticesInOrder == \A k, m \in Exits : k < m => queue[k].of < queue[m].of

Controller == INSTANCE CoreProcess
    WITH generation <- proc.generation, running <- proc.running, asked <- proc.asked,
         owed <- proc.owed, notices <- {queue[k].of : k \in Exits}

\* The window relies on no more of the Core than CoreProcess promises, which is what
\* the controller is shown to keep.
UsesController == Controller!Spec /\ []NoticesInOrder

Latched == {contacts[i] : i \in {j \in Indices : private.latched[j]}}

\* Nobody is talked to continuously whom the user did not latch.
OnlyMeant == Working => Latched \subseteq meant

\* "Latched group and per-contact transmission is restored after a Core restart caused
\* by settings changes" (CHANGELOG.md:39).
LatchesKept == Working => meant \subseteq Latched

\* A restart that is asked for takes place.
RestartCompletes == app.again ~> ~app.again
=============================================================================
