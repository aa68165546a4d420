----------------------------- MODULE Preferences -----------------------------
(***************************************************************************)
(* The window's settings and the Core that is to run with them             *)
(* (gui/application.cpp): loading and saving, the lists of devices, the    *)
(* network adapter, the edits of the contact list, and the command line a  *)
(* Core is started with.  Around them the world changes: endpoints and     *)
(* adapters come and go, the Core dies, the window is killed.              *)
(*                                                                         *)
(* A change that needs a new Core asks the running one to stop and starts  *)
(* the next when it has gone; TalkState has the finer steps of that.       *)
(***************************************************************************)
EXTENDS CoreLaunch, Settings, SequencesExt

Missing == [missing |-> TRUE]

\* What a settings file may hold is a number as its port, and lines of contacts.
IsFile(file) ==
    /\ DOMAIN file = DOMAIN DefaultSettings
    /\ file.port \in Int /\ file.contacts \in Seq(ContactLines)

CONSTANTS
    Files,          \* what the settings file may hold before the first start, with Missing
    LegacyFiles,    \* and the file of the first versions beside the program
    Worlds,         \* active endpoints and adapters the computer may have
    Typed,          \* what is typed into the contact dialog over what it shows
    Discovered,     \* people that answer a search
    Gains, Ports,   \* gains set in the list, port texts typed into the network dialog
    Languages,
    MaxContacts,    \* bound: contacts are added up to here
    MaxChanges      \* bound: changes of the user and mishaps, over all starts

\* The last conjunct is a fact about two texts that the provers have no axiom for.
ASSUME PreferencesAssumption ==
    /\ \A file \in (Files \cup LegacyFiles) \ {Missing} : IsFile(file)
    /\ \A typed \in Typed :
        \A f \in DOMAIN typed : typed[f] \in (IF f = "selfDuck" THEN BOOLEAN ELSE Tokens)
    /\ Discovered \subseteq [name : Tokens, address : Tokens, port : PortNumbers \cup {0}]
    /\ Gains \subseteq Int
    /\ MaxContacts \in Nat /\ MaxChanges \in Nat
    /\ {Empty, DefaultContact.host} \subseteq Tokens

Endpoints == UNION {{w.plugged[k] : k \in DOMAIN w.plugged} : w \in Worlds}

\* Windows makes up the ids of the endpoints: no id is a number, or is found in the name or
\* the id of another endpoint.  An adapter that is up has an address.
ASSUME WorldsAssumption ==
    /\ \A e \in Endpoints : e.id[1] # "num"
    /\ \A e, other \in Endpoints : e.id \in other.texts => other.id = e.id
    /\ \A w \in Worlds : \A x \in DOMAIN w.adapters : w.adapters[x] # Empty

\* No file has a contact without a host, which no dialog lets into the settings: load_settings
\* would take it, and the Core would refuse its line from then on.
ASSUME HostsAssumption ==
    \A file \in (Files \cup LegacyFiles) \ {Missing} :
        \A k \in DOMAIN file.contacts : file.contacts[k].host # Empty

VARIABLES
    phase,          \* "off", or how far WM_CREATE has come: "loaded", "listed", "open"
    app,            \* g_app: the settings in memory, and bind_address
    combos,         \* of each flow the selectors of its combo box and the chosen one
    disk, legacy,   \* the settings file and the one of the first versions
    world,          \* [plugged |-> endpoints, adapters |-> addresses of those that are up]
    dialog,         \* "none", the adapters the network dialog offers, or the search
    dragging,       \* dragging_gain_index, 0 for -1
    core,           \* the Core: its state, its options, the devices it opened
    orphan,         \* port and address the Core of a killed window holds, or None
    changes         \* how many changes and mishaps there were

window == <<phase, app, combos, disk, legacy, dialog, dragging, core>>
prefs == <<window, world, orphan, changes>>

EveryAddress == Txt("0.0.0.0")
NoDialog == [kind |-> "none"]
Network(adapters) == [kind |-> "network", adapters |-> adapters]
Search(added) == [kind |-> "search", added |-> added]
NoCore == [state |-> "none"]
None == <<>>

FirstLists == [flow \in {"capture", "render"} |-> [ids |-> {Empty}, at |-> Empty]]
Remembered(s) ==
    [language |-> s.language, port |-> s.port, adapter |-> s.adapter, devices |-> s.devices,
     contacts |-> s.contacts, bind |-> EveryAddress]

PrefsInit ==
    /\ phase = "off" /\ app = Remembered(DefaultSettings) /\ combos = FirstLists
    /\ disk \in Files /\ legacy \in LegacyFiles
    /\ world \in Worlds
    /\ dialog = NoDialog /\ dragging = 0 /\ core = NoCore /\ orphan = None /\ changes = 0

-----------------------------------------------------------------------------
(* What the steps are made of.                                              *)

\* save_settings: what it writes; the devices are those of the combo boxes.
Chosen(lists) == [flow \in DOMAIN lists |-> lists[flow].at]
Saved(a, lists) ==
    serialize_settings([f \in DOMAIN DefaultSettings |->
                           IF f = "devices" THEN Chosen(lists) ELSE a[f]])

\* resolve_network_bind_address: the address of an adapter that is up, none if it is not
resolve_network_bind_address(adapters, adapter) ==
    IF adapter = Empty THEN {EveryAddress} ELSE {adapters[x] : x \in DOMAIN adapters \cap {adapter}}

\* Mutated form: the address the adapter had stays good.
ResolvedOnce(a) == a

\* resolve_saved_network_binding: an adapter that is not up is forgotten.
Resolved(a) ==
    LET address == resolve_network_bind_address(world.adapters, a.adapter)
    IN  IF address = {} THEN [a EXCEPT !.adapter = Empty, !.bind = EveryAddress]
        ELSE [a EXCEPT !.bind = CHOOSE x \in address : TRUE]
ResolveSaves(a) == resolve_network_bind_address(world.adapters, a.adapter) = {}

\* build_command_line, without the handles, which no other part of it depends on
DeviceArguments(lists) ==
    LET of(option, id) == IF id = Empty THEN <<>> ELSE <<Opt(option), id>>
    IN  of("--capture-device", Chosen(lists)["capture"])
        \o of("--render-device", Chosen(lists)["render"])
build_command_line(a, lists) ==
    <<Opt("--capture-role"), Txt("console"), Opt("--render-role"), Txt("console"),
      Opt("--input-gain"), Dec(Unit), Opt("--input-muted"), Opt("--output-gain"), Dec(Unit),
      Opt("--bind-address"), a.bind>>
    \o DeviceArguments(lists)
    \o <<Opt("--room"), Num(a.port)>>
    \o FlattenSeq([k \in DOMAIN a.contacts |-> PeerArguments(a.contacts[k])])

\* start_core with these settings, saved as d: the Core that cannot have its devices, or
\* its port because the Core of a killed window still holds it, is dead at once.
Started(o, devices) ==
    LET does == run_application(o, devices)
    IN  IF does = "room" /\ orphan # <<o.localPort, o.bind>>
        THEN [state |-> "room", port |-> o.localPort, bind |-> o.bind, peers |-> o.peers,
              devices |-> devices]
        ELSE [state |-> IF does \in {"room", "failed"} THEN "dead" ELSE "refused"]
StartCore(a, lists, d) ==
    \E b \in {Resolved(a)} : \E o \in {parse_options(build_command_line(b, lists))} :
        /\ app' = b
        /\ disk' = IF ResolveSaves(a) THEN Saved(b, lists) ELSE d
        /\ core' = Started(o, Opened(o, world.plugged))

\* restart_core_after_settings_change, the settings and the combo boxes being changed
RestartCore(a, lists, d) ==
    IF core.state = "none" THEN StartCore(a, lists, d)
    ELSE app' = a /\ disk' = d /\ core' = [state |-> "stopping"]
SaveAndRestart(a, lists) == RestartCore(a, lists, Saved(a, lists))

\* send_contact_runtime_settings for a contact: a Core whose pipe is gone is restarted.
TellOrRestart(i, a, d) ==
    IF core.state = "room"
    THEN /\ app' = a /\ disk' = d
         /\ core' = [core EXCEPT !.peers = Applied(@, i, RuntimeSettings(a.contacts[i]))]
    ELSE RestartCore(a, combos, d)

Works == phase = "open" /\ dialog = NoDialog
Idle == Works /\ dragging = 0

-----------------------------------------------------------------------------
(* WM_CREATE: load_settings, refresh_device_lists, the adapter, the Core.   *)

Load ==
    /\ phase = "off" /\ core.state = "none"
    /\ phase' = "loaded" /\ combos' = FirstLists
    /\ LET file == IF disk # Missing THEN disk ELSE legacy
       IN  IF file = Missing
           THEN app' = Remembered(DefaultSettings) /\ UNCHANGED disk
           ELSE /\ app' = Remembered(parse_settings(file))
                /\ disk' = IF disk = Missing THEN serialize_settings(parse_settings(file))
                           ELSE disk
    /\ UNCHANGED <<legacy, world, dialog, dragging, core, orphan>>

\* A list that cannot be had leaves the default device as the only choice.
Refresh ==
    /\ phase = "loaded" /\ phase' = "listed"
    /\ \E listed \in BOOLEAN :
        LET rows == IF listed THEN print_device_list(world.plugged) ELSE {}
            ids(flow) == {Empty} \cup {r[2] : r \in {x \in rows : x[1] = flow}}
        IN  combos' = [flow \in DOMAIN combos |->
                        [ids |-> ids(flow),
                         at |-> IF app.devices[flow] \in ids(flow) THEN app.devices[flow]
                                ELSE Empty]]
    /\ UNCHANGED <<app, disk, legacy, world, dialog, dragging, core, orphan>>

\* The adapter is resolved, then ensure_core_running resolves it again.
Open ==
    /\ phase = "listed" /\ phase' = "open"
    /\ StartCore(Resolved(app), combos,
                 IF ResolveSaves(app) THEN Saved(Resolved(app), combos) ELSE disk)
    /\ UNCHANGED <<combos, legacy, world, dialog, dragging, orphan>>

-----------------------------------------------------------------------------
(* The contact list.                                                        *)

\* add_contact_from_editor
AddContact ==
    /\ Idle /\ Len(app.contacts) < MaxContacts
    /\ \E typed \in Typed : \E contact \in DialogResult(DefaultContact, typed) :
        LET a == [app EXCEPT !.contacts = Append(@, contact)]
        IN  SaveAndRestart(a, combos)
    /\ UNCHANGED <<phase, combos, legacy, world, dialog, dragging, orphan>>

\* Mutated form: the buffer is thought to be among the settings a Core takes at any time.
RestartsForEndpoint(before, after) == before.host # after.host \/ before.port # after.port

contact_requires_core_restart(before, after) ==
    before.host # after.host \/ before.port # after.port \/ before.buffer # after.buffer

\* update_selected_contact_from_editor
EditContact(i) ==
    /\ Idle
    /\ \E typed \in Typed : \E contact \in DialogResult(app.contacts[i], typed) :
        LET a == [app EXCEPT !.contacts[i] = contact]
        IN  IF contact_requires_core_restart(app.contacts[i], contact)
            THEN SaveAndRestart(a, combos)
            ELSE TellOrRestart(i, a, Saved(a, combos))
    /\ UNCHANGED <<phase, combos, legacy, world, dialog, dragging, orphan>>

RemoveContact(i) ==
    /\ Idle
    /\ LET a == [app EXCEPT !.contacts = RemoveAt(@, i)]
       IN  SaveAndRestart(a, combos)
    /\ UNCHANGED <<phase, combos, legacy, world, dialog, dragging, orphan>>

\* Mutated form: nothing to do for the same gain.
SetGainOnce(i, gain, persist) ==
    LET new == Rounded(Clamp(gain, 0, GainMax), GainStep)
        a == [app EXCEPT !.contacts[i].gain = new]
    IN  IF Near(app.contacts[i].gain, new, 9) THEN UNCHANGED <<disk, app, core>>
        ELSE TellOrRestart(i, a, IF persist THEN Saved(a, combos) ELSE disk)

\* set_contact_gain: a gain less than 0.0001 from the one there is only saved.
SetGain(i, gain, persist) ==
    LET new == Rounded(Clamp(gain, 0, GainMax), GainStep)
        a == [app EXCEPT !.contacts[i].gain = new]
        Kept(b) == IF persist THEN Saved(b, combos) ELSE disk
    IN  IF Near(app.contacts[i].gain, new, 9) THEN disk' = Kept(app) /\ UNCHANGED <<app, core>>
        ELSE TellOrRestart(i, a, Kept(a))

\* The buttons of a row, and the slider: pressed, moved, released or its capture taken away
StepGain(i) ==
    /\ Idle
    /\ \E step \in {-GainStep, GainStep} :
        /\ app.contacts[i].gain + step \in Gains     \* bound
        /\ SetGain(i, app.contacts[i].gain + step, TRUE)
    /\ UNCHANGED <<phase, combos, legacy, world, dialog, dragging, orphan>>
DragGain(i) ==
    /\ Works /\ dragging \in {0, i} /\ dragging' = i
    /\ \E gain \in Gains : SetGain(i, gain, FALSE)
    /\ UNCHANGED <<phase, combos, legacy, world, dialog, orphan>>
DropGain ==
    /\ Works /\ dragging # 0 /\ dragging' = 0
    /\ \/ \E gain \in Gains : SetGain(dragging, gain, TRUE)
       \/ disk' = Saved(app, combos) /\ UNCHANGED <<app, core>>
    /\ UNCHANGED <<phase, combos, legacy, world, dialog, orphan>>

\* toggle_selected_contact_mute, toggle_selected_contact_global_ptt
ToggleMute(i) ==
    /\ Idle
    /\ LET a == [app EXCEPT !.contacts[i].muted = ~@]
       IN  TellOrRestart(i, a, Saved(a, combos))
    /\ UNCHANGED <<phase, combos, legacy, world, dialog, dragging, orphan>>
TogglePtt(i) ==
    /\ Idle
    /\ LET a == [app EXCEPT !.contacts[i].ptt = ~@]
       IN  TellOrRestart(i, a, Saved(a, combos))
    /\ UNCHANGED <<phase, combos, legacy, world, dialog, dragging, orphan>>

-----------------------------------------------------------------------------
(* The menu.                                                                *)

\* select_menu_device, and the choice in a combo box
SelectDevice(flow) ==
    /\ Idle
    /\ \E id \in combos[flow].ids :
        /\ combos' = [combos EXCEPT ![flow].at = id]
        /\ SaveAndRestart(app, combos')
    /\ UNCHANGED <<phase, legacy, world, dialog, dragging, orphan>>

\* select_menu_language
SelectLanguage ==
    /\ Idle
    /\ \E language \in Languages : app' = [app EXCEPT !.language = language]
    /\ disk' = Saved(app', combos)
    /\ UNCHANGED <<phase, combos, legacy, world, dialog, dragging, core, orphan>>

\* The network dialog offers the adapters that were up when it opened.
OpenNetwork ==
    /\ Idle /\ dialog' = Network(world.adapters)
    /\ UNCHANGED <<phase, app, combos, disk, legacy, world, dragging, core, orphan>>
CloseNetwork ==
    /\ phase = "open" /\ dialog.kind = "network" /\ dialog' = NoDialog
    /\ \/ UNCHANGED <<app, disk, core>>
       \/ \E t \in Ports, adapter \in {Empty} \cup DOMAIN dialog.adapters :
            \E port \in PortResult(t), address \in
                        resolve_network_bind_address(dialog.adapters, adapter) :
                SaveAndRestart([app EXCEPT !.port = port, !.adapter = adapter,
                                           !.bind = address], combos)
    /\ UNCHANGED <<phase, combos, legacy, world, dragging, orphan>>

\* show_peer_discovery_dialog: ensure_core_running, the search, a restart if someone was added
OpenSearch ==
    /\ Idle /\ dialog' = Search(FALSE)
    /\ IF core.state = "none" THEN StartCore(app, combos, disk)
       ELSE UNCHANGED <<app, disk, core>>
    /\ UNCHANGED <<phase, combos, legacy, world, dragging, orphan>>

\* add_discovered_contact: nobody is added twice.
AddDiscovered ==
    /\ phase = "open" /\ dialog.kind = "search" /\ Len(app.contacts) < MaxContacts
    /\ \E peer \in Discovered :
        /\ \A k \in DOMAIN app.contacts :
                app.contacts[k].port # peer.port \/ app.contacts[k].host # peer.address
        /\ peer.address # Empty /\ peer.port # 0
        /\ app' = [app EXCEPT !.contacts = Append(@,
                    [DefaultContact EXCEPT
                        !.name = IF peer.name = Empty THEN peer.address ELSE peer.name,
                        !.host = peer.address, !.port = peer.port])]
    /\ disk' = Saved(app', combos) /\ dialog' = Search(TRUE)
    /\ UNCHANGED <<phase, combos, legacy, world, dragging, core, orphan>>
CloseSearch ==
    /\ phase = "open" /\ dialog.kind = "search" /\ dialog' = NoDialog
    /\ IF dialog.added THEN RestartCore(app, combos, disk) ELSE UNCHANGED <<app, disk, core>>
    /\ UNCHANGED <<phase, combos, legacy, world, dragging, orphan>>

-----------------------------------------------------------------------------
(* The Core, the end of the window, and the world.                          *)

CoreDies ==
    /\ core.state = "room" /\ core' = [state |-> "dead"]
    /\ UNCHANGED <<phase, app, combos, disk, legacy, world, dialog, dragging, orphan>>

\* cleanup_finished_process: a Core that was asked to stop is followed by the next one.
CoreGone ==
    /\ phase = "open" /\ core.state \in {"dead", "refused", "stopping"}
    /\ IF core.state = "stopping" THEN StartCore(app, combos, disk)
       ELSE core' = NoCore /\ UNCHANGED <<app, disk>>
    /\ UNCHANGED <<phase, combos, legacy, world, dialog, dragging, orphan>>

\* WM_EXITSIZEMOVE
Resize ==
    /\ Idle /\ disk' = Saved(app, combos)
    /\ UNCHANGED <<phase, app, combos, legacy, world, dialog, dragging, core, orphan>>

Ended ==
    /\ app' = Remembered(DefaultSettings) /\ combos' = FirstLists
    /\ core' = NoCore /\ dialog' = NoDialog /\ dragging' = 0

\* WM_DESTROY: it waits for the Core to end.
Exit ==
    /\ phase = "open" /\ phase' = "off"
    /\ disk' = Saved(app, combos)
    /\ Ended
    /\ UNCHANGED <<legacy, world, orphan>>

\* save_settings_file empties the file and then writes line after line: what is there when
\* the window is killed meanwhile
Torn(file) ==
    LET lines == <<"language", "port", "adapter", "devices">>
        upto(n) == {lines[k] : k \in 1 .. n}
    IN  {[f \in DOMAIN DefaultSettings |-> IF f \in upto(n) THEN file[f] ELSE DefaultSettings[f]] :
            n \in DOMAIN lines \cup {0}}
        \cup {[file EXCEPT !.contacts = SubSeq(@, 1, n)] : n \in DOMAIN file.contacts}

\* The window is killed, perhaps while it saves; its Core goes on without it.
Killed ==
    /\ phase # "off" /\ phase' = "off"
    /\ disk' \in {disk} \cup (IF phase = "open" THEN Torn(Saved(app, combos)) ELSE {})
    /\ orphan' = IF core.state = "room" THEN <<core.port, core.bind>> ELSE orphan
    /\ Ended
    /\ UNCHANGED <<legacy, world>>
OrphanEnds ==
    /\ orphan # None /\ orphan' = None
    /\ UNCHANGED <<window, world>>

WorldChanges ==
    /\ world' \in Worlds \ {world}
    /\ UNCHANGED <<window, orphan>>

\* What the user changes and what goes wrong, and everything else
Changing ==
    \/ AddContact \/ SelectLanguage \/ AddDiscovered \/ CloseNetwork
    \/ \E i \in DOMAIN app.contacts :
        EditContact(i) \/ RemoveContact(i) \/ StepGain(i) \/ DragGain(i)
        \/ ToggleMute(i) \/ TogglePtt(i)
    \/ \E flow \in {"capture", "render"} : SelectDevice(flow)
    \/ CoreDies \/ Killed \/ WorldChanges
Happening ==
    \/ Load \/ Refresh \/ Open
    \/ DropGain \/ OpenNetwork \/ OpenSearch \/ CloseSearch \/ Resize
    \/ CoreGone \/ Exit \/ OrphanEnds
WindowNext ==
    \/ Changing /\ changes < MaxChanges /\ changes' = changes + 1
    \/ Happening /\ UNCHANGED changes

-----------------------------------------------------------------------------
(* Properties.                                                              *)

\* A contact is to the Core what the settings say, but for the digits a text leaves out.
Means(peer, contact) ==
    /\ peer.host = contact.host /\ peer.port = contact.port /\ peer.buffer = contact.buffer
    /\ Near(peer.gain, IF contact.muted THEN 0 ELSE contact.gain, GainStep \div 2)
    /\ Near(peer.db, IF contact.selfDuck THEN contact.db ELSE 0, Unit \div 200)
    /\ Near(peer.threshold, contact.threshold, 5)
    /\ peer.attack = contact.attack /\ peer.hold = contact.hold
    /\ peer.release = contact.release /\ peer.ptt = contact.ptt

\* A Core never refuses the line the window starts it with, and the Core that runs has the
\* port, the address, the devices and the contacts of the settings, whether it got them with
\* its line, with the last of its control lines, or over several restarts; only somebody
\* found by a search that is still open is not known to it yet (restart_core_after_settings_-
\* change and send_contact_runtime_settings are not forgotten anywhere).
CoreMeansSettings ==
    /\ core.state # "refused"
    /\ core.state = "room" /\ dialog # Search(TRUE) =>
        /\ core.port = app.port /\ core.bind = app.bind
        /\ \A flow \in DOMAIN combos :
            Chosen(combos)[flow] # Empty => core.devices[flow] = {Chosen(combos)[flow]}
        /\ DOMAIN core.peers = DOMAIN app.contacts
        /\ \A i \in DOMAIN app.contacts : Means(core.peers[i], app.contacts[i])

\* While the window is open and no gain is being dragged, a start from the settings file would
\* bring back what it shows, but for the digits the file leaves out: no handler that changes a
\* setting forgets to save, none saves before the change (load_settings after save_settings).
SettingsSurvive ==
    phase = "open" /\ dragging = 0 /\ disk # Missing =>
        LET back == parse_settings(disk)
        IN  /\ back.language = app.language /\ back.port = app.port
            /\ back.adapter = app.adapter
            /\ DOMAIN back.contacts = DOMAIN app.contacts
            /\ \A i \in DOMAIN app.contacts :
                /\ [back.contacts[i] EXCEPT !.gain = 0, !.db = 0]
                    = [app.contacts[i] EXCEPT !.gain = 0, !.db = 0]
                /\ Near(back.contacts[i].gain, app.contacts[i].gain, 50)
                /\ Near(back.contacts[i].db, app.contacts[i].db, 50)

\* A Core starts on the address its adapter has at that moment, or on every address because no
\* adapter is chosen: an adapter that went down, or came back with another address, while a
\* dialog was open or a Core was stopping is noticed (resolve_saved_network_binding).
BindsToLiveAdapter ==
    [][core.state # "room" /\ core'.state = "room" =>
        {core'.bind} = resolve_network_bind_address(world.adapters, app'.adapter)]_prefs
=============================================================================
