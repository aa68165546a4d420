------------------------------- MODULE Hotkeys -------------------------------
(***************************************************************************)
(* The global hotkeys of gui/application.cpp: which key or mouse button,    *)
(* with which modifiers, talks to whom; the two low-level hooks, which see  *)
(* every key and only post; and the dialog that records new hotkeys while   *)
(* the hooks are gone.                                                      *)
(*                                                                         *)
(* The Core runs and there are contacts, who are neither added nor removed: *)
(* what a restart or a removal does to a hotkey held is in TalkState, as    *)
(* are talking by the window's buttons and a muted microphone.  A modifier  *)
(* is one key.  What is pressed while the dialog is open reaches the        *)
(* dialog.  Keys are seen when the window's thread takes messages, in time  *)
(* for Windows to wait for it; the key pressed last repeats while it is     *)
(* held.                                                                    *)
(***************************************************************************)
EXTENDS Integers, Sequences, SequencesExt, FiniteSets

CONSTANTS
    Keys, Buttons, Modifiers,   \* on the keyboard, on the mouse
    FirstHotkeys,               \* hotkeys that may be set at the start
    Count,                      \* the number of contacts
    MaxPosted                   \* bound: messages posted when a key is pressed

\* What the dialog records, so what a settings file holds: a mouse button has no modifiers.
Recordable == [modifiers : SUBSET Modifiers, vk : Keys] \cup [modifiers : {{}}, vk : Buttons]

ASSUME HotkeysAssumption ==
    /\ Keys \cap Buttons = {} /\ (Keys \cup Buttons) \cap Modifiers = {}
    /\ "none" \notin Keys \cup Buttons \cup Modifiers
    /\ FirstHotkeys \subseteq Recordable
    /\ Count \in Nat /\ MaxPosted \in Nat

VARIABLE keys

Listed == 1 .. Count
None == 0           \* kHotkeyRecordingNone
All == -1           \* kHotkeyRecordingAll
NotSet == [modifiers |-> {}, vk |-> "none"]
Valid(h) == h.vk # "none"

NoDialog == [open |-> FALSE, all |-> NotSet, of |-> <<>>, recording |-> None, mouse |-> "none"]

KeysAt(all, of) ==
    [down |-> {}, last |-> "none",                  \* what the user holds down
     all |-> all, of |-> of, hooks |-> {},          \* the hotkeys, and the hooks installed for them
     allDown |-> FALSE,                             \* global_hotkey_ptt_down
     contactDown |-> FALSE, pressed |-> NotSet, indices |-> <<>>,
     posted |-> <<>>,                               \* messages posted by the hooks
     group |-> FALSE, refs |-> [i \in Listed |-> 0],  \* who is talked to by hotkey
     dialog |-> NoDialog]

-----------------------------------------------------------------------------
Group(on) == [of |-> All, on |-> on]
Private(indices, on) == [n \in DOMAIN indices |-> [of |-> indices[n], on |-> on]]
Held(k) == k.down \cap Modifiers            \* current_hotkey_modifiers

HotkeysOf(k) == {h \in {k.all} \cup ToSet(k.of) : Valid(h)}
NeedsKeyboard(k) == \E h \in HotkeysOf(k) : h.vk \notin Buttons
NeedsMouse(k) == \E h \in HotkeysOf(k) : h.vk \in Buttons

\* deactivate_global_hotkey_ptt
DeactivateAll(k) ==
    IF ~k.allDown THEN k
    ELSE [k EXCEPT !.allDown = FALSE, !.posted = Append(@, Group(FALSE))]

\* deactivate_contact_hotkey_ptt
DeactivateContact(k) ==
    IF ~k.contactDown THEN k
    ELSE [k EXCEPT !.contactDown = FALSE, !.pressed = NotSet, !.indices = <<>>,
                   !.posted = @ \o Private(k.indices, FALSE)]

Deactivate(k) == DeactivateContact(DeactivateAll(k))

ActivateAll(k) ==
    IF k.allDown THEN k ELSE [k EXCEPT !.allDown = TRUE, !.posted = Append(@, Group(TRUE))]

\* A contact's hotkey pressed: all who have it, unless one is held or the group is talked to
ActivateContact(k, pressed, matching) ==
    IF k.contactDown \/ k.group \/ matching = <<>> THEN k
    ELSE [k EXCEPT !.contactDown = TRUE, !.pressed = pressed, !.indices = matching,
                   !.posted = @ \o Private(matching, TRUE)]

\* The members of s, the least first
Ascending(s) ==
    [n \in 1 .. Cardinality(s) |-> CHOOSE i \in s : Cardinality({j \in s : j < i}) = n - 1]

Matching(k, hotkeys) == Ascending({i \in Listed : k.of[i] \in hotkeys})

\* low_level_keyboard_proc; a modifier is no hotkey of its own
KeyboardDown(k, vk) ==
    LET pressed == [modifiers |-> Held(k), vk |-> vk]
    IN  IF vk \in Modifiers THEN k
        ELSE IF k.all = pressed THEN ActivateAll(k)
        ELSE ActivateContact(k, pressed, Matching(k, {pressed}))

KeyboardUp(k, vk) ==
    LET EndsOf(h) == vk = h.vk \/ vk \in h.modifiers
        j == IF k.allDown /\ EndsOf(k.all) THEN DeactivateAll(k) ELSE k
    IN  IF k.allDown /\ vk = k.all.vk THEN j
        ELSE IF EndsOf(j.pressed) THEN DeactivateContact(j) ELSE j

\* low_level_mouse_proc, which asks for no modifiers
MouseButtonDown(k, vk) ==
    IF k.all.vk = vk THEN ActivateAll(k)
    ELSE ActivateContact(k, [modifiers |-> {}, vk |-> vk],
                         Matching(k, [modifiers : SUBSET Modifiers, vk : {vk}]))

MouseButtonUp(k, vk) ==
    IF k.allDown /\ vk = k.all.vk THEN DeactivateAll(k)
    ELSE IF vk = k.pressed.vk THEN DeactivateContact(k) ELSE k

\* update_global_hotkey_hook
UpdateHook(k) ==
    LET hooks == (IF NeedsKeyboard(k) THEN {"keyboard"} ELSE {})
                     \cup (IF NeedsMouse(k) THEN {"mouse"} ELSE {})
    IN  [(IF hooks = {} THEN Deactivate(k) ELSE k) EXCEPT !.hooks = hooks]

\* Mutated form: the hooks go and leave what is held as it is.
UnhookOnly(k) == [k EXCEPT !.hooks = {}]

\* remove_global_hotkey_hook
RemoveHook(k) == [Deactivate(k) EXCEPT !.hooks = {}]

KeysInit ==
    keys \in {UpdateHook(KeysAt(all, of)) :
        all \in FirstHotkeys \cup {NotSet}, of \in [Listed -> FirstHotkeys \cup {NotSet}]}

-----------------------------------------------------------------------------
\* The dialog's recorded hotkey, for the group or a contact
Record(k, hotkey, mouse) ==
    LET d == k.dialog
        set == IF d.recording = All THEN [d EXCEPT !.all = hotkey]
               ELSE [d EXCEPT !.of[d.recording] = hotkey]
    IN  [k EXCEPT !.dialog = [set EXCEPT !.mouse = mouse,
                                         !.recording = IF mouse = "none" THEN None ELSE @]]

\* handle_hotkey_dialog_recording_message
DialogDown(k, vk) ==
    IF k.dialog.recording = None \/ vk \in Modifiers THEN k
    ELSE IF vk \in Buttons THEN Record(k, [modifiers |-> {}, vk |-> vk], vk)
    ELSE Record(k, [modifiers |-> Held(k), vk |-> vk], "none")

DialogUp(k, vk) ==
    IF vk \in Buttons /\ k.dialog.recording # None /\ vk = k.dialog.mouse
    THEN [k EXCEPT !.dialog.recording = None, !.dialog.mouse = "none"] ELSE k

\* A key or a button goes down, or repeats while it is held.
Press(vk) ==
    /\ Len(keys.posted) < MaxPosted
    /\ vk \notin keys.down \/ (vk = keys.last /\ vk \notin Buttons)
    /\ LET k == [keys EXCEPT !.down = @ \cup {vk}, !.last = vk]
       IN  keys' = IF k.dialog.open THEN DialogDown(k, vk)
                   ELSE IF vk \in Buttons
                        THEN IF "mouse" \in k.hooks THEN MouseButtonDown(k, vk) ELSE k
                   ELSE IF "keyboard" \in k.hooks THEN KeyboardDown(k, vk) ELSE k

Release(vk) ==
    /\ vk \in keys.down
    /\ LET k == [keys EXCEPT !.down = @ \ {vk}, !.last = IF @ = vk THEN "none" ELSE @]
       IN  keys' = IF k.dialog.open THEN DialogUp(k, vk)
                   ELSE IF vk \in Buttons
                        THEN IF "mouse" \in k.hooks THEN MouseButtonUp(k, vk) ELSE k
                   ELSE IF "keyboard" \in k.hooks THEN KeyboardUp(k, vk) ELSE k

\* WM_APP_GLOBAL_PTT, WM_APP_CONTACT_PTT: a contact is not begun with while the group is
\* talked to.
TakeHotkey ==
    /\ keys.posted # <<>>
    /\ LET m == Head(keys.posted)
           k == [keys EXCEPT !.posted = Tail(@)]
       IN  keys' = IF m.of = All THEN [k EXCEPT !.group = m.on]
                   ELSE IF m.on THEN IF k.group THEN k ELSE [k EXCEPT !.refs[m.of] = @ + 1]
                   ELSE IF k.refs[m.of] = 0 THEN k ELSE [k EXCEPT !.refs[m.of] = @ - 1]

\* show_global_hotkeys_dialog, up to its message loop
OpenHotkeys ==
    /\ ~keys.dialog.open
    /\ keys' = [RemoveHook(keys) EXCEPT
                   !.dialog = [NoDialog EXCEPT !.open = TRUE, !.all = keys.all, !.of = keys.of]]

\* Bound: one hotkey is changed between the opening of the dialog and its end.
Unchanged == keys.dialog.open /\ keys.dialog.all = keys.all /\ keys.dialog.of = keys.of

\* set_hotkey_dialog_recording; Escape ends a recording.
StartRecording(which) ==
    /\ Unchanged
    /\ keys' = [keys EXCEPT !.dialog.recording = which, !.dialog.mouse = "none"]

ClearHotkey(which) ==
    /\ Unchanged
    /\ keys' = [keys EXCEPT !.dialog.recording = None, !.dialog.mouse = "none",
                   !.dialog.all = IF which = All THEN NotSet ELSE @,
                   !.dialog.of = IF which = All THEN @ ELSE [@ EXCEPT ![which] = NotSet]]

\* ... and behind it
CloseHotkeys(accepted) ==
    /\ keys.dialog.open
    /\ LET k == [keys EXCEPT !.dialog = NoDialog]
       IN  keys' = UpdateHook(IF ~accepted THEN k
                              ELSE [Deactivate(k) EXCEPT !.all = keys.dialog.all,
                                                         !.of = keys.dialog.of])

KeysStep ==
    \/ \E vk \in Keys \cup Buttons \cup Modifiers : Press(vk) \/ Release(vk)
    \/ TakeHotkey
    \/ OpenHotkeys
    \/ \E which \in {None, All} \cup Listed : StartRecording(which)
    \/ \E which \in {All} \cup Listed : ClearHotkey(which)
    \/ \E accepted \in BOOLEAN : CloseHotkeys(accepted)

-----------------------------------------------------------------------------
\* Is the hotkey held down: a mouse button with or without modifiers, a key with its own
\* and any more?
IsHeld(h) == Valid(h) /\ h.vk \in keys.down /\ h.modifiers \subseteq keys.down

\* Once the messages posted are handled, the group and a contact are talked to by hotkey only
\* while their own hotkey is held down, whatever else is pressed, released or repeated, and in
\* whatever order a key and its modifiers go up; opening the dialog ends it, as nobody would see
\* the release (the hooks, deactivate_*, set_contact_push_to_talk_active).
HeardAsHeld ==
    keys.posted = <<>> =>
        /\ keys.group => ~keys.dialog.open /\ IsHeld(keys.all)
        /\ \A i \in Listed : keys.refs[i] > 0 => ~keys.dialog.open /\ IsHeld(keys.of[i])
=============================================================================
