-------------------------- MODULE TalkStateProofs --------------------------
(***************************************************************************)
(* Theorems about who is talked to, for every number of contacts, Cores    *)
(* and waiting messages, in the absence of three rare orders: a settings   *)
(* change between the end of a Core and its clean-up, a contact removed    *)
(* while a restart is pending, and a start that fails before it restored   *)
(* the latches.  That on the contacts' hotkeys excludes two more; that on  *)
(* the controller, none.                                                   *)
(***************************************************************************)
EXTENDS TalkState, FiniteSetTheorems, TLAPS

Orderly == Events \cap {"restart", "removal", "unrestored"} = {}

Groups == [button : BOOLEAN, hotkey : BOOLEAN, continuous : BOOLEAN, down : BOOLEAN,
           muted : BOOLEAN]
Restarts == [stopping : BOOLEAN, again : BOOLEAN, enabled : BOOLEAN, restore : BOOLEAN,
             continuous : BOOLEAN, latched : Seq(BOOLEAN)]
Processes == [generation : Nat, alive : BOOLEAN, running : BOOLEAN, asked : BOOLEAN,
              owed : BOOLEAN]
Messages == [type : {"exit", "group", "private"}, of : Nat, on : BOOLEAN]

Privates(n) == [refs : [1 .. n -> Nat], latched : [1 .. n -> BOOLEAN], mouse : 0 .. n]

Typed ==
    /\ contacts \in Seq(Contacts) /\ IsInjective(contacts)
    /\ stale \subseteq {"device", "level", "list"}
    /\ talk \in Groups
    /\ private \in Privates(Len(contacts))
    /\ hook \in [group : BOOLEAN, keys : SUBSET Indices]
    /\ app \in Restarts /\ proc \in Processes
    /\ core \in [open : BOOLEAN, talk : SUBSET Indices]
    /\ queue \in Seq(Messages)
    /\ call \in {"idle", "change", "stop"}
    /\ meant \subseteq Contacts

\* A Core that works has not been seen to end, and an exit notice of the present process
\* says that it ended.
ProcessTrue ==
    /\ proc.alive => proc.running
    /\ proc.owed => ~proc.running
    /\ \A k \in DOMAIN queue : queue[k].type = "exit" =>
        /\ queue[k].of <= proc.generation
        /\ queue[k].of = proc.generation => ~proc.running

\* Where the restart is: the window stops only a Core that was asked to, and only with the
\* latches saved.
RestartTrue ==
    /\ app.stopping => app.restore
    /\ app.stopping /\ proc.alive => proc.asked
    /\ app.stopping /\ ~Idle => proc.running
    /\ call = "stop" => app.restore
    /\ app.restore /\ ~app.stopping /\ call # "stop" =>
        ~proc.running /\ \A i \in Indices : ~private.latched[i]

Applied == proc.alive /\ ~proc.asked /\ Idle => stale = {}

\* The Core was told what the window shows.
Shown ==
    /\ talk.muted = ~talk.down
    /\ ~proc.alive => core = NoCore
    /\ proc.alive => core.talk = ActiveOf(private)
    /\ proc.alive /\ ~proc.asked => core.open = talk.down

\* The group is talked to with a source, and the hotkey is a source only as long as it is held
\* or its release is on the way.
LastOfGroup(k) ==
    queue[k].type = "group" /\ \A m \in DOMAIN queue : queue[m].type = "group" => m <= k
SourcesTrue ==
    /\ talk.down => talk.button \/ talk.hotkey \/ talk.continuous
    /\ \A k \in DOMAIN queue : LastOfGroup(k) => queue[k].on = hook.group
    /\ ~Behind("group") => (talk.hotkey => hook.group)

SavedNames == {contacts[i] : i \in {j \in Indices : j <= Len(app.latched) /\ app.latched[j]}}
LatchesMeant ==
    /\ ~app.stopping => Latched \subseteq meant
    /\ app.restore => SavedNames \subseteq meant /\ Len(app.latched) <= Len(contacts)

IInv == Typed /\ ProcessTrue /\ RestartTrue /\ Applied /\ Shown /\ SourcesTrue /\ LatchesMeant

-----------------------------------------------------------------------------
(* The operators on the parts of the state *)

LEMMA SilentTyped ==
    /\ Silent \in Groups /\ ~Silent.down /\ Silent.muted
    /\ ~Silent.hotkey /\ ~Silent.button /\ ~Silent.continuous
  BY DEF Silent, Groups

LEMMA UnpressedTyped ==
    ASSUME NEW n \in Nat
    PROVE  /\ Unpressed(n) \in Privates(n)
           /\ ActiveOf(Unpressed(n)) = {}
           /\ \A i \in 1 .. n : ~Unpressed(n).latched[i]
  BY DEF Unpressed, Privates, ActiveOf, Active

\* What an operator that repaints the buttons leaves as it was
RestartSame ==
    /\ app' \in Restarts /\ app'.stopping = app.stopping /\ app'.restore = app.restore
    /\ app'.latched = app.latched

\* Repainting the buttons never takes the group's state from a Core that was not told.
LEMMA RefreshSound ==
    ASSUME IInv, contacts # <<>>, Refresh(talk)
    PROVE  /\ talk' \in Groups /\ talk'.muted = ~talk'.down
           /\ talk'.down => talk'.button \/ talk'.hotkey \/ talk'.continuous
           /\ talk'.hotkey => talk.hotkey
           /\ proc.alive /\ ~proc.asked => talk' = talk
           /\ RestartSame
<1>1. talk' = talk \/ talk' = Silent
  BY DEF Refresh, Buttons
<1>2. proc.alive /\ ~proc.asked => talk' = talk
  BY DEF Refresh, Buttons, IInv, ProcessTrue, RestartTrue
<1>3. RestartSame
  <2> DEFINE enabled == TalkEnabled(app.stopping, proc.running)
  <2>1. enabled \in BOOLEAN
    BY DEF TalkEnabled
  <2>2. app' = [app EXCEPT !.enabled = enabled] /\ app \in Restarts
    BY DEF Refresh, IInv, Typed
  <2> HIDE DEF enabled
  <2>3. QED
    BY <2>1, <2>2 DEF Restarts, RestartSame
<1>4. CASE talk' = talk
  BY <1>2, <1>3, <1>4 DEF IInv, Typed, Shown, SourcesTrue
<1>5. CASE talk' = Silent
  BY <1>2, <1>3, <1>5, SilentTyped
<1>6. QED
  BY <1>1, <1>4, <1>5

LEMMA ToldSound ==
    ASSUME IInv, NEW on \in BOOLEAN
    PROVE  /\ Told("open", on) \in [open : BOOLEAN, talk : SUBSET Indices]
           /\ Told("open", on).talk = core.talk
           /\ proc.alive => Told("open", on).open = on
           /\ ~proc.alive => Told("open", on) = NoCore
<1>1. core \in [open : BOOLEAN, talk : SUBSET Indices]
  BY DEF IInv, Typed
<1>2. CASE proc.alive
  BY <1>1, <1>2 DEF Told
<1>3. CASE ~proc.alive
  BY <1>1, <1>3 DEF Told, IInv, Shown
<1>4. QED
  BY <1>2, <1>3

LEMMA ToldTalkSound ==
    ASSUME IInv, NEW to \in SUBSET Indices
    PROVE  /\ Told("talk", to) \in [open : BOOLEAN, talk : SUBSET Indices]
           /\ Told("talk", to).open = core.open
           /\ proc.alive => Told("talk", to).talk = to
           /\ ~proc.alive => Told("talk", to) = NoCore
<1>1. core \in [open : BOOLEAN, talk : SUBSET Indices]
  BY DEF IInv, Typed
<1>2. CASE proc.alive
  BY <1>1, <1>2 DEF Told
<1>3. CASE ~proc.alive
  BY <1>1, <1>3 DEF Told, IInv, Shown
<1>4. QED
  BY <1>2, <1>3

\* The group's sources, applied: the Core is told whenever the button changes.
LEMMA ApplySound ==
    ASSUME IInv, NEW t \in Groups, t.down = talk.down, t.muted = talk.muted, Apply(t)
    PROVE  /\ talk' \in Groups /\ talk'.muted = ~talk'.down
           /\ talk'.down => talk'.button \/ talk'.hotkey \/ talk'.continuous
           /\ talk'.hotkey => t.hotkey
           /\ core' \in [open : BOOLEAN, talk : SUBSET Indices] /\ core'.talk = core.talk
           /\ ~proc.alive => core' = NoCore
           /\ proc.alive /\ ~proc.asked => core'.open = talk'.down
<1> DEFINE active == t.button \/ t.hotkey \/ t.continuous
           settled == (active /\ ~CanTalk) \/ (t.down = active /\ t.muted = ~active)
<1>1. active \in BOOLEAN
  OBVIOUS
<1>2. core \in [open : BOOLEAN, talk : SUBSET Indices] /\ talk \in Groups
  BY DEF IInv, Typed
<1>3. CASE settled
  <2>1. talk' = t /\ core' = core
    BY <1>3 DEF Apply
  <2>2. t.down => active
    BY <1>3
  <2>3. QED
    BY <1>2, <2>1, <2>2 DEF IInv, Shown
<1>4. CASE ~settled
  <2>1. core' = Told("open", active)
    BY <1>4 DEF Apply
  <2>2. /\ core' \in [open : BOOLEAN, talk : SUBSET Indices] /\ core'.talk = core.talk
        /\ ~proc.alive => core' = NoCore
        /\ proc.alive => core'.open = active
    BY <1>1, <2>1, ToldSound
  <2>3. CASE active /\ ~proc.alive
    <3>1. talk' = Silent
      BY <1>4, <2>3 DEF Apply
    <3>2. QED
      BY <2>2, <2>3, <3>1, SilentTyped
  <2>4. CASE ~(active /\ ~proc.alive)
    <3> DEFINE muted == ~active
               u == [t EXCEPT !.down = active, !.muted = muted]
    <3>1. talk' = u
      BY <1>4, <2>4 DEF Apply
    <3>2. u = [t EXCEPT !.down = active, !.muted = muted] /\ muted \in BOOLEAN
      OBVIOUS
    <3>3. active => t.button \/ t.hotkey \/ t.continuous
      OBVIOUS
    <3>4. muted = ~active
      OBVIOUS
    <3> HIDE DEF u, active, muted
    <3>5. /\ u \in Groups /\ u.down = active /\ u.muted = muted
          /\ u.button = t.button /\ u.hotkey = t.hotkey /\ u.continuous = t.continuous
      BY <1>1, <3>2 DEF Groups
    <3>6. QED
      BY <2>2, <3>1, <3>3, <3>4, <3>5
  <2>5. QED
    BY <2>3, <2>4
<1>5. QED
  BY <1>3, <1>4

-----------------------------------------------------------------------------
(* Messages taken and posted *)

GroupFollows == \A k \in DOMAIN queue : LastOfGroup(k) => queue[k].on = hook.group
NoticesTrue ==
    \A k \in DOMAIN queue : queue[k].type = "exit" =>
        /\ queue[k].of <= proc.generation
        /\ queue[k].of = proc.generation => ~proc.running

LEMMA TakenSound ==
    ASSUME IInv, queue # <<>>, queue' = Tail(queue), hook'.group = hook.group
    PROVE  /\ queue' \in Seq(Messages) /\ Head(queue) \in Messages
           /\ \A k \in DOMAIN queue' : k + 1 \in DOMAIN queue /\ queue'[k] = queue[k + 1]
           /\ GroupFollows'
           /\ Head(queue).type = "group" /\ ~Behind("group")' => Head(queue).on = hook.group
           /\ Head(queue).type # "group" => (Behind("group")' <=> Behind("group"))
<1>1. queue \in Seq(Messages) /\ Len(queue) \in Nat \ {0}
  BY DEF IInv, Typed
<1>2. /\ queue' \in Seq(Messages) /\ Len(queue') = Len(queue) - 1
      /\ Head(queue) = queue[1] /\ Head(queue) \in Messages
      /\ DOMAIN queue = 1 .. Len(queue) /\ DOMAIN queue' = 1 .. (Len(queue) - 1)
      /\ \A k \in 1 .. (Len(queue) - 1) : queue'[k] = queue[k + 1]
  BY <1>1
<1>3. \A k \in DOMAIN queue' : k + 1 \in DOMAIN queue /\ queue'[k] = queue[k + 1]
  BY <1>1, <1>2
<1>4. \A m \in DOMAIN queue : m = 1 \/ (m - 1 \in DOMAIN queue' /\ queue'[m - 1] = queue[m])
  BY <1>1, <1>2
<1>5. \A k \in DOMAIN queue : LastOfGroup(k) => queue[k].on = hook.group
  BY DEF IInv, SourcesTrue
<1>6. GroupFollows'
  <2> SUFFICES ASSUME NEW k \in DOMAIN queue', LastOfGroup(k)'
               PROVE  queue'[k].on = hook'.group
    BY DEF GroupFollows
  <2>1. k \in Int /\ k >= 1 /\ queue[k + 1].type = "group"
    BY <1>1, <1>2, <1>3 DEF LastOfGroup
  <2>2. ASSUME NEW m \in DOMAIN queue, queue[m].type = "group" PROVE m <= k + 1
    <3>1. CASE m = 1
      BY <2>1, <3>1
    <3>2. CASE m # 1
      <4>1. m - 1 \in DOMAIN queue' /\ queue'[m - 1].type = "group"
        BY <1>4, <2>2, <3>2
      <4>2. m - 1 <= k
        BY <4>1 DEF LastOfGroup
      <4>3. m \in Int
        BY <1>2
      <4>4. QED
        BY <2>1, <4>2, <4>3
    <3>3. QED
      BY <3>1, <3>2
  <2>3. LastOfGroup(k + 1)
    BY <2>1, <2>2 DEF LastOfGroup
  <2>4. QED
    BY <1>3, <1>5, <2>3
<1>7. ASSUME Head(queue).type = "group", ~Behind("group")' PROVE Head(queue).on = hook.group
  <2>1. \A m \in DOMAIN queue : queue[m].type = "group" => m = 1
    BY <1>4, <1>7 DEF Behind
  <2>2. 1 \in DOMAIN queue /\ LastOfGroup(1)
    BY <1>1, <1>2, <1>7, <2>1 DEF LastOfGroup
  <2>3. QED
    BY <1>2, <1>5, <2>2
<1>8. ASSUME Head(queue).type # "group" PROVE Behind("group")' <=> Behind("group")
  <2>1. Behind("group")' => Behind("group")
    BY <1>3 DEF Behind
  <2>2. ASSUME NEW m \in DOMAIN queue, queue[m].type = "group"
        PROVE  \E k \in DOMAIN queue' : queue'[k].type = "group"
    <3>1. m # 1
      BY <1>2, <1>8, <2>2
    <3>2. m - 1 \in DOMAIN queue' /\ queue'[m - 1].type = "group"
      BY <1>4, <2>2, <3>1
    <3>3. QED
      BY <3>2
  <2>3. QED
    BY <2>1, <2>2 DEF Behind
<1>9. QED
  BY <1>2, <1>3, <1>6, <1>7, <1>8

LEMMA PostedSound ==
    ASSUME IInv, NEW m \in Messages, queue' = Append(queue, m),
           IF m.type = "group" THEN hook'.group = m.on ELSE hook'.group = hook.group
    PROVE  /\ queue' \in Seq(Messages)
           /\ GroupFollows'
           /\ ~Behind("group")' => ~Behind("group") /\ m.type # "group"
           /\ \A k \in DOMAIN queue' :
                  queue'[k] = m \/ (k \in DOMAIN queue /\ queue'[k] = queue[k])
<1>1. queue \in Seq(Messages) /\ Len(queue) \in Nat
  BY DEF IInv, Typed
<1>2. /\ queue' \in Seq(Messages) /\ Len(queue') = Len(queue) + 1
      /\ DOMAIN queue = 1 .. Len(queue) /\ DOMAIN queue' = 1 .. (Len(queue) + 1)
      /\ queue'[Len(queue) + 1] = m
      /\ \A k \in 1 .. Len(queue) : queue'[k] = queue[k]
  BY <1>1
<1>3. \A k \in DOMAIN queue' : k = Len(queue) + 1 \/ (k \in DOMAIN queue /\ queue'[k] = queue[k])
  BY <1>1, <1>2
<1>4. \A k \in DOMAIN queue : k \in DOMAIN queue' /\ queue'[k] = queue[k]
  BY <1>1, <1>2
<1>5. \A k \in DOMAIN queue : LastOfGroup(k) => queue[k].on = hook.group
  BY DEF IInv, SourcesTrue
<1>6. GroupFollows'
  <2> SUFFICES ASSUME NEW k \in DOMAIN queue', LastOfGroup(k)'
               PROVE  queue'[k].on = hook'.group
    BY DEF GroupFollows
  <2>1. CASE m.type = "group"
    <3>1. Len(queue) + 1 \in DOMAIN queue' /\ queue'[Len(queue) + 1].type = "group"
      BY <1>1, <1>2, <2>1
    <3>2. Len(queue) + 1 <= k
      BY <3>1 DEF LastOfGroup
    <3>3. k = Len(queue) + 1
      BY <1>1, <1>2, <3>2
    <3>4. QED
      BY <1>2, <2>1, <3>3
  <2>2. CASE m.type # "group"
    <3>1. queue'[k].type = "group" /\ k # Len(queue) + 1
      BY <1>2, <2>2 DEF LastOfGroup
    <3>2. k \in DOMAIN queue /\ queue'[k] = queue[k]
      BY <1>3, <3>1
    <3>3. LastOfGroup(k)
      BY <1>4, <3>1, <3>2 DEF LastOfGroup
    <3>4. QED
      BY <1>5, <2>2, <3>2, <3>3
  <2>3. QED
    BY <2>1, <2>2
<1>7. ~Behind("group")' => ~Behind("group") /\ m.type # "group"
  <2>1. Len(queue) + 1 \in DOMAIN queue'
    BY <1>1, <1>2
  <2>2. QED
    BY <1>2, <1>4, <2>1 DEF Behind
<1>8. QED
  BY <1>2, <1>3, <1>6, <1>7

\* Notices as they are taken and as other messages are posted
LEMMA NoticesKept ==
    ASSUME IInv, proc' = proc,
           \A k \in DOMAIN queue' : \/ queue'[k].type # "exit"
                                    \/ \E j \in DOMAIN queue : queue'[k] = queue[j]
    PROVE  ProcessTrue'
  BY DEF IInv, ProcessTrue

LEMMA NothingPosted ==
    ASSUME IInv, queue' = queue, hook'.group = hook.group
    PROVE  GroupFollows' /\ (Behind("group")' <=> Behind("group"))
  BY DEF IInv, SourcesTrue, GroupFollows, LastOfGroup, Behind

-----------------------------------------------------------------------------
(* What leaves the contacts and the restart as they are *)

LEMMA RestartKept ==
    ASSUME IInv, RestartSame, UNCHANGED <<proc, call, contacts>>,
           \A i \in Indices : private'.latched[i] => private.latched[i] \/ proc.running
    PROVE  RestartTrue'
  BY DEF IInv, RestartTrue, RestartSame, Idle, Indices

LEMMA AppSame == ASSUME IInv, app' = app PROVE RestartSame
  BY DEF IInv, Typed, RestartSame

LEMMA LatchesKeptMeant ==
    ASSUME IInv, RestartSame, UNCHANGED <<contacts, meant>>, private'.latched = private.latched
    PROVE  LatchesMeant'
  BY DEF IInv, LatchesMeant, RestartSame, Latched, SavedNames, Indices

LEMMA AppliedKept ==
    ASSUME IInv, UNCHANGED <<proc, stale>>, call' = call
    PROVE  Applied'
  BY DEF IInv, Applied, Idle

-----------------------------------------------------------------------------
(* The group's sources *)

LEMMA SourceSound ==
    ASSUME IInv, NEW source \in {"button", "hotkey", "continuous"}, NEW on \in BOOLEAN,
           SetSource(source, on)
    PROVE  /\ talk' \in Groups /\ talk'.muted = ~talk'.down
           /\ talk'.down => talk'.button \/ talk'.hotkey \/ talk'.continuous
           /\ core' \in [open : BOOLEAN, talk : SUBSET Indices] /\ core'.talk = core.talk
           /\ ~proc.alive => core' = NoCore
           /\ proc.alive /\ ~proc.asked => core'.open = talk'.down
           /\ talk'.hotkey => IF source = "hotkey" THEN on ELSE talk.hotkey
<1>1. CASE on /\ ~CanTalk
  <2>1. talk' = talk /\ core' = core
    BY <1>1 DEF SetSource
  <2>2. QED
    BY <1>1, <2>1 DEF IInv, Typed, Shown, SourcesTrue
<1>2. CASE ~(on /\ ~CanTalk)
  <2> DEFINE t == [talk EXCEPT ![source] = on]
  <2>1. Apply(t)
    BY <1>2 DEF SetSource
  <2>2. t = [talk EXCEPT ![source] = on] /\ talk \in Groups
    BY DEF IInv, Typed
  <2> HIDE DEF t
  <2>3. /\ t \in Groups /\ t.down = talk.down /\ t.muted = talk.muted
        /\ t.hotkey = IF source = "hotkey" THEN on ELSE talk.hotkey
    <3>1. CASE source = "button"
      BY <2>2, <3>1 DEF Groups
    <3>2. CASE source = "hotkey"
      BY <2>2, <3>2 DEF Groups
    <3>3. CASE source = "continuous"
      BY <2>2, <3>3 DEF Groups
    <3>4. QED
      BY <3>1, <3>2, <3>3
  <2>4. /\ talk' \in Groups /\ talk'.muted = ~talk'.down
        /\ talk'.down => talk'.button \/ talk'.hotkey \/ talk'.continuous
        /\ talk'.hotkey => t.hotkey
        /\ core' \in [open : BOOLEAN, talk : SUBSET Indices] /\ core'.talk = core.talk
        /\ ~proc.alive => core' = NoCore
        /\ proc.alive /\ ~proc.asked => core'.open = talk'.down
    BY <2>1, <2>3, ApplySound
  <2>5. QED
    BY <2>3, <2>4
<1>3. QED
  BY <1>1, <1>2

\* A step that sets a source, and takes a message at the most
LEMMA SourceStep ==
    ASSUME IInv, NEW source \in {"button", "hotkey", "continuous"}, NEW on \in BOOLEAN,
           SetSource(source, on),
           \/ UNCHANGED queue /\ source # "hotkey"
           \/ queue # <<>> /\ queue' = Tail(queue) /\ Head(queue).type = "group"
              /\ source = "hotkey" /\ on = Head(queue).on
    PROVE  IInv'
<1>1. UNCHANGED <<contacts, stale, private, hook, app, proc, call, meant>>
  BY DEF SetSource
<1>2. RestartSame
  BY <1>1, AppSame
<1>3. queue' \in Seq(Messages) /\ ProcessTrue'
  BY <1>1, TakenSound, NoticesKept DEF IInv, Typed
<1>4. Typed'
  BY <1>1, <1>3, SourceSound DEF IInv, Typed, Indices
<1>5. RestartTrue' /\ LatchesMeant' /\ Applied'
  BY <1>1, <1>2, RestartKept, LatchesKeptMeant, AppliedKept
<1>6. Shown'
  BY <1>1, SourceSound DEF IInv, Shown
<1>7. SourcesTrue'
  <2>1. talk'.down => talk'.button \/ talk'.hotkey \/ talk'.continuous
    BY SourceSound
  <2>2. GroupFollows' /\ (~Behind("group")' => (talk'.hotkey => hook.group))
    <3>1. CASE UNCHANGED queue /\ source # "hotkey"
      BY <1>1, <3>1, NothingPosted, SourceSound DEF IInv, SourcesTrue
    <3>2. CASE queue # <<>> /\ queue' = Tail(queue) /\ Head(queue).type = "group"
               /\ source = "hotkey" /\ on = Head(queue).on
      BY <1>1, <3>2, TakenSound, SourceSound
    <3>3. QED
      BY <3>1, <3>2
  <2>3. QED
    BY <1>1, <2>1, <2>2 DEF SourcesTrue, GroupFollows
<1>8. QED
  BY <1>3, <1>4, <1>5, <1>6, <1>7 DEF IInv

LEMMA SourceSteps ==
    ASSUME IInv, ButtonDown \/ ButtonUp \/ ClickContinuous \/ TakeGroup
    PROVE  IInv'
<1>1. CASE ButtonDown
  BY <1>1, SourceStep DEF ButtonDown
<1>2. CASE ButtonUp
  BY <1>2, SourceStep DEF ButtonUp
<1>3. CASE ClickContinuous
  <2>1. (~talk.continuous) \in BOOLEAN
    OBVIOUS
  <2>2. QED
    BY <1>3, <2>1, SourceStep DEF ClickContinuous
<1>4. CASE TakeGroup
  <2>1. Head(queue).on \in BOOLEAN
    BY <1>4, TakenSound DEF TakeGroup, Receives, Messages, SetSource
  <2>2. QED
    BY <1>4, <2>1, SourceStep DEF TakeGroup, Receives
<1>5. QED
  BY <1>1, <1>2, <1>3, <1>4

-----------------------------------------------------------------------------
(* The contacts' push-to-talk *)

\* What is left alone by a step that presses or releases a contact
Elsewhere == UNCHANGED <<contacts, stale, hook, proc, call, meant>>

\* What such a step does, as far as the invariant depends on it
PrivateStep ==
    /\ private' \in Privates(Len(contacts)) /\ private'.latched = private.latched
    /\ core' \in [open : BOOLEAN, talk : SUBSET Indices] /\ core'.open = core.open
    /\ ~proc.alive => core' = NoCore
    /\ proc.alive => core'.talk = ActiveOf(private')
    /\ talk' \in Groups /\ talk'.muted = ~talk'.down
    /\ talk'.down => talk'.button \/ talk'.hotkey \/ talk'.continuous
    /\ talk'.hotkey => talk.hotkey
    /\ proc.alive /\ ~proc.asked => talk' = talk
    /\ RestartSame

\* The messages: none is taken, or one that is not the group's
PrivateTaken ==
    \/ UNCHANGED queue
    \/ queue # <<>> /\ queue' = Tail(queue) /\ Head(queue).type # "group"

LEMMA PrivateKeeps ==
    ASSUME IInv, Elsewhere, PrivateStep, PrivateTaken
    PROVE  IInv'
<1> USE DEF Elsewhere
<1>1. queue' \in Seq(Messages) /\ ProcessTrue'
  BY TakenSound, NoticesKept DEF IInv, Typed, PrivateTaken
<1>2. RestartSame /\ private'.latched = private.latched
  BY DEF PrivateStep
<1>3. Typed'
  BY <1>1, <1>2 DEF IInv, Typed, Indices, PrivateStep, RestartSame
<1>4. RestartTrue' /\ LatchesMeant' /\ Applied'
  BY <1>2, RestartKept, LatchesKeptMeant, AppliedKept
<1>5. Shown'
  BY DEF IInv, Shown, PrivateStep
<1>6. GroupFollows' /\ (Behind("group")' <=> Behind("group"))
  BY TakenSound, NothingPosted DEF PrivateTaken
<1>7. SourcesTrue'
  BY <1>6 DEF IInv, SourcesTrue, GroupFollows, PrivateStep
<1>8. QED
  BY <1>1, <1>3, <1>4, <1>5, <1>7 DEF IInv

LEMMA ActiveIs ==
    ASSUME IInv
    PROVE  /\ private \in Privates(Len(contacts)) /\ Len(contacts) \in Nat
           /\ Indices = 1 .. Len(contacts)
           /\ ActiveOf(private) = {i \in Indices : Active(private, i)}
           /\ proc.alive => core.talk = ActiveOf(private)
           /\ core.talk \subseteq Indices
  BY DEF IInv, Typed, Shown, Indices, ActiveOf, Privates

LEMMA PressedRefs ==
    ASSUME IInv, NEW i \in Indices, NEW r \in Nat, NEW m \in 0 .. Len(contacts),
           private' = [private EXCEPT !.refs[i] = r, !.mouse = m]
    PROVE  /\ private' \in Privates(Len(contacts)) /\ private'.latched = private.latched
           /\ \A j \in Indices : j # i => (Active(private', j) <=> Active(private, j))
           /\ r > 0 => Active(private', i)
           /\ DOMAIN private'.refs = Indices
<1> DEFINE refs == [private.refs EXCEPT ![i] = r]
<1>1. private' = [private EXCEPT !.refs = refs, !.mouse = m]
  OBVIOUS
<1>2. private \in Privates(Len(contacts)) /\ Indices = 1 .. Len(contacts)
  BY ActiveIs
<1>3. /\ refs \in [Indices -> Nat] /\ refs[i] = r
      /\ \A j \in Indices : j # i => refs[j] = private.refs[j]
  BY <1>2 DEF Privates
<1> HIDE DEF refs
<1>4. /\ private' \in Privates(Len(contacts)) /\ private'.latched = private.latched
      /\ private'.refs = refs
  BY <1>1, <1>2, <1>3 DEF Privates
<1>5. QED
  BY <1>3, <1>4 DEF Active

LEMMA PressSound ==
    ASSUME IInv, NEW i \in Indices, NEW mouse \in BOOLEAN, Press(i, mouse)
    PROVE  PrivateStep
<1>1. contacts # <<>>
  BY ActiveIs
<1>2. CASE Pressed(i)
  <2> DEFINE m == IF mouse THEN i ELSE private.mouse
             r == private.refs[i] + 1
  <2>1. private' = [private EXCEPT !.refs[i] = r, !.mouse = m]
    BY <1>2 DEF Press
  <2>2. r \in Nat /\ r > 0 /\ m \in 0 .. Len(contacts)
    BY ActiveIs DEF Privates
  <2> HIDE DEF r, m
  <2>3. /\ private' \in Privates(Len(contacts)) /\ private'.latched = private.latched
        /\ ActiveOf(private') = ActiveOf(private) \cup {i}
    <3>1. /\ private' \in Privates(Len(contacts)) /\ private'.latched = private.latched
          /\ \A j \in Indices : j # i => (Active(private', j) <=> Active(private, j))
          /\ Active(private', i) /\ DOMAIN private'.refs = Indices
      BY <2>1, <2>2, ActiveIs, PressedRefs
    <3>2. QED
      BY <3>1, ActiveIs DEF ActiveOf
  <2>4. core.talk \cup {i} \in SUBSET Indices
    BY ActiveIs
  <2>5. core' = Told("talk", core.talk \cup {i}) /\ Refresh(talk)
    BY <1>2 DEF Press
  <2>6. QED
    BY <1>1, <2>3, <2>4, <2>5, ToldTalkSound, RefreshSound, ActiveIs DEF PrivateStep
<1>3. CASE ~Pressed(i)
  <2>1. private' = private /\ core' = core
    BY <1>3 DEF Press
  <2>2. /\ talk' \in Groups /\ talk'.muted = ~talk'.down
        /\ talk'.down => talk'.button \/ talk'.hotkey \/ talk'.continuous
        /\ talk'.hotkey => talk.hotkey
        /\ proc.alive /\ ~proc.asked => talk' = talk
        /\ RestartSame
    <3>1. CASE MayPress
      BY <1>1, <1>3, <3>1, RefreshSound DEF Press
    <3>2. CASE ~MayPress
      <4>1. talk' = talk /\ app' = app
        BY <1>3, <3>2 DEF Press
      <4>2. QED
        BY <4>1, AppSame DEF IInv, Typed, Shown, SourcesTrue
    <3>3. QED
      BY <3>1, <3>2
  <2>3. core \in [open : BOOLEAN, talk : SUBSET Indices] /\ (~proc.alive => core = NoCore)
    BY DEF IInv, Typed, Shown
  <2>4. QED
    BY <2>1, <2>2, <2>3, ActiveIs DEF PrivateStep
<1>4. QED
  BY <1>2, <1>3

LEMMA ReleaseSound ==
    ASSUME IInv, NEW i \in Indices, NEW mouse \in 0 .. Len(contacts), Release(i, mouse)
    PROVE  PrivateStep
<1>1. contacts # <<>> /\ private \in Privates(Len(contacts))
  BY ActiveIs
<1>2. core \in [open : BOOLEAN, talk : SUBSET Indices] /\ (~proc.alive => core = NoCore)
  BY DEF IInv, Typed, Shown
<1>3. CASE private.refs[i] = 0
  <2>1. private' = [private EXCEPT !.mouse = mouse] /\ talk' = talk /\ app' = app /\ core' = core
    BY <1>3 DEF Release
  <2>2. /\ private' \in Privates(Len(contacts)) /\ private'.latched = private.latched
        /\ private'.refs = private.refs
    BY <1>1, <2>1 DEF Privates
  <2>3. ActiveOf(private') = ActiveOf(private)
    BY <2>2 DEF ActiveOf, Active
  <2>4. talk \in Groups /\ talk.muted = ~talk.down
        /\ (talk.down => talk.button \/ talk.hotkey \/ talk.continuous)
    BY DEF IInv, Typed, Shown, SourcesTrue
  <2>5. QED
    BY <1>2, <2>1, <2>2, <2>3, <2>4, AppSame, ActiveIs DEF PrivateStep
<1>4. CASE private.refs[i] # 0
  <2> DEFINE r == private.refs[i] - 1
  <2>1. private' = [private EXCEPT !.refs[i] = r, !.mouse = mouse]
    BY <1>4 DEF Release
  <2>2. r \in Nat
    BY <1>1, <1>4, ActiveIs DEF Privates
  <2> HIDE DEF r
  <2>3. /\ private' \in Privates(Len(contacts)) /\ private'.latched = private.latched
        /\ \A j \in Indices : j # i => (Active(private', j) <=> Active(private, j))
        /\ DOMAIN private'.refs = Indices
    BY <2>1, <2>2, ActiveIs, PressedRefs
  <2>4. Active(private, i)
    BY <1>1, <1>4, ActiveIs DEF Active, Privates
  <2>5. ActiveOf(private') = IF Active(private', i) THEN ActiveOf(private)
                             ELSE ActiveOf(private) \ {i}
    BY <2>3, <2>4, ActiveIs DEF ActiveOf
  <2>6. /\ core' \in [open : BOOLEAN, talk : SUBSET Indices] /\ core'.open = core.open
        /\ ~proc.alive => core' = NoCore
        /\ proc.alive => core'.talk = ActiveOf(private')
    <3>1. CASE Active(private', i)
      BY <1>2, <1>4, <2>5, <3>1, ActiveIs DEF Release
    <3>2. CASE ~Active(private', i)
      <4>1. core' = Told("talk", core.talk \ {i}) /\ core.talk \ {i} \in SUBSET Indices
        BY <1>4, <3>2, ActiveIs DEF Release
      <4>2. QED
        BY <2>5, <3>2, <4>1, ToldTalkSound, ActiveIs
    <3>3. QED
      BY <3>1, <3>2
  <2>7. Refresh(talk)
    BY <1>4 DEF Release
  <2>8. QED
    BY <1>1, <2>3, <2>6, <2>7, RefreshSound DEF PrivateStep
<1>5. QED
  BY <1>3, <1>4

LEMMA MouseSteps ==
    ASSUME IInv, (\E i \in Indices : MouseDown(i)) \/ MouseUp
    PROVE  IInv'
<1>1. CASE \E i \in Indices : MouseDown(i)
  <2>1. PICK i \in Indices : MouseDown(i)
    BY <1>1
  <2>2. PrivateStep /\ Elsewhere /\ PrivateTaken
    BY <2>1, PressSound DEF MouseDown, Elsewhere, PrivateTaken
  <2>3. QED
    BY <2>2, PrivateKeeps
<1>2. CASE MouseUp
  <2>1. private.mouse \in Indices
    BY <1>2, ActiveIs DEF MouseUp, Privates
  <2>2. 0 \in 0 .. Len(contacts)
    BY ActiveIs
  <2>3. PrivateStep /\ Elsewhere /\ PrivateTaken
    BY <1>2, <2>1, <2>2, ReleaseSound DEF MouseUp, Elsewhere, PrivateTaken
  <2>4. QED
    BY <2>3, PrivateKeeps
<1>3. QED
  BY <1>1, <1>2

LEMMA TakePrivateStep == ASSUME IInv, TakePrivate PROVE IInv'
<1>1. Elsewhere /\ PrivateTaken /\ queue # <<>>
  BY DEF TakePrivate, Receives, Elsewhere, PrivateTaken
<1> DEFINE i == Head(queue).of
<1>2. CASE i \notin Indices
  <2>1. talk' = talk /\ private' = private /\ app' = app /\ core' = core
    BY <1>2 DEF TakePrivate
  <2>2. PrivateStep
    BY <2>1, AppSame, ActiveIs DEF PrivateStep, IInv, Typed, Shown, SourcesTrue
  <2>3. QED
    BY <1>1, <2>2, PrivateKeeps
<1>3. CASE i \in Indices
  <2>1. private.mouse \in 0 .. Len(contacts)
    BY ActiveIs DEF Privates
  <2>2. Press(i, FALSE) \/ Release(i, private.mouse)
    BY <1>3 DEF TakePrivate
  <2>3. PrivateStep
    BY <1>3, <2>1, <2>2, PressSound, ReleaseSound
  <2>4. QED
    BY <1>1, <2>3, PrivateKeeps
<1>4. QED
  BY <1>2, <1>3

LEMMA LatchStep == ASSUME IInv, NEW i \in Indices, Latch(i) PROVE IInv'
<1> DEFINE latched == [private.latched EXCEPT ![i] = ~private.latched[i]]
           flipped == [private EXCEPT !.latched[i] = ~@]
           told == Active(flipped, i) = Active(private, i) \/ proc.alive
<1>1. /\ private.latched[i] \/ proc.running
      /\ private' = IF told THEN flipped ELSE private
      /\ core' = Told("talk", ActiveOf(flipped))
      /\ Refresh(talk) /\ Idle
      /\ meant' = IF ~told \/ app.stopping THEN meant
                  ELSE IF private.latched[i] THEN meant \ {contacts[i]}
                  ELSE meant \cup {contacts[i]}
      /\ UNCHANGED <<contacts, stale, hook, proc, queue, call>>
  BY DEF Latch
<1>2. /\ private \in Privates(Len(contacts)) /\ Indices = 1 .. Len(contacts)
      /\ contacts # <<>> /\ Len(contacts) \in Nat
  BY ActiveIs
<1>3. /\ latched \in [Indices -> BOOLEAN] /\ latched[i] = ~private.latched[i]
      /\ \A j \in Indices : j # i => latched[j] = private.latched[j]
  <2>1. private.latched \in [Indices -> BOOLEAN]
    BY <1>2 DEF Privates
  <2>2. (~private.latched[i]) \in BOOLEAN
    OBVIOUS
  <2>3. QED
    BY <2>1, <2>2
<1>4. flipped = [private EXCEPT !.latched = latched]
  OBVIOUS
<1> HIDE DEF latched
<1>5. /\ flipped \in Privates(Len(contacts)) /\ flipped.refs = private.refs
      /\ flipped.latched = latched /\ ActiveOf(flipped) \in SUBSET Indices
  <2>1. /\ flipped \in Privates(Len(contacts)) /\ flipped.refs = private.refs
        /\ flipped.latched = latched
    BY <1>2, <1>3, <1>4 DEF Privates
  <2>2. QED
    BY <1>2, <2>1 DEF ActiveOf, Privates
<1> HIDE DEF flipped
<1>6. /\ talk' \in Groups /\ talk'.muted = ~talk'.down
      /\ talk'.down => talk'.button \/ talk'.hotkey \/ talk'.continuous
      /\ talk'.hotkey => talk.hotkey
      /\ proc.alive /\ ~proc.asked => talk' = talk
      /\ RestartSame
  BY <1>1, <1>2, RefreshSound
<1>7. /\ core' \in [open : BOOLEAN, talk : SUBSET Indices] /\ core'.open = core.open
      /\ proc.alive => core'.talk = ActiveOf(flipped)
      /\ ~proc.alive => core' = NoCore
  BY <1>1, <1>5, ToldTalkSound
<1>8. /\ contacts \in Seq(Contacts) /\ IsInjective(contacts) /\ meant \subseteq Contacts
      /\ contacts[i] \in Contacts
      /\ \A j \in Indices : contacts[j] = contacts[i] => j = i
  BY <1>2 DEF IInv, Typed, IsInjective
<1>9. private' \in Privates(Len(contacts)) /\ meant' \subseteq Contacts
  BY <1>1, <1>2, <1>5, <1>8
<1>10. Typed'
  BY <1>1, <1>6, <1>7, <1>9 DEF IInv, Typed, Indices, RestartSame
<1>11. ProcessTrue' /\ GroupFollows' /\ (Behind("group")' <=> Behind("group"))
  BY <1>1, NothingPosted, NoticesKept
<1>12. \A j \in Indices : private'.latched[j] => private.latched[j] \/ proc.running
  BY <1>1, <1>3, <1>5
<1>13. RestartTrue' /\ Applied'
  BY <1>1, <1>6, <1>12, RestartKept, AppliedKept
<1>14. Shown'
  BY <1>1, <1>6, <1>7 DEF IInv, Shown
<1>15. SourcesTrue'
  BY <1>1, <1>6, <1>11 DEF IInv, SourcesTrue, GroupFollows
<1>16. LatchesMeant'
  <2>1. CASE ~told \/ app.stopping
    <3>1. meant' = meant /\ (app.stopping \/ private' = private)
      BY <1>1, <2>1
    <3>2. QED
      BY <1>1, <1>6, <3>1 DEF IInv, LatchesMeant, RestartSame, Latched, SavedNames, Indices
  <2>2. CASE told /\ ~app.stopping
    <3>1. private' = flipped /\ ~app.restore
      BY <1>1, <2>2 DEF IInv, RestartTrue, Idle
    <3>2. \A j \in Indices : private.latched[j] => contacts[j] \in meant
      BY <2>2 DEF IInv, LatchesMeant, Latched
    <3>3. \A j \in Indices : latched[j] => contacts[j] \in meant'
      BY <1>1, <1>3, <1>8, <2>2, <3>2
    <3>4. Latched' \subseteq meant'
      BY <1>1, <1>5, <3>1, <3>3 DEF Latched, Indices
    <3>5. QED
      BY <1>6, <3>1, <3>4 DEF LatchesMeant, RestartSame
  <2>3. QED
    BY <2>1, <2>2
<1>17. QED
  BY <1>10, <1>11, <1>13, <1>14, <1>15, <1>16 DEF IInv

-----------------------------------------------------------------------------
(* The hotkeys *)

LEMMA KeyStep ==
    ASSUME IInv, NEW m \in Messages, m.type # "exit", queue' = Append(queue, m),
           hook' \in [group : BOOLEAN, keys : SUBSET Indices],
           IF m.type = "group" THEN hook'.group = m.on ELSE hook'.group = hook.group,
           UNCHANGED <<contacts, stale, talk, private, app, proc, core, call, meant>>
    PROVE  IInv'
<1>1. /\ queue' \in Seq(Messages) /\ GroupFollows'
      /\ ~Behind("group")' => ~Behind("group") /\ m.type # "group"
      /\ \A k \in DOMAIN queue' :
             queue'[k] = m \/ (k \in DOMAIN queue /\ queue'[k] = queue[k])
  BY PostedSound
<1>2. Typed'
  BY <1>1 DEF IInv, Typed, Indices
<1>3. ProcessTrue'
  BY <1>1, NoticesKept
<1>4. RestartSame /\ RestartTrue' /\ Applied' /\ LatchesMeant'
  BY AppSame, RestartKept, AppliedKept, LatchesKeptMeant
<1>5. Shown'
  BY DEF IInv, Shown
<1>6. SourcesTrue'
  BY <1>1 DEF IInv, SourcesTrue, GroupFollows
<1>7. QED
  BY <1>2, <1>3, <1>4, <1>5, <1>6 DEF IInv

LEMMA KeySteps == ASSUME IInv, Keys PROVE IInv'
<1>1. hook \in [group : BOOLEAN, keys : SUBSET Indices] /\ Indices \subseteq Nat
  BY ActiveIs DEF IInv, Typed
<1>2. CASE GroupKeyDown
  <2>1. Group(TRUE) \in Messages /\ Group(TRUE).type = "group" /\ Group(TRUE).on
    BY DEF Group, Messages
  <2>2. hook' \in [group : BOOLEAN, keys : SUBSET Indices] /\ hook'.group
    BY <1>1, <1>2 DEF GroupKeyDown
  <2>3. QED
    BY <1>2, <2>1, <2>2, KeyStep DEF GroupKeyDown, Post
<1>3. CASE GroupKeyUp
  <2>1. Group(FALSE) \in Messages /\ Group(FALSE).type = "group" /\ Group(FALSE).on = FALSE
    BY DEF Group, Messages
  <2>2. hook' \in [group : BOOLEAN, keys : SUBSET Indices] /\ hook'.group = FALSE
    BY <1>1, <1>3 DEF GroupKeyUp
  <2>3. QED
    BY <1>3, <2>1, <2>2, KeyStep DEF GroupKeyUp, Post
<1>4. ASSUME NEW i \in Indices, NEW on \in BOOLEAN
      PROVE  Private(i, on) \in Messages /\ Private(i, on).type = "private"
  BY <1>1 DEF Private, Messages
<1>5. CASE \E i \in Indices : ContactKeyDown(i)
  <2>1. PICK i \in Indices : ContactKeyDown(i)
    BY <1>5
  <2>2. hook' \in [group : BOOLEAN, keys : SUBSET Indices] /\ hook'.group = hook.group
    BY <1>1, <2>1 DEF ContactKeyDown
  <2>3. QED
    BY <1>4, <2>1, <2>2, KeyStep DEF ContactKeyDown, Post
<1>6. CASE \E i \in hook.keys : ContactKeyUp(i)
  <2>1. PICK i \in Indices : ContactKeyUp(i)
    BY <1>1, <1>6
  <2>2. hook' \in [group : BOOLEAN, keys : SUBSET Indices] /\ hook'.group = hook.group
    BY <1>1, <2>1 DEF ContactKeyUp
  <2>3. QED
    BY <1>4, <2>1, <2>2, KeyStep DEF ContactKeyUp, Post
<1>7. QED
  BY <1>2, <1>3, <1>5, <1>6 DEF Keys

-----------------------------------------------------------------------------
(* Settings changes *)

LEMMA ChangeAllowed ==
    ASSUME IInv, Orderly, MayChange
    PROVE  Idle /\ (~app.stopping \/ proc.running) /\ call # "stop"
  BY DEF Orderly, MayChange, Idle

\* What goes on to restart the Core, and changes no contact
LEMMA SettingStep ==
    ASSUME IInv, Orderly, MayChange, call' \in {call, "change"},
           stale' \subseteq {"device", "level", "list"},
           call' = "change" \/ stale' \subseteq stale,
           UNCHANGED <<contacts, talk, private, hook, app, proc, core, queue, meant>>
    PROVE  IInv'
<1>1. Typed'
  BY DEF IInv, Typed, Indices
<1>2. ProcessTrue' /\ LatchesMeant' /\ Shown'
  BY AppSame, NoticesKept, LatchesKeptMeant DEF IInv, Shown
<1>3. RestartTrue' /\ Applied'
  BY ChangeAllowed DEF IInv, RestartTrue, Applied, Idle, Indices
<1>4. SourcesTrue'
  BY NothingPosted DEF IInv, SourcesTrue, GroupFollows
<1>5. QED
  BY <1>1, <1>2, <1>3, <1>4 DEF IInv

LEMMA SettingSteps ==
    ASSUME IInv, Orderly, ChangeDevice \/ ChangeLevel
    PROVE  IInv'
<1>1. stale \subseteq {"device", "level", "list"}
  BY DEF IInv, Typed
<1>2. CASE ChangeDevice
  BY <1>1, <1>2, SettingStep DEF ChangeDevice
<1>3. CASE ChangeLevel
  BY <1>1, <1>3, SettingStep DEF ChangeLevel
<1>4. QED
  BY <1>2, <1>3

LEMMA AddStep ==
    ASSUME IInv, Orderly, NEW c \in Contacts, AddContact(c)
    PROVE  IInv'
<1> DEFINE n == Len(contacts)
           refs == Append(private.refs, 0)
           latched == Append(private.latched, FALSE)
<1>1. /\ contacts' = Append(contacts, c) /\ c \notin ToSet(contacts)
      /\ private' = [private EXCEPT !.refs = refs, !.latched = latched]
      /\ stale' = stale \cup {"list"} /\ call' = "change"
      /\ UNCHANGED <<talk, hook, app, proc, core, queue, meant>>
  BY DEF AddContact
<1>2. /\ private \in Privates(n) /\ n \in Nat /\ Indices = 1 .. n
      /\ contacts \in Seq(Contacts) /\ IsInjective(contacts)
  BY ActiveIs DEF IInv, Typed
<1>3. /\ contacts' \in Seq(Contacts) /\ Len(contacts') = n + 1 /\ Indices' = 1 .. (n + 1)
      /\ contacts'[n + 1] = c /\ \A j \in 1 .. n : contacts'[j] = contacts[j]
  BY <1>1, <1>2 DEF Indices
<1>4. /\ refs \in [1 .. (n + 1) -> Nat] /\ refs[n + 1] = 0
      /\ \A j \in 1 .. n : refs[j] = private.refs[j]
  <2>1. private.refs \in Seq(Nat) /\ Len(private.refs) = n
    BY <1>2 DEF Privates
  <2>2. /\ refs \in Seq(Nat) /\ Len(refs) = n + 1 /\ refs[n + 1] = 0
        /\ \A j \in 1 .. n : refs[j] = private.refs[j]
    BY <1>2, <2>1
  <2> HIDE DEF n, refs
  <2>3. refs \in [1 .. Len(refs) -> Nat]
    BY <2>2
  <2>4. QED
    BY <2>2, <2>3
<1>5. /\ latched \in [1 .. (n + 1) -> BOOLEAN] /\ ~latched[n + 1]
      /\ \A j \in 1 .. n : latched[j] = private.latched[j]
  <2>1. private.latched \in Seq(BOOLEAN) /\ Len(private.latched) = n
    BY <1>2 DEF Privates
  <2>2. /\ latched \in Seq(BOOLEAN) /\ Len(latched) = n + 1 /\ latched[n + 1] = FALSE
        /\ \A j \in 1 .. n : latched[j] = private.latched[j]
    <3> DEFINE Values == BOOLEAN
               old == private.latched
               off == FALSE
    <3>1. old \in Seq(Values) /\ off \in Values /\ Len(old) = n /\ n \in Nat
      BY <1>2, <2>1
    <3>2. latched = Append(old, off)
      OBVIOUS
    <3> HIDE DEF n, Values, old, off, latched
    <3>3. /\ latched \in Seq(Values) /\ Len(latched) = n + 1 /\ latched[n + 1] = off
          /\ \A j \in 1 .. n : latched[j] = old[j]
      BY <3>1, <3>2
    <3>4. QED
      BY <3>3 DEF Values, off, old
  <2> HIDE DEF n, latched
  <2>3. latched \in [1 .. Len(latched) -> BOOLEAN]
    BY <2>2
  <2>4. QED
    BY <2>2, <2>3
<1> HIDE DEF n, refs, latched
<1>6. /\ private' \in Privates(n + 1) /\ private'.refs = refs /\ private'.latched = latched
  <2>1. private.mouse \in 0 .. (n + 1)
    BY <1>2 DEF Privates
  <2>2. QED
    BY <1>1, <1>2, <1>4, <1>5, <2>1 DEF Privates
<1>7. ActiveOf(private') = ActiveOf(private)
  <2>1. DOMAIN private'.refs = 1 .. (n + 1) /\ DOMAIN private.refs = 1 .. n
    BY <1>2, <1>4, <1>6 DEF Privates
  <2>2. \A j \in 1 .. n : Active(private', j) <=> Active(private, j)
    BY <1>4, <1>5, <1>6 DEF Active
  <2>3. ~Active(private', n + 1)
    BY <1>4, <1>5, <1>6 DEF Active
  <2>4. \A j \in 1 .. (n + 1) : j = n + 1 \/ j \in 1 .. n
    BY <1>2
  <2>5. 1 .. n \subseteq 1 .. (n + 1)
    BY <1>2
  <2>6. QED
    BY <2>1, <2>2, <2>3, <2>4, <2>5 DEF ActiveOf
<1>8. Indices \subseteq Indices' /\ \A j \in Indices' : j = n + 1 \/ j \in Indices
  BY <1>2, <1>3
<1>9. IsInjective(contacts')
  <2>1. DOMAIN contacts' = 1 .. (n + 1) /\ DOMAIN contacts = 1 .. n
    BY <1>2, <1>3 DEF n
  <2>2. \A j \in 1 .. n : contacts[j] # c
    BY <1>1, <2>1 DEF ToSet
  <2>3. \A j \in 1 .. (n + 1) : j = n + 1 \/ j \in 1 .. n
    BY <1>2
  <2>4. \A a, b \in 1 .. n : contacts[a] = contacts[b] => a = b
    BY <1>2, <2>1 DEF IsInjective
  <2>5. QED
    BY <1>3, <2>1, <2>2, <2>3, <2>4 DEF IsInjective
<1>10. Typed'
  <2>1. stale' \subseteq {"device", "level", "list"}
    BY <1>1 DEF IInv, Typed
  <2>2. /\ hook \in [group : BOOLEAN, keys : SUBSET Indices']
        /\ core \in [open : BOOLEAN, talk : SUBSET Indices']
    BY <1>8 DEF IInv, Typed
  <2>3. QED
    BY <1>1, <1>3, <1>6, <1>9, <2>1, <2>2 DEF IInv, Typed
<1>11. ProcessTrue'
  BY <1>1, NoticesKept
<1>12. Applied' /\ Idle /\ (~app.stopping \/ proc.running)
  BY <1>1, ChangeAllowed DEF AddContact, Applied, Idle
<1>13. RestartTrue'
  <2>1. \A j \in Indices' : private'.latched[j] => j \in Indices /\ private.latched[j]
    BY <1>2, <1>5, <1>6, <1>8
  <2>2. QED
    BY <1>1, <1>12, <2>1 DEF IInv, RestartTrue, Idle
<1>14. Shown'
  BY <1>1, <1>7 DEF IInv, Shown
<1>15. SourcesTrue'
  BY <1>1, NothingPosted DEF IInv, SourcesTrue, GroupFollows
<1>16. LatchesMeant'
  <2>1. Latched' \subseteq Latched
    BY <1>2, <1>3, <1>5, <1>6, <1>8 DEF Latched
  <2>2. ASSUME app.restore PROVE SavedNames' \subseteq SavedNames /\ Len(app.latched) <= n
    <3>1. Len(app.latched) <= n /\ Len(app.latched) \in Nat
      BY <2>2 DEF IInv, LatchesMeant, Typed, Restarts, n
    <3>2. \A j \in Indices' : j <= Len(app.latched) => j \in Indices
      BY <1>2, <1>3, <3>1
    <3>3. QED
      BY <1>1, <1>2, <1>3, <3>1, <3>2 DEF SavedNames
  <2>3. QED
    BY <1>1, <1>2, <1>3, <2>1, <2>2 DEF IInv, LatchesMeant, Typed, Restarts
<1>17. QED
  BY <1>10, <1>11, <1>12, <1>13, <1>14, <1>15, <1>16 DEF IInv

\* What is left of an injective list when one is removed
LEMMA RemovedSound ==
    ASSUME NEW s \in Seq(Contacts), IsInjective(s), NEW i \in 1 .. Len(s)
    PROVE  /\ RemoveAt(s, i) \in Seq(Contacts) /\ Len(RemoveAt(s, i)) = Len(s) - 1
           /\ IsInjective(RemoveAt(s, i))
<1> DEFINE front == SubSeq(s, 1, i - 1)
           back == SubSeq(s, i + 1, Len(s))
           t == RemoveAt(s, i)
<1>1. t = front \o back
  BY DEF RemoveAt
<1>2. Len(s) \in Nat /\ i \in Nat /\ i >= 1 /\ i <= Len(s)
  OBVIOUS
<1>3. /\ front \in Seq(Contacts) /\ Len(front) = i - 1
      /\ \A j \in 1 .. (i - 1) : front[j] = s[j]
  BY <1>2
<1>4. /\ back \in Seq(Contacts) /\ Len(back) = Len(s) - i
      /\ \A j \in 1 .. (Len(s) - i) : back[j] = s[j + i]
  BY <1>2
<1> HIDE DEF front, back
<1>5. /\ t \in Seq(Contacts) /\ Len(t) = Len(s) - 1
      /\ \A j \in 1 .. (Len(s) - 1) : t[j] = IF j < i THEN s[j] ELSE s[j + 1]
  <2>1. t \in Seq(Contacts) /\ Len(t) = Len(s) - 1
    BY <1>1, <1>2, <1>3, <1>4
  <2>2. ASSUME NEW j \in 1 .. (Len(s) - 1) PROVE t[j] = IF j < i THEN s[j] ELSE s[j + 1]
    <3>1. CASE j < i
      BY <1>1, <1>2, <1>3, <1>4, <3>1
    <3>2. CASE ~(j < i)
      <4>1. t[j] = back[j - (i - 1)]
        BY <1>1, <1>2, <1>3, <1>4, <3>2
      <4>2. j - (i - 1) \in 1 .. (Len(s) - i) /\ (j - (i - 1)) + i = j + 1
        BY <1>2, <3>2
      <4>3. QED
        BY <1>4, <3>2, <4>1, <4>2
    <3>3. QED
      BY <3>1, <3>2
  <2>3. QED
    BY <2>1, <2>2
<1>6. \A a, b \in 1 .. Len(s) : s[a] = s[b] => a = b
  BY DEF IsInjective
<1> HIDE DEF t
<1>7. \A a, b \in 1 .. (Len(s) - 1) : t[a] = t[b] => a = b
  <2> TAKE a, b \in 1 .. (Len(s) - 1)
  <2> HAVE t[a] = t[b]
  <2>1. /\ a \in 1 .. Len(s) /\ a + 1 \in 1 .. Len(s) /\ b \in 1 .. Len(s)
        /\ b + 1 \in 1 .. Len(s)
    BY <1>2
  <2>2. (IF a < i THEN s[a] ELSE s[a + 1]) = (IF b < i THEN s[b] ELSE s[b + 1])
    BY <1>5
  <2>3. (IF a < i THEN a ELSE a + 1) = (IF b < i THEN b ELSE b + 1)
    BY <1>6, <2>1, <2>2
  <2>4. QED
    BY <1>2, <2>3
<1>8. IsInjective(t)
  BY <1>5, <1>7 DEF IsInjective
<1>9. QED
  BY <1>5, <1>8 DEF t

LEMMA RemoveStep ==
    ASSUME IInv, Orderly, NEW i \in Indices, RemoveContact(i)
    PROVE  IInv'
<1> DEFINE n == Len(contacts) - 1
<1>1. /\ contacts' = RemoveAt(contacts, i) /\ private' = Unpressed(n)
      /\ core' = Told("talk", core.talk \ ActiveOf(private))
      /\ hook' = [hook EXCEPT !.keys = {}] /\ Refresh(talk)
      /\ stale' = stale \cup {"list"} /\ call' = "change"
      /\ meant' = meant \ {contacts[i]} /\ UNCHANGED <<proc, queue>>
  BY DEF RemoveContact
<1>2. Idle /\ ~app.restore
  BY DEF RemoveContact, MayChange, Orderly
<1>3. /\ contacts \in Seq(Contacts) /\ IsInjective(contacts) /\ Indices = 1 .. Len(contacts)
      /\ Len(contacts) \in Nat /\ contacts # <<>>
  BY ActiveIs DEF IInv, Typed
<1>4. n \in Nat /\ contacts' \in Seq(Contacts) /\ Len(contacts') = n /\ IsInjective(contacts')
  BY <1>1, <1>3, RemovedSound
<1> HIDE DEF n
<1>5. /\ private' \in Privates(n) /\ ActiveOf(private') = {}
      /\ \A j \in 1 .. n : ~private'.latched[j]
  BY <1>1, <1>4, UnpressedTyped
<1>6. /\ talk' \in Groups /\ talk'.muted = ~talk'.down
      /\ talk'.down => talk'.button \/ talk'.hotkey \/ talk'.continuous
      /\ talk'.hotkey => talk.hotkey
      /\ proc.alive /\ ~proc.asked => talk' = talk
      /\ app' \in Restarts /\ app'.stopping = app.stopping /\ app'.restore = app.restore
  BY <1>1, <1>3, RefreshSound DEF RestartSame
<1>7. /\ core'.open \in BOOLEAN /\ core'.open = core.open /\ core'.talk = {}
      /\ core' \in [open : BOOLEAN, talk : SUBSET Indices]
      /\ ~proc.alive => core' = NoCore
  <2>1. core.talk \ ActiveOf(private) \in SUBSET Indices
    BY ActiveIs
  <2>2. /\ core' \in [open : BOOLEAN, talk : SUBSET Indices] /\ core'.open = core.open
        /\ proc.alive => core'.talk = core.talk \ ActiveOf(private)
        /\ ~proc.alive => core' = NoCore
    BY <1>1, <2>1, ToldTalkSound
  <2>3. QED
    BY <2>2, ActiveIs DEF NoCore
<1>8. /\ core' \in [open : BOOLEAN, talk : SUBSET Indices']
      /\ hook' \in [group : BOOLEAN, keys : SUBSET Indices'] /\ hook'.group = hook.group
  <2>1. hook \in [group : BOOLEAN, keys : SUBSET Indices]
    BY DEF IInv, Typed
  <2>2. QED
    BY <1>1, <1>7, <2>1
<1>9. Typed'
  <2>1. stale' \subseteq {"device", "level", "list"} /\ meant' \subseteq Contacts
    BY <1>1 DEF IInv, Typed
  <2>2. queue' \in Seq(Messages) /\ proc' \in Processes
    BY <1>1 DEF IInv, Typed
  <2>3. QED
    BY <1>1, <1>4, <1>5, <1>6, <1>8, <2>1, <2>2 DEF Typed
<1>10. ProcessTrue'
  BY <1>1, NoticesKept
<1>11. RestartTrue' /\ Applied' /\ ~app'.stopping
  BY <1>1, <1>2, <1>6 DEF IInv, RestartTrue, Applied, Idle
<1>12. Shown'
  BY <1>1, <1>5, <1>6, <1>7 DEF IInv, Shown
<1>13. SourcesTrue'
  BY <1>1, <1>6, <1>8, NothingPosted DEF IInv, SourcesTrue, GroupFollows
<1>14. LatchesMeant'
  BY <1>2, <1>4, <1>5, <1>6 DEF LatchesMeant, Latched, Indices
<1>15. QED
  BY <1>9, <1>10, <1>11, <1>12, <1>13, <1>14 DEF IInv

LEMMA ChangeSteps == ASSUME IInv, Orderly, ChangeSettings PROVE IInv'
  BY SettingSteps, AddStep, RemoveStep DEF ChangeSettings

-----------------------------------------------------------------------------
(* The restart *)

LEMMA RestoredSound ==
    ASSUME IInv
    PROVE  /\ RestoredLatches(Len(contacts)) \in [Indices -> BOOLEAN]
           /\ {contacts[i] : i \in {j \in Indices : RestoredLatches(Len(contacts))[j]}}
                  \subseteq (IF app.restore THEN meant ELSE {})
           /\ RestoredGroup \in Groups /\ RestoredGroup.muted = ~RestoredGroup.down
           /\ RestoredGroup.down => RestoredGroup.continuous
           /\ ~RestoredGroup.hotkey
<1>1. app.latched \in Seq(BOOLEAN) /\ Indices = 1 .. Len(contacts) /\ Len(contacts) \in Nat
  BY ActiveIs DEF IInv, Typed, Restarts
<1>2. RestoredLatches(Len(contacts)) \in [Indices -> BOOLEAN]
  BY <1>1 DEF RestoredLatches
<1>3. \A j \in Indices : RestoredLatches(Len(contacts))[j] =>
          app.restore /\ j <= Len(app.latched) /\ app.latched[j]
  BY <1>1 DEF RestoredLatches
<1>4. {contacts[i] : i \in {j \in Indices : RestoredLatches(Len(contacts))[j]}}
          \subseteq (IF app.restore THEN meant ELSE {})
  BY <1>3 DEF IInv, LatchesMeant, SavedNames
<1>5. /\ RestoredGroup \in Groups /\ RestoredGroup.muted = ~RestoredGroup.down
      /\ RestoredGroup.down => RestoredGroup.continuous
      /\ ~RestoredGroup.hotkey
  <2>1. CASE app.restore /\ app.continuous /\ contacts # <<>>
    BY <2>1 DEF RestoredGroup, Silent, Groups
  <2>2. CASE ~(app.restore /\ app.continuous /\ contacts # <<>>)
    BY <2>2, SilentTyped DEF RestoredGroup
  <2>3. QED
    BY <2>1, <2>2
<1>6. QED
  BY <1>2, <1>4, <1>5

\* A new Core is told what the window shows, which is what was saved.
LEMMA StartedSound ==
    ASSUME IInv, NEW a \in Restarts, ~a.stopping, Started(a), contacts' = contacts,
           call' = "idle",
           UNCHANGED queue \/ (queue # <<>> /\ queue' = Tail(queue)
                               /\ Head(queue).type # "group")
    PROVE  IInv'
<1> DEFINE latches == RestoredLatches(Len(contacts))
           enabled == TalkEnabled(a.stopping, TRUE)
           open == RestoredGroup.down
           to == {i \in Indices : latches[i]}
           g == proc.generation + 1
<1>1. /\ proc' = [proc EXCEPT !.generation = g, !.alive = TRUE, !.running = TRUE,
                              !.asked = FALSE]
      /\ private' = [Unpressed(Len(contacts)) EXCEPT !.latched = latches]
      /\ talk' = RestoredGroup /\ core' = [open |-> open, talk |-> to]
      /\ stale' = {} /\ hook' = [hook EXCEPT !.keys = {}]
      /\ app' = [a EXCEPT !.enabled = enabled, !.restore = FALSE, !.continuous = FALSE,
                          !.latched = <<>>]
      /\ meant' = (IF app.restore THEN meant ELSE {}) /\ ~proc.owed
  BY DEF Started
<1>2. /\ latches \in [Indices -> BOOLEAN] /\ enabled \in BOOLEAN /\ open \in BOOLEAN
      /\ {contacts[i] : i \in {j \in Indices : latches[j]}} \subseteq meant'
      /\ talk' \in Groups /\ talk'.muted = ~talk'.down /\ talk'.down = open
      /\ talk'.down => talk'.continuous
      /\ ~talk'.hotkey
  BY <1>1, RestoredSound DEF TalkEnabled, Groups
<1>3. Len(contacts) \in Nat /\ Indices = 1 .. Len(contacts) /\ Indices' = Indices
  BY ActiveIs DEF Indices
<1>4. to \in SUBSET Indices /\ to = {i \in Indices : latches[i]}
  OBVIOUS
<1>5. proc \in Processes /\ g \in Nat /\ g = proc.generation + 1 /\ proc.generation \in Nat
  BY DEF IInv, Typed, Processes
<1> HIDE DEF latches, enabled, open, to, g
<1>6. /\ proc' \in Processes /\ proc'.generation = g /\ proc'.alive /\ proc'.running
      /\ ~proc'.asked /\ ~proc'.owed
  BY <1>1, <1>5 DEF Processes
<1>7. /\ app' \in Restarts /\ ~app'.restore /\ ~app'.stopping
  <2>1. <<>> \in Seq(BOOLEAN)
    OBVIOUS
  <2>2. QED
    BY <1>1, <1>2, <2>1 DEF Restarts
<1>8. /\ private' \in Privates(Len(contacts)) /\ private'.latched = latches
      /\ ActiveOf(private') = to
  <2>1. /\ private' \in Privates(Len(contacts)) /\ private'.latched = latches
        /\ DOMAIN private'.refs = Indices /\ \A i \in Indices : private'.refs[i] = 0
    <3> DEFINE u == Unpressed(Len(contacts))
    <3>1. u \in Privates(Len(contacts)) /\ \A i \in Indices : u.refs[i] = 0
      BY <1>3, UnpressedTyped DEF Unpressed
    <3>2. private' = [u EXCEPT !.latched = latches]
      BY <1>1
    <3> HIDE DEF u
    <3>3. QED
      BY <1>2, <1>3, <3>1, <3>2 DEF Privates
  <2>2. QED
    BY <1>4, <2>1 DEF ActiveOf, Active
<1>9. core' \in [open : BOOLEAN, talk : SUBSET Indices] /\ core'.open = open /\ core'.talk = to
  BY <1>1, <1>2, <1>4
<1>10. hook' \in [group : BOOLEAN, keys : SUBSET Indices] /\ hook'.group = hook.group
  <2>1. hook \in [group : BOOLEAN, keys : SUBSET Indices]
    BY DEF IInv, Typed
  <2>2. QED
    BY <1>1, <2>1
<1>11. /\ queue' \in Seq(Messages) /\ GroupFollows'
       /\ \A k \in DOMAIN queue' : \E j \in DOMAIN queue : queue'[k] = queue[j]
  <2>1. CASE UNCHANGED queue
    BY <1>10, <2>1, NothingPosted DEF IInv, Typed
  <2>2. CASE queue # <<>> /\ queue' = Tail(queue)
    BY <1>10, <2>2, TakenSound
  <2>3. QED
    BY <2>1, <2>2
<1>12. Typed'
  <2>1. meant' \subseteq Contacts
    BY <1>1 DEF IInv, Typed
  <2>2. contacts' \in Seq(Contacts) /\ IsInjective(contacts')
    BY DEF IInv, Typed
  <2>3. stale' \subseteq {"device", "level", "list"}
    BY <1>1
  <2>4. private' \in Privates(Len(contacts'))
    BY <1>8
  <2>5. QED
    BY <1>2, <1>3, <1>6, <1>7, <1>9, <1>10, <1>11, <2>1, <2>2, <2>3, <2>4 DEF Typed
<1>13. ProcessTrue'
  <2>1. \A k \in DOMAIN queue' : queue'[k].type = "exit" =>
            queue'[k].of \in Nat /\ queue'[k].of <= proc.generation
    <3>1. \A j \in DOMAIN queue : queue[j].type = "exit" =>
              queue[j].of \in Nat /\ queue[j].of <= proc.generation
      <4>1. \A j \in DOMAIN queue : queue[j] \in Messages
        BY DEF IInv, Typed
      <4>2. QED
        BY <4>1 DEF IInv, ProcessTrue, Messages
    <3>2. QED
      BY <1>11, <3>1
  <2>2. \A k \in DOMAIN queue' : queue'[k].type = "exit" =>
            queue'[k].of <= g /\ queue'[k].of # g
    BY <1>5, <2>1
  <2>3. QED
    BY <1>6, <2>2 DEF ProcessTrue
<1>14. RestartTrue' /\ Applied'
  BY <1>1, <1>7 DEF RestartTrue, Applied
<1>15. Shown'
  BY <1>2, <1>6, <1>8, <1>9 DEF Shown
<1>16. SourcesTrue'
  BY <1>2, <1>11 DEF SourcesTrue, GroupFollows
<1>17. LatchesMeant'
  BY <1>2, <1>3, <1>7, <1>8 DEF LatchesMeant, Latched
<1>18. QED
  BY <1>12, <1>13, <1>14, <1>15, <1>16, <1>17 DEF IInv

LEMMA FindsStep == ASSUME IInv, RestartFinds PROVE IInv'
<1>1. /\ app' = Saved /\ call = "change" /\ call' = "stop" /\ proc.running
      /\ UNCHANGED <<contacts, stale, talk, private, hook, proc, core, queue, meant>>
  BY DEF RestartFinds
<1>2. /\ app' \in Restarts /\ app'.stopping = app.stopping /\ app'.restore
      /\ app.restore => app' = app
      /\ ~app.restore => app'.latched = private.latched
  <2>1. CASE app.restore
    BY <1>1, <2>1 DEF Saved, IInv, Typed
  <2>2. CASE ~app.restore
    <3> DEFINE continuous == talk.continuous
               latched == private.latched
    <3>1. app' = [app EXCEPT !.restore = TRUE, !.continuous = continuous, !.latched = latched]
      BY <1>1, <2>2 DEF Saved
    <3>2. app \in Restarts /\ continuous \in BOOLEAN
      BY DEF IInv, Typed, Groups
    <3>3. latched \in Seq(BOOLEAN)
      BY ActiveIs DEF Privates
    <3> HIDE DEF continuous, latched
    <3>4. app' \in Restarts /\ app'.stopping = app.stopping /\ app'.restore /\ app'.latched = latched
      BY <3>1, <3>2, <3>3 DEF Restarts
    <3>5. QED
      BY <2>2, <3>4 DEF latched
  <2>3. QED
    BY <2>1, <2>2
<1>3. Typed'
  BY <1>1, <1>2 DEF IInv, Typed, Indices
<1>4. ProcessTrue'
  BY <1>1, NoticesKept
<1>5. RestartTrue' /\ Applied'
  BY <1>1, <1>2 DEF IInv, RestartTrue, Applied, Idle
<1>6. Shown' /\ SourcesTrue'
  BY <1>1, NothingPosted DEF IInv, Shown, SourcesTrue, GroupFollows
<1>7. LatchesMeant'
  <2>1. Latched' = Latched /\ Indices' = Indices
    BY <1>1 DEF Latched, Indices
  <2>2. CASE app.restore
    BY <1>1, <1>2, <2>1, <2>2 DEF IInv, LatchesMeant, SavedNames
  <2>3. CASE ~app.restore
    <3>1. Latched \subseteq meant
      BY <2>3 DEF IInv, LatchesMeant, RestartTrue
    <3>2. Len(private.latched) = Len(contacts)
      BY ActiveIs DEF Privates
    <3>3. SavedNames' \subseteq Latched
      BY <1>1, <1>2, <2>1, <2>3 DEF SavedNames, Latched
    <3>4. Len(app'.latched) <= Len(contacts')
      BY <1>1, <1>2, <2>3, <3>2, ActiveIs
    <3>5. QED
      BY <1>1, <2>1, <3>1, <3>3, <3>4 DEF LatchesMeant
  <2>4. QED
    BY <2>2, <2>3
<1>8. QED
  BY <1>3, <1>4, <1>5, <1>6, <1>7 DEF IInv

LEMMA StartsStep == ASSUME IInv, Orderly, RestartStarts PROVE IInv'
<1>1. call \in {"change", "stop"} /\ ~proc.running /\ call' = "idle" /\ UNCHANGED <<contacts, queue>>
  BY DEF RestartStarts
<1>2. ~app.stopping /\ app \in Restarts
  BY <1>1 DEF IInv, Typed, RestartTrue, Idle
<1>3. CASE Started(app)
  BY <1>1, <1>2, <1>3, StartedSound
<1>4. CASE StartFails
  <2>1. /\ UNCHANGED <<stale, talk, private, hook, app, proc, core, meant>> /\ ~app.restore
    BY <1>4 DEF StartFails, Orderly
  <2>2. Typed' /\ ProcessTrue' /\ LatchesMeant'
    BY <1>1, <2>1, AppSame, NoticesKept, LatchesKeptMeant DEF IInv, Typed, Indices
  <2>3. RestartTrue' /\ Applied' /\ Shown'
    BY <1>1, <1>2, <2>1 DEF IInv, RestartTrue, Applied, Shown, ProcessTrue, Idle
  <2>4. SourcesTrue'
    BY <1>1, <2>1, NothingPosted DEF IInv, SourcesTrue, GroupFollows
  <2>5. QED
    BY <2>2, <2>3, <2>4 DEF IInv
<1>5. QED
  BY <1>3, <1>4 DEF RestartStarts

LEMMA PendingStep == ASSUME IInv, StopPending PROVE IInv'
<1>1. /\ call = "stop" /\ app.stopping /\ call' = "idle" /\ app' = [app EXCEPT !.again = TRUE]
      /\ UNCHANGED <<contacts, stale, talk, private, hook, proc, core, queue, meant>>
  BY DEF StopPending
<1>2. RestartSame
  BY <1>1 DEF IInv, Typed, Restarts, RestartSame
<1>3. Typed'
  BY <1>1, <1>2 DEF IInv, Typed, Indices, RestartSame
<1>4. ProcessTrue' /\ LatchesMeant'
  BY <1>1, <1>2, NoticesKept, LatchesKeptMeant
<1>5. RestartTrue' /\ Applied'
  BY <1>1, <1>2 DEF IInv, RestartTrue, Applied, Idle, RestartSame
<1>6. Shown' /\ SourcesTrue'
  BY <1>1, NothingPosted DEF IInv, Shown, SourcesTrue, GroupFollows
<1>7. QED
  BY <1>3, <1>4, <1>5, <1>6 DEF IInv

LEMMA AsksStep == ASSUME IInv, StopAsks PROVE IInv'
<1>1. /\ call = "stop" /\ proc.running
      /\ app' = [app EXCEPT !.again = TRUE, !.stopping = TRUE, !.enabled = FALSE]
      /\ talk' = Silent /\ private' = Unpressed(Len(contacts))
      /\ core' = Told("talk", core.talk \ ActiveOf(private))
      /\ hook' = [hook EXCEPT !.keys = {}]
      /\ proc' = [proc EXCEPT !.asked = TRUE] /\ call' = "idle"
      /\ UNCHANGED <<contacts, stale, queue, meant>>
  BY DEF StopAsks
<1>2. app' \in Restarts /\ app'.stopping /\ app'.restore /\ app'.latched = app.latched
  BY <1>1 DEF IInv, Typed, Restarts, RestartTrue
<1>3. /\ private' \in Privates(Len(contacts)) /\ ActiveOf(private') = {}
      /\ Indices' = Indices /\ Indices = 1 .. Len(contacts)
  BY <1>1, UnpressedTyped, ActiveIs DEF Indices
<1>4. core.talk \ ActiveOf(private) \in SUBSET Indices
  BY ActiveIs
<1>5. /\ core' \in [open : BOOLEAN, talk : SUBSET Indices]
      /\ proc.alive => core'.talk = core.talk \ ActiveOf(private)
      /\ ~proc.alive => core' = NoCore
  BY <1>1, <1>4, ToldTalkSound
<1>6. /\ proc' \in Processes /\ proc'.generation = proc.generation /\ proc'.alive = proc.alive
      /\ proc'.running = proc.running /\ proc'.asked /\ proc'.owed = proc.owed
  BY <1>1 DEF IInv, Typed, Processes
<1>7. hook' \in [group : BOOLEAN, keys : SUBSET Indices] /\ hook'.group = hook.group
  <2>1. hook \in [group : BOOLEAN, keys : SUBSET Indices]
    BY DEF IInv, Typed
  <2>2. QED
    BY <1>1, <2>1
<1>8. Typed'
  BY <1>1, <1>2, <1>3, <1>5, <1>6, <1>7, SilentTyped DEF IInv, Typed
<1>9. ProcessTrue'
  BY <1>1, <1>6 DEF IInv, ProcessTrue
<1>10. RestartTrue' /\ Applied'
  BY <1>1, <1>2, <1>6 DEF IInv, RestartTrue, Applied, Idle
<1>11. Shown'
  BY <1>1, <1>3, <1>5, <1>6, SilentTyped, ActiveIs DEF Shown
<1>12. SourcesTrue'
  BY <1>1, <1>7, SilentTyped, NothingPosted DEF SourcesTrue, GroupFollows
<1>13. LatchesMeant'
  BY <1>1, <1>2, <1>3 DEF IInv, LatchesMeant, RestartTrue, SavedNames
<1>14. QED
  BY <1>8, <1>9, <1>10, <1>11, <1>12, <1>13 DEF IInv

-----------------------------------------------------------------------------
(* The Core's end, and the notice of it *)

LEMMA ExitStep == ASSUME IInv, TakeExit PROVE IInv'
<1> DEFINE a == [app EXCEPT !.stopping = FALSE, !.again = FALSE, !.enabled = FALSE]
<1>1. /\ Idle /\ queue # <<>> /\ Head(queue).type = "exit" /\ queue' = Tail(queue)
      /\ Head(queue).of = proc.generation /\ CleanUp(a)
  BY DEF TakeExit, Receives
<1>2. UNCHANGED <<contacts, call>> /\ call' = "idle"
  BY <1>1 DEF CleanUp, Idle
<1>3. /\ a \in Restarts /\ ~a.stopping /\ a.restore = app.restore /\ a.latched = app.latched
  BY DEF IInv, Typed, Restarts
<1> HIDE DEF a
<1>4. ~proc.running /\ ~proc.alive /\ core = NoCore
  <2>1. 1 \in DOMAIN queue /\ Head(queue) = queue[1]
    BY <1>1 DEF IInv, Typed
  <2>2. QED
    BY <1>1, <2>1 DEF IInv, ProcessTrue, Shown
<1>5. CASE Started(a)
  BY <1>1, <1>2, <1>3, <1>5, StartedSound
<1>6. CASE ~Started(a)
  <2>1. /\ talk' = Silent /\ private' = Unpressed(Len(contacts))
        /\ hook' = [hook EXCEPT !.keys = {}] /\ app' = a
        /\ proc' = [proc EXCEPT !.asked = FALSE]
        /\ meant' = (IF app.restore THEN meant ELSE {}) /\ UNCHANGED <<stale, core>>
    BY <1>1, <1>6 DEF CleanUp
  <2>2. /\ private' \in Privates(Len(contacts)) /\ \A i \in Indices : ~private'.latched[i]
        /\ Indices' = Indices
    BY <1>2, <2>1, UnpressedTyped, ActiveIs DEF Indices
  <2>3. hook' \in [group : BOOLEAN, keys : SUBSET Indices] /\ hook'.group = hook.group
    <3>1. hook \in [group : BOOLEAN, keys : SUBSET Indices]
      BY DEF IInv, Typed
    <3>2. QED
      BY <2>1, <3>1
  <2>4. /\ proc' \in Processes /\ proc'.generation = proc.generation /\ ~proc'.alive
        /\ ~proc'.running /\ proc'.owed = proc.owed
    BY <1>4, <2>1 DEF IInv, Typed, Processes
  <2>5. /\ queue' \in Seq(Messages) /\ GroupFollows'
        /\ \A k \in DOMAIN queue' : \E j \in DOMAIN queue : queue'[k] = queue[j]
    BY <1>1, <2>3, TakenSound
  <2>6. Typed'
    BY <1>2, <1>3, <2>1, <2>2, <2>3, <2>4, <2>5, SilentTyped DEF IInv, Typed
  <2>7. ProcessTrue'
    BY <2>4, <2>5 DEF IInv, ProcessTrue
  <2>8. RestartTrue' /\ Applied' /\ Shown'
    BY <1>2, <1>3, <1>4, <2>1, <2>2, <2>4, SilentTyped DEF RestartTrue, Applied, Shown, Idle
  <2>9. SourcesTrue'
    BY <2>1, <2>5, SilentTyped DEF SourcesTrue, GroupFollows
  <2>10. LatchesMeant'
    <3>1. Latched' = {}
      BY <2>2 DEF Latched
    <3>2. SavedNames' = SavedNames
      BY <1>2, <1>3, <2>1, <2>2 DEF SavedNames
    <3>3. QED
      BY <1>2, <1>3, <2>1, <3>1, <3>2 DEF IInv, LatchesMeant
  <2>11. QED
    BY <2>6, <2>7, <2>8, <2>9, <2>10 DEF IInv
<1>7. QED
  BY <1>5, <1>6

LEMMA OldExitStep == ASSUME IInv, TakeOldExit PROVE IInv'
<1>1. /\ queue # <<>> /\ queue' = Tail(queue) /\ Head(queue).type # "group"
      /\ UNCHANGED <<contacts, stale, talk, private, hook, app, proc, core, call, meant>>
  BY DEF TakeOldExit, Receives
<1>2. PrivateStep /\ PrivateTaken /\ Elsewhere
  <2>1. /\ core \in [open : BOOLEAN, talk : SUBSET Indices] /\ (~proc.alive => core = NoCore)
        /\ talk \in Groups /\ talk.muted = ~talk.down
        /\ (talk.down => talk.button \/ talk.hotkey \/ talk.continuous)
    BY DEF IInv, Typed, Shown, SourcesTrue
  <2>2. QED
    BY <1>1, <2>1, AppSame, ActiveIs DEF PrivateStep, PrivateTaken, Elsewhere
<1>3. QED
  BY <1>2, PrivateKeeps

LEMMA EndsStep == ASSUME IInv, CoreEnds PROVE IInv'
<1>1. /\ proc' = [proc EXCEPT !.alive = FALSE] /\ core' = NoCore
      /\ UNCHANGED <<contacts, stale, talk, private, hook, app, queue, call, meant>>
  BY DEF CoreEnds
<1>2. /\ proc' \in Processes /\ ~proc'.alive /\ proc'.running = proc.running
      /\ proc'.owed = proc.owed /\ proc'.generation = proc.generation
  BY <1>1 DEF IInv, Typed, Processes
<1>3. Typed'
  BY <1>1, <1>2 DEF IInv, Typed, Indices, NoCore
<1>4. ProcessTrue' /\ Applied' /\ Shown'
  BY <1>1, <1>2 DEF IInv, ProcessTrue, Applied, Shown
<1>5. RestartTrue'
  BY <1>1, <1>2 DEF IInv, RestartTrue, Idle, Indices
<1>6. SourcesTrue' /\ LatchesMeant'
  BY <1>1, NothingPosted, AppSame, LatchesKeptMeant DEF IInv, SourcesTrue, GroupFollows
<1>7. QED
  BY <1>3, <1>4, <1>5, <1>6 DEF IInv

LEMMA SeesStep == ASSUME IInv, Orderly, WaiterSees PROVE IInv'
<1>1. /\ proc' = [proc EXCEPT !.running = FALSE, !.owed = TRUE] /\ ~proc.alive
      /\ Idle \/ ~app.stopping
      /\ UNCHANGED <<contacts, stale, talk, private, hook, app, core, queue, call, meant>>
  BY DEF WaiterSees, Orderly
<1>2. /\ proc' \in Processes /\ ~proc'.alive /\ ~proc'.running
      /\ proc'.owed /\ proc'.generation = proc.generation
  BY <1>1 DEF IInv, Typed, Processes
<1>3. Typed'
  BY <1>1, <1>2 DEF IInv, Typed, Indices
<1>4. ProcessTrue' /\ Applied' /\ Shown'
  BY <1>1, <1>2 DEF IInv, ProcessTrue, Applied, Shown
<1>5. RestartTrue'
  BY <1>1, <1>2 DEF IInv, RestartTrue, Idle, Indices
<1>6. SourcesTrue' /\ LatchesMeant'
  BY <1>1, NothingPosted, AppSame, LatchesKeptMeant DEF IInv, SourcesTrue, GroupFollows
<1>7. QED
  BY <1>3, <1>4, <1>5, <1>6 DEF IInv

LEMMA PostsStep == ASSUME IInv, WaiterPosts PROVE IInv'
<1> DEFINE m == Exit(proc.generation)
<1>1. /\ proc.owed /\ proc' = [proc EXCEPT !.owed = FALSE] /\ queue' = Append(queue, m)
      /\ UNCHANGED <<contacts, stale, talk, private, hook, app, core, call, meant>>
  BY DEF WaiterPosts, Post
<1>2. m \in Messages /\ m.type = "exit" /\ m.of = proc.generation /\ proc.generation \in Nat
  BY DEF Exit, Messages, IInv, Typed, Processes
<1>3. /\ proc' \in Processes /\ proc'.alive = proc.alive /\ proc'.running = proc.running
      /\ proc'.asked = proc.asked /\ ~proc'.owed /\ proc'.generation = proc.generation
      /\ ~proc.running
  BY <1>1 DEF IInv, Typed, Processes, ProcessTrue
<1> HIDE DEF m
<1>4. /\ queue' \in Seq(Messages) /\ GroupFollows'
      /\ ~Behind("group")' => ~Behind("group") /\ m.type # "group"
      /\ \A k \in DOMAIN queue' :
             queue'[k] = m \/ (k \in DOMAIN queue /\ queue'[k] = queue[k])
  BY <1>1, <1>2, PostedSound
<1>5. Typed'
  BY <1>1, <1>3, <1>4 DEF IInv, Typed, Indices
<1>6. ProcessTrue'
  BY <1>2, <1>3, <1>4 DEF IInv, ProcessTrue
<1>7. Applied' /\ Shown' /\ RestartTrue'
  BY <1>1, <1>3 DEF IInv, Applied, Shown, RestartTrue, Idle, Indices
<1>8. SourcesTrue'
  BY <1>1, <1>4 DEF IInv, SourcesTrue, GroupFollows
<1>9. LatchesMeant'
  BY <1>1, AppSame, LatchesKeptMeant
<1>10. QED
  BY <1>5, <1>6, <1>7, <1>8, <1>9 DEF IInv

-----------------------------------------------------------------------------
(* The invariant, and what follows from it *)

LEMMA InitIInv == Init => IInv
<1> SUFFICES ASSUME Init PROVE IInv
  OBVIOUS
<1>1. contacts \in Seq(Contacts) /\ IsInjective(contacts)
  <2>1. Cardinality(Contacts) \in Nat
    BY TalkAssumption, FS_CardinalityType
  <2>2. PICK m \in 0 .. Cardinality(Contacts) : contacts \in [1 .. m -> Contacts]
    BY DEF Init, SeqOf
  <2>3. m \in Nat
    BY <2>1
  <2>4. QED
    BY <2>2, <2>3 DEF Init
<1>2. Len(contacts) \in Nat /\ Indices = 1 .. Len(contacts)
  BY <1>1 DEF Indices
<1>3. /\ private \in Privates(Len(contacts)) /\ \A i \in Indices : ~private.latched[i]
      /\ talk = Silent /\ core = NoCore /\ call = "change" /\ meant = {} /\ stale = {}
      /\ queue = <<>> /\ hook = [group |-> FALSE, keys |-> {}]
      /\ ~proc.alive /\ ~proc.owed /\ ~app.stopping /\ ~app.restore
  BY <1>2, UnpressedTyped DEF Init
<1>4. app \in Restarts /\ proc \in Processes
  <2>1. <<>> \in Seq(BOOLEAN)
    OBVIOUS
  <2>2. QED
    BY <2>1 DEF Init, Restarts, Processes
<1>5. Typed
  BY <1>1, <1>3, <1>4, SilentTyped DEF Typed, NoCore
<1>6. queue = <<>> /\ DOMAIN queue = {}
  BY <1>3
<1>7. ProcessTrue /\ RestartTrue /\ Applied /\ Shown
  BY <1>3, <1>6, SilentTyped DEF ProcessTrue, RestartTrue, Applied, Shown
<1>8. SourcesTrue /\ LatchesMeant
  BY <1>3, <1>6, SilentTyped DEF SourcesTrue, LatchesMeant, Latched
<1>9. QED
  BY <1>5, <1>7, <1>8 DEF IInv

LEMMA StutterIInv == ASSUME IInv, UNCHANGED vars PROVE IInv'
<1> USE DEF vars
<1>1. Typed'
  BY DEF IInv, Typed, Indices
<1>2. ProcessTrue' /\ Applied' /\ LatchesMeant' /\ RestartTrue'
  BY NoticesKept, AppliedKept, AppSame, LatchesKeptMeant, RestartKept
<1>3. Shown' /\ SourcesTrue'
  BY NothingPosted DEF IInv, Shown, SourcesTrue, GroupFollows
<1>4. QED
  BY <1>1, <1>2, <1>3 DEF IInv

LEMMA NextIInv == ASSUME Orderly, IInv, [Next]_vars PROVE IInv'
<1>1. CASE ChangeSettings
  BY <1>1, ChangeSteps
<1>2. CASE RestartCore
  BY <1>2, FindsStep, StartsStep, PendingStep, AsksStep DEF RestartCore
<1>3. CASE Talk
  BY <1>3, SourceSteps, MouseSteps, LatchStep DEF Talk
<1>4. CASE Keys
  BY <1>4, KeySteps
<1>5. CASE TakeMessage
  BY <1>5, SourceSteps, TakePrivateStep, ExitStep, OldExitStep DEF TakeMessage
<1>6. CASE Process
  BY <1>6, EndsStep, SeesStep, PostsStep DEF Process
<1>7. QED
  BY <1>1, <1>2, <1>3, <1>4, <1>5, <1>6, StutterIInv DEF Next

LEMMA AlwaysIInv == ASSUME Orderly PROVE Spec => []IInv
<1>1. IInv /\ [Next]_vars => IInv'
  BY NextIInv
<1>2. QED
  BY <1>1, InitIInv, PTL DEF Spec

\* The window's state has the shape the code relies on: every list has one entry for each
\* contact, and no index lies outside of it.
THEOREM TypeCorrect == ASSUME Orderly PROVE Spec => []TypeOK
<1>1. IInv => TypeOK
  BY ActiveIs DEF IInv, Typed, TypeOK, ToSet, Groups, Privates
<1>2. QED
  BY <1>1, AlwaysIInv, PTL

\* The Core's microphone is open to the group, and it sends to a contact, exactly when the
\* window says so (apply_global_talk_sources, set_contact_push_to_talk_active).
THEOREM TransmissionShown == ASSUME Orderly PROVE Spec => []TransmitsAsShown
<1>1. IInv => TransmitsAsShown
  BY DEF IInv, Shown, TransmitsAsShown, Working
<1>2. QED
  BY <1>1, AlwaysIInv, PTL

\* Once the messages are taken, the group hears the user only while a source is held or
\* latched (WM_APP_GLOBAL_PTT, update_button_state).
THEOREM HeldToTalk == ASSUME Orderly PROVE Spec => []GroupOnlyWhileHeld
<1>1. IInv => GroupOnlyWhileHeld
  <2> SUFFICES ASSUME IInv, Working, queue = <<>>, core.open
               PROVE  talk.button \/ talk.continuous \/ (talk.hotkey /\ hook.group)
    BY DEF GroupOnlyWhileHeld
  <2>1. talk.down
    BY DEF IInv, Shown, Working
  <2>2. ~Behind("group")
    BY DEF Behind
  <2>3. QED
    BY <2>1, <2>2 DEF IInv, SourcesTrue
<1>2. QED
  BY <1>1, AlwaysIInv, PTL

\* A Core that works has every setting and every contact the user sees
\* (restart_core_after_settings_change).
THEOREM ChangesReachTheCore == ASSUME Orderly PROVE Spec => []SettingsApplied
<1>1. IInv => SettingsApplied
  BY DEF IInv, Applied, SettingsApplied, Working
<1>2. QED
  BY <1>1, AlwaysIInv, PTL

\* No restart latches a contact that the user did not
\* (restore_latched_talk_state_after_restart).
THEOREM NoLatchMisplaced == ASSUME Orderly PROVE Spec => []OnlyMeant
<1>1. IInv => OnlyMeant
  BY DEF IInv, RestartTrue, LatchesMeant, OnlyMeant, Working
<1>2. QED
  BY <1>1, AlwaysIInv, PTL

-----------------------------------------------------------------------------
(* Latches, while no contact is removed: whom the user latched is latched, or is to be *)

LatchesHeld == meant \subseteq (IF app.restore THEN SavedNames ELSE Latched)

LEMMA HeldSame ==
    ASSUME IInv, LatchesHeld, RestartSame, UNCHANGED <<contacts, meant>>,
           private'.latched = private.latched
    PROVE  LatchesHeld'
  BY DEF LatchesHeld, RestartSame, SavedNames, Latched, Indices

LEMMA HeldStarted ==
    ASSUME IInv, LatchesHeld, NEW a, Started(a), contacts' = contacts, ~app'.restore
    PROVE  LatchesHeld'
<1> DEFINE latches == RestoredLatches(Len(contacts))
<1>1. /\ private' = [Unpressed(Len(contacts)) EXCEPT !.latched = latches]
      /\ meant' = IF app.restore THEN meant ELSE {}
  BY DEF Started
<1>2. private'.latched = latches
  BY <1>1 DEF Unpressed
<1>3. app.restore => \A j \in Indices : j <= Len(app.latched) /\ app.latched[j] => latches[j]
  BY ActiveIs DEF RestoredLatches
<1> HIDE DEF latches
<1>4. Indices' = Indices
  BY DEF Indices
<1>5. meant' \subseteq Latched'
  BY <1>1, <1>2, <1>3, <1>4 DEF LatchesHeld, Latched, SavedNames
<1>6. QED
  BY <1>5 DEF LatchesHeld

LEMMA HeldUnchanged ==
    ASSUME IInv, LatchesHeld, UNCHANGED <<contacts, private, app, meant>>
    PROVE  LatchesHeld'
  BY HeldSame, AppSame

LEMMA HeldByChange ==
    ASSUME Orderly, ~Removable, IInv, LatchesHeld, ChangeSettings
    PROVE  LatchesHeld'
<1>1. CASE ChangeDevice \/ ChangeLevel
  BY <1>1, HeldUnchanged DEF ChangeDevice, ChangeLevel
<1>2. CASE \E c \in Contacts : AddContact(c)
  <2>1. PICK c \in Contacts : AddContact(c)
    BY <1>2
  <2>2. /\ contacts' = Append(contacts, c) /\ UNCHANGED <<app, meant>>
        /\ private' = [private EXCEPT !.refs = Append(@, 0), !.latched = Append(@, FALSE)]
    BY <2>1 DEF AddContact
  <2>3. /\ contacts \in Seq(Contacts) /\ Len(contacts) \in Nat /\ Indices = 1 .. Len(contacts)
        /\ private \in Privates(Len(contacts))
    BY ActiveIs DEF IInv, Typed
  <2>4. Indices \subseteq Indices' /\ \A j \in Indices : contacts'[j] = contacts[j]
    BY <2>2, <2>3 DEF Indices
  <2>5. \A j \in Indices : private'.latched[j] = private.latched[j]
    <3> DEFINE old == private.latched
               new == Append(private.latched, FALSE)
               off == FALSE
    <3>1. private'.latched = new /\ new = Append(old, off)
      BY <2>2, <2>3 DEF Privates
    <3>2. old \in Seq(BOOLEAN) /\ Len(old) = Len(contacts)
      BY <2>3 DEF Privates
    <3> HIDE DEF old, new, off
    <3>3. \A j \in Indices : new[j] = old[j]
      BY <2>3, <3>1, <3>2
    <3>4. QED
      BY <3>1, <3>3 DEF old
  <2>6. Latched \subseteq Latched' /\ SavedNames \subseteq SavedNames'
    BY <2>2, <2>4, <2>5 DEF Latched, SavedNames
  <2>7. QED
    BY <2>2, <2>6 DEF LatchesHeld
<1>3. CASE \E i \in Indices : RemoveContact(i)
  BY <1>3 DEF RemoveContact
<1>4. QED
  BY <1>1, <1>2, <1>3 DEF ChangeSettings

LEMMA HeldByRestart ==
    ASSUME Orderly, IInv, LatchesHeld, RestartCore
    PROVE  LatchesHeld'
<1>1. CASE RestartFinds
  <2>1. /\ app' = Saved /\ UNCHANGED <<contacts, private, meant>>
    BY <1>1 DEF RestartFinds
  <2>2. CASE app.restore
    BY <2>1, <2>2, HeldUnchanged DEF Saved
  <2>3. CASE ~app.restore
    <3> DEFINE continuous == talk.continuous
               latched == private.latched
    <3>1. app' = [app EXCEPT !.restore = TRUE, !.continuous = continuous, !.latched = latched]
      BY <2>1, <2>3 DEF Saved
    <3>2. app \in Restarts
      BY DEF IInv, Typed
    <3> HIDE DEF continuous, latched
    <3>3. app'.restore /\ app'.latched = latched
      BY <3>1, <3>2 DEF Restarts
    <3>4. Indices' = Indices /\ \A j \in Indices : j <= Len(latched)
      BY <2>1, ActiveIs DEF Indices, Privates, latched
    <3>5. Latched \subseteq SavedNames'
      BY <2>1, <3>3, <3>4 DEF SavedNames, Latched, latched
    <3>6. QED
      BY <2>1, <2>3, <3>3, <3>5 DEF LatchesHeld
  <2>4. QED
    BY <2>2, <2>3
<1>2. CASE RestartStarts
  <2>1. UNCHANGED contacts /\ (Started(app) \/ StartFails)
    BY <1>2 DEF RestartStarts
  <2>2. CASE Started(app)
    <3>1. ~app'.restore
      BY <2>2 DEF Started, IInv, Typed, Restarts
    <3>2. QED
      BY <2>1, <2>2, <3>1, HeldStarted
  <2>3. CASE StartFails
    BY <2>1, <2>3, HeldUnchanged DEF StartFails
  <2>4. QED
    BY <2>1, <2>2, <2>3
<1>3. CASE StopPending
  <2>1. app' = [app EXCEPT !.again = TRUE] /\ UNCHANGED <<contacts, private, meant>>
    BY <1>3 DEF StopPending
  <2>2. RestartSame
    BY <2>1 DEF IInv, Typed, Restarts, RestartSame
  <2>3. QED
    BY <2>1, <2>2, HeldSame
<1>4. CASE StopAsks
  <2>1. /\ app' = [app EXCEPT !.again = TRUE, !.stopping = TRUE, !.enabled = FALSE]
        /\ UNCHANGED <<contacts, meant>> /\ app.restore
    BY <1>4 DEF StopAsks, IInv, RestartTrue
  <2>2. app'.restore = app.restore /\ app'.latched = app.latched
    BY <2>1 DEF IInv, Typed, Restarts
  <2>3. QED
    BY <2>1, <2>2 DEF LatchesHeld, SavedNames, Indices
<1>5. QED
  BY <1>1, <1>2, <1>3, <1>4 DEF RestartCore

LEMMA HeldByLatch ==
    ASSUME IInv, LatchesHeld, NEW i \in Indices, Latch(i)
    PROVE  LatchesHeld'
<1> DEFINE latched == [private.latched EXCEPT ![i] = ~private.latched[i]]
           flipped == [private EXCEPT !.latched[i] = ~@]
           told == Active(flipped, i) = Active(private, i) \/ proc.alive
<1>1. /\ private.latched[i] \/ proc.running
      /\ private' = IF told THEN flipped ELSE private
      /\ Refresh(talk) /\ Idle
      /\ meant' = IF ~told \/ app.stopping THEN meant
                  ELSE IF private.latched[i] THEN meant \ {contacts[i]}
                  ELSE meant \cup {contacts[i]}
      /\ UNCHANGED contacts
  BY DEF Latch
<1>2. /\ private \in Privates(Len(contacts)) /\ Indices = 1 .. Len(contacts)
      /\ contacts # <<>>
  BY ActiveIs
<1>3. flipped = [private EXCEPT !.latched = latched]
  OBVIOUS
<1>4. /\ latched[i] = ~private.latched[i]
      /\ \A j \in Indices : j # i => latched[j] = private.latched[j]
  <2>1. private.latched \in [Indices -> BOOLEAN]
    BY <1>2 DEF Privates
  <2>2. QED
    BY <2>1
<1> HIDE DEF latched
<1>5. flipped.latched = latched
  BY <1>2, <1>3 DEF Privates
<1> HIDE DEF flipped
<1>6. RestartSame /\ Indices' = Indices
  BY <1>1, <1>2, RefreshSound DEF Indices
<1>7. CASE ~told
  BY <1>1, <1>6, <1>7, HeldSame
<1>8. CASE told /\ app.stopping
  BY <1>1, <1>6, <1>8 DEF LatchesHeld, RestartSame, SavedNames, IInv, RestartTrue
<1>9. CASE told /\ ~app.stopping
  <2>1. private'.latched = latched /\ ~app.restore
    BY <1>1, <1>5, <1>9 DEF IInv, RestartTrue, Idle
  <2>2. meant \subseteq Latched
    BY <2>1 DEF LatchesHeld
  <2>3. meant' \subseteq Latched'
    <3>1. ASSUME NEW c \in meant' PROVE c \in Latched'
      <4>1. CASE c = contacts[i]
        <5>1. latched[i]
          BY <1>1, <1>4, <1>9, <3>1, <4>1
        <5>2. QED
          BY <1>1, <1>6, <2>1, <4>1, <5>1 DEF Latched
      <4>2. CASE c # contacts[i]
        <5>1. c \in meant
          BY <1>1, <3>1, <4>2
        <5>2. PICK j \in Indices : c = contacts[j] /\ private.latched[j]
          BY <2>2, <5>1 DEF Latched
        <5>3. latched[j]
          BY <1>4, <4>2, <5>2
        <5>4. QED
          BY <1>1, <1>6, <2>1, <5>2, <5>3 DEF Latched
      <4>3. QED
        BY <4>1, <4>2
    <3>2. QED
      BY <3>1
  <2>4. QED
    BY <1>6, <2>1, <2>3 DEF LatchesHeld, RestartSame
<1>10. QED
  BY <1>7, <1>8, <1>9

LEMMA HeldByTalk ==
    ASSUME IInv, LatchesHeld, Talk \/ TakeGroup \/ TakePrivate
    PROVE  LatchesHeld'
<1>1. CASE ButtonDown \/ ButtonUp \/ ClickContinuous \/ TakeGroup
  BY <1>1, HeldUnchanged DEF ButtonDown, ButtonUp, ClickContinuous, TakeGroup, SetSource
<1>2. ASSUME PrivateStep, UNCHANGED <<contacts, meant>> PROVE LatchesHeld'
  BY <1>2, HeldSame DEF PrivateStep
<1>3. CASE MouseUp
  <2>1. private.mouse \in Indices /\ 0 \in 0 .. Len(contacts)
    BY <1>3, ActiveIs DEF MouseUp, Privates
  <2>2. QED
    BY <1>2, <1>3, <2>1, ReleaseSound DEF MouseUp
<1>4. CASE \E i \in Indices : MouseDown(i)
  BY <1>2, <1>4, PressSound DEF MouseDown
<1>5. CASE \E i \in Indices : Latch(i)
  BY <1>5, HeldByLatch
<1>6. CASE TakePrivate
  <2> DEFINE i == Head(queue).of
  <2>1. UNCHANGED <<contacts, meant>>
    BY <1>6 DEF TakePrivate
  <2>2. CASE i \notin Indices
    BY <1>6, <2>1, <2>2, HeldUnchanged DEF TakePrivate
  <2>3. CASE i \in Indices
    <3>1. private.mouse \in 0 .. Len(contacts)
      BY ActiveIs DEF Privates
    <3>2. Press(i, FALSE) \/ Release(i, private.mouse)
      BY <1>6, <2>3 DEF TakePrivate
    <3>3. QED
      BY <1>2, <2>1, <2>3, <3>1, <3>2, PressSound, ReleaseSound
  <2>4. QED
    BY <2>2, <2>3
<1>7. QED
  BY <1>1, <1>3, <1>4, <1>5, <1>6 DEF Talk

LEMMA HeldByExit == ASSUME IInv, LatchesHeld, TakeExit PROVE LatchesHeld'
<1> DEFINE a == [app EXCEPT !.stopping = FALSE, !.again = FALSE, !.enabled = FALSE]
<1>1. CleanUp(a) /\ UNCHANGED contacts
  BY DEF TakeExit, CleanUp
<1>2. a \in Restarts /\ a.restore = app.restore /\ a.latched = app.latched
  BY DEF IInv, Typed, Restarts
<1> HIDE DEF a
<1>3. CASE Started(a)
  <2>1. ~app'.restore
    BY <1>2, <1>3 DEF Started, Restarts
  <2>2. QED
    BY <1>1, <1>3, <2>1, HeldStarted
<1>4. CASE ~Started(a)
  <2>1. app' = a /\ meant' = (IF app.restore THEN meant ELSE {})
    BY <1>1, <1>4 DEF CleanUp
  <2>2. QED
    BY <1>1, <1>2, <2>1 DEF LatchesHeld, SavedNames, Indices
<1>5. QED
  BY <1>3, <1>4

LEMMA NextHeld ==
    ASSUME Orderly, ~Removable, IInv, LatchesHeld, [Next]_vars
    PROVE  LatchesHeld'
<1>1. CASE Keys
  BY <1>1, HeldUnchanged DEF Keys, GroupKeyDown, GroupKeyUp, ContactKeyDown, ContactKeyUp
<1>2. CASE TakeOldExit \/ Process
  BY <1>2, HeldUnchanged DEF TakeOldExit, Process, CoreEnds, WaiterSees, WaiterPosts
<1>3. CASE UNCHANGED vars
  BY <1>3, HeldUnchanged DEF vars
<1>4. QED
  BY <1>1, <1>2, <1>3, HeldByChange, HeldByRestart, HeldByTalk, HeldByExit
     DEF Next, TakeMessage

\* While no contact is removed, a latch survives every restart, whatever fails meanwhile
\* (restart_core_after_settings_change, restore_latched_talk_state_after_restart).
THEOREM LatchesSurvive == ASSUME Orderly, ~Removable PROVE Spec => []LatchesKept
<1>1. Init => LatchesHeld
  BY DEF Init, LatchesHeld
<1>2. IInv /\ LatchesHeld /\ [Next]_vars => LatchesHeld'
  BY NextHeld
<1>3. IInv /\ LatchesHeld => LatchesKept
  BY DEF IInv, ProcessTrue, RestartTrue, LatchesHeld, LatchesKept, Working, Idle
<1>4. QED
  BY <1>1, <1>2, <1>3, AlwaysIInv, PTL DEF Spec

-----------------------------------------------------------------------------
(* The contacts' hotkeys, while none is pressed behind an exit notice and no settings change  *)
(* overtakes a message about one: what the window counts is what is held, once it is told.    *)

Prompt == Events \cap {"hotkey", "command"} = {}

\* The messages under way that contact i's hotkey was pressed, or released
Notes(i, on) == {k \in DOMAIN queue : queue[k] = Private(i, on)}

\* A press is followed by its release before the next press, or it is still held.
NotesTakeTurns == \A i \in Nat : \A k \in Notes(i, TRUE) :
    /\ i \in hook.keys \/ \E r \in Notes(i, FALSE) : k < r
    /\ \A m \in Notes(i, TRUE) : k < m => \E r \in Notes(i, FALSE) : k < r /\ r < m

\* As far as the window was told, the hotkey of contact i is held.
HeldYet(i) ==
    /\ i \in hook.keys \/ Notes(i, FALSE) # {}
    /\ \A k \in Notes(i, TRUE) : \E r \in Notes(i, FALSE) : r < k

CountTrue(i) ==
    private.refs[i] <= (IF private.mouse = i THEN 1 ELSE 0) + (IF HeldYet(i) THEN 1 ELSE 0)

\* A press reaches the Core it was meant for: no notice overtakes it, and no restart.
PressesFirst ==
    /\ \A k \in DOMAIN queue : queue[k].type = "exit" =>
           \A i \in Nat : \A m \in Notes(i, TRUE) : m < k
    /\ Idle \/ ~Behind("private")

PressInv == NotesTakeTurns /\ PressesFirst /\ \A i \in Indices : CountTrue(i)

LEMMA NotesAre ==
    ASSUME IInv
    PROVE  /\ Len(queue) \in Nat /\ DOMAIN queue = 1 .. Len(queue)
           /\ \A i \in Nat, on \in BOOLEAN : \A k \in Notes(i, on) : k \in 1 .. Len(queue)
           /\ Indices = 1 .. Len(contacts) /\ Len(contacts) \in Nat /\ Indices \subseteq Nat
           /\ \A i \in Indices : private.refs[i] \in Nat
           /\ private.mouse \in 0 .. Len(contacts)
<1>1. queue \in Seq(Messages) /\ private \in Privates(Len(contacts))
  BY DEF IInv, Typed
<1>2. Len(queue) \in Nat /\ DOMAIN queue = 1 .. Len(queue)
  BY <1>1
<1>3. QED
  BY <1>1, <1>2, ActiveIs DEF Notes, Privates

LEMMA NoNotes ==
    ASSUME ~Behind("private"), NEW i, NEW on
    PROVE  Notes(i, on) = {}
  BY DEF Behind, Notes, Private

\* A step that leaves the hotkeys, what is told of them and the counts alone
LEMMA PressesSame ==
    ASSUME IInv, PressInv, UNCHANGED <<contacts, queue>>, hook'.keys = hook.keys,
           private'.refs = private.refs, private'.mouse = private.mouse,
           Idle' \/ ~Behind("private")
    PROVE  PressInv'
<1>1. \A i, on : Notes(i, on)' = Notes(i, on)
  BY DEF Notes, Private
<1>2. \A i : HeldYet(i)' <=> HeldYet(i)
  BY <1>1 DEF HeldYet
<1>3. NotesTakeTurns'
  BY <1>1 DEF PressInv, NotesTakeTurns
<1>4. PressesFirst'
  BY <1>1 DEF PressInv, PressesFirst, Behind
<1>5. \A i \in Indices' : CountTrue(i)'
  BY <1>2 DEF PressInv, CountTrue, Indices
<1>6. QED
  BY <1>3, <1>4, <1>5 DEF PressInv

\* A step after which nobody is held and no press is under way
LEMMA PressesReset ==
    ASSUME \A i \in Nat : Notes(i, TRUE)' = {},
           \A i \in Indices' : private'.refs[i] = 0,
           Idle' \/ ~Behind("private")'
    PROVE  PressInv'
<1>1. NotesTakeTurns' /\ PressesFirst'
  BY DEF NotesTakeTurns, PressesFirst
<1>2. \A i \in Indices' : CountTrue(i)'
  BY DEF CountTrue
<1>3. QED
  BY <1>1, <1>2 DEF PressInv

LEMMA UnpressedRefs ==
    ASSUME NEW n \in Nat
    PROVE  \A i \in 1 .. n : Unpressed(n).refs[i] = 0
  BY DEF Unpressed

LEMMA StartedRefs ==
    ASSUME NEW a, Started(a), UNCHANGED contacts, Len(contacts) \in Nat
    PROVE  \A i \in Indices' : private'.refs[i] = 0
<1> DEFINE n == Len(contacts)
           latches == RestoredLatches(n)
           u == Unpressed(n)
<1>1. private' = [u EXCEPT !.latched = latches]
  BY DEF Started
<1>2. u = [refs |-> u.refs, latched |-> u.latched, mouse |-> u.mouse]
  BY DEF Unpressed
<1> HIDE DEF latches, u
<1>3. private'.refs = u.refs
  BY <1>1, <1>2
<1>4. QED
  BY <1>3, UnpressedRefs DEF Indices, u

-----------------------------------------------------------------------------
(* The messages about hotkeys, taken and posted *)

LEMMA NotesTaken ==
    ASSUME IInv, queue # <<>>, queue' = Tail(queue)
    PROVE  /\ \A k \in DOMAIN queue' :
                  k \in Nat /\ \E s \in DOMAIN queue : s = k + 1 /\ queue'[k] = queue[s]
           /\ \A i \in Nat, on \in BOOLEAN :
               /\ \A k \in Notes(i, on)' : k \in Nat \ {0} /\ \E s \in Notes(i, on) : s = k + 1
               /\ \A s \in Notes(i, on) : s = 1 \/ \E k \in Notes(i, on)' : s = k + 1
               /\ 1 \in Notes(i, on) <=> Head(queue) = Private(i, on)
<1>1. queue \in Seq(Messages)
  BY DEF IInv, Typed
<1>2. /\ 1 \in DOMAIN queue /\ Head(queue) = queue[1]
      /\ \A k \in DOMAIN queue' : k \in Nat \ {0} /\ k + 1 \in DOMAIN queue /\ queue'[k] = queue[k + 1]
      /\ \A k \in DOMAIN queue : k \in Nat \ {0}
             /\ (k = 1 \/ (k - 1 \in DOMAIN queue' /\ queue'[k - 1] = queue[k]))
  BY <1>1
<1>3. \A k \in DOMAIN queue' : k \in Nat \ {0} /\ \E s \in DOMAIN queue : s = k + 1 /\ queue'[k] = queue[s]
  BY <1>2
<1>4. \A s \in DOMAIN queue : s = 1 \/ \E k \in DOMAIN queue' : s = k + 1 /\ queue'[k] = queue[s]
  <2> SUFFICES ASSUME NEW s \in DOMAIN queue, s # 1
               PROVE  \E k \in DOMAIN queue' : s = k + 1 /\ queue'[k] = queue[s]
    OBVIOUS
  <2> DEFINE k == s - 1
  <2>1. s \in Nat /\ k \in DOMAIN queue' /\ queue'[k] = queue[s]
    BY <1>2
  <2>2. s = k + 1
    BY <2>1
  <2> HIDE DEF k
  <2>3. QED
    BY <2>1, <2>2
<1>5. QED
  BY <1>2, <1>3, <1>4 DEF Notes, Private

\* The messages behind the one taken, for contact i
LEMMA NotesMoved ==
    ASSUME IInv, queue # <<>>, queue' = Tail(queue), NEW i \in Nat
    PROVE  /\ \A k \in Notes(i, TRUE)' : k \in Nat \ {0} /\ \E s \in Notes(i, TRUE) : s = k + 1
           /\ \A s \in Notes(i, FALSE) :
                  s \in Nat \ {0} /\ (s = 1 \/ \E k \in Notes(i, FALSE)' : k \in Nat /\ s = k + 1)
           /\ 1 \in Notes(i, TRUE) <=> Head(queue) = Private(i, TRUE)
           /\ 1 \in Notes(i, FALSE) <=> Head(queue) = Private(i, FALSE)
<1>1. ASSUME NEW on \in BOOLEAN
      PROVE  /\ \A k \in Notes(i, on)' : k \in Nat \ {0} /\ \E s \in Notes(i, on) : s = k + 1
             /\ \A s \in Notes(i, on) :
                    s \in Nat \ {0} /\ (s = 1 \/ \E k \in Notes(i, on)' : k \in Nat /\ s = k + 1)
             /\ 1 \in Notes(i, on) <=> Head(queue) = Private(i, on)
  <2>1. ASSUME NEW s \in Notes(i, on) PROVE s \in Nat \ {0}
    <3>1. Len(queue) \in Nat /\ s \in 1 .. Len(queue)
      BY NotesAre
    <3>2. QED
      BY <3>1
  <2>2. \A s \in Notes(i, on) : s = 1 \/ \E k \in Notes(i, on)' : s = k + 1
    BY NotesTaken
  <2>3. /\ \A k \in Notes(i, on)' : k \in Nat \ {0} /\ \E s \in Notes(i, on) : s = k + 1
        /\ 1 \in Notes(i, on) <=> Head(queue) = Private(i, on)
    BY NotesTaken
  <2>4. QED
    BY <2>1, <2>2, <2>3
<1>2. TRUE \in BOOLEAN /\ FALSE \in BOOLEAN
  OBVIOUS
<1>3. QED
  BY <1>1, <1>2

\* What a message taken leaves in order; its own contact is then held as it says.
LEMMA TurnTaken ==
    ASSUME IInv, PressInv, queue # <<>>, queue' = Tail(queue), UNCHANGED hook
    PROVE  /\ NotesTakeTurns'
           /\ Idle' => PressesFirst'
           /\ \A i \in Nat : HeldYet(i) /\ Head(queue) # Private(i, FALSE) => HeldYet(i)'
           /\ \A i \in Nat : Head(queue) = Private(i, TRUE) => HeldYet(i)' /\ ~HeldYet(i)
<1>0. ASSUME NEW i \in Nat, NEW k \in Notes(i, TRUE)
      PROVE  /\ i \in hook.keys \/ \E r \in Notes(i, FALSE) : k < r
             /\ \A m \in Notes(i, TRUE) : k < m => \E r \in Notes(i, FALSE) : k < r /\ r < m
  BY DEF PressInv, NotesTakeTurns
<1>1. ASSUME NEW i \in Nat, NEW k \in Notes(i, TRUE)'
      PROVE  /\ i \in hook.keys \/ \E r \in Notes(i, FALSE)' : k < r
             /\ \A m \in Notes(i, TRUE)' : k < m => \E r \in Notes(i, FALSE)' : k < r /\ r < m
  <2>1. PICK s \in Notes(i, TRUE) : k \in Nat \ {0} /\ s = k + 1
    BY NotesMoved
  <2>2. ASSUME NEW r \in Notes(i, FALSE), s < r
        PROVE  \E n \in Notes(i, FALSE)' : n \in Nat /\ r = n + 1 /\ k < n
    <3>1. r # 1
      BY <2>1, <2>2
    <3>2. PICK n \in Notes(i, FALSE)' : n \in Nat /\ r = n + 1
      BY <3>1, NotesMoved
    <3>3. k < n
      BY <2>1, <2>2, <3>2
    <3>4. QED
      BY <3>2, <3>3
  <2>3. i \in hook.keys \/ \E r \in Notes(i, FALSE)' : k < r
    BY <1>0, <2>2
  <2>4. ASSUME NEW m \in Notes(i, TRUE)', k < m
        PROVE  \E r \in Notes(i, FALSE)' : k < r /\ r < m
    <3>1. PICK t \in Notes(i, TRUE) : m \in Nat /\ t = m + 1
      BY NotesMoved
    <3>2. s < t
      BY <2>1, <2>4, <3>1
    <3>3. PICK r \in Notes(i, FALSE) : s < r /\ r < t
      BY <1>0, <3>2
    <3>4. PICK n \in Notes(i, FALSE)' : n \in Nat /\ r = n + 1 /\ k < n
      BY <2>2, <3>3
    <3>5. n < m
      BY <3>1, <3>3, <3>4
    <3>6. QED
      BY <3>4, <3>5
  <2>5. QED
    BY <2>3, <2>4
<1>2. ASSUME Idle' PROVE PressesFirst'
  <2> SUFFICES ASSUME NEW k \in DOMAIN queue', queue'[k].type = "exit",
                      NEW i \in Nat, NEW m \in Notes(i, TRUE)'
               PROVE  m < k
    BY <1>2 DEF PressesFirst
  <2>1. PICK s \in DOMAIN queue : k \in Nat /\ s = k + 1 /\ queue'[k] = queue[s]
    BY NotesTaken
  <2>2. PICK t \in Notes(i, TRUE) : m \in Nat /\ t = m + 1
    BY NotesMoved
  <2>3. t < s
    BY <2>1 DEF PressInv, PressesFirst
  <2>4. QED
    BY <2>1, <2>2, <2>3
<1>3. ASSUME NEW i \in Nat, HeldYet(i), Head(queue) # Private(i, FALSE) PROVE HeldYet(i)'
  <2>1. \A r \in Notes(i, FALSE) : \E n \in Notes(i, FALSE)' : n \in Nat /\ r = n + 1
    BY <1>3, NotesMoved
  <2>2. i \in hook.keys \/ Notes(i, FALSE)' # {}
    BY <1>3, <2>1 DEF HeldYet
  <2>3. ASSUME NEW k \in Notes(i, TRUE)' PROVE \E r \in Notes(i, FALSE)' : r < k
    <3>1. PICK s \in Notes(i, TRUE) : k \in Nat /\ s = k + 1
      BY NotesMoved
    <3>2. PICK r \in Notes(i, FALSE) : r < s
      BY <1>3 DEF HeldYet
    <3>3. PICK n \in Notes(i, FALSE)' : n \in Nat /\ r = n + 1
      BY <2>1
    <3>4. n < k
      BY <3>1, <3>2, <3>3
    <3>5. QED
      BY <3>4
  <2>4. QED
    BY <2>2, <2>3 DEF HeldYet
<1>4. ASSUME NEW i \in Nat, Head(queue) = Private(i, TRUE) PROVE HeldYet(i)' /\ ~HeldYet(i)
  <2>1. 1 \in Notes(i, TRUE)
    BY <1>4, NotesMoved
  <2>2. ASSUME NEW r \in Notes(i, FALSE) PROVE ~(r < 1)
    <3>1. r \in Nat \ {0}
      BY NotesMoved
    <3>2. QED
      BY <3>1
  <2>3. ~HeldYet(i)
    BY <2>1, <2>2 DEF HeldYet
  <2>4. ASSUME NEW r \in Notes(i, FALSE), 1 < r
        PROVE  \E n \in Notes(i, FALSE)' : n \in Nat /\ r = n + 1
    <3>1. r # 1
      BY <2>4
    <3>2. QED
      BY <3>1, NotesMoved
  <2>5. i \in hook.keys \/ Notes(i, FALSE)' # {}
    BY <1>0, <2>1, <2>4
  <2>6. ASSUME NEW k \in Notes(i, TRUE)' PROVE \E r \in Notes(i, FALSE)' : r < k
    <3>1. PICK s \in Notes(i, TRUE) : k \in Nat \ {0} /\ s = k + 1
      BY NotesMoved
    <3>2. 1 < s
      BY <3>1
    <3>3. PICK r \in Notes(i, FALSE) : 1 < r /\ r < s
      BY <1>0, <2>1, <3>2
    <3>4. PICK n \in Notes(i, FALSE)' : n \in Nat /\ r = n + 1
      BY <2>4, <3>3
    <3>5. n < k
      BY <3>1, <3>3, <3>4
    <3>6. QED
      BY <3>5
  <2>7. QED
    BY <2>3, <2>5, <2>6 DEF HeldYet
<1>5. NotesTakeTurns'
  BY <1>1 DEF NotesTakeTurns
<1>6. QED
  BY <1>2, <1>3, <1>4, <1>5

LEMMA NotesPosted ==
    ASSUME IInv, NEW m \in Messages, queue' = Append(queue, m)
    PROVE  LET last == Len(queue) + 1
           IN  /\ \A k \in DOMAIN queue' : k = last \/ (k \in DOMAIN queue /\ queue'[k] = queue[k])
               /\ last \in Nat /\ queue'[last] = m
               /\ \A i \in Nat, on \in BOOLEAN :
                   /\ Notes(i, on)' = IF m = Private(i, on) THEN Notes(i, on) \cup {last}
                                      ELSE Notes(i, on)
                   /\ \A k \in Notes(i, on) : k \in Nat /\ k < last
<1> DEFINE last == Len(queue) + 1
<1>1. queue \in Seq(Messages) /\ Len(queue) \in Nat /\ DOMAIN queue = 1 .. Len(queue)
  BY NotesAre DEF IInv, Typed
<1>2. /\ DOMAIN queue' = 1 .. last /\ last \in Nat /\ queue'[last] = m
      /\ \A k \in 1 .. Len(queue) : queue'[k] = queue[k]
  BY <1>1
<1>3. \A k \in DOMAIN queue' : k = last \/ k \in DOMAIN queue
  BY <1>1, <1>2
<1>4. last \in DOMAIN queue' /\ \A k \in DOMAIN queue : k \in DOMAIN queue' /\ k < last /\ k \in Nat
  BY <1>1, <1>2
<1> HIDE DEF last
<1>5. ASSUME NEW i \in Nat, NEW on \in BOOLEAN
      PROVE  Notes(i, on)' = IF m = Private(i, on) THEN Notes(i, on) \cup {last} ELSE Notes(i, on)
  BY <1>1, <1>2, <1>3, <1>4 DEF Notes, Private
<1>6. QED
  BY <1>1, <1>2, <1>3, <1>4, <1>5 DEF Notes, last

\* Messages that say nothing of a contact's hotkey, or that it was released
LEMMA OtherPosted ==
    ASSUME IInv, PressInv, NEW m \in Messages, queue' = Append(queue, m),
           UNCHANGED <<contacts, private>>, m.type = "private" => ~m.on /\ Idle',
           Idle' <=> Idle,
           \/ hook'.keys = hook.keys /\ m.type # "private"
           \/ \E i \in Indices : m = Private(i, FALSE) /\ hook'.keys = hook.keys \ {i}
    PROVE  PressInv'
<1> DEFINE last == Len(queue) + 1
<1>1. /\ \A k \in DOMAIN queue' : k = last \/ (k \in DOMAIN queue /\ queue'[k] = queue[k])
      /\ last \in Nat /\ queue'[last] = m
  BY NotesPosted
<1>2. \A i \in Nat : Notes(i, TRUE)' = Notes(i, TRUE)
  <2>1. ASSUME NEW i \in Nat PROVE m # Private(i, TRUE)
    BY DEF Private
  <2>2. TRUE \in BOOLEAN
    OBVIOUS
  <2>3. QED
    BY <2>1, <2>2, NotesPosted
<1>3. \A i \in Nat : \A on \in BOOLEAN : \A k \in Notes(i, on) : k \in Nat /\ k < last
  BY NotesPosted
<1>4. \A i \in Nat : /\ Notes(i, FALSE) \subseteq Notes(i, FALSE)'
                     /\ i \in hook'.keys => i \in hook.keys
                     /\ i \in hook.keys => i \in hook'.keys \/ last \in Notes(i, FALSE)'
  <2> SUFFICES ASSUME NEW i \in Nat
               PROVE  /\ Notes(i, FALSE) \subseteq Notes(i, FALSE)'
                      /\ i \in hook'.keys => i \in hook.keys
                      /\ i \in hook.keys => i \in hook'.keys \/ last \in Notes(i, FALSE)'
    OBVIOUS
  <2>1. Notes(i, FALSE)' = IF m = Private(i, FALSE) THEN Notes(i, FALSE) \cup {last}
                           ELSE Notes(i, FALSE)
    BY NotesPosted
  <2>2. QED
    BY <2>1
<1>5. NotesTakeTurns'
  <2> SUFFICES ASSUME NEW i \in Nat, NEW k \in Notes(i, TRUE)
               PROVE  /\ i \in hook'.keys \/ \E r \in Notes(i, FALSE)' : k < r
                      /\ \A n \in Notes(i, TRUE) :
                             k < n => \E r \in Notes(i, FALSE)' : k < r /\ r < n
    BY <1>2 DEF NotesTakeTurns
  <2>1. /\ i \in hook.keys \/ \E r \in Notes(i, FALSE) : k < r
        /\ \A n \in Notes(i, TRUE) : k < n => \E r \in Notes(i, FALSE) : k < r /\ r < n
    BY DEF PressInv, NotesTakeTurns
  <2>2. k < last
    BY <1>3
  <2> HIDE DEF last
  <2>3. QED
    BY <1>4, <2>1, <2>2
<1>6. PressesFirst'
  <2>1. Idle' \/ ~Behind("private")'
    <3>1. Idle \/ ~Behind("private")
      BY DEF PressInv, PressesFirst
    <3>2. QED
      BY <1>1, <3>1 DEF Behind
  <2>2. ASSUME NEW k \in DOMAIN queue', queue'[k].type = "exit", NEW i \in Nat,
               NEW n \in Notes(i, TRUE)
        PROVE  n < k
    BY <1>1, <1>3, <2>2 DEF PressInv, PressesFirst
  <2>3. QED
    BY <1>2, <2>1, <2>2 DEF PressesFirst
<1>7. ASSUME NEW i \in Indices PROVE CountTrue(i)'
  <2>1. i \in Nat
    BY NotesAre
  <2>2. HeldYet(i) => HeldYet(i)'
    BY <1>2, <1>4, <2>1 DEF HeldYet
  <2>3. private.refs[i] \in Nat /\ CountTrue(i)
    BY NotesAre DEF PressInv
  <2>4. QED
    BY <2>2, <2>3 DEF CountTrue
<1>8. QED
  BY <1>5, <1>6, <1>7 DEF PressInv, Indices

LEMMA PressPosted ==
    ASSUME IInv, PressInv, Prompt, NEW i \in Indices, ContactKeyDown(i)
    PROVE  PressInv'
<1> DEFINE last == Len(queue) + 1
           m == Private(i, TRUE)
<1>1. /\ Idle /\ Idle' /\ hook.keys = {} /\ hook'.keys = {i} /\ ~Behind("exit")
      /\ queue' = Append(queue, m) /\ UNCHANGED <<contacts, private>>
  BY DEF ContactKeyDown, Prompt, Post, Idle, IInv, Typed
<1>2. m \in Messages /\ i \in Nat
  BY NotesAre DEF Private, Messages
<1>3. \A j \in Nat : /\ Notes(j, FALSE)' = Notes(j, FALSE)
                     /\ Notes(j, TRUE)' = IF j = i THEN Notes(j, TRUE) \cup {last}
                                          ELSE Notes(j, TRUE)
  <2>1. \A j \in Nat : m # Private(j, FALSE) /\ (m = Private(j, TRUE) <=> j = i)
    BY DEF Private
  <2> HIDE DEF m
  <2>2. QED
    BY <1>1, <1>2, <2>1, NotesPosted
<1>4. /\ \A k \in DOMAIN queue' : k = last \/ (k \in DOMAIN queue /\ queue'[k] = queue[k])
      /\ last \in Nat /\ queue'[last] = m
      /\ \A j \in Nat : /\ \A k \in Notes(j, TRUE) : k \in Nat /\ k < last
                        /\ \A k \in Notes(j, FALSE) : k \in Nat /\ k < last
  <2>1. TRUE \in BOOLEAN /\ FALSE \in BOOLEAN
    OBVIOUS
  <2> HIDE DEF m
  <2>2. QED
    BY <1>1, <1>2, <2>1, NotesPosted
<1> HIDE DEF last
<1>5. NotesTakeTurns'
  <2> SUFFICES ASSUME NEW j \in Nat, NEW k \in Notes(j, TRUE)'
               PROVE  /\ j \in hook'.keys \/ \E r \in Notes(j, FALSE) : k < r
                      /\ \A n \in Notes(j, TRUE)' :
                             k < n => \E r \in Notes(j, FALSE) : k < r /\ r < n
    BY <1>3 DEF NotesTakeTurns
  <2>1. CASE k \in Notes(j, TRUE)
    <3>1. PICK r \in Notes(j, FALSE) : k < r
      BY <1>1, <2>1 DEF PressInv, NotesTakeTurns
    <3>2. \A n \in Notes(j, TRUE) : k < n => \E s \in Notes(j, FALSE) : k < s /\ s < n
      BY <2>1 DEF PressInv, NotesTakeTurns
    <3>3. r < last
      BY <1>4
    <3>4. QED
      BY <1>3, <3>1, <3>2, <3>3
  <2>2. CASE k = last /\ j = i
    <3>1. ASSUME NEW n \in Notes(j, TRUE)' PROVE ~(k < n)
      <4>1. n = last \/ n \in Notes(j, TRUE)
        BY <1>3, <2>2
      <4>2. n \in Nat /\ n <= last
        <5>1. CASE n = last
          BY <1>4, <5>1
        <5>2. CASE n \in Notes(j, TRUE)
          <6>1. n \in Nat /\ last \in Nat /\ n < last
            BY <1>4, <5>2
          <6>2. QED
            BY <6>1
        <5>3. QED
          BY <4>1, <5>1, <5>2
      <4>3. QED
        BY <1>4, <2>2, <4>2
    <3>2. QED
      BY <1>1, <2>2, <3>1
  <2>3. QED
    BY <1>3, <2>1, <2>2
<1>6. PressesFirst'
  <2>1. \A k \in DOMAIN queue' : queue'[k].type # "exit"
    BY <1>1, <1>4 DEF Behind, Private
  <2>2. QED
    BY <1>1, <2>1 DEF PressesFirst
<1>7. ASSUME NEW j \in Indices PROVE CountTrue(j)'
  <2>1. j \in Nat /\ private.refs[j] \in Nat /\ CountTrue(j)
    BY NotesAre DEF PressInv
  <2>2. HeldYet(j) => HeldYet(j)'
    <3> SUFFICES ASSUME HeldYet(j) PROVE HeldYet(j)'
      OBVIOUS
    <3>1. PICK r \in Notes(j, FALSE) : TRUE
      BY <1>1 DEF HeldYet
    <3>2. r < last
      BY <1>4, <2>1
    <3>3. QED
      BY <1>3, <2>1, <3>1, <3>2 DEF HeldYet
  <2>3. QED
    BY <1>1, <2>1, <2>2 DEF CountTrue
<1>8. QED
  BY <1>1, <1>5, <1>6, <1>7 DEF PressInv, Indices

-----------------------------------------------------------------------------
(* What a press, a release and a step do to the counts *)

LEMMA RefsSet ==
    ASSUME IInv, NEW i \in Indices, NEW r \in Nat, NEW m \in 0 .. Len(contacts),
           private' = [private EXCEPT !.refs[i] = r, !.mouse = m]
    PROVE  /\ private'.refs[i] = r /\ private'.mouse = m
           /\ \A j \in Indices : j # i => private'.refs[j] = private.refs[j]
<1> DEFINE refs == [private.refs EXCEPT ![i] = r]
<1>1. private' = [private EXCEPT !.refs = refs, !.mouse = m]
  OBVIOUS
<1>2. private \in Privates(Len(contacts)) /\ Indices = 1 .. Len(contacts)
  BY ActiveIs
<1>3. refs[i] = r /\ \A j \in Indices : j # i => refs[j] = private.refs[j]
  BY <1>2 DEF Privates
<1> HIDE DEF refs
<1>4. private'.refs = refs /\ private'.mouse = m
  BY <1>1, <1>2 DEF Privates
<1>5. QED
  BY <1>3, <1>4

LEMMA PressCounts ==
    ASSUME IInv, NEW i \in Indices, NEW mouse \in BOOLEAN, Press(i, mouse)
    PROVE  \/ UNCHANGED private
           \/ /\ private'.refs[i] = private.refs[i] + 1
              /\ private'.mouse = IF mouse THEN i ELSE private.mouse
              /\ \A j \in Indices : j # i => private'.refs[j] = private.refs[j]
<1>1. CASE Pressed(i)
  <2> DEFINE m == IF mouse THEN i ELSE private.mouse
             r == private.refs[i] + 1
  <2>1. private' = [private EXCEPT !.refs[i] = r, !.mouse = m]
    BY <1>1 DEF Press
  <2>2. r \in Nat /\ m \in 0 .. Len(contacts)
    BY NotesAre
  <2> HIDE DEF r, m
  <2>3. /\ private'.refs[i] = r /\ private'.mouse = m
        /\ \A j \in Indices : j # i => private'.refs[j] = private.refs[j]
    BY <2>1, <2>2, RefsSet
  <2>4. QED
    BY <2>3 DEF r, m
<1>2. CASE ~Pressed(i)
  BY <1>2 DEF Press
<1>3. QED
  BY <1>1, <1>2

LEMMA ReleaseCounts ==
    ASSUME IInv, NEW i \in Indices, NEW mouse \in 0 .. Len(contacts), Release(i, mouse)
    PROVE  /\ private'.mouse = mouse
           /\ private'.refs[i] = IF private.refs[i] = 0 THEN 0 ELSE private.refs[i] - 1
           /\ \A j \in Indices : j # i => private'.refs[j] = private.refs[j]
<1>1. CASE private.refs[i] = 0
  <2>1. private' = [private EXCEPT !.mouse = mouse] /\ private \in Privates(Len(contacts))
    BY <1>1, ActiveIs DEF Release
  <2>2. private'.mouse = mouse /\ private'.refs = private.refs
    BY <2>1 DEF Privates
  <2>3. QED
    BY <1>1, <2>2
<1>2. CASE private.refs[i] # 0
  <2> DEFINE r == private.refs[i] - 1
  <2>1. private' = [private EXCEPT !.refs[i] = r, !.mouse = mouse]
    BY <1>2 DEF Release
  <2>2. r \in Nat
    BY <1>2, NotesAre
  <2> HIDE DEF r
  <2>3. /\ private'.refs[i] = r /\ private'.mouse = mouse
        /\ \A j \in Indices : j # i => private'.refs[j] = private.refs[j]
    BY <2>1, <2>2, RefsSet
  <2>4. QED
    BY <1>2, <2>3 DEF r
<1>3. QED
  BY <1>1, <1>2

LEMMA PressesByMouse ==
    ASSUME IInv, PressInv, (\E i \in Indices : MouseDown(i)) \/ MouseUp
    PROVE  PressInv'
<1>1. UNCHANGED <<contacts, queue, hook, call>> /\ Idle
  BY DEF MouseDown, MouseUp
<1>2. \A i, on : Notes(i, on)' = Notes(i, on)
  BY <1>1 DEF Notes, Private
<1>3. \A i : HeldYet(i)' <=> HeldYet(i)
  BY <1>1, <1>2 DEF HeldYet
<1>4. NotesTakeTurns' /\ PressesFirst'
  BY <1>1, <1>2 DEF PressInv, NotesTakeTurns, PressesFirst, Idle
<1>5. ASSUME NEW j \in Indices PROVE CountTrue(j)'
  <2> DEFINE held == IF HeldYet(j) THEN 1 ELSE 0
  <2>1. /\ held \in Nat /\ private.refs[j] \in Nat
        /\ private.refs[j] <= (IF private.mouse = j THEN 1 ELSE 0) + held
        /\ j # 0
    BY NotesAre DEF PressInv, CountTrue
  <2> HIDE DEF held
  <2>2. private'.refs[j] <= (IF private'.mouse = j THEN 1 ELSE 0) + held
    <3>1. CASE \E i \in Indices : MouseDown(i)
      <4>1. PICK i \in Indices : MouseDown(i)
        BY <3>1
      <4>2. private.mouse = 0 /\ Press(i, TRUE)
        BY <4>1 DEF MouseDown
      <4>3. \/ UNCHANGED private
            \/ /\ private'.refs[i] = private.refs[i] + 1 /\ private'.mouse = i
               /\ \A n \in Indices : n # i => private'.refs[n] = private.refs[n]
        BY <4>2, PressCounts
      <4>4. QED
        BY <2>1, <4>2, <4>3
    <3>2. CASE MouseUp
      <4> DEFINE i == private.mouse
      <4>1. i \in Indices /\ 0 \in 0 .. Len(contacts) /\ Release(i, 0)
        BY <3>2, NotesAre DEF MouseUp
      <4>2. /\ private'.mouse = 0
            /\ private'.refs[i] = IF private.refs[i] = 0 THEN 0 ELSE private.refs[i] - 1
            /\ \A n \in Indices : n # i => private'.refs[n] = private.refs[n]
        BY <4>1, ReleaseCounts
      <4>3. QED
        BY <2>1, <4>2
    <3>3. QED
      BY <3>1, <3>2
  <2>3. QED
    BY <1>3, <2>2 DEF CountTrue, held
<1>6. QED
  BY <1>1, <1>4, <1>5 DEF PressInv, Indices

LEMMA PressesTold == ASSUME IInv, PressInv, TakePrivate PROVE PressInv'
<1> DEFINE i == Head(queue).of
<1>1. /\ UNCHANGED <<contacts, hook, call>> /\ Idle /\ Idle' /\ queue # <<>>
      /\ queue' = Tail(queue) /\ Head(queue).type = "private"
  BY DEF TakePrivate, Receives, Idle
<1>2. /\ NotesTakeTurns' /\ PressesFirst'
      /\ \A j \in Nat : HeldYet(j) /\ Head(queue) # Private(j, FALSE) => HeldYet(j)'
      /\ \A j \in Nat : Head(queue) = Private(j, TRUE) => HeldYet(j)' /\ ~HeldYet(j)
  BY <1>1, TurnTaken
<1>3. Head(queue) \in Messages
  BY <1>1 DEF IInv, Typed
<1>4. Head(queue) = Private(i, Head(queue).on) /\ Head(queue).on \in BOOLEAN /\ i \in Nat
  BY <1>1, <1>3 DEF Messages, Private
<1>5. ASSUME NEW j \in Indices PROVE CountTrue(j)'
  <2>1. j \in Nat /\ private.refs[j] \in Nat /\ private.mouse \in 0 .. Len(contacts) /\ CountTrue(j)
    BY NotesAre DEF PressInv
  <2>2. CASE j # i
    <3>1. Head(queue) # Private(j, FALSE)
      BY <2>2 DEF Private
    <3>2. HeldYet(j) => HeldYet(j)'
      BY <1>2, <2>1, <3>1
    <3>3. private'.refs[j] = private.refs[j] /\ private'.mouse = private.mouse
      <4>1. CASE i \notin Indices
        BY <4>1 DEF TakePrivate
      <4>2. CASE i \in Indices /\ Head(queue).on
        <5>1. Press(i, FALSE)
          BY <4>2 DEF TakePrivate
        <5>2. QED
          BY <2>2, <4>2, <5>1, PressCounts
      <4>3. CASE i \in Indices /\ ~Head(queue).on
        <5>1. Release(i, private.mouse)
          BY <4>3 DEF TakePrivate
        <5>2. QED
          BY <2>1, <2>2, <4>3, <5>1, ReleaseCounts
      <4>4. QED
        BY <4>1, <4>2, <4>3
    <3>4. QED
      BY <2>1, <3>2, <3>3 DEF CountTrue
  <2>3. CASE j = i /\ Head(queue).on
    <3>1. Press(j, FALSE)
      BY <2>3 DEF TakePrivate
    <3>2. Head(queue) = Private(j, TRUE)
      BY <1>4, <2>3
    <3>3. HeldYet(j)' /\ ~HeldYet(j)
      BY <1>2, <2>1, <3>2
    <3>4. \/ UNCHANGED private
          \/ private'.refs[j] = private.refs[j] + 1 /\ private'.mouse = private.mouse
      BY <3>1, PressCounts
    <3>5. QED
      BY <2>1, <3>3, <3>4 DEF CountTrue
  <2>4. CASE j = i /\ ~Head(queue).on
    <3>1. Release(j, private.mouse)
      BY <2>4 DEF TakePrivate
    <3>2. /\ private'.mouse = private.mouse
          /\ private'.refs[j] = IF private.refs[j] = 0 THEN 0 ELSE private.refs[j] - 1
      BY <2>1, <3>1, ReleaseCounts
    <3>3. QED
      BY <2>1, <3>2 DEF CountTrue
  <2>5. QED
    BY <2>2, <2>3, <2>4
<1>6. QED
  BY <1>1, <1>2, <1>5 DEF PressInv, Indices

\* Messages of another kind
LEMMA PressesElsewhere == ASSUME IInv, PressInv, TakeGroup \/ TakeOldExit PROVE PressInv'
<1>1. /\ UNCHANGED <<contacts, hook, call, private>> /\ Idle /\ Idle' /\ queue # <<>>
      /\ queue' = Tail(queue) /\ Head(queue).type # "private"
  BY DEF TakeGroup, TakeOldExit, Receives, SetSource, Idle
<1>2. /\ NotesTakeTurns' /\ PressesFirst'
      /\ \A j \in Nat : HeldYet(j) /\ Head(queue) # Private(j, FALSE) => HeldYet(j)'
  BY <1>1, TurnTaken
<1>3. \A j \in Nat : HeldYet(j) => HeldYet(j)'
  <2>1. \A j \in Nat : Head(queue) # Private(j, FALSE)
    BY <1>1 DEF Private
  <2>2. QED
    BY <1>2, <2>1
<1>4. ASSUME NEW j \in Indices PROVE CountTrue(j)'
  <2>1. j \in Nat /\ private.refs[j] \in Nat /\ CountTrue(j)
    BY NotesAre DEF PressInv
  <2>2. QED
    BY <1>1, <1>3, <2>1 DEF CountTrue
<1>5. QED
  BY <1>1, <1>2, <1>4 DEF PressInv, Indices

LEMMA PressesEnded == ASSUME IInv, PressInv, TakeExit PROVE PressInv'
<1>1. /\ UNCHANGED <<contacts, call>> /\ Idle /\ Idle' /\ queue # <<>>
      /\ queue' = Tail(queue) /\ Head(queue).type = "exit"
  BY DEF TakeExit, Receives, CleanUp, Idle
<1>2. ASSUME NEW i \in Nat PROVE Notes(i, TRUE)' = {}
  <2>1. 1 \in DOMAIN queue /\ queue[1].type = "exit"
    BY <1>1 DEF IInv, Typed
  <2>2. \A m \in Notes(i, TRUE) : m < 1
    BY <2>1 DEF PressInv, PressesFirst
  <2>3. \A k \in Notes(i, TRUE)' : k \in Nat \ {0} /\ \E s \in Notes(i, TRUE) : s = k + 1
    BY <1>1, NotesMoved
  <2>4. ASSUME NEW k \in Notes(i, TRUE)' PROVE FALSE
    <3>1. PICK s \in Notes(i, TRUE) : k \in Nat \ {0} /\ s = k + 1
      BY <2>3
    <3>2. s < 1
      BY <2>2
    <3>3. QED
      BY <3>1, <3>2
  <2>5. QED
    BY <2>4
<1>3. \A i \in Indices' : private'.refs[i] = 0
  <2> DEFINE a == [app EXCEPT !.stopping = FALSE, !.again = FALSE, !.enabled = FALSE]
  <2>1. Len(contacts) \in Nat /\ Indices' = 1 .. Len(contacts)
    BY <1>1, NotesAre DEF Indices
  <2>2. Started(a) \/ private' = Unpressed(Len(contacts))
    BY DEF TakeExit, CleanUp
  <2> HIDE DEF a
  <2>3. QED
    BY <1>1, <2>1, <2>2, StartedRefs, UnpressedRefs
<1>4. QED
  BY <1>1, <1>2, <1>3, PressesReset

LEMMA PressesByChange ==
    ASSUME IInv, PressInv, Prompt, ChangeSettings
    PROVE  PressInv'
<1>1. MayChange /\ UNCHANGED queue
  BY DEF ChangeSettings, ChangeDevice, ChangeLevel, AddContact, RemoveContact
<1>2. Idle /\ ~Behind("private")
  BY <1>1 DEF MayChange, Prompt
<1>3. CASE ChangeDevice \/ ChangeLevel
  BY <1>2, <1>3, PressesSame DEF ChangeDevice, ChangeLevel
<1>4. \A i, on : Notes(i, on) = {} /\ Notes(i, on)' = {}
  BY <1>1, <1>2, NoNotes DEF Notes, Private
<1>5. ~Behind("private")'
  BY <1>1, <1>2 DEF Behind
<1>6. ASSUME NEW c \in Contacts, AddContact(c) PROVE PressInv'
  <2> DEFINE n == Len(contacts)
             refs == Append(private.refs, 0)
             latched == Append(private.latched, FALSE)
  <2>1. /\ contacts' = Append(contacts, c) /\ hook' = hook
        /\ private' = [private EXCEPT !.refs = refs, !.latched = latched]
    BY <1>6 DEF AddContact
  <2>2. /\ private \in Privates(n) /\ n \in Nat /\ Indices = 1 .. n
        /\ contacts \in Seq(Contacts)
    BY ActiveIs DEF IInv, Typed
  <2>3. Indices' = 1 .. n + 1
    BY <2>1, <2>2 DEF Indices
  <2>4. refs[n + 1] = 0 /\ \A i \in 1 .. n : refs[i] = private.refs[i]
    <3>1. private.refs \in [1 .. n -> Nat]
      BY <2>2 DEF Privates
    <3>2. private.refs \in Seq(Nat) /\ Len(private.refs) = n
      BY <2>2, <3>1
    <3>3. QED
      BY <2>2, <3>2
  <2> HIDE DEF refs, latched
  <2>5. private'.refs = refs /\ private'.mouse = private.mouse
    BY <2>1, <2>2 DEF Privates
  <2>6. \A i : HeldYet(i)' <=> HeldYet(i)
    BY <1>4, <2>1 DEF HeldYet
  <2>7. ASSUME NEW i \in 1 .. n + 1 PROVE CountTrue(i)'
    <3>1. CASE i = n + 1
      BY <2>4, <2>5, <3>1 DEF CountTrue
    <3>2. CASE i # n + 1
      <4>1. i \in 1 .. n
        BY <2>2, <3>2
      <4>2. CountTrue(i)
        BY <2>2, <4>1 DEF PressInv
      <4>3. QED
        BY <2>4, <2>5, <2>6, <4>1, <4>2 DEF CountTrue
    <3>3. QED
      BY <3>1, <3>2
  <2>8. NotesTakeTurns' /\ PressesFirst'
    BY <1>4, <1>5 DEF NotesTakeTurns, PressesFirst
  <2>9. QED
    BY <2>3, <2>7, <2>8 DEF PressInv
<1>7. ASSUME NEW i \in Indices, RemoveContact(i) PROVE PressInv'
  <2> DEFINE n == Len(contacts)
  <2>1. contacts' = RemoveAt(contacts, i) /\ private' = Unpressed(n - 1)
    BY <1>7 DEF RemoveContact
  <2>2. contacts \in Seq(Contacts) /\ IsInjective(contacts) /\ n \in Nat /\ Indices = 1 .. n
    BY ActiveIs DEF IInv, Typed
  <2>3. n - 1 \in Nat /\ Indices' = 1 .. n - 1
    BY <2>1, <2>2, RemovedSound DEF Indices
  <2>4. \A j \in Indices' : private'.refs[j] = 0
    BY <2>1, <2>3, UnpressedRefs
  <2>5. QED
    BY <1>4, <1>5, <2>4, PressesReset
<1>8. QED
  BY <1>3, <1>6, <1>7 DEF ChangeSettings

LEMMA PressesByRestart == ASSUME IInv, PressInv, RestartCore PROVE PressInv'
<1>1. UNCHANGED <<contacts, queue>> /\ ~Idle /\ Len(contacts) \in Nat /\ Indices' = 1 .. Len(contacts)
  BY NotesAre DEF RestartCore, RestartFinds, RestartStarts, StopPending, StopAsks, Idle, Indices
<1>2. ~Behind("private") /\ ~Behind("private")'
  BY <1>1 DEF PressInv, PressesFirst, Behind
<1>3. \A i \in Nat : Notes(i, TRUE)' = {}
  BY <1>1, <1>2, NoNotes DEF Notes, Private
<1>4. CASE RestartFinds \/ StopPending
  BY <1>1, <1>2, <1>4, PressesSame DEF RestartFinds, StopPending
<1>5. CASE RestartStarts
  <2>1. CASE StartFails
    BY <1>1, <1>2, <2>1, PressesSame DEF StartFails
  <2>2. CASE Started(app)
    BY <1>1, <1>2, <1>3, <2>2, StartedRefs, PressesReset
  <2>3. QED
    BY <1>5, <2>1, <2>2 DEF RestartStarts
<1>6. CASE StopAsks
  <2>1. private' = Unpressed(Len(contacts))
    BY <1>6 DEF StopAsks
  <2>2. \A i \in Indices' : private'.refs[i] = 0
    BY <1>1, <2>1, UnpressedRefs
  <2>3. QED
    BY <1>2, <1>3, <2>2, PressesReset
<1>7. QED
  BY <1>4, <1>5, <1>6 DEF RestartCore

LEMMA PressesByKeys == ASSUME IInv, PressInv, Prompt, Keys PROVE PressInv'
<1>1. CASE GroupKeyDown \/ GroupKeyUp
  <2>1. PICK on \in BOOLEAN : queue' = Append(queue, Group(on)) /\ hook' = [hook EXCEPT !.group = on]
    BY <1>1 DEF GroupKeyDown, GroupKeyUp, Post
  <2>2. Group(on) \in Messages /\ Group(on).type = "group"
    BY DEF Group, Messages
  <2>3. hook'.keys = hook.keys
    BY <2>1 DEF IInv, Typed
  <2>4. UNCHANGED <<contacts, private, call>>
    BY <1>1 DEF GroupKeyDown, GroupKeyUp
  <2>5. QED
    BY <2>1, <2>2, <2>3, <2>4, OtherPosted DEF Idle
<1>2. ASSUME NEW i \in hook.keys, ContactKeyUp(i) PROVE PressInv'
  <2>1. i \in Indices /\ hook.keys = {i} /\ hook'.keys = {}
    BY <1>2 DEF ContactKeyUp, IInv, Typed
  <2>2. Private(i, FALSE) \in Messages /\ Private(i, FALSE).on = FALSE
    BY <2>1, NotesAre DEF Private, Messages
  <2>3. UNCHANGED <<contacts, private, call>> /\ Idle /\ queue' = Append(queue, Private(i, FALSE))
    BY <1>2 DEF ContactKeyUp, Post
  <2>4. QED
    BY <2>1, <2>2, <2>3, OtherPosted DEF Idle
<1>3. QED
  BY <1>1, <1>2, PressPosted DEF Keys

LEMMA PressesByProcess == ASSUME IInv, PressInv, Process PROVE PressInv'
<1>1. UNCHANGED <<contacts, private, hook, call>> /\ (Idle \/ ~Behind("private"))
  BY DEF Process, CoreEnds, WaiterSees, WaiterPosts, PressInv, PressesFirst
<1>2. CASE CoreEnds \/ WaiterSees
  BY <1>1, <1>2, PressesSame DEF CoreEnds, WaiterSees, Idle
<1>3. CASE WaiterPosts
  <2> DEFINE m == Exit(proc.generation)
  <2>1. m \in Messages /\ m.type = "exit" /\ queue' = Append(queue, m)
    BY <1>3 DEF WaiterPosts, Post, Exit, Messages, IInv, Typed, Processes
  <2> HIDE DEF m
  <2>2. QED
    BY <1>1, <2>1, OtherPosted DEF Idle
<1>4. QED
  BY <1>2, <1>3 DEF Process

LEMMA PressesByTalk == ASSUME IInv, PressInv, Talk PROVE PressInv'
<1>1. CASE ButtonDown \/ ButtonUp \/ ClickContinuous
  BY <1>1, PressesSame DEF ButtonDown, ButtonUp, ClickContinuous, SetSource, Idle
<1>2. ASSUME NEW i \in Indices, Latch(i) PROVE PressInv'
  <2> DEFINE flipped == [private EXCEPT !.latched[i] = ~@]
  <2>1. private' \in {private, flipped} /\ UNCHANGED <<contacts, queue, hook, call>> /\ Idle
    BY <1>2 DEF Latch
  <2>2. flipped.refs = private.refs /\ flipped.mouse = private.mouse
    BY ActiveIs DEF Privates
  <2> HIDE DEF flipped
  <2>3. QED
    BY <2>1, <2>2, PressesSame DEF Idle
<1>3. QED
  BY <1>1, <1>2, PressesByMouse DEF Talk

LEMMA InitPressInv == Init => PressInv
<1> SUFFICES ASSUME Init PROVE PressInv
  OBVIOUS
<1>1. /\ queue = <<>> /\ private = Unpressed(Len(contacts))
      /\ contacts \in SeqOf(Contacts, Cardinality(Contacts))
  BY DEF Init
<1>2. Len(contacts) \in Nat /\ Indices = 1 .. Len(contacts)
  BY InitIInv, ActiveIs
<1>3. ~Behind("private") /\ \A i, on : Notes(i, on) = {}
  BY <1>1 DEF Behind, Notes
<1>4. \A i \in Indices : private.refs[i] = 0
  BY <1>1, <1>2, UnpressedRefs
<1>5. NotesTakeTurns /\ PressesFirst
  BY <1>3 DEF NotesTakeTurns, PressesFirst
<1>6. \A i \in Indices : CountTrue(i)
  BY <1>4 DEF CountTrue
<1>7. QED
  BY <1>5, <1>6 DEF PressInv

LEMMA NextPressInv == ASSUME Prompt, IInv, PressInv, [Next]_vars PROVE PressInv'
<1>1. CASE UNCHANGED vars
  BY <1>1, PressesSame DEF vars, PressInv, PressesFirst, Idle
<1>2. QED
  BY <1>1, PressesByChange, PressesByRestart, PressesByTalk, PressesByKeys, PressesTold,
     PressesElsewhere, PressesEnded, PressesByProcess DEF Next, TakeMessage

\* Once the messages are taken, a contact that is not latched is talked to only while its card or
\* its hotkey is held (WM_APP_CONTACT_PTT, set_contact_push_to_talk_active), for any number of
\* contacts, Cores and messages under way.
THEOREM HeldToTalkPrivately == ASSUME Orderly, Prompt PROVE Spec => []PrivateOnlyWhileHeld
<1>1. IInv /\ PressInv => PrivateOnlyWhileHeld
  <2> SUFFICES ASSUME IInv, PressInv, queue = <<>>, NEW i \in Indices
               PROVE  private.refs[i] <=
                          (IF private.mouse = i THEN 1 ELSE 0) + (IF i \in hook.keys THEN 1 ELSE 0)
    BY DEF PrivateOnlyWhileHeld
  <2>1. HeldYet(i) => i \in hook.keys
    BY DEF HeldYet, Notes
  <2>2. CountTrue(i) /\ private.refs[i] \in Nat
    BY NotesAre DEF PressInv
  <2>3. QED
    BY <2>1, <2>2 DEF CountTrue
<1>2. IInv /\ PressInv /\ [Next]_vars => PressInv'
  BY NextPressInv
<1>3. QED
  BY <1>1, <1>2, InitPressInv, AlwaysIInv, PTL DEF Spec

-----------------------------------------------------------------------------
(* The window's use of the controller, whatever happens *)

InQueue == {queue[k].of : k \in Exits}

\* A process that runs, or whose end is not posted yet, has no notice in the queue.
NoticesSound ==
    /\ proc \in Processes /\ queue \in Seq(Messages)
    /\ hook \in [group : BOOLEAN, keys : SUBSET Nat]
    /\ proc.owed => ~proc.running
    /\ \A k \in Exits : queue[k].of <= proc.generation
    /\ proc.running \/ proc.owed => proc.generation \notin InQueue
    /\ NoticesInOrder

\* What the controller's promise speaks of
Promised == <<proc.generation, proc.running, proc.asked, proc.owed>>

LEMMA MessagesAre ==
    ASSUME NoticesSound
    PROVE  /\ Len(queue) \in Nat /\ DOMAIN queue = 1 .. Len(queue)
           /\ \A k \in DOMAIN queue : k \in Nat \ {0} /\ queue[k] \in Messages
           /\ \A k \in Exits : k \in Nat \ {0} /\ queue[k].of \in Nat
<1>1. queue \in Seq(Messages)
  BY DEF NoticesSound
<1>2. Len(queue) \in Nat /\ DOMAIN queue = 1 .. Len(queue)
  BY <1>1
<1>3. \A k \in DOMAIN queue : k \in Nat \ {0} /\ queue[k] \in Messages
  BY <1>1
<1>4. QED
  BY <1>2, <1>3 DEF Exits, Messages

\* A message behind the first takes its place.
LEMMA ExitsBehind ==
    ASSUME NoticesSound, queue # <<>>, queue' = Tail(queue)
    PROVE  /\ queue' \in Seq(Messages) /\ Head(queue) \in Messages
           /\ \A k \in Exits' : k \in Nat \ {0} /\ k + 1 \in Exits /\ queue'[k] = queue[k + 1]
           /\ \A k \in Exits : k = 1 \/ (k - 1 \in Exits' /\ queue'[k - 1] = queue[k])
           /\ Head(queue).type = "exit" => 1 \in Exits /\ queue[1] = Head(queue)
           /\ 1 \in Exits => Head(queue).type = "exit"
           /\ InQueue' \subseteq InQueue
           /\ \A k, m \in Exits' : k < m => queue'[k].of < queue'[m].of
<1>1. queue \in Seq(Messages)
  BY DEF NoticesSound
<1>2. /\ queue' \in Seq(Messages) /\ Head(queue) \in Messages
      /\ 1 \in DOMAIN queue /\ Head(queue) = queue[1]
      /\ \A k \in DOMAIN queue' : k \in Nat \ {0} /\ k + 1 \in DOMAIN queue /\ queue'[k] = queue[k + 1]
      /\ \A k \in DOMAIN queue : k = 1 \/ (k - 1 \in DOMAIN queue' /\ queue'[k - 1] = queue[k])
  BY <1>1
<1>3. \A k \in Exits' : k \in Nat \ {0} /\ k + 1 \in Exits /\ queue'[k] = queue[k + 1]
  BY <1>2 DEF Exits
<1>4. \A k \in Exits' : \E m \in Exits : queue'[k] = queue[m]
  BY <1>3
<1>5. InQueue' \subseteq InQueue
  BY <1>4 DEF InQueue
<1>6. \A k, m \in Exits' : k < m => queue'[k].of < queue'[m].of
  <2> SUFFICES ASSUME NEW k \in Exits', NEW m \in Exits', k < m
               PROVE  queue'[k].of < queue'[m].of
    OBVIOUS
  <2>1. k + 1 \in Exits /\ m + 1 \in Exits /\ k + 1 < m + 1
    BY <1>3
  <2>2. queue[k + 1].of < queue[m + 1].of
    BY <2>1 DEF NoticesSound, NoticesInOrder
  <2>3. QED
    BY <1>3, <2>2
<1>7. QED
  BY <1>2, <1>3, <1>5, <1>6 DEF Exits

\* A message posted goes behind all others.
LEMMA ExitsBefore ==
    ASSUME NoticesSound, NEW m \in Messages, queue' = Append(queue, m)
    PROVE  /\ queue' \in Seq(Messages)
           /\ \A k \in Exits : k \in Exits' /\ queue'[k] = queue[k] /\ k < Len(queue) + 1
           /\ \A k \in Exits' : k \in Exits \/ (k = Len(queue) + 1 /\ queue'[k] = m)
           /\ Len(queue) + 1 \in Exits' <=> m.type = "exit"
           /\ queue'[Len(queue) + 1] = m
<1>0. queue \in Seq(Messages) /\ Len(queue) \in Nat /\ DOMAIN queue = 1 .. Len(queue)
  BY MessagesAre DEF NoticesSound
<1>1. /\ queue' \in Seq(Messages)
      /\ Len(queue') = Len(queue) + 1 /\ DOMAIN queue' = 1 .. Len(queue) + 1
      /\ \A k \in 1 .. Len(queue) : queue'[k] = queue[k]
      /\ queue'[Len(queue) + 1] = m
  BY <1>0
<1>2. \A k \in DOMAIN queue' : k \in DOMAIN queue \/ k = Len(queue) + 1
  BY <1>0, <1>1
<1>3. \A k \in DOMAIN queue : k \in DOMAIN queue' /\ k \in Nat /\ k < Len(queue) + 1
  BY <1>0, <1>1
<1>4. Len(queue) + 1 \in DOMAIN queue'
  BY <1>0, <1>1
<1>5. QED
  BY <1>0, <1>1, <1>2, <1>3, <1>4 DEF Exits

\* Handlers that post and take no notice, and change nothing the promise speaks of
LEMMA OutsidePromise ==
    ASSUME NoticesSound, UNCHANGED Promised,
           proc' \in Processes, hook' \in [group : BOOLEAN, keys : SUBSET Nat],
           \/ queue' = queue
           \/ queue # <<>> /\ queue' = Tail(queue) /\ Head(queue).type # "exit"
           \/ \E m \in Messages : m.type # "exit" /\ queue' = Append(queue, m)
    PROVE  NoticesSound' /\ UNCHANGED Controller!vars
<1>1. /\ InQueue' = InQueue /\ queue' \in Seq(Messages)
      /\ \A k, m \in Exits' : k < m => queue'[k].of < queue'[m].of
  <2>1. CASE queue' = queue
    BY <2>1 DEF InQueue, Exits, NoticesSound, NoticesInOrder
  <2>2. CASE queue # <<>> /\ queue' = Tail(queue) /\ Head(queue).type # "exit"
    <3>1. \A k \in Exits : k - 1 \in Exits' /\ queue'[k - 1] = queue[k]
      BY <2>2, ExitsBehind
    <3>2. InQueue \subseteq InQueue'
      BY <3>1 DEF InQueue
    <3>3. QED
      BY <2>2, <3>2, ExitsBehind
  <2>3. CASE \E m \in Messages : m.type # "exit" /\ queue' = Append(queue, m)
    <3>1. PICK m \in Messages : m.type # "exit" /\ queue' = Append(queue, m)
      BY <2>3
    <3>2. Exits' = Exits /\ \A k \in Exits : queue'[k] = queue[k]
      BY <3>1, ExitsBefore
    <3>3. InQueue' = InQueue
      BY <3>2 DEF InQueue
    <3>4. QED
      BY <3>1, <3>2, <3>3, ExitsBefore DEF NoticesSound, NoticesInOrder
  <2>4. QED
    BY <2>1, <2>2, <2>3
<1>2. \A k \in Exits' : queue'[k].of <= proc'.generation
  <2>1. \A t \in InQueue : t <= proc.generation
    BY DEF InQueue, NoticesSound
  <2>2. QED
    BY <1>1, <2>1 DEF InQueue, Promised
<1>3. NoticesSound'
  BY <1>1, <1>2 DEF NoticesSound, NoticesInOrder, Promised
<1>4. QED
  BY <1>1, <1>3 DEF Controller!vars, Promised, InQueue

\* The notice that is taken is the oldest, and the last of its process.
LEMMA NoticeTaken ==
    ASSUME NoticesSound, queue # <<>>, queue' = Tail(queue), Head(queue).type = "exit"
    PROVE  /\ Head(queue).of \in InQueue /\ \A t \in InQueue : Head(queue).of <= t
           /\ InQueue' = InQueue \ {Head(queue).of}
           /\ NoticesInOrder' /\ queue' \in Seq(Messages)
           /\ \A t \in InQueue : t <= proc.generation
<1> DEFINE g == Head(queue).of
<1>1. 1 \in Exits /\ queue[1] = Head(queue) /\ g \in InQueue /\ g \in Nat
  BY ExitsBehind, MessagesAre DEF InQueue
<1>2. \A k \in Exits : k = 1 \/ queue[1].of < queue[k].of
  BY <1>1, MessagesAre DEF NoticesSound, NoticesInOrder
<1>3. \A k \in Exits : k = 1 \/ (g < queue[k].of /\ queue[k].of \in Nat)
  BY <1>1, <1>2, MessagesAre
<1>4. g \notin InQueue'
  <2> SUFFICES ASSUME g \in InQueue' PROVE FALSE
    OBVIOUS
  <2>1. PICK k \in Exits' : queue'[k].of = g
    BY DEF InQueue
  <2>2. k \in Nat \ {0} /\ k + 1 \in Exits /\ queue'[k] = queue[k + 1]
    BY ExitsBehind
  <2>3. g < queue[k + 1].of /\ queue[k + 1].of \in Nat
    BY <1>3, <2>2
  <2> DEFINE h == queue[k + 1].of
  <2>4. g < h /\ h = g
    BY <2>1, <2>2, <2>3
  <2> HIDE DEF g, h
  <2>5. QED
    BY <1>1, <2>4
<1>5. InQueue \subseteq InQueue' \cup {g}
  <2> SUFFICES ASSUME NEW k \in Exits PROVE queue[k].of \in InQueue' \cup {g}
    BY DEF InQueue
  <2>1. CASE k = 1
    BY <1>1, <2>1
  <2>2. CASE k # 1
    BY <2>2, ExitsBehind DEF InQueue
  <2>3. QED
    BY <2>1, <2>2
<1>6. \A t \in InQueue : g <= t
  BY <1>1, <1>3 DEF InQueue
<1>7. \A t \in InQueue : t <= proc.generation
  BY DEF InQueue, NoticesSound
<1>8. QED
  BY <1>1, <1>4, <1>5, <1>6, <1>7, ExitsBehind DEF NoticesInOrder

\* The record of the process that start_core leaves
LEMMA StartedProcess ==
    ASSUME NoticesSound, NEW a, Started(a)
    PROVE  /\ proc' \in Processes /\ ~proc.owed
           /\ proc'.generation = proc.generation + 1
           /\ proc'.running = TRUE /\ proc'.asked = FALSE /\ proc'.owed = proc.owed
           /\ hook' \in [group : BOOLEAN, keys : SUBSET Nat]
           /\ proc.generation \in Nat
<1>1. /\ proc \in Processes /\ hook \in [group : BOOLEAN, keys : SUBSET Nat]
  BY DEF NoticesSound
<1>2. /\ ~proc.owed /\ hook' = [hook EXCEPT !.keys = {}]
      /\ proc' = [proc EXCEPT !.generation = proc.generation + 1, !.alive = TRUE,
                              !.running = TRUE, !.asked = FALSE]
  BY DEF Started
<1>3. hook' \in [group : BOOLEAN, keys : SUBSET Nat]
  BY <1>1, <1>2
<1>4. proc.generation + 1 \in Nat /\ proc.generation \in Nat
  BY <1>1 DEF Processes
<1>5. QED
  BY <1>1, <1>2, <1>3, <1>4 DEF Processes

LEMMA StartPromised ==
    ASSUME NoticesSound, RestartStarts
    PROVE  NoticesSound' /\ [Controller!Next]_Controller!vars
<1>0. UNCHANGED queue /\ ~proc.running
  BY DEF RestartStarts
<1>1. CASE Started(app)
  <2>0. proc.generation \in Nat /\ proc'.generation = proc.generation + 1
    BY <1>1, StartedProcess
  <2>1. InQueue' = InQueue /\ Exits' = Exits
    BY <1>0 DEF InQueue, Exits
  <2>2. \A k \in Exits : queue[k].of \in Nat /\ queue[k].of <= proc.generation
    BY MessagesAre DEF NoticesSound
  <2>3. proc.generation + 1 \notin InQueue
    <3>1. \A t \in InQueue : t \in Nat /\ t <= proc.generation
      BY <2>2 DEF InQueue
    <3>2. QED
      BY <2>0, <3>1
  <2>4. \A k \in Exits' : queue'[k].of <= proc'.generation
    <3>1. \A k \in Exits : queue[k].of <= proc.generation + 1
      BY <2>0, <2>2
    <3>2. QED
      BY <1>0, <2>0, <2>1, <3>1
  <2>5. NoticesSound'
    BY <1>0, <1>1, <2>1, <2>3, <2>4, StartedProcess DEF NoticesSound, NoticesInOrder
  <2>6. Controller!Start
    BY <1>0, <1>1, <2>1, StartedProcess DEF Controller!Start, InQueue
  <2>7. QED
    BY <2>5, <2>6 DEF Controller!Next
<1>2. CASE StartFails
  <2>1. UNCHANGED <<queue, proc, hook>>
    BY <1>0, <1>2 DEF StartFails
  <2>2. QED
    BY <2>1, OutsidePromise DEF NoticesSound, Promised
<1>3. QED
  BY <1>1, <1>2 DEF RestartStarts

LEMMA AskPromised ==
    ASSUME NoticesSound, StopAsks
    PROVE  NoticesSound' /\ Controller!Ask
<1>1. /\ proc' \in Processes /\ proc'.generation = proc.generation
      /\ proc'.running = proc.running /\ proc'.owed = proc.owed
      /\ proc'.asked = TRUE /\ proc.running
      /\ queue' = queue /\ hook' \in [group : BOOLEAN, keys : SUBSET Nat]
  BY DEF StopAsks, NoticesSound, Processes
<1>2. InQueue' = InQueue /\ Exits' = Exits
  BY <1>1 DEF InQueue, Exits
<1>3. QED
  BY <1>1, <1>2 DEF NoticesSound, NoticesInOrder, Controller!Ask, InQueue

LEMMA ExitPromised ==
    ASSUME NoticesSound, TakeExit \/ TakeOldExit
    PROVE  NoticesSound' /\ Controller!Next
<1> DEFINE g == Head(queue).of
<1>0. queue # <<>> /\ queue' = Tail(queue) /\ Head(queue).type = "exit"
  BY DEF TakeExit, TakeOldExit, Receives
<1>1. /\ g \in InQueue /\ \A t \in InQueue : g <= t /\ t <= proc.generation
      /\ InQueue' = InQueue \ {g} /\ NoticesInOrder' /\ queue' \in Seq(Messages)
  BY <1>0, NoticeTaken
<1>2. Controller!Oldest(g)
  BY <1>1 DEF Controller!Oldest, InQueue
<1>3. \A k \in Exits' : queue'[k].of \in InQueue'
  BY DEF InQueue
<1>4. CASE TakeOldExit
  <2>1. g # proc.generation /\ UNCHANGED <<proc, hook>>
    BY <1>4 DEF TakeOldExit
  <2>2. NoticesSound'
    BY <1>1, <1>3, <2>1 DEF NoticesSound
  <2>3. proc'.asked = (proc.asked /\ g # proc.generation)
    BY <2>1 DEF NoticesSound, Processes
  <2>4. Controller!Take
    BY <1>1, <1>2, <2>1, <2>3 DEF Controller!Take, InQueue
  <2>5. QED
    BY <2>2, <2>4 DEF Controller!Next
<1>5. CASE TakeExit
  <2>1. g = proc.generation /\ ~proc.running /\ ~proc.owed
    BY <1>1, <1>5 DEF TakeExit, NoticesSound
  <2>2. PICK a : CleanUp(a)
    BY <1>5 DEF TakeExit
  <2>3. CASE Started(a)
    <3>1. \A t \in InQueue' : t <= proc.generation + 1 /\ t # proc.generation + 1
      <4>1. \A k \in Exits : queue[k].of \in Nat
        BY MessagesAre
      <4>2. \A t \in InQueue' : t \in Nat /\ t <= proc.generation
        BY <1>1, <4>1 DEF InQueue
      <4>3. proc.generation \in Nat
        BY <2>3, StartedProcess
      <4>4. QED
        BY <4>2, <4>3
    <3>2. NoticesSound'
      BY <1>1, <1>3, <2>3, <3>1, StartedProcess DEF NoticesSound
    <3>3. Controller!TakeAndStart
      BY <1>1, <1>2, <2>1, <2>3, StartedProcess DEF Controller!TakeAndStart, InQueue
    <3>4. QED
      BY <3>2, <3>3 DEF Controller!Next
  <2>4. CASE proc' = [proc EXCEPT !.asked = FALSE] /\ hook' = [hook EXCEPT !.keys = {}]
    <3>1. /\ proc' \in Processes /\ proc'.generation = proc.generation
          /\ proc'.running = proc.running /\ proc'.owed = proc.owed /\ proc'.asked = FALSE
          /\ hook' \in [group : BOOLEAN, keys : SUBSET Nat]
      BY <2>4 DEF NoticesSound, Processes
    <3>2. NoticesSound'
      BY <1>1, <1>3, <2>1, <3>1 DEF NoticesSound
    <3>3. Controller!Take
      BY <1>1, <1>2, <2>1, <3>1 DEF Controller!Take, InQueue
    <3>4. QED
      BY <3>2, <3>3 DEF Controller!Next
  <2>5. QED
    BY <2>2, <2>3, <2>4 DEF CleanUp
<1>6. QED
  BY <1>4, <1>5

LEMMA SeesPromised ==
    ASSUME NoticesSound, WaiterSees
    PROVE  NoticesSound' /\ Controller!End
<1>1. /\ proc' \in Processes /\ proc'.generation = proc.generation
      /\ proc.running /\ proc'.running = FALSE /\ proc'.owed = TRUE
      /\ proc'.asked = proc.asked /\ UNCHANGED <<queue, hook>>
  BY DEF WaiterSees, NoticesSound, Processes
<1>2. InQueue' = InQueue /\ Exits' = Exits
  BY <1>1 DEF InQueue, Exits
<1>3. QED
  BY <1>1, <1>2 DEF NoticesSound, NoticesInOrder, Controller!End, InQueue

LEMMA PostsPromised ==
    ASSUME NoticesSound, WaiterPosts
    PROVE  NoticesSound' /\ Controller!Tell
<1> DEFINE m == Exit(proc.generation)
<1>1. /\ proc' \in Processes /\ proc'.generation = proc.generation
      /\ proc'.running = proc.running /\ proc'.owed = FALSE /\ proc'.asked = proc.asked
      /\ proc.owed /\ ~proc.running /\ hook' = hook /\ proc.generation \in Nat
  BY DEF WaiterPosts, NoticesSound, Processes
<1>2. queue' = Append(queue, m) /\ m \in Messages /\ m.type = "exit" /\ m.of = proc.generation
  BY <1>1 DEF WaiterPosts, Post, Exit, Messages
<1> HIDE DEF m
<1>3. /\ \A k \in Exits : k \in Exits' /\ queue'[k] = queue[k] /\ k < Len(queue) + 1
      /\ \A k \in Exits' : k \in Exits \/ (k = Len(queue) + 1 /\ queue'[k] = m)
      /\ Len(queue) + 1 \in Exits' /\ queue'[Len(queue) + 1] = m
      /\ queue' \in Seq(Messages)
  BY <1>2, ExitsBefore
<1>4. InQueue' = InQueue \cup {proc.generation}
  <2>1. Len(queue) + 1 \in Exits' /\ queue'[Len(queue) + 1].of = proc.generation
    BY <1>2, <1>3
  <2>2. \A k \in Exits' : k \in Exits \/ queue'[k].of = proc.generation
    BY <1>2, <1>3
  <2>3. QED
    BY <1>3, <2>1, <2>2 DEF InQueue
<1>5. proc.generation \notin InQueue
  BY <1>1 DEF NoticesSound
<1>6. \A k \in Exits : queue[k].of < proc.generation
  <2>1. \A k \in Exits : queue[k].of # proc.generation
    BY <1>5 DEF InQueue
  <2>2. QED
    BY <1>1, <2>1, MessagesAre DEF NoticesSound
<1>7. \A j, k \in Exits' : j < k => queue'[j].of < queue'[k].of
  <2> SUFFICES ASSUME NEW j \in Exits', NEW k \in Exits', j < k
               PROVE  queue'[j].of < queue'[k].of
    OBVIOUS
  <2>0. Len(queue) \in Nat /\ Exits \subseteq Nat
    BY MessagesAre
  <2>1. CASE k \in Exits
    <3>1. j \in Exits
      BY <1>3, <2>0, <2>1
    <3>2. QED
      BY <1>3, <2>1, <3>1 DEF NoticesSound, NoticesInOrder
  <2>2. CASE k = Len(queue) + 1 /\ queue'[k] = m
    <3>1. j \in Exits
      BY <1>3, <2>0, <2>2
    <3>2. queue'[j] = queue[j] /\ queue[j].of < proc.generation /\ queue'[k].of = proc.generation
      BY <1>2, <1>3, <1>6, <2>2, <3>1
    <3>3. QED
      BY <3>2
  <2>3. QED
    BY <1>3, <2>1, <2>2
<1>8. \A k \in Exits' : queue'[k].of <= proc'.generation
  <2>1. \A k \in Exits : queue'[k].of <= proc.generation
    BY <1>3 DEF NoticesSound
  <2>2. m.of <= proc.generation
    BY <1>1, <1>2
  <2>3. QED
    BY <1>1, <1>3, <2>1, <2>2
<1>9. NoticesSound'
  BY <1>1, <1>3, <1>7, <1>8 DEF NoticesSound, NoticesInOrder
<1>10. QED
  BY <1>1, <1>4, <1>5, <1>9 DEF Controller!Tell, InQueue

\* Settings, talk, keys and the messages about them are none of the controller's business.
LEMMA RestPromised ==
    ASSUME NoticesSound,
           \/ ChangeSettings \/ RestartFinds \/ StopPending \/ Talk \/ Keys
           \/ TakeGroup \/ TakePrivate \/ CoreEnds \/ UNCHANGED vars
    PROVE  NoticesSound' /\ UNCHANGED Controller!vars
<1>0. /\ proc \in Processes /\ hook \in [group : BOOLEAN, keys : SUBSET Nat]
      /\ Indices \subseteq Nat /\ proc.generation \in Nat
  BY DEF NoticesSound, Processes, Indices
<1>1. CASE ChangeSettings
  <2>1. UNCHANGED <<proc, queue>> /\ (hook' = hook \/ hook' = [hook EXCEPT !.keys = {}])
    BY <1>1 DEF ChangeSettings, ChangeDevice, ChangeLevel, AddContact, RemoveContact
  <2>2. hook' \in [group : BOOLEAN, keys : SUBSET Nat]
    BY <1>0, <2>1
  <2>3. QED
    BY <1>0, <2>1, <2>2, OutsidePromise DEF Promised
<1>2. CASE RestartFinds \/ StopPending \/ UNCHANGED vars
  <2>1. UNCHANGED <<proc, queue, hook>>
    BY <1>2 DEF RestartFinds, StopPending, vars
  <2>2. QED
    BY <1>0, <2>1, OutsidePromise DEF Promised
<1>3. CASE Talk
  <2>1. UNCHANGED <<proc, queue, hook>>
    BY <1>3 DEF Talk, ButtonDown, ButtonUp, ClickContinuous, SetSource, MouseUp, MouseDown, Latch
  <2>2. QED
    BY <1>0, <2>1, OutsidePromise DEF Promised
<1>4. CASE Keys
  <2> DEFINE posted == /\ proc' = proc /\ hook' \in [group : BOOLEAN, keys : SUBSET Nat]
                       /\ \E m \in Messages : m.type # "exit" /\ queue' = Append(queue, m)
  <2>1. posted
    <3>1. \A on \in BOOLEAN : Group(on) \in Messages /\ Group(on).type # "exit"
      BY DEF Group, Messages
    <3>2. \A i \in Nat, on \in BOOLEAN : Private(i, on) \in Messages /\ Private(i, on).type # "exit"
      BY DEF Private, Messages
    <3>3. CASE GroupKeyDown
      BY <1>0, <3>1, <3>3 DEF GroupKeyDown, Post
    <3>4. CASE GroupKeyUp
      BY <1>0, <3>1, <3>4 DEF GroupKeyUp, Post
    <3>5. ASSUME NEW i \in Indices, ContactKeyDown(i) PROVE posted
      BY <1>0, <3>2, <3>5 DEF ContactKeyDown, Post
    <3>6. ASSUME NEW i \in hook.keys, ContactKeyUp(i) PROVE posted
      BY <1>0, <3>2, <3>6 DEF ContactKeyUp, Post
    <3>7. QED
      BY <1>4, <3>3, <3>4, <3>5, <3>6 DEF Keys
  <2>2. QED
    BY <1>0, <2>1, OutsidePromise DEF Promised
<1>5. CASE TakeGroup \/ TakePrivate
  <2>1. /\ UNCHANGED <<proc, hook>>
        /\ queue # <<>> /\ queue' = Tail(queue) /\ Head(queue).type # "exit"
    BY <1>5 DEF TakeGroup, TakePrivate, Receives, SetSource
  <2>2. QED
    BY <1>0, <2>1, OutsidePromise DEF Promised
<1>6. CASE CoreEnds
  <2>1. UNCHANGED <<queue, hook>> /\ proc' = [proc EXCEPT !.alive = FALSE]
    BY <1>6 DEF CoreEnds
  <2>2. proc' \in Processes /\ UNCHANGED Promised
    BY <1>0, <2>1 DEF Processes, Promised
  <2>3. QED
    BY <1>0, <2>1, <2>2, OutsidePromise
<1>7. QED
  BY <1>1, <1>2, <1>3, <1>4, <1>5, <1>6

LEMMA InitPromised == Init => NoticesSound /\ Controller!Init
<1> SUFFICES ASSUME Init PROVE NoticesSound /\ Controller!Init
  OBVIOUS
<1>1. queue = <<>> /\ queue \in Seq(Messages) /\ DOMAIN queue = {}
  BY DEF Init
<1>2. Exits = {} /\ InQueue = {}
  BY <1>1 DEF Exits, InQueue
<1>3. QED
  BY <1>1, <1>2 DEF Init, NoticesSound, NoticesInOrder, Controller!Init, Processes, InQueue

LEMMA NextPromised ==
    NoticesSound /\ [Next]_vars => NoticesSound' /\ [Controller!Next]_Controller!vars
<1> SUFFICES ASSUME NoticesSound, [Next]_vars
             PROVE  NoticesSound' /\ [Controller!Next]_Controller!vars
  OBVIOUS
<1>1. CASE \/ ChangeSettings \/ RestartFinds \/ StopPending \/ Talk \/ Keys
           \/ TakeGroup \/ TakePrivate \/ CoreEnds \/ UNCHANGED vars
  BY <1>1, RestPromised
<1>2. CASE RestartStarts
  BY <1>2, StartPromised
<1>3. CASE StopAsks \/ TakeExit \/ TakeOldExit \/ WaiterSees \/ WaiterPosts
  BY <1>3, AskPromised, ExitPromised, SeesPromised, PostsPromised DEF Controller!Next
<1>4. QED
  BY <1>1, <1>2, <1>3 DEF Next, RestartCore, TakeMessage, Process

\* The window relies on no more of the Core than the controller keeps, in whatever order its
\* events come (start_core, stop_core, cleanup_finished_process).
THEOREM WithinThePromise == Spec => UsesController
<1>1. NoticesSound => NoticesInOrder
  BY DEF NoticesSound
<1>2. QED
  BY <1>1, InitPromised, NextPromised, PTL DEF Spec, UsesController, Controller!Spec
=============================================================================
