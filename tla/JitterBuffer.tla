---------------------------- MODULE JitterBuffer ----------------------------
(***************************************************************************)
(* The per-peer jitter buffer (core/jitter_buffer.cpp).  The receiver      *)
(* thread pushes numbered packets in whatever order the network delivers   *)
(* them; the render thread pops a fixed number of frames per call.         *)
(*                                                                         *)
(* Audio is abstracted to positions in the sender's stream: packet s holds *)
(* the frames FrameStart[s] .. FrameStart[s+1]-1, so `pending' only has to *)
(* record WHICH packets wait, and `ready' is the sequence of frame         *)
(* positions in the ring.  The mutex makes push and reset single steps.    *)
(* pop_into loops over chunks while it holds the mutex: each iteration is  *)
(* a step, `missing' counts the frames the call still owes and, while it   *)
(* is not 0, excludes every other operation.                               *)
(***************************************************************************)
EXTENDS Integers, Sequences, FiniteSetsExt

CONSTANTS
    LastSequence,     \* packet numbers are 0 .. LastSequence
    FrameStart,       \* FrameStart[s]: position of the first frame of packet s
    StartThreshold,   \* start_threshold_frames_
    MaxFrames,        \* maximum_buffer_frames_
    RestartGap,       \* kSequenceRestartPacketGap
    PopSizes          \* frame counts the render thread asks for

Packet == 0 .. LastSequence
Position == 0 .. (FrameStart[LastSequence + 1] - 1)

ASSUME JitterAssumption ==
    /\ LastSequence \in Nat
    /\ FrameStart \in [0 .. (LastSequence + 1) -> Nat]
    /\ \A s, t \in 0 .. (LastSequence + 1) : s < t => FrameStart[s] < FrameStart[t]
    /\ StartThreshold \in Nat
    /\ MaxFrames \in Nat \ {0}
    /\ RestartGap \in Nat
    /\ PopSizes \subseteq Nat \ {0}

VARIABLES
    expected,   \* expected_sequence_
    have,       \* have_sequence_
    pending,    \* keys of pending_packets_
    ready,      \* contents of the ready ring, oldest frame first
    started,    \* stats_.started
    missing,    \* output.size() - written of the pop_into call in progress
    cursor      \* history: one past the last frame played since the last restart

vars == <<expected, have, pending, ready, started, missing, cursor>>

-----------------------------------------------------------------------------
\* Mutated forms (each replaces one definition below, to show that a property notices):
\* the ring refuses the newest frames instead of the oldest; a number far ahead is not
\* taken for a restart.
OldestKept(frames) ==
    IF Len(frames) <= MaxFrames THEN frames ELSE SubSeq(frames, 1, MaxFrames)
FarBehind(s) == s + RestartGap < expected

\* The frames of packets a .. b-1, in stream order.
Frames(a, b) == [i \in 1 .. (FrameStart[b] - FrameStart[a]) |-> FrameStart[a] + i - 1]

\* The frames of packet s, as a set
FramesOf(s) == FrameStart[s] .. (FrameStart[s + 1] - 1)

\* append_ready_locked: when the ring is full the oldest frames make room.
Newest(frames) ==
    IF Len(frames) <= MaxFrames
    THEN frames
    ELSE SubSeq(frames, Len(frames) - MaxFrames + 1, Len(frames))

\* The first number from e on whose packet does not wait: where promote_locked stops.
NextHole(e, waiting) ==
    CHOOSE n \in e .. (LastSequence + 1) : n \notin waiting /\ e .. (n - 1) \subseteq waiting

\* Append packet e, or promote it from `waiting', with every packet that follows on it.
Promote(e, waiting, frames) ==
    LET n == NextHole(e + 1, waiting)
    IN  /\ expected' = n
        /\ pending' = waiting \ (e .. (n - 1))
        /\ ready' = Newest(frames \o Frames(e, n))

\* The second half of push, for a buffer that expects e and holds waiting and frames.
Accept(s, e, waiting, frames) ==
    /\ have' = TRUE
    /\ \/ s = e /\ Promote(e, waiting, frames)
       \/ /\ s # e
          /\ expected' = e
          /\ pending' = waiting \cup {s}
          /\ ready' = frames

\* More than RestartGap numbers away: taken for a new sender session.
Far(s) == s + RestartGap < expected \/ s > expected + RestartGap

Idle == missing = 0     \* mutex_ is free

-----------------------------------------------------------------------------
Init ==
    /\ expected = 0
    /\ have = FALSE
    /\ pending = {}
    /\ ready = <<>>
    /\ started = FALSE
    /\ missing = 0
    /\ cursor = 0

PushFirst(s) ==
    /\ Idle /\ ~have
    /\ Accept(s, s, pending, ready)
    /\ UNCHANGED <<started, missing, cursor>>

\* Mutated form: the restart forgets to empty the ring.
RestartKeepsRing(s) ==
    /\ Idle /\ have /\ Far(s)
    /\ Accept(s, s, {}, ready)
    /\ started' = FALSE
    /\ cursor' = 0
    /\ UNCHANGED missing

\* reset_sequence_locked, then the packet is the first of the new session.
PushRestart(s) ==
    /\ Idle /\ have /\ Far(s)
    /\ Accept(s, s, {}, <<>>)
    /\ started' = FALSE
    /\ cursor' = 0
    /\ UNCHANGED missing

PushInWindow(s) ==
    /\ Idle /\ have /\ ~Far(s)
    /\ s >= expected /\ s \notin pending
    /\ Accept(s, expected, pending, ready)
    /\ UNCHANGED <<started, missing, cursor>>

\* Late, or already waiting: only counted.
PushRejected(s) ==
    /\ Idle /\ have /\ ~Far(s)
    /\ s < expected \/ s \in pending
    /\ UNCHANGED vars

\* pop_into before playback has started: silence until the threshold is buffered.
PopStartupSilence(n) ==
    /\ Idle /\ ~started
    /\ Len(ready) < StartThreshold
    /\ UNCHANGED vars

PopBegin(n) ==
    /\ Idle
    /\ started \/ Len(ready) >= StartThreshold
    /\ started' = TRUE
    /\ missing' = n
    /\ UNCHANGED <<expected, have, pending, ready, cursor>>

\* copy_ready_locked: play what is ready, up to what the call still needs.
PopCopy ==
    /\ missing > 0 /\ ready # <<>>
    /\ LET n == IF missing < Len(ready) THEN missing ELSE Len(ready)
       IN  /\ missing' = missing - n
           /\ ready' = SubSeq(ready, n + 1, Len(ready))
           /\ cursor' = ready[n] + 1
    /\ UNCHANGED <<expected, have, pending, started>>

\* pending_packets_ without the packets pop_into erases as stale
Waiting == {s \in pending : s >= expected}

\* Nothing ready: give the missing packets up and go on with the first that waits.
PopSkipGap ==
    /\ missing > 0 /\ ready = <<>>
    /\ have /\ Waiting # {}
    /\ Promote(Min(Waiting), Waiting, <<>>)
    /\ UNCHANGED <<have, started, missing, cursor>>

\* Nothing ready and nothing waiting: the rest of the output stays silent.
PopUnderrun ==
    /\ missing > 0 /\ ready = <<>>
    /\ Waiting = {}
    /\ missing' = 0
    /\ pending' = {}
    /\ UNCHANGED <<expected, have, ready, started, cursor>>

Reset ==
    /\ Idle
    /\ pending' = {}
    /\ ready' = <<>>
    /\ expected' = 0
    /\ have' = FALSE
    /\ started' = FALSE
    /\ cursor' = 0
    /\ UNCHANGED missing

Push(s) == PushFirst(s) \/ PushRestart(s) \/ PushInWindow(s) \/ PushRejected(s)
PopLoop == PopCopy \/ PopSkipGap \/ PopUnderrun

Next ==
    \/ \E s \in Packet : Push(s)
    \/ \E n \in PopSizes : PopStartupSilence(n) \/ PopBegin(n)
    \/ PopLoop
    \/ Reset

Spec == Init /\ [][Next]_vars

\* The render loop calls pop_into on every device period and a call runs to its end.
FairSpec ==
    /\ Spec
    /\ WF_vars(\E n \in PopSizes : PopBegin(n))
    /\ WF_vars(PopLoop)

-----------------------------------------------------------------------------
TypeOK ==
    /\ expected \in 0 .. (LastSequence + 1)
    /\ have \in BOOLEAN
    /\ pending \subseteq Packet
    /\ ready \in Seq(Position)
    /\ started \in BOOLEAN
    /\ missing \in Nat
    /\ cursor \in Nat

\* However the network reorders, repeats or drops packets, whatever waits is ahead of
\* the expected packet and at most RestartGap away.  So pending_packets_ cannot grow
\* without bound while playback waits for a hole, and the loop in pop_into that
\* erases stale packets never finds one.
PendingInWindow ==
    \A s \in pending : have /\ expected < s /\ s <= expected + RestartGap

\* The ring holds at most maximum_buffer_frames_.
ReadyFits == Len(ready) <= MaxFrames

\* The ring is one unbroken stretch of the sender's stream that ends where the expected
\* packet starts, whatever was lost, late or dropped by overflow: no frame is repeated,
\* missing or out of order inside it.
ReadyContiguous ==
    \A i \in 1 .. Len(ready) : ready[i] = FrameStart[expected] - Len(ready) + i - 1

\* No frame that was played, or that playback has already passed, is ever played again.
NeverReplayed ==
    /\ have \/ cursor = 0
    /\ cursor + Len(ready) <= FrameStart[expected]

\* What is played is the sender's stream in its order, and each frame once at the most.
InOrderOnce == ReadyContiguous /\ NeverReplayed

\* Once playback runs, a packet that waits behind a lost one is not held for ever: it is
\* played, or given up, because pop_into skips the hole when the ring runs dry.
HolesDoNotBlock ==
    \A s \in Packet :
        (started /\ s \in pending) ~> (s \notin pending)

-----------------------------------------------------------------------------
\* What the buffer promises its reader: an ordered set of frames, played oldest first.
Playout == INSTANCE OrderedPlayout WITH
    Packets <- {FramesOf(s) : s \in Packet},
    held <- {ready[i] : i \in 1 .. Len(ready)} \cup UNION {FramesOf(s) : s \in pending}

\* Every step of the buffer is a step of the ordered playout, or leaves it unchanged.
ImplementsPlayout == Playout!Spec
=============================================================================
