----------------------------- MODULE JitterStats -----------------------------
(***************************************************************************)
(* The jitter buffer together with the counters it publishes in            *)
(* JitterStats: every operation of JitterBuffer with what it adds to       *)
(* stats_.  The counters feed the telemetry, the diagnostics summary and   *)
(* the tests, so they have to balance whatever the network does.           *)
(*                                                                         *)
(* They grow for ever, so of those that have to balance the balance is     *)
(* kept.  late_or_duplicate_packets and render_events, which count calls   *)
(* and stale packets together, are left out.                               *)
(***************************************************************************)
EXTENDS JitterBuffer, FiniteSets

VARIABLES
    balance,    \* of frames_pushed against rendered, underrun and overflow_dropped frames and
                \* those a restart threw away; of the packets_pushed and sequence_gaps since
                \* the session began
    asked,      \* output.size() of the pop_into call in progress
    first       \* history: first packet of the session

statVars == <<balance, asked, first>>

Balanced == [frames |-> 0, packets |-> 0]

\* The balance after the counters were raised by gain, of one that was before
Add(gain, before) ==
    LET Of(c) == IF c \in DOMAIN gain THEN gain[c] ELSE 0
    IN  balance' = [frames |-> before.frames + Of("frames_pushed") + Of("underrun_frames")
                                - Of("rendered_frames") - Of("overflow_dropped"),
                    packets |-> before.packets + Of("packets_pushed") + Of("sequence_gaps")]

Size(s) == FrameStart[s + 1] - FrameStart[s]

\* Frames held in the ring and in pending_packets_
Held == Len(ready) + Cardinality(UNION {FramesOf(s) : s \in pending})

\* Mutated form: only the old frames that made room are counted, not the new ones skipped.
OverflowOfOld(n, a, b) == Min({n, Max({0, n + FrameStart[b] - FrameStart[a] - MaxFrames})})

\* overflow_dropped_frames of appending packets a .. b-1 to a ring that holds n frames
Overflow(n, a, b) == Max({0, n + FrameStart[b] - FrameStart[a] - MaxFrames})

-----------------------------------------------------------------------------
StatsInit == Init /\ balance = Balanced /\ asked = 0 /\ first = 0

\* The balance when a session ends: what is held is thrown away.
Discarded == [frames |-> balance.frames - Held, packets |-> 0]

\* What an accepted packet adds, in a buffer that expected e and held n frames.
CountAccepted(s, e, n, before) ==
    Add([packets_pushed |-> 1,
         frames_pushed |-> Size(s),
         overflow_dropped |-> IF s = e THEN Overflow(n, e, expected') ELSE 0], before)

CountPushFirst(s) ==
    /\ PushFirst(s) /\ CountAccepted(s, s, Len(ready), Discarded)
    /\ first' = s /\ UNCHANGED asked

CountPushRestart(s) ==
    /\ PushRestart(s) /\ CountAccepted(s, s, 0, Discarded)
    /\ first' = s /\ UNCHANGED asked

CountPushInWindow(s) ==
    /\ PushInWindow(s) /\ CountAccepted(s, expected, Len(ready), balance)
    /\ UNCHANGED <<asked, first>>

CountPushRejected(s) == PushRejected(s) /\ UNCHANGED statVars

CountStartupSilence(n) ==
    /\ PopStartupSilence(n)
    /\ Add([underrun_frames |-> n, rendered_frames |-> n], balance)
    /\ UNCHANGED <<asked, first>>

CountPopBegin(n) == PopBegin(n) /\ asked' = n /\ UNCHANGED <<balance, first>>

\* rendered_frames counts the whole output when the call returns.
CountPopCopy ==
    /\ PopCopy
    /\ Add([rendered_frames |-> IF missing' = 0 THEN asked ELSE 0], balance)
    /\ asked' = IF missing' = 0 THEN 0 ELSE asked
    /\ UNCHANGED first

\* Mutated form: the call ends with silence although packets wait behind the hole.
CountSilenceAtGap ==
    /\ missing > 0 /\ ready = <<>>
    /\ have /\ Waiting # {}
    /\ missing' = 0
    /\ Add([underrun_frames |-> missing, rendered_frames |-> asked], balance)
    /\ asked' = 0
    /\ UNCHANGED <<expected, have, pending, ready, started, cursor, first>>

CountPopSkipGap ==
    /\ PopSkipGap
    /\ Add([sequence_gaps |-> Min(Waiting) - expected,
            overflow_dropped |-> Overflow(0, Min(Waiting), expected')], balance)
    /\ UNCHANGED <<asked, first>>

CountPopUnderrun ==
    /\ PopUnderrun
    /\ Add([underrun_frames |-> missing, rendered_frames |-> asked], balance)
    /\ asked' = 0 /\ UNCHANGED first

\* reset() keeps every counter.
CountReset ==
    /\ Reset
    /\ balance' = Discarded /\ first' = 0
    /\ UNCHANGED asked

CountPush(s) ==
    CountPushFirst(s) \/ CountPushRestart(s) \/ CountPushInWindow(s) \/ CountPushRejected(s)

StatsNext ==
    \/ \E s \in Packet : CountPush(s)
    \/ \E n \in PopSizes : CountStartupSilence(n) \/ CountPopBegin(n)
    \/ CountPopCopy \/ CountPopSkipGap \/ CountPopUnderrun
    \/ CountReset

\* The render loop goes on as in FairSpec.
StatsSpec ==
    /\ StatsInit /\ [][StatsNext]_<<vars, statVars>>
    /\ WF_<<vars, statVars>>(\E n \in PopSizes : CountPopBegin(n))
    /\ WF_<<vars, statVars>>(CountPopCopy \/ CountPopSkipGap \/ CountPopUnderrun)

-----------------------------------------------------------------------------
\* Every frame that was accepted is, once no call is in progress, in exactly one place:
\* played (rendered and not silence), in the ring, pending, dropped by overflow, or thrown
\* away by a restart.
FramesConserved == Idle => balance.frames = Held

\* Every packet number from the first of the session to the expected one was either
\* accepted once or counted once in sequence_gaps, never both: a packet that comes after
\* its number was given up is not counted, or played, as received.
PacketsAccounted == balance.packets = (expected - first) + Cardinality(pending)

\* No path of push, promote, skip, overflow or restart loses or doubles a frame, or counts a
\* packet twice or never.
CountersBalance == FramesConserved /\ PacketsAccounted
=============================================================================
