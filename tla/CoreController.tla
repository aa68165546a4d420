--------------------------- MODULE CoreController ---------------------------
(***************************************************************************)
(* The GUI's hold on its Core process (gui/core_process_controller.cpp):   *)
(* the GUI thread starts, asks to stop and cleans up; one thread waits for *)
(* the process to end, one reads its telemetry and one, the fallback, ends *)
(* a process that does not answer "shutdown".  The threads talk to the GUI *)
(* thread by window messages.                                              *)
(*                                                                         *)
(* A process is named by the generation it was started as.  Pipes of the   *)
(* log are left out: their reader differs from that of the telemetry only  *)
(* in what it posts.                                                       *)
(***************************************************************************)
EXTENDS Integers, Sequences, FiniteSets

CONSTANT LastGeneration         \* bound on generation_

ASSUME ControllerAssumption == LastGeneration \in Nat

VARIABLES
    alive,          \* the processes that run
    left,           \* telemetry the Core wrote and nobody has read
    generation,     \* generation_
    running,        \* running_
    stopRequested,  \* stop_requested_
    waiter,         \* wait_thread_
    reader,         \* telemetry_thread_
    fallback,       \* fallback_thread_: the process it watches, or 0
    unseen,         \* the parser's snapshot has more than the GUI took
    pending,        \* telemetry_notification_pending_
    queue,          \* messages posted to the GUI thread
    call            \* where the GUI thread is in a call of the controller

threads == <<waiter, reader, fallback>>
telemetry == <<left, unseen, pending>>
flags == <<generation, running, stopRequested>>
vars == <<alive, threads, telemetry, flags, queue, call>>

Idle == call = "idle"

-----------------------------------------------------------------------------
Init ==
    /\ alive = {} /\ left = FALSE
    /\ generation = 0 /\ running = FALSE /\ stopRequested = FALSE
    /\ waiter = "none" /\ reader = "none" /\ fallback = 0
    /\ unseen = FALSE /\ pending = FALSE
    /\ queue = <<>> /\ call = "idle"

\* A thread that is not joinable, or has returned
Finished(thread) == thread \in {"none", "done"}

\* join_workers returns
Joined == Finished(waiter) /\ Finished(reader) /\ fallback = 0

\* start
StartCall ==
    /\ Idle /\ ~running /\ generation < LastGeneration
    /\ call' = "start"
    /\ UNCHANGED <<alive, threads, telemetry, flags, queue>>

StartDone ==
    /\ call = "start" /\ Joined
    /\ generation' = generation + 1
    /\ alive' = alive \cup {generation + 1}
    /\ left' = FALSE /\ unseen' = FALSE /\ pending' = FALSE
    /\ running' = TRUE /\ stopRequested' = FALSE
    /\ waiter' = "waits" /\ reader' = "reads"
    /\ call' = "idle"
    /\ UNCHANGED <<fallback, queue>>

\* A pipe or the process cannot be created.
StartFails ==
    /\ call = "start" /\ Joined
    /\ call' = "idle"
    /\ waiter' = "none" /\ reader' = "none"
    /\ UNCHANGED <<alive, fallback, telemetry, flags, queue>>

\* Its threads cannot be created: the process is ended at once, without a notice.
StartUndone ==
    /\ call = "start" /\ Joined
    /\ generation' = generation + 1
    /\ left' = FALSE /\ unseen' = FALSE /\ pending' = FALSE
    /\ running' = FALSE /\ stopRequested' = FALSE
    /\ waiter' = "none" /\ reader' = "none"
    /\ call' = "idle"
    /\ UNCHANGED <<alive, fallback, queue>>

-----------------------------------------------------------------------------
\* request_stop, up to the exchange of stop_requested_
AskCall ==
    /\ Idle
    /\ call' = IF running /\ ~stopRequested THEN "ask" ELSE "idle"
    /\ stopRequested' = (stopRequested \/ running)
    /\ UNCHANGED <<alive, threads, telemetry, generation, running, queue>>

\* The rest of it: "shutdown" is written, and the fallback watches the process.
AskDone ==
    /\ call \in {"ask", "leaving"}
    /\ fallback = 0
    /\ fallback' = generation
    /\ call' = IF call = "ask" THEN "idle" ELSE "await"
    /\ UNCHANGED <<alive, waiter, reader, telemetry, flags, queue>>

FallbackSees ==
    /\ fallback \notin alive \cup {0}
    /\ fallback' = 0
    /\ UNCHANGED <<alive, waiter, reader, telemetry, flags, queue, call>>

\* Mutated form: a process that was asked to stop is left alone.
FallbackTrusts ==
    /\ fallback \in alive
    /\ alive' = IF generation = fallback /\ running /\ ~stopRequested
                THEN alive \ {fallback} ELSE alive
    /\ fallback' = 0
    /\ UNCHANGED <<waiter, reader, telemetry, flags, queue, call>>

\* The time a process has to stop is over.
FallbackKills ==
    /\ fallback \in alive
    /\ alive' = IF generation = fallback /\ running THEN alive \ {fallback} ELSE alive
    /\ fallback' = 0
    /\ UNCHANGED <<waiter, reader, telemetry, flags, queue, call>>

-----------------------------------------------------------------------------
\* A Core stops when asked, or of itself, or hangs.
CoreEnds ==
    /\ alive # {}
    /\ alive' = {}
    /\ UNCHANGED <<threads, telemetry, flags, queue, call>>

CoreWrites ==
    /\ generation \in alive
    /\ left' = TRUE
    /\ UNCHANGED <<alive, threads, unseen, pending, flags, queue, call>>

Exit(g) == [type |-> "exit", of |-> g]
News(g) == [type |-> "telemetry", of |-> g]

\* wait_for_exit
WaiterSees ==
    /\ waiter = "waits" /\ generation \notin alive
    /\ running' = FALSE
    /\ waiter' = "saw"
    /\ UNCHANGED <<alive, reader, fallback, telemetry, generation, stopRequested, queue, call>>

WaiterPosts ==
    /\ waiter = "saw"
    /\ queue' = Append(queue, Exit(generation))
    /\ waiter' = "done"
    /\ UNCHANGED <<alive, reader, fallback, telemetry, flags, call>>

\* read_telemetry
ReaderReads ==
    /\ reader = "reads" /\ left
    /\ left' = FALSE /\ unseen' = TRUE /\ pending' = TRUE
    /\ reader' = IF pending THEN "reads" ELSE "notifies"
    /\ UNCHANGED <<alive, waiter, fallback, flags, queue, call>>

ReaderPosts ==
    /\ reader = "notifies"
    /\ queue' = Append(queue, News(generation))
    /\ reader' = "reads"
    /\ UNCHANGED <<alive, waiter, fallback, telemetry, flags, call>>

ReaderEnds ==
    /\ reader = "reads" /\ ~left /\ generation \notin alive
    /\ reader' = "done"
    /\ UNCHANGED <<alive, waiter, fallback, telemetry, flags, queue, call>>

-----------------------------------------------------------------------------
Receives(type) == Idle /\ queue # <<>> /\ Head(queue).type = type /\ queue' = Tail(queue)

\* Mutated form: the snapshot is taken, but the next is not announced.
TakeUnannounced ==
    /\ Receives("telemetry")
    /\ IF Head(queue).of = generation
       THEN unseen' = FALSE
       ELSE UNCHANGED <<unseen>>
    /\ UNCHANGED <<alive, threads, left, pending, flags, call>>

\* WM_APP_CORE_TELEMETRY: take_latest_telemetry
TakeTelemetry ==
    /\ Receives("telemetry")
    /\ IF Head(queue).of = generation
       THEN unseen' = FALSE /\ pending' = FALSE
       ELSE UNCHANGED <<unseen, pending>>
    /\ UNCHANGED <<alive, threads, left, flags, call>>

\* Mutated form: a notice of any generation is taken for one of the present process.
FinalizeAny ==
    /\ Receives("exit")
    /\ call' = "finalize"
    /\ UNCHANGED <<alive, threads, telemetry, flags>>

\* WM_APP_CORE_EXIT: finalize of the process that ended, unless another was started since
FinalizeCall ==
    /\ Receives("exit")
    /\ call' = IF Head(queue).of = generation THEN "finalize" ELSE "idle"
    /\ UNCHANGED <<alive, threads, telemetry, flags>>

FinalizeDone ==
    /\ call \in {"finalize", "finish"} /\ Joined
    /\ waiter' = "none" /\ reader' = "none"
    /\ running' = FALSE /\ stopRequested' = FALSE
    /\ call' = IF call = "finalize" THEN "idle" ELSE "gone"
   
    /\ UNCHANGED <<alive, fallback, telemetry, generation, queue>>

\* shutdown_and_wait, when the window is destroyed
Leave ==
    /\ Idle
    /\ call' = IF ~running THEN "finish" ELSE IF stopRequested THEN "await" ELSE "leaving"
    /\ stopRequested' = (stopRequested \/ running)
    /\ UNCHANGED <<alive, threads, telemetry, generation, running, queue>>

LeaveAwaits ==
    /\ call = "await" /\ generation \notin alive
    /\ call' = "finish"
    /\ UNCHANGED <<alive, threads, telemetry, flags, queue>>

LeaveKills ==
    /\ call = "await" /\ generation \in alive
    /\ alive' = alive \ {generation}
    /\ call' = "finish"
    /\ UNCHANGED <<threads, telemetry, flags, queue>>

-----------------------------------------------------------------------------
GuiNext ==
    \/ StartCall \/ StartDone \/ StartFails \/ StartUndone
    \/ AskCall \/ AskDone
    \/ TakeTelemetry \/ FinalizeCall \/ FinalizeDone
    \/ Leave \/ LeaveAwaits \/ LeaveKills
WaiterNext == WaiterSees \/ WaiterPosts
ReaderNext == ReaderReads \/ ReaderPosts \/ ReaderEnds
FallbackNext == FallbackSees \/ FallbackKills
CoreNext == CoreEnds \/ CoreWrites

Next == GuiNext \/ WaiterNext \/ ReaderNext \/ FallbackNext \/ CoreNext

Spec == Init /\ [][Next]_vars

\* The controller's threads are scheduled and every wait of theirs has a limit;
\* a Core owes nothing.  The GUI thread finishes its calls and takes its messages.
Fairness ==
    /\ WF_vars(WaiterNext) /\ WF_vars(ReaderNext) /\ WF_vars(FallbackNext)
    /\ WF_vars(StartDone \/ StartFails \/ StartUndone)
    /\ WF_vars(AskDone) /\ WF_vars(FinalizeDone)
    /\ WF_vars(LeaveAwaits \/ LeaveKills)
    /\ SF_vars(TakeTelemetry) /\ SF_vars(FinalizeCall)

FairSpec == Spec /\ Fairness

-----------------------------------------------------------------------------
TypeOK ==
    /\ generation \in 0 .. LastGeneration
    /\ alive \subseteq 1 .. LastGeneration
    /\ fallback \in 0 .. LastGeneration
    /\ {left, running, stopRequested, unseen, pending} \subseteq BOOLEAN
    /\ waiter \in {"none", "waits", "saw", "done"}
    /\ reader \in {"none", "reads", "notifies", "done"}
    /\ queue \in Seq([type : {"exit", "telemetry"}, of : 1 .. LastGeneration])
    /\ call \in {"idle", "start", "ask", "finalize", "leaving", "await", "finish", "gone"}

Exits == {i \in DOMAIN queue : queue[i].type = "exit"}

\* Each process has one notice, and the notices come in the order of the processes.
NoticesInOrder ==
    /\ \A i, j \in Exits : i < j => queue[i].of < queue[j].of
    /\ call = "finalize" => \A i \in Exits : generation < queue[i].of

\* A notice counts as taken when the call that handles it is over.
NoticesLeft ==
    {queue[i].of : i \in Exits} \cup (IF call = "finalize" THEN {generation} ELSE {})

Process == INSTANCE CoreProcess
    WITH asked <- stopRequested, owed <- (waiter = "saw"), notices <- NoticesLeft

\* The controller keeps what CoreProcess promises: the threads, the messages and the
\* calls of the GUI thread come down to one process after the other and a notice for
\* each.
ImplementsProcess == Process!Spec /\ []NoticesInOrder

\* A call of the controller that joins its threads is made about a process that
\* has ended: the GUI thread never waits for a Core that still works.  A notice
\* may be handled long after the next process was started, so the thread must
\* not join on every notice.
JoinsOnlyEnded ==
    call \in {"start", "finalize", "finish"} => generation \notin alive

\* What the GUI has not taken yet is announced, or about to be: one
\* notification stands for any number of snapshots, and none is lost between
\* the reader's test of the flag and the GUI's reset of it.
NewsAnnounced ==
    unseen /\ call # "gone" =>
        reader = "notifies" \/ \E i \in DOMAIN queue : queue[i] = News(generation)

-----------------------------------------------------------------------------
\* A stop that was asked for comes to its end, whether the Core obeys or hangs.
StopEnds == stopRequested ~> ~stopRequested

\* Every snapshot reaches the window, unless its process is gone or replaced.
NewsSeen == (unseen /\ Idle) ~> (~unseen \/ call = "gone")
=============================================================================
