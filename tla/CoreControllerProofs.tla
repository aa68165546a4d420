------------------------ MODULE CoreControllerProofs ------------------------
(***************************************************************************)
(* Proofs about the GUI's hold on its Core process, for any number of      *)
(* processes started one after the other.                                  *)
(***************************************************************************)
EXTENDS CoreController, TLAPS

Messages == [type : {"exit", "telemetry"}, of : 1 .. LastGeneration]

\* Only the present process runs, and its waiter waits for it as long as it does.
Watched ==
    /\ \A g \in alive : g = generation /\ waiter = "waits"
    /\ running <=> waiter = "waits"
    /\ generation = 0 => waiter = "none" /\ reader = "none"

\* An exit notice of the present process tells the truth.
NoticesTrue ==
    /\ \A i \in DOMAIN queue : queue[i].of <= generation
    /\ \A i \in DOMAIN queue : queue[i] = Exit(generation) => waiter # "waits"

\* What the calls of the GUI thread may rely on while they wait
CallsSound ==
    /\ call = "start" => ~running /\ generation < LastGeneration
    /\ call = "finalize" => ~running
    /\ call = "finish" => alive = {}

Posted == \E i \in DOMAIN queue : queue[i] = News(generation)
Announced ==
    /\ unseen => pending
    /\ pending => reader = "notifies" \/ Posted

IInv == TypeOK /\ Watched /\ NoticesTrue /\ CallsSound /\ Announced

\* What remains of the messages when one is taken off the front
LEMMA TailMessages ==
    ASSUME NEW q \in Seq(Messages), q # <<>>
    PROVE  /\ Tail(q) \in Seq(Messages) /\ Head(q) \in Messages
           /\ 1 \in DOMAIN q /\ Head(q) = q[1]
           /\ \A i \in DOMAIN Tail(q) : i + 1 \in DOMAIN q /\ Tail(q)[i] = q[i + 1]
           /\ \A i \in DOMAIN q : i = 1 \/ (i - 1 \in DOMAIN Tail(q) /\ Tail(q)[i - 1] = q[i])
  OBVIOUS

LEMMA QueueTyped ==
    ASSUME IInv
    PROVE  \A i \in DOMAIN queue : queue[i].of \in Nat /\ queue[i].of <= generation
<1>0. queue \in Seq(Messages)
  BY DEF IInv, TypeOK, Messages
<1>1. \A i \in DOMAIN queue : queue[i] \in Messages
  BY <1>0
<1>2. QED
  BY <1>1 DEF Messages, IInv, NoticesTrue

\* A message that is posted joins those already there.
LEMMA AppendMessages ==
    ASSUME NEW q \in Seq(Messages), NEW m \in Messages, NEW a, a = Append(q, m)
    PROVE  /\ a \in Seq(Messages)
           /\ Len(q) + 1 \in DOMAIN a /\ a[Len(q) + 1] = m
           /\ \A i \in DOMAIN q : i \in DOMAIN a /\ a[i] = q[i]
           /\ \A i \in DOMAIN a : a[i] = m \/ (i \in DOMAIN q /\ a[i] = q[i])
<1>1. a \in Seq(Messages) /\ Len(a) = Len(q) + 1 /\ Len(q) \in Nat
  OBVIOUS
<1>2. DOMAIN a = 1 .. Len(q) + 1 /\ DOMAIN q = 1 .. Len(q)
  BY <1>1
<1>3. a[Len(q) + 1] = m /\ \A i \in DOMAIN q : a[i] = q[i]
  OBVIOUS
<1>4. \A i \in DOMAIN a : i = Len(q) + 1 \/ i \in DOMAIN q
  BY <1>1, <1>2
<1>5. Len(q) + 1 \in DOMAIN a /\ \A i \in DOMAIN q : i \in DOMAIN a
  BY <1>1, <1>2
<1>6. \A i \in DOMAIN a : a[i] = m \/ (i \in DOMAIN q /\ a[i] = q[i])
  BY <1>3, <1>4
<1>7. QED
  BY <1>1, <1>3, <1>5, <1>6

LEMMA InitIInv == Init => IInv
<1> SUFFICES ASSUME Init PROVE IInv
  OBVIOUS
<1>1. queue = <<>> /\ DOMAIN queue = {} /\ queue \in Seq(Messages)
  <2>1. <<>> \in Seq(Messages) /\ Len(<<>>) = 0
    OBVIOUS
  <2>2. DOMAIN <<>> = {}
    OBVIOUS
  <2>3. queue = <<>>
    BY DEF Init
  <2>4. QED
    BY <2>1, <2>2, <2>3
<1>2. TypeOK
  <2>1. {left, running, stopRequested, unseen, pending} \subseteq BOOLEAN
    BY DEF Init
  <2>2. generation \in 0 .. LastGeneration /\ fallback \in 0 .. LastGeneration /\ alive = {}
    BY ControllerAssumption DEF Init
  <2>3. queue \in Seq([type : {"exit", "telemetry"}, of : 1 .. LastGeneration])
    BY <1>1 DEF Messages
  <2>4. QED
    BY <2>1, <2>2, <2>3 DEF Init, TypeOK
<1>3. Watched /\ NoticesTrue /\ CallsSound /\ Announced
  BY <1>1 DEF Init, Watched, NoticesTrue, CallsSound, Announced
<1>4. QED
  BY <1>2, <1>3 DEF IInv

LEMMA StepIInv == IInv /\ [Next]_vars => IInv'
<1> SUFFICES ASSUME IInv, [Next]_vars PROVE IInv'
  OBVIOUS
<1> USE ControllerAssumption DEF threads, telemetry, flags, Idle, Finished, Joined, Messages
<1>0. CASE UNCHANGED vars
  BY <1>0 DEF IInv, vars, TypeOK, Watched, NoticesTrue, CallsSound, Announced, Posted
<1>1. CASE StartCall
  <2>1. TypeOK'
    BY <1>1 DEF StartCall, IInv, TypeOK, Watched, CallsSound
  <2>2. Watched' /\ CallsSound'
    BY <1>1 DEF StartCall, IInv, TypeOK, Watched, CallsSound
  <2>3. NoticesTrue'
    BY <1>1 DEF StartCall, IInv, TypeOK, Watched, NoticesTrue, Exit
  <2>4. Announced'
    BY <1>1 DEF StartCall, IInv, TypeOK, Announced, Posted, News
  <2>5. QED
    BY <2>1, <2>2, <2>3, <2>4 DEF IInv
<1>2. CASE StartDone
  <2>1. generation \in Nat /\ generation + 1 \in 1 .. LastGeneration /\ generation' = generation + 1
    BY <1>2 DEF StartDone, IInv, TypeOK, CallsSound
  <2>2. alive = {} /\ queue' = queue
    BY <1>2 DEF StartDone, IInv, Watched
  <2>3. TypeOK'
    <3>1. alive' \subseteq 1 .. LastGeneration
      BY <1>2, <2>1, <2>2 DEF StartDone
    <3>2. generation' \in 0 .. LastGeneration
      BY <2>1
    <3>3. {left', running', stopRequested', unseen', pending'} \subseteq BOOLEAN
      BY <1>2 DEF StartDone
    <3>4. QED
      BY <1>2, <3>1, <3>2, <3>3 DEF StartDone, IInv, TypeOK
  <2>4. Watched' /\ CallsSound'
    BY <1>2, <2>1, <2>2 DEF StartDone, IInv, TypeOK, Watched, CallsSound
  <2>5. NoticesTrue'
    <3>1. \A j \in DOMAIN queue : queue[j].of \in Nat /\ queue[j].of <= generation
      BY QueueTyped
    <3>2. \A j \in DOMAIN queue : queue[j].of <= generation + 1 /\ queue[j].of # generation + 1
      BY <2>1, <3>1
    <3>3. QED
      BY <2>1, <2>2, <3>2 DEF NoticesTrue, Exit
  <2>6. Announced'
    BY <1>2 DEF StartDone, IInv, TypeOK, Announced, Posted, News
  <2>7. QED
    BY <2>3, <2>4, <2>5, <2>6 DEF IInv
<1>3. CASE StartFails
  <2>1. TypeOK'
    BY <1>3 DEF StartFails, IInv, TypeOK, Watched, CallsSound
  <2>2. Watched' /\ CallsSound'
    BY <1>3 DEF StartFails, IInv, TypeOK, Watched, CallsSound
  <2>3. NoticesTrue'
    BY <1>3 DEF StartFails, IInv, TypeOK, Watched, NoticesTrue, Exit
  <2>4. Announced'
    BY <1>3 DEF StartFails, IInv, TypeOK, Announced, Posted, News
  <2>5. QED
    BY <2>1, <2>2, <2>3, <2>4 DEF IInv
<1>4. CASE StartUndone
  <2>1. generation \in Nat /\ generation + 1 \in 1 .. LastGeneration /\ generation' = generation + 1
    BY <1>4 DEF StartUndone, IInv, TypeOK, CallsSound
  <2>2. alive = {} /\ queue' = queue
    BY <1>4 DEF StartUndone, IInv, Watched
  <2>3. TypeOK'
    <3>1. alive' \subseteq 1 .. LastGeneration
      BY <1>4, <2>1, <2>2 DEF StartUndone
    <3>2. generation' \in 0 .. LastGeneration
      BY <2>1
    <3>3. {left', running', stopRequested', unseen', pending'} \subseteq BOOLEAN
      BY <1>4 DEF StartUndone
    <3>4. QED
      BY <1>4, <3>1, <3>2, <3>3 DEF StartUndone, IInv, TypeOK
  <2>4. Watched' /\ CallsSound'
    BY <1>4, <2>1, <2>2 DEF StartUndone, IInv, TypeOK, Watched, CallsSound
  <2>5. NoticesTrue'
    <3>1. \A j \in DOMAIN queue : queue[j].of \in Nat /\ queue[j].of <= generation
      BY QueueTyped
    <3>2. \A j \in DOMAIN queue : queue[j].of <= generation + 1 /\ queue[j].of # generation + 1
      BY <2>1, <3>1
    <3>3. QED
      BY <2>1, <2>2, <3>2 DEF NoticesTrue, Exit
  <2>6. Announced'
    BY <1>4 DEF StartUndone, IInv, TypeOK, Announced, Posted, News
  <2>7. QED
    BY <2>3, <2>4, <2>5, <2>6 DEF IInv
<1>5. CASE AskCall
  <2>1. TypeOK'
    BY <1>5 DEF AskCall, IInv, TypeOK, Watched, CallsSound
  <2>2. Watched' /\ CallsSound'
    BY <1>5 DEF AskCall, IInv, TypeOK, Watched, CallsSound
  <2>3. NoticesTrue'
    BY <1>5 DEF AskCall, IInv, TypeOK, Watched, NoticesTrue, Exit
  <2>4. Announced'
    BY <1>5 DEF AskCall, IInv, TypeOK, Announced, Posted, News
  <2>5. QED
    BY <2>1, <2>2, <2>3, <2>4 DEF IInv
<1>6. CASE AskDone
  <2>1. TypeOK'
    BY <1>6 DEF AskDone, IInv, TypeOK, Watched, CallsSound
  <2>2. Watched' /\ CallsSound'
    BY <1>6 DEF AskDone, IInv, TypeOK, Watched, CallsSound
  <2>3. NoticesTrue'
    BY <1>6 DEF AskDone, IInv, TypeOK, Watched, NoticesTrue, Exit
  <2>4. Announced'
    BY <1>6 DEF AskDone, IInv, TypeOK, Announced, Posted, News
  <2>5. QED
    BY <2>1, <2>2, <2>3, <2>4 DEF IInv
<1>7. CASE TakeTelemetry
  <2>1. /\ queue \in Seq(Messages) /\ queue # <<>> /\ queue' = Tail(queue)
        /\ generation' = generation /\ waiter' = waiter /\ reader' = reader
    BY <1>7 DEF IInv, TypeOK, TakeTelemetry, Receives
  <2>2. \A i \in DOMAIN queue' : \E j \in DOMAIN queue : queue'[i] = queue[j]
    BY <2>1, TailMessages
  <2>3. TypeOK'
    BY <1>7, <2>1, TailMessages DEF TakeTelemetry, Receives, IInv, TypeOK
  <2>4. Watched' /\ CallsSound'
    BY <1>7, <2>1, TailMessages DEF TakeTelemetry, Receives, IInv, TypeOK, Watched, NoticesTrue, CallsSound, Exit
  <2>5. NoticesTrue'
    <3>1. \A i \in DOMAIN queue' : queue'[i].of <= generation'
      BY <2>1, <2>2, QueueTyped
    <3>2. \A i \in DOMAIN queue' : queue'[i] = Exit(generation') => waiter' # "waits"
      BY <2>1, <2>2 DEF IInv, NoticesTrue, Exit
    <3>3. QED
      BY <3>1, <3>2 DEF NoticesTrue, Exit
  <2>6. Announced'
    <3>1. Head(queue) # News(generation) /\ Posted => Posted'
      <4> SUFFICES ASSUME Head(queue) # News(generation), Posted PROVE Posted'
        OBVIOUS
      <4>1. PICK j \in DOMAIN queue : queue[j] = News(generation)
        BY DEF Posted
      <4>2. j # 1
        BY <2>1, <4>1, TailMessages
      <4>3. j - 1 \in DOMAIN queue' /\ queue'[j - 1] = News(generation)
        BY <2>1, <4>1, <4>2, TailMessages
      <4>4. QED
        BY <2>1, <4>3 DEF Posted, News
    <3>2. QED
      BY <1>7, <2>1, <3>1 DEF TakeTelemetry, Receives, IInv, Announced, News, Exit
  <2>7. QED
    BY <2>3, <2>4, <2>5, <2>6 DEF IInv
<1>8. CASE FinalizeCall
  <2>1. /\ queue \in Seq(Messages) /\ queue # <<>> /\ queue' = Tail(queue)
        /\ generation' = generation /\ waiter' = waiter /\ reader' = reader
    BY <1>8 DEF IInv, TypeOK, FinalizeCall, Receives
  <2>2. \A i \in DOMAIN queue' : \E j \in DOMAIN queue : queue'[i] = queue[j]
    BY <2>1, TailMessages
  <2>3. TypeOK'
    BY <1>8, <2>1, TailMessages DEF FinalizeCall, Receives, IInv, TypeOK
  <2>4. Watched' /\ CallsSound'
    BY <1>8, <2>1, TailMessages DEF FinalizeCall, Receives, IInv, TypeOK, Watched, NoticesTrue, CallsSound, Exit
  <2>5. NoticesTrue'
    <3>1. \A i \in DOMAIN queue' : queue'[i].of <= generation'
      BY <2>1, <2>2, QueueTyped
    <3>2. \A i \in DOMAIN queue' : queue'[i] = Exit(generation') => waiter' # "waits"
      BY <2>1, <2>2 DEF IInv, NoticesTrue, Exit
    <3>3. QED
      BY <3>1, <3>2 DEF NoticesTrue, Exit
  <2>6. Announced'
    <3>1. Head(queue) # News(generation) /\ Posted => Posted'
      <4> SUFFICES ASSUME Head(queue) # News(generation), Posted PROVE Posted'
        OBVIOUS
      <4>1. PICK j \in DOMAIN queue : queue[j] = News(generation)
        BY DEF Posted
      <4>2. j # 1
        BY <2>1, <4>1, TailMessages
      <4>3. j - 1 \in DOMAIN queue' /\ queue'[j - 1] = News(generation)
        BY <2>1, <4>1, <4>2, TailMessages
      <4>4. QED
        BY <2>1, <4>3 DEF Posted, News
    <3>2. QED
      BY <1>8, <2>1, <3>1 DEF FinalizeCall, Receives, IInv, Announced, News, Exit
  <2>7. QED
    BY <2>3, <2>4, <2>5, <2>6 DEF IInv
<1>9. CASE FinalizeDone
  <2>1. TypeOK'
    BY <1>9 DEF FinalizeDone, IInv, TypeOK, Watched, CallsSound
  <2>2. Watched' /\ CallsSound'
    BY <1>9 DEF FinalizeDone, IInv, TypeOK, Watched, CallsSound
  <2>3. NoticesTrue'
    BY <1>9 DEF FinalizeDone, IInv, TypeOK, Watched, NoticesTrue, Exit
  <2>4. Announced'
    BY <1>9 DEF FinalizeDone, IInv, TypeOK, Announced, Posted, News
  <2>5. QED
    BY <2>1, <2>2, <2>3, <2>4 DEF IInv
<1>10. CASE Leave
  <2>1. TypeOK'
    BY <1>10 DEF Leave, IInv, TypeOK, Watched, CallsSound
  <2>2. Watched' /\ CallsSound'
    BY <1>10 DEF Leave, IInv, TypeOK, Watched, CallsSound
  <2>3. NoticesTrue'
    BY <1>10 DEF Leave, IInv, TypeOK, Watched, NoticesTrue, Exit
  <2>4. Announced'
    BY <1>10 DEF Leave, IInv, TypeOK, Announced, Posted, News
  <2>5. QED
    BY <2>1, <2>2, <2>3, <2>4 DEF IInv
<1>11. CASE LeaveAwaits
  <2>1. TypeOK'
    BY <1>11 DEF LeaveAwaits, IInv, TypeOK, Watched, CallsSound
  <2>2. Watched' /\ CallsSound'
    BY <1>11 DEF LeaveAwaits, IInv, TypeOK, Watched, CallsSound
  <2>3. NoticesTrue'
    BY <1>11 DEF LeaveAwaits, IInv, TypeOK, Watched, NoticesTrue, Exit
  <2>4. Announced'
    BY <1>11 DEF LeaveAwaits, IInv, TypeOK, Announced, Posted, News
  <2>5. QED
    BY <2>1, <2>2, <2>3, <2>4 DEF IInv
<1>12. CASE LeaveKills
  <2>1. TypeOK'
    BY <1>12 DEF LeaveKills, IInv, TypeOK, Watched, CallsSound
  <2>2. Watched' /\ CallsSound'
    BY <1>12 DEF LeaveKills, IInv, TypeOK, Watched, CallsSound
  <2>3. NoticesTrue'
    BY <1>12 DEF LeaveKills, IInv, TypeOK, Watched, NoticesTrue, Exit
  <2>4. Announced'
    BY <1>12 DEF LeaveKills, IInv, TypeOK, Announced, Posted, News
  <2>5. QED
    BY <2>1, <2>2, <2>3, <2>4 DEF IInv
<1>13. CASE WaiterSees
  <2>1. TypeOK'
    BY <1>13 DEF WaiterSees, IInv, TypeOK, Watched, CallsSound
  <2>2. Watched' /\ CallsSound'
    BY <1>13 DEF WaiterSees, IInv, TypeOK, Watched, CallsSound
  <2>3. NoticesTrue'
    BY <1>13 DEF WaiterSees, IInv, TypeOK, Watched, NoticesTrue, Exit
  <2>4. Announced'
    BY <1>13 DEF WaiterSees, IInv, TypeOK, Announced, Posted, News
  <2>5. QED
    BY <2>1, <2>2, <2>3, <2>4 DEF IInv
<1>14. CASE WaiterPosts
  <2>1. /\ queue \in Seq(Messages) /\ Exit(generation) \in Messages /\ queue' = Append(queue, Exit(generation))
        /\ generation' = generation
    BY <1>14 DEF IInv, TypeOK, Watched, WaiterPosts, Exit, News
  <2>2. TypeOK'
    BY <1>14, <2>1, AppendMessages DEF WaiterPosts, IInv, TypeOK
  <2>3. Watched' /\ CallsSound'
    BY <1>14 DEF WaiterPosts, IInv, TypeOK, Watched, CallsSound
  <2>4. NoticesTrue'
    BY <1>14, <2>1, AppendMessages DEF WaiterPosts, IInv, TypeOK, NoticesTrue, Watched, Exit, News
  <2>5. Announced'
    <3>1. Posted => Posted'
      BY <2>1, AppendMessages DEF Posted, News
    <3>2. queue' = Append(queue, News(generation)) => Posted'
      BY <2>1, AppendMessages DEF Posted, News
    <3>3. QED
      BY <1>14, <3>1, <3>2 DEF WaiterPosts, IInv, Announced
  <2>6. QED
    BY <2>2, <2>3, <2>4, <2>5 DEF IInv
<1>15. CASE ReaderReads
  <2>1. TypeOK'
    BY <1>15 DEF ReaderReads, IInv, TypeOK, Watched, CallsSound
  <2>2. Watched' /\ CallsSound'
    BY <1>15 DEF ReaderReads, IInv, TypeOK, Watched, CallsSound
  <2>3. NoticesTrue'
    BY <1>15 DEF ReaderReads, IInv, TypeOK, Watched, NoticesTrue, Exit
  <2>4. Announced'
    BY <1>15 DEF ReaderReads, IInv, TypeOK, Announced, Posted, News
  <2>5. QED
    BY <2>1, <2>2, <2>3, <2>4 DEF IInv
<1>16. CASE ReaderPosts
  <2>1. /\ queue \in Seq(Messages) /\ News(generation) \in Messages /\ queue' = Append(queue, News(generation))
        /\ generation' = generation
    BY <1>16 DEF IInv, TypeOK, Watched, ReaderPosts, Exit, News
  <2>2. TypeOK'
    BY <1>16, <2>1, AppendMessages DEF ReaderPosts, IInv, TypeOK
  <2>3. Watched' /\ CallsSound'
    BY <1>16 DEF ReaderPosts, IInv, TypeOK, Watched, CallsSound
  <2>4. NoticesTrue'
    BY <1>16, <2>1, AppendMessages DEF ReaderPosts, IInv, TypeOK, NoticesTrue, Watched, Exit, News
  <2>5. Announced'
    <3>1. Posted => Posted'
      BY <2>1, AppendMessages DEF Posted, News
    <3>2. queue' = Append(queue, News(generation)) => Posted'
      BY <2>1, AppendMessages DEF Posted, News
    <3>3. QED
      BY <1>16, <3>1, <3>2 DEF ReaderPosts, IInv, Announced
  <2>6. QED
    BY <2>2, <2>3, <2>4, <2>5 DEF IInv
<1>17. CASE ReaderEnds
  <2>1. TypeOK'
    BY <1>17 DEF ReaderEnds, IInv, TypeOK, Watched, CallsSound
  <2>2. Watched' /\ CallsSound'
    BY <1>17 DEF ReaderEnds, IInv, TypeOK, Watched, CallsSound
  <2>3. NoticesTrue'
    BY <1>17 DEF ReaderEnds, IInv, TypeOK, Watched, NoticesTrue, Exit
  <2>4. Announced'
    BY <1>17 DEF ReaderEnds, IInv, TypeOK, Announced, Posted, News
  <2>5. QED
    BY <2>1, <2>2, <2>3, <2>4 DEF IInv
<1>18. CASE FallbackSees
  <2>1. TypeOK'
    BY <1>18 DEF FallbackSees, IInv, TypeOK, Watched, CallsSound
  <2>2. Watched' /\ CallsSound'
    BY <1>18 DEF FallbackSees, IInv, TypeOK, Watched, CallsSound
  <2>3. NoticesTrue'
    BY <1>18 DEF FallbackSees, IInv, TypeOK, Watched, NoticesTrue, Exit
  <2>4. Announced'
    BY <1>18 DEF FallbackSees, IInv, TypeOK, Announced, Posted, News
  <2>5. QED
    BY <2>1, <2>2, <2>3, <2>4 DEF IInv
<1>19. CASE FallbackKills
  <2>1. TypeOK'
    BY <1>19 DEF FallbackKills, IInv, TypeOK, Watched, CallsSound
  <2>2. Watched' /\ CallsSound'
    BY <1>19 DEF FallbackKills, IInv, TypeOK, Watched, CallsSound
  <2>3. NoticesTrue'
    BY <1>19 DEF FallbackKills, IInv, TypeOK, Watched, NoticesTrue, Exit
  <2>4. Announced'
    BY <1>19 DEF FallbackKills, IInv, TypeOK, Announced, Posted, News
  <2>5. QED
    BY <2>1, <2>2, <2>3, <2>4 DEF IInv
<1>20. CASE CoreEnds
  <2>1. TypeOK'
    BY <1>20 DEF CoreEnds, IInv, TypeOK, Watched, CallsSound
  <2>2. Watched' /\ CallsSound'
    BY <1>20 DEF CoreEnds, IInv, TypeOK, Watched, CallsSound
  <2>3. NoticesTrue'
    BY <1>20 DEF CoreEnds, IInv, TypeOK, Watched, NoticesTrue, Exit
  <2>4. Announced'
    BY <1>20 DEF CoreEnds, IInv, TypeOK, Announced, Posted, News
  <2>5. QED
    BY <2>1, <2>2, <2>3, <2>4 DEF IInv
<1>21. CASE CoreWrites
  <2>1. TypeOK'
    BY <1>21 DEF CoreWrites, IInv, TypeOK, Watched, CallsSound
  <2>2. Watched' /\ CallsSound'
    BY <1>21 DEF CoreWrites, IInv, TypeOK, Watched, CallsSound
  <2>3. NoticesTrue'
    BY <1>21 DEF CoreWrites, IInv, TypeOK, Watched, NoticesTrue, Exit
  <2>4. Announced'
    BY <1>21 DEF CoreWrites, IInv, TypeOK, Announced, Posted, News
  <2>5. QED
    BY <2>1, <2>2, <2>3, <2>4 DEF IInv
<1>22. QED
  BY <1>0, <1>1, <1>2, <1>3, <1>4, <1>5, <1>6, <1>7, <1>8, <1>9, <1>10, <1>11, <1>12, <1>13, <1>14, <1>15, <1>16, <1>17, <1>18, <1>19, <1>20, <1>21
  DEF Next, GuiNext, WaiterNext, ReaderNext, FallbackNext, CoreNext

LEMMA Inductive == Spec => []IInv
  BY InitIInv, StepIInv, PTL DEF Spec

\* Every reachable state has its type, however many processes are started.
THEOREM TypeCorrect == Spec => []TypeOK
<1>1. IInv => TypeOK
  BY DEF IInv
<1>2. QED
  BY <1>1, Inductive, PTL

\* The GUI thread joins its worker threads only when the process they serve has
\* ended: an old notice is told from a new one by its generation.
THEOREM NeverJoinsAWorkingCore == Spec => []JoinsOnlyEnded
<1>1. IInv => JoinsOnlyEnded
  BY DEF IInv, TypeOK, Watched, CallsSound, JoinsOnlyEnded
<1>2. QED
  BY <1>1, Inductive, PTL

\* What the GUI has not taken is announced, or its reader is about to do so.
THEOREM NothingUnannounced == Spec => []NewsAnnounced
<1>1. IInv => NewsAnnounced
  BY DEF IInv, Announced, Posted, NewsAnnounced
<1>2. QED
  BY <1>1, Inductive, PTL

-----------------------------------------------------------------------------
(* The controller implements CoreProcess *)

Told == {queue[i].of : i \in Exits}

\* A notice is there at the most once: the process of a waiter that has not posted it yet is in
\* no message and in no call.
NoticesOnce ==
    /\ NoticesInOrder
    /\ waiter \in {"waits", "saw"} => generation \notin Told /\ call # "finalize"

\* A message behind the first takes its place.
LEMMA ExitsBehind ==
    ASSUME IInv, queue # <<>>, queue' = Tail(queue)
    PROVE  /\ \A i \in Exits' : i + 1 \in Exits /\ queue'[i] = queue[i + 1]
           /\ \A i \in Exits : i = 1 \/ (i - 1 \in Exits' /\ queue'[i - 1] = queue[i])
           /\ Head(queue).type = "exit" => 1 \in Exits /\ queue[1] = Head(queue)
           /\ 1 \in Exits => Head(queue).type = "exit"
           /\ Exits \subseteq Nat \ {0} /\ Exits' \subseteq Nat \ {0}
           /\ Told' \subseteq Told
<1>0. queue \in Seq(Messages)
  BY DEF IInv, TypeOK, Messages
<1>1. DOMAIN queue \subseteq Nat \ {0} /\ DOMAIN queue' \subseteq Nat \ {0}
  BY <1>0
<1>2. \A i \in Exits' : i + 1 \in Exits /\ queue'[i] = queue[i + 1]
  BY <1>0, <1>1, TailMessages DEF Exits
<1>3. \A i \in Exits' : \E j \in Exits : queue'[i] = queue[j]
  BY <1>2
<1>4. Told' \subseteq Told
  BY <1>3 DEF Told
<1>5. QED
  BY <1>0, <1>1, <1>2, <1>4, TailMessages DEF Exits

\* Taking a message that is no notice leaves the notices as they are.
LEMMA OtherTaken ==
    ASSUME IInv, NoticesOnce, queue # <<>>, queue' = Tail(queue), Head(queue).type # "exit",
           call' = call, generation' = generation
    PROVE  Told' = Told /\ NoticesInOrder'
<1>1. Told' \subseteq Told
  BY ExitsBehind
<1>2. Told \subseteq Told'
  <2>1. \A i \in Exits : i - 1 \in Exits' /\ queue'[i - 1] = queue[i]
    BY ExitsBehind
  <2>2. QED
    BY <2>1 DEF Told
<1>3. \A i, j \in Exits' : i < j => queue'[i].of < queue'[j].of
  <2> SUFFICES ASSUME NEW i \in Exits', NEW j \in Exits', i < j
               PROVE  queue'[i].of < queue'[j].of
    OBVIOUS
  <2>1. i + 1 \in Exits /\ j + 1 \in Exits /\ i + 1 < j + 1
    BY ExitsBehind
  <2>2. QED
    BY <2>1, ExitsBehind DEF NoticesOnce, NoticesInOrder
<1>4. call' = "finalize" => \A i \in Exits' : generation' < queue'[i].of
  BY ExitsBehind DEF NoticesOnce, NoticesInOrder
<1>5. QED
  BY <1>1, <1>2, <1>3, <1>4 DEF NoticesInOrder

\* The notice that is taken is the oldest, and the last of its process.
LEMMA NoticeTaken ==
    ASSUME IInv, NoticesOnce, queue # <<>>, queue' = Tail(queue), Head(queue).type = "exit"
    PROVE  /\ Head(queue).of \in Told /\ \A h \in Told : Head(queue).of <= h
           /\ Told' = Told \ {Head(queue).of}
           /\ \A i, j \in Exits' : i < j => queue'[i].of < queue'[j].of
           /\ \A i \in Exits' : Head(queue).of < queue'[i].of
<1>1. 1 \in Exits /\ queue[1] = Head(queue) /\ Head(queue).of \in Told
  BY ExitsBehind DEF Told
<1>2. \A i \in Exits : i = 1 \/ queue[1].of < queue[i].of
  BY <1>1, ExitsBehind DEF NoticesOnce, NoticesInOrder
<1>3. \A i \in Exits : queue[i].of \in Nat
  BY QueueTyped DEF Exits
<1>4. \A i \in Exits' : Head(queue).of < queue'[i].of
  <2> SUFFICES ASSUME NEW i \in Exits' PROVE Head(queue).of < queue'[i].of
    OBVIOUS
  <2>1. i + 1 \in Exits /\ queue'[i] = queue[i + 1]
    BY ExitsBehind
  <2>2. i \in Nat \ {0}
    BY ExitsBehind
  <2>3. queue[1].of < queue[i + 1].of
    BY <1>2, <2>1, <2>2
  <2>4. QED
    BY <1>1, <2>1, <2>3
<1>5. \A i, j \in Exits' : i < j => queue'[i].of < queue'[j].of
  <2> SUFFICES ASSUME NEW i \in Exits', NEW j \in Exits', i < j
               PROVE  queue'[i].of < queue'[j].of
    OBVIOUS
  <2>1. i + 1 \in Exits /\ j + 1 \in Exits /\ i + 1 < j + 1
    BY ExitsBehind
  <2>2. QED
    BY <2>1, ExitsBehind DEF NoticesOnce, NoticesInOrder
<1>6. Told' \subseteq Told
  BY ExitsBehind
<1>7. Head(queue).of \notin Told'
  <2> SUFFICES ASSUME Head(queue).of \in Told' PROVE FALSE
    OBVIOUS
  <2>1. PICK i \in Exits' : queue'[i].of = Head(queue).of
    BY DEF Told
  <2>2. Head(queue).of \in Nat
    BY <1>1, <1>3
  <2> DEFINE g == Head(queue).of
             h == queue'[i].of
  <2>3. g < h /\ h = g /\ g \in Nat
    BY <1>4, <2>1, <2>2
  <2> HIDE DEF g, h
  <2>4. QED
    BY <2>3
<1>8. Told \subseteq Told' \cup {Head(queue).of}
  <2> SUFFICES ASSUME NEW i \in Exits PROVE queue[i].of \in Told' \cup {Head(queue).of}
    BY DEF Told
  <2>1. CASE i = 1
    BY <1>1, <2>1
  <2>2. CASE i # 1
    BY <2>2, ExitsBehind DEF Told
  <2>3. QED
    BY <2>1, <2>2
<1>9. \A h \in Told : Head(queue).of <= h
  <2> SUFFICES ASSUME NEW i \in Exits PROVE Head(queue).of <= queue[i].of
    BY DEF Told
  <2>1. QED
    BY <1>1, <1>2, <1>3
<1>10. QED
  BY <1>1, <1>4, <1>5, <1>6, <1>7, <1>8, <1>9

\* A message posted goes behind all others.
LEMMA ExitsBefore ==
    ASSUME IInv, NEW m \in Messages, queue' = Append(queue, m)
    PROVE  /\ \A i \in Exits : i \in Exits' /\ queue'[i] = queue[i] /\ i < Len(queue) + 1
           /\ \A i \in Exits' : i \in Exits \/ (i = Len(queue) + 1 /\ queue'[i] = m)
           /\ Len(queue) + 1 \in Exits' <=> m.type = "exit"
           /\ queue'[Len(queue) + 1] = m
           /\ Exits \subseteq Nat /\ Len(queue) \in Nat
<1>0. queue \in Seq(Messages) /\ Len(queue) \in Nat /\ DOMAIN queue = 1 .. Len(queue)
  BY DEF IInv, TypeOK, Messages
<1>1. /\ Len(queue') = Len(queue) + 1 /\ DOMAIN queue' = 1 .. Len(queue) + 1
      /\ \A i \in 1 .. Len(queue) : queue'[i] = queue[i]
      /\ queue'[Len(queue) + 1] = m
  BY <1>0
<1>2. \A i \in DOMAIN queue' : i \in DOMAIN queue \/ i = Len(queue) + 1
  BY <1>0, <1>1
<1>3. \A i \in DOMAIN queue : i \in DOMAIN queue' /\ i \in Nat /\ i < Len(queue) + 1
  BY <1>0, <1>1
<1>4. Len(queue) + 1 \in DOMAIN queue'
  BY <1>0, <1>1
<1>5. QED
  BY <1>0, <1>1, <1>2, <1>3, <1>4 DEF Exits

LEMMA NoticesAre == NoticesLeft = Told \cup (IF call = "finalize" THEN {generation} ELSE {})
  BY DEF NoticesLeft, Told

\* What the abstract process does not see
LEMMA Unseen ==
    ASSUME IInv, NoticesOnce, queue' = queue, UNCHANGED flags,
           waiter' = waiter \/ {waiter, waiter'} \subseteq {"none", "done"},
           call' = "finalize" <=> call = "finalize"
    PROVE  NoticesOnce' /\ UNCHANGED Process!vars
<1>1. Told' = Told /\ Exits' = Exits
  BY DEF Told, Exits
<1>2. NoticesOnce'
  BY <1>1 DEF NoticesOnce, NoticesInOrder, flags
<1>3. QED
  BY <1>1, <1>2 DEF Process!vars, NoticesLeft, flags

LEMMA StepProcess ==
    ASSUME IInv, NoticesOnce, [Next]_vars
    PROVE  NoticesOnce' /\ [Process!Next]_Process!vars
<1> USE DEF threads, telemetry, flags, Idle, Finished, Joined
<1>0. CASE UNCHANGED vars
  BY <1>0, Unseen DEF vars
<1>1. CASE StartCall
  BY <1>1, Unseen DEF StartCall
<1>2. CASE StartFails
  BY <1>2, Unseen DEF StartFails
<1>3. CASE AskDone
  BY <1>3, Unseen DEF AskDone
<1>4. CASE LeaveAwaits
  BY <1>4, Unseen DEF LeaveAwaits
<1>5. CASE LeaveKills
  BY <1>5, Unseen DEF LeaveKills
<1>6. CASE ReaderReads
  BY <1>6, Unseen DEF ReaderReads
<1>7. CASE ReaderEnds
  BY <1>7, Unseen DEF ReaderEnds
<1>8. CASE FallbackSees
  BY <1>8, Unseen DEF FallbackSees
<1>9. CASE FallbackKills
  BY <1>9, Unseen DEF FallbackKills
<1>10. CASE CoreEnds
  BY <1>10, Unseen DEF CoreEnds
<1>11. CASE CoreWrites
  BY <1>11, Unseen DEF CoreWrites
<1>12. CASE StartDone
  <2>1. Told' = Told /\ Exits' = Exits
    BY <1>12 DEF StartDone, Told, Exits
  <2>2. generation + 1 \notin Told
    BY QueueTyped DEF Told, Exits, IInv, TypeOK
  <2>3. NoticesOnce'
    BY <1>12, <2>1, <2>2 DEF StartDone, NoticesOnce, NoticesInOrder
  <2>4. Process!Start
    BY <1>12, <2>1 DEF StartDone, Process!Start, NoticesLeft, Exits, IInv, CallsSound
  <2>5. QED
    BY <2>3, <2>4 DEF Process!Next
<1>13. CASE StartUndone
  <2>1. Told' = Told /\ Exits' = Exits
    BY <1>13 DEF StartUndone, Told, Exits
  <2>2. NoticesOnce'
    BY <1>13, <2>1 DEF StartUndone, NoticesOnce, NoticesInOrder
  <2>3. Process!Start
    BY <1>13, <2>1 DEF StartUndone, Process!Start, NoticesLeft, Exits, IInv, CallsSound
  <2>4. QED
    BY <2>2, <2>3 DEF Process!Next
<1>14. CASE AskCall
  <2>1. Told' = Told /\ Exits' = Exits
    BY <1>14 DEF AskCall, Told, Exits
  <2>2. NoticesOnce'
    BY <1>14, <2>1 DEF AskCall, NoticesOnce, NoticesInOrder
  <2>3. NoticesLeft' = NoticesLeft
    BY <1>14, <2>1 DEF AskCall, NoticesLeft
  <2>4. running => Process!Ask
    BY <1>14, <2>3 DEF AskCall, Process!Ask
  <2>5. ~running => UNCHANGED Process!vars
    BY <1>14, <2>3 DEF AskCall, Process!vars, IInv, TypeOK
  <2>6. QED
    BY <2>2, <2>4, <2>5 DEF Process!Next
<1>15. CASE Leave
  <2>1. Told' = Told /\ Exits' = Exits
    BY <1>15 DEF Leave, Told, Exits
  <2>2. NoticesOnce'
    BY <1>15, <2>1 DEF Leave, NoticesOnce, NoticesInOrder
  <2>3. NoticesLeft' = NoticesLeft
    BY <1>15, <2>1 DEF Leave, NoticesLeft
  <2>4. running => Process!Ask
    BY <1>15, <2>3 DEF Leave, Process!Ask
  <2>5. ~running => UNCHANGED Process!vars
    BY <1>15, <2>3 DEF Leave, Process!vars, IInv, TypeOK
  <2>6. QED
    BY <2>2, <2>4, <2>5 DEF Process!Next
<1>16. CASE TakeTelemetry
  <2>1. Told' = Told /\ NoticesInOrder'
    BY <1>16, OtherTaken DEF TakeTelemetry, Receives
  <2>2. NoticesOnce'
    BY <1>16, <2>1 DEF TakeTelemetry, NoticesOnce
  <2>3. UNCHANGED Process!vars
    BY <1>16, <2>1, NoticesAre DEF TakeTelemetry, Receives, Process!vars, NoticesLeft, Told
  <2>4. QED
    BY <2>2, <2>3
<1>17. CASE FinalizeCall
  <2> DEFINE g == Head(queue).of
  <2>1. /\ g \in Told /\ \A h \in Told : g <= h
        /\ Told' = Told \ {g}
        /\ \A i, j \in Exits' : i < j => queue'[i].of < queue'[j].of
        /\ \A i \in Exits' : g < queue'[i].of
    BY <1>17, NoticeTaken DEF FinalizeCall, Receives
  <2>2. NoticesOnce'
    BY <1>17, <2>1 DEF FinalizeCall, NoticesOnce, NoticesInOrder
  <2>3. NoticesLeft = Told
    BY <1>17 DEF FinalizeCall, Receives, NoticesLeft, Told
  <2>4. CASE g = generation
    <3>1. NoticesLeft' = NoticesLeft
      BY <1>17, <2>1, <2>3, <2>4 DEF FinalizeCall, NoticesLeft, Told
    <3>2. QED
      BY <1>17, <2>2, <3>1 DEF FinalizeCall, Process!vars
  <2>5. CASE g # generation
    <3>1. NoticesLeft' = NoticesLeft \ {g}
      BY <1>17, <2>1, <2>3, <2>5 DEF FinalizeCall, NoticesLeft, Told
    <3>2. stopRequested' = (stopRequested /\ g # generation)
      BY <1>17, <2>5 DEF FinalizeCall, IInv, TypeOK
    <3>3. Process!Take
      BY <1>17, <2>1, <2>3, <3>1, <3>2 DEF FinalizeCall, Process!Take, Process!Oldest
    <3>4. QED
      BY <2>2, <3>3 DEF Process!Next
  <2>6. QED
    BY <2>4, <2>5
<1>18. CASE FinalizeDone
  <2>1. Told' = Told /\ Exits' = Exits
    BY <1>18 DEF FinalizeDone, Told, Exits
  <2>2. NoticesOnce'
    BY <1>18, <2>1 DEF FinalizeDone, NoticesOnce, NoticesInOrder
  <2>3. ~running /\ waiter \notin {"waits", "saw"}
    BY <1>18 DEF FinalizeDone, IInv, Watched
  <2>4. CASE call = "finish"
    <3>1. Process!Quit
      BY <1>18, <2>1, <2>3, <2>4 DEF FinalizeDone, Process!Quit, NoticesLeft, IInv, TypeOK
    <3>2. QED
      BY <2>2, <3>1 DEF Process!Next
  <2>5. CASE call = "finalize"
    <3>1. Exits = {}
      <4>1. \A i \in Exits : queue[i].of \in Nat /\ queue[i].of <= generation /\ generation < queue[i].of
        BY <2>5, QueueTyped DEF Exits, NoticesOnce, NoticesInOrder
      <4>2. generation \in Nat
        BY DEF IInv, TypeOK
      <4>3. QED
        BY <4>1, <4>2
    <3>2. NoticesLeft = {generation} /\ NoticesLeft' = {}
      BY <1>18, <2>1, <2>5, <3>1 DEF FinalizeDone, NoticesLeft
    <3>3. /\ stopRequested' = FALSE /\ generation' = generation
          /\ running' = FALSE /\ waiter' = "none"
          /\ generation \in Nat /\ running = FALSE
      BY <1>18, <2>3 DEF FinalizeDone, IInv, TypeOK
    <3>4. Process!Oldest(generation) /\ NoticesLeft' = NoticesLeft \ {generation}
      BY <3>2, <3>3 DEF Process!Oldest
    <3>5. Process!Take
      BY <2>3, <3>2, <3>3, <3>4 DEF Process!Take
    <3>6. QED
      BY <2>2, <3>5 DEF Process!Next
  <2>6. QED
    BY <1>18, <2>4, <2>5 DEF FinalizeDone
<1>19. CASE WaiterSees
  <2>1. Told' = Told /\ Exits' = Exits
    BY <1>19 DEF WaiterSees, Told, Exits
  <2>2. NoticesOnce'
    BY <1>19, <2>1 DEF WaiterSees, NoticesOnce, NoticesInOrder
  <2>3. Process!End
    BY <1>19, <2>1 DEF WaiterSees, Process!End, NoticesLeft, IInv, Watched
  <2>4. QED
    BY <2>2, <2>3 DEF Process!Next
<1>20. CASE WaiterPosts
  <2>1. Exit(generation) \in Messages /\ queue' = Append(queue, Exit(generation))
    BY <1>20 DEF WaiterPosts, Exit, Messages, IInv, TypeOK, Watched
  <2>2. Exit(generation).of = generation /\ Exit(generation).type = "exit"
    BY DEF Exit
  <2>3. Told' = Told \cup {generation}
    <3>1. Len(queue) + 1 \in Exits' /\ queue'[Len(queue) + 1].of = generation
      BY <2>1, <2>2, ExitsBefore
    <3>2. \A i \in Exits : i \in Exits' /\ queue'[i] = queue[i]
      BY <2>1, ExitsBefore
    <3>3. \A i \in Exits' : i \in Exits \/ queue'[i].of = generation
      BY <2>1, <2>2, ExitsBefore
    <3>4. QED
      BY <3>1, <3>2, <3>3 DEF Told
  <2>4. generation \notin Told /\ call # "finalize" /\ waiter' = "done" /\ call' = call
    BY <1>20 DEF WaiterPosts, NoticesOnce
  <2>5. \A i \in Exits : queue[i].of < generation
    <3>1. \A i \in Exits : queue[i].of # generation
      BY <2>4 DEF Told
    <3>2. QED
      BY <3>1, QueueTyped DEF Exits, IInv, TypeOK
  <2>6. \A i, j \in Exits' : i < j => queue'[i].of < queue'[j].of
    <3> SUFFICES ASSUME NEW i \in Exits', NEW j \in Exits', i < j
                 PROVE  queue'[i].of < queue'[j].of
      OBVIOUS
    <3>1. CASE j \in Exits
      <4>1. i \in Exits
        BY <2>1, <3>1, ExitsBefore
      <4>2. QED
        BY <2>1, <3>1, <4>1, ExitsBefore DEF NoticesOnce, NoticesInOrder
    <3>2. CASE j = Len(queue) + 1 /\ queue'[j] = Exit(generation)
      <4>1. i \in Exits
        BY <2>1, <3>2, ExitsBefore
      <4>2. QED
        BY <2>1, <2>2, <2>5, <3>2, <4>1, ExitsBefore
    <3>3. QED
      BY <2>1, <3>1, <3>2, ExitsBefore
  <2>7. NoticesOnce'
    BY <2>4, <2>6 DEF NoticesOnce, NoticesInOrder
  <2>8. Process!Tell
    BY <1>20, <2>3, <2>4 DEF WaiterPosts, Process!Tell, NoticesLeft, Told
  <2>9. QED
    BY <2>7, <2>8 DEF Process!Next
<1>21. CASE ReaderPosts
  <2>1. News(generation) \in Messages /\ queue' = Append(queue, News(generation))
    BY <1>21 DEF ReaderPosts, News, Messages, IInv, TypeOK, Watched
  <2>2. News(generation).type # "exit"
    BY DEF News
  <2>3. Exits' = Exits /\ \A i \in Exits : queue'[i] = queue[i]
    BY <2>1, <2>2, ExitsBefore
  <2>4. Told' = Told
    BY <2>3 DEF Told
  <2>5. NoticesOnce'
    BY <1>21, <2>3, <2>4 DEF ReaderPosts, NoticesOnce, NoticesInOrder
  <2>6. UNCHANGED Process!vars
    BY <1>21, <2>4 DEF ReaderPosts, Process!vars, NoticesLeft, Told
  <2>7. QED
    BY <2>5, <2>6
<1>22. QED
  BY <1>0, <1>1, <1>2, <1>3, <1>4, <1>5, <1>6, <1>7, <1>8, <1>9, <1>10, <1>11, <1>12, <1>13, <1>14, <1>15, <1>16, <1>17, <1>18, <1>19, <1>20, <1>21
     DEF Next, GuiNext, WaiterNext, ReaderNext, FallbackNext, CoreNext

LEMMA InitProcess == Init => NoticesOnce /\ Process!Init
<1> SUFFICES ASSUME Init PROVE NoticesOnce /\ Process!Init
  OBVIOUS
<1>1. queue = <<>> /\ DOMAIN queue = {}
  BY DEF Init
<1>2. Exits = {} /\ Told = {} /\ NoticesLeft = {}
  BY <1>1 DEF Exits, Told, NoticesLeft, Init
<1>3. QED
  BY <1>2 DEF Init, NoticesOnce, NoticesInOrder, Process!Init

\* Whatever its threads and the GUI thread do in between, the controller is one process after
\* the other and one notice for each, in their order (core_process_controller.cpp).
THEOREM Implements == Spec => ImplementsProcess
<1>1. NoticesOnce => NoticesInOrder
  BY DEF NoticesOnce
<1>2. QED
  BY <1>1, InitProcess, StepProcess, Inductive, PTL DEF Spec, ImplementsProcess, Process!Spec
=============================================================================
