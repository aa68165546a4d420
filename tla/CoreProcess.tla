---------------------------- MODULE CoreProcess ----------------------------
(***************************************************************************)
(* What the controller promises the window about the Core process: one     *)
(* process at a time, named by its generation; the window is told of its   *)
(* end, once, by a notice that may come after the next one was started,    *)
(* and is answered "not running" no earlier than the process has ended.    *)
(* Notices come in the order of the processes, so their set says which is  *)
(* the next.                                                               *)
(***************************************************************************)
EXTENDS Integers

VARIABLES
    generation,     \* the last process started
    running,        \* what the window is answered
    asked,          \* whether it asked for the end
    owed,           \* the process ended, the notice is to come
    notices         \* the processes whose notice the window has not taken

vars == <<generation, running, asked, owed, notices>>

Init == generation = 0 /\ ~running /\ ~asked /\ ~owed /\ notices = {}

Start ==
    /\ ~running /\ ~owed
    /\ generation' = generation + 1
    /\ running' \in BOOLEAN     \* a process may have to be ended at once
    /\ asked' = FALSE
    /\ UNCHANGED <<owed, notices>>

Ask ==
    /\ running /\ asked' = TRUE
    /\ UNCHANGED <<generation, running, owed, notices>>

End ==
    /\ running /\ running' = FALSE /\ owed' = TRUE
    /\ UNCHANGED <<generation, asked, notices>>

Tell ==
    /\ owed /\ owed' = FALSE
    /\ generation \notin notices /\ notices' = notices \cup {generation}
    /\ UNCHANGED <<generation, running, asked>>

\* The notice about g is the next.
Oldest(g) == g \in notices /\ \A h \in notices : g <= h

\* The end of the present process settles the request to end it.
Take ==
    /\ \E g \in notices :
        /\ Oldest(g) /\ notices' = notices \ {g}
        /\ asked' = (asked /\ g # generation)
    /\ UNCHANGED <<generation, running, owed>>

\* The end was taken together with the start of the next process.
TakeAndStart ==
    /\ Oldest(generation) /\ notices' = notices \ {generation}
    /\ ~running /\ ~owed
    /\ generation' = generation + 1 /\ running' = TRUE /\ asked' = FALSE
    /\ UNCHANGED owed

\* The window is destroyed and waits for the end.
Quit ==
    /\ ~running /\ ~owed /\ asked' = FALSE
    /\ UNCHANGED <<generation, running, owed, notices>>

Next == Start \/ Ask \/ End \/ Tell \/ Take \/ TakeAndStart \/ Quit

Spec == Init /\ [][Next]_vars
=============================================================================
