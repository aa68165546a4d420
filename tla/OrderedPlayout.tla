--------------------------- MODULE OrderedPlayout ---------------------------
(***************************************************************************)
(* What a jitter buffer promises the render thread, with no ring, no       *)
(* pending map and no packet numbers: a set of frames that are held, of    *)
(* which the oldest are played or dropped first, and a cursor that only    *)
(* a new sender session moves back.                                        *)
(***************************************************************************)
EXTENDS Integers, FiniteSetsExt

CONSTANT Packets    \* the sets of frame positions that arrive together

VARIABLES
    held,    \* frames accepted and neither played nor dropped
    cursor   \* one past the last frame played

vars == <<held, cursor>>

Gone == held \ held'

OldestFirst == \A old \in Gone, kept \in held' : old < kept

Init == held = {} /\ cursor = 0

\* Frames arrive, none of them behind the cursor; the oldest may have to make room.
Store ==
    /\ \A f \in held' \ held : f >= cursor
    /\ OldestFirst
    /\ UNCHANGED cursor

Play ==
    /\ Gone # {}
    /\ held' \subseteq held
    /\ OldestFirst
    /\ cursor' = Max(Gone) + 1

\* A new session: nothing is held but, at most, the packet that announced it.
Restart ==
    /\ \E p \in Packets \cup {{}} : held' \subseteq p
    /\ cursor' = 0

Next == Store \/ Play \/ Restart

Spec == Init /\ [][Next]_vars
=============================================================================
