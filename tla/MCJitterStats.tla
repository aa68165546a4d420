---------------------------- MODULE MCJitterStats ----------------------------
(* A small jitter buffer: packets of one and two frames, alternating.        *)
EXTENDS JitterStats

MCFrameStart == [s \in 0 .. (LastSequence + 1) |-> (3 * s) \div 2]
=============================================================================
