-------------------------- MODULE MCCoreController --------------------------
(* Instance of CoreController for TLC: the processes are counted only by the
   bound LastGeneration of the cfg. *)
EXTENDS CoreController
=============================================================================
