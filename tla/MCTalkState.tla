---------------------------- MODULE MCTalkState ----------------------------
(* Instance of TalkState for TLC.  The contacts are model values: nothing tells
   them apart but their place in the list. *)
EXTENDS TalkState, TLC

Alike == Permutations(Contacts)
=============================================================================
