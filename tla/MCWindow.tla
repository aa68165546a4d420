------------------------------ MODULE MCWindow ------------------------------
(* Three programs; somebody with one address who starts a second Core; two  *)
(* contacts, a key with and without a modifier, and a mouse button.         *)
EXTENDS AppWindow, TLC

MCEndpointsOf == 1 :> {"a1"}
MCSessions == 1 :> 2
MCHotkeys == {[modifiers |-> {}, vk |-> "f"], [modifiers |-> {"ctrl"}, vk |-> "f"],
              [modifiers |-> {}, vk |-> "x"]}
=============================================================================
