----------------------------- MODULE MCPeerInfo -----------------------------
(* Two Cores with different budgets: first that of a, then that of b.       *)
EXTENDS PeerInfoExchange

CONSTANTS a, b

MCCores == {a, b}
Each(n, m) == [c \in MCCores |-> IF c = a THEN n ELSE m]
TwoOne == Each(2, 1)
OneZero == Each(1, 0)
=============================================================================
