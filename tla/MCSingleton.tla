----------------------------- MODULE MCSingleton -----------------------------
(***************************************************************************)
(* Three nodes, the last to start having the lowest hash.                  *)
(***************************************************************************)
EXTENDS Singleton

CONSTANTS n1, n2, n3

MCHash == [n \in Node |-> CASE n = n1 -> 3 [] n = n2 -> 2 [] n = n3 -> 1]
AllFaults == {"loss", "timeout", "suspect", "lag"}
NoFaults == {}
=============================================================================
