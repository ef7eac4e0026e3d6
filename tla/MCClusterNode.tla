---------------------------- MODULE MCClusterNode ----------------------------
(***************************************************************************)
(* Five nodes on the ring, so that one of them is two hops away: two that  *)
(* stay and two that come and go.                                          *)
(***************************************************************************)
EXTENDS ClusterNode

CONSTANTS n0, p1, p2, p3, p4

MCNode == {n0, p1, p2, p3, p4}
MCPos == [n \in MCNode |-> CASE n = n0 -> 1 [] n = p1 -> 3 [] n = p3 -> 4 [] n = p2 -> 6 [] n = p4 -> 7]
MCRank == [n \in MCNode |-> IF n = p2 THEN 0 ELSE MCPos[n]]
MCRegistered == [a |-> p2, b |-> None]
MCChanges == [send |-> 2, names |-> 3, daemons |-> 0]
MCCommands == [send |-> 2, names |-> 1, daemons |-> 7]
=============================================================================
