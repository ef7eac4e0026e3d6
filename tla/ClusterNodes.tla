---------------------------- MODULE ClusterNodes ----------------------------
(***************************************************************************)
(* The nodes of a cluster, seen from one of them.                          *)
(***************************************************************************)
CONSTANTS Node, Self, None

ASSUME NodesAssumption == Self \in Node /\ None \notin Node

Peer == Node \ {Self}
=============================================================================
