---------------------------- MODULE RingTopology ----------------------------
(***************************************************************************)
(* Whom a node connects to and where it sends an envelope next, from the   *)
(* members it knows (topology_ring.go, topology_full.go).  The ring of a   *)
(* member set orders it by hash; a place on the ring is counted clockwise  *)
(* from the node that looks.                                               *)
(***************************************************************************)
EXTENDS ClusterNodes, Naturals, FiniteSets

CONSTANTS Pos,       \* hashVNode(n, 0) of each node, different for each
          Space,     \* the size of the hash space (2^64 in the code)
          Fanout     \* RingTopology.Fanout, at least 1 (NewRingTopology)

ASSUME RingAssumption ==
  /\ IsFiniteSet(Node)
  /\ Space \in Nat
  /\ Fanout \in Nat \ {0}
  /\ Pos \in [Node -> 0 .. Space - 1]
  /\ \A m, n \in Node : Pos[m] = Pos[n] => m = n

\* How far b is from a, clockwise, in the hash space.
Arc(a, b) == IF Pos[a] <= Pos[b] THEN Pos[b] - Pos[a] ELSE (Space - Pos[a]) + Pos[b]

\* The nodes of the ring of S that are passed on the way from a to b, b included.
Passed(S, a, b) == {x \in S : 0 < Arc(a, x) /\ Arc(a, x) <= Arc(a, b)}

ringDistance(S, a, b) == Cardinality(Passed(S, a, b))

\* Jumps of 1, 2, 4 ... places, log2(n) of them.
numFingers(n) == CHOOSE k \in 1 .. n : 2 ^ k <= n /\ n < 2 ^ (k + 1)

buildFingers(S, a) ==
  IF Cardinality(S) <= 2 THEN {}
  ELSE {x \in S \ {a} : \E i \in 0 .. numFingers(Cardinality(S)) - 1 : ringDistance(S, a, x) = 2 ^ i}

Neighbours(S, a) ==
  {x \in S \ {a} : ringDistance(S, a, x) \in 1 .. Fanout \/ ringDistance(S, x, a) \in 1 .. Fanout}

\* S holds the node itself, as memberListLocked and buildRing have it.
RingShouldConnect(S, self) ==
  IF Cardinality(S) <= 2 * Fanout + 1 THEN S \ {self}
  ELSE Neighbours(S, self) \cup buildFingers(S, self)

\* A slip: the way to the target is measured from the wrong end.
Closest_Backwards(S, C, target) ==
  CHOOSE h \in C : \A c \in C : ringDistance(S, target, h) <= ringDistance(S, target, c)

\* The candidate that is nearest to the target, clockwise.
Closest(S, C, target) ==
  CHOOSE h \in C : \A c \in C : ringDistance(S, h, target) <= ringDistance(S, c, target)

RingRoute(S, self, target) ==
  IF target \notin S \/ Cardinality(S) < 2 THEN None
  ELSE IF ringDistance(S, self, target) <= Fanout THEN target
  ELSE Closest(S, Neighbours(S, self) \cup buildFingers(S, self), target)

FullShouldConnect(S, self) == S \ {self}
FullRoute(S, target) == IF target \in S THEN target ELSE None
=============================================================================
