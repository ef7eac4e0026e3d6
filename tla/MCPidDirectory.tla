--------------------------- MODULE MCPidDirectory ---------------------------
(* One actor id with two instances, two namespaces and two clients.         *)
EXTENDS PidDirectory, TLC

CONSTANTS a1, n1, x, y, c1, c2

\* The clients, and the namespaces, differ in nothing but their names.
Symmetry == Permutations({c1, c2}) \cup Permutations({x, y})
=============================================================================
