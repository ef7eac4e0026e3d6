--------------------------- MODULE MCActorRuntime ---------------------------
(***************************************************************************)
(* One actor id, two instances of it (so that it can be created, stopped,  *)
(* removed and created again) and two clients whose calls interleave.      *)
(* Clients and instances are interchangeable; no temporal property of the  *)
(* eventual kind is checked under the symmetry.                            *)
(***************************************************************************)
EXTENDS ActorRuntime, TLC

Symmetry == Permutations(Client) \cup Permutations(Instance)
=============================================================================
