------------------------------ MODULE MCBrokers ------------------------------
(***************************************************************************)
(* Two nodes with a subscriber each.  The patterns have a literal, a +     *)
(* before a literal and a tail, which overlap on one topic.  The nodes are *)
(* alike, their subscribers with them.                                     *)
(***************************************************************************)
EXTENDS Brokers, TLC

CONSTANTS n1, n2, s1, s2

MCNode == {n1, n2}
MCSubscriber == {s1, s2}
MCHome == [s \in {s1, s2} |-> IF s = s1 THEN n1 ELSE n2]
MCPattern == {<<"a", "b">>, <<"+", "b">>, <<"a", "#">>}
MCTopic == {<<"a", "b">>, <<"c", "b">>}
MCPublication == {"m1"}
MCCommands == [pubsub |-> 5, cron |-> 5, pool |-> 3, service |-> 3]
MCWorkerList == {<<>>, <<s1>>, <<s2>>, <<s1, s1, s2>>, <<s2, s2, s1>>}
MCMessage == {[type |-> "t", version |-> "", key |-> 0, near |-> {}],
              [type |-> "u", version |-> "v1", key |-> 2, near |-> {}]}
             \cup {[type |-> "t", version |-> "v2", key |-> 1, near |-> {n}] : n \in MCNode}

Symmetry == {f \in Permutations({n1, n2, s1, s2}) :
               f[n1] \in MCNode /\ f[n2] \in MCNode /\ (f[n1] = n1 <=> f[s1] = s1)}
=============================================================================
