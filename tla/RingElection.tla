---------------------------- MODULE RingElection ----------------------------
(***************************************************************************)
(* Leader election from the membership alone (election_ring.go), for one   *)
(* scope: each node takes the member with the lowest hash of those it      *)
(* knows to be the leader, counts the changes it sees as terms, and puts   *)
(* the previous leader into the channel of the scope's watcher.            *)
(***************************************************************************)
EXTENDS Naturals, FiniteSets, Sequences

CONSTANTS Node, None,
          Hash,       \* the hash of scope and node, different for each node
          ChanCap     \* capacity of a watcher's channel (4 in the code)

ASSUME ElectionAssumption ==
  /\ None \notin Node
  /\ Hash \in [Node -> Nat]
  /\ ChanCap \in Nat

VARIABLES
  members,    \* RingElection.members of each node, itself included
  leader,     \* electionScope.leader
  term,       \* electionScope.term; 0 while there is no scope
  events      \* the watcher's channel: the PrevLeader of each event

election == <<members, leader, term, events>>

ElectionInit ==
  /\ members = [n \in Node |-> {n}]
  /\ leader = [n \in Node |-> None]
  /\ term = [n \in Node |-> 0]
  /\ events = [n \in Node |-> <<>>]

\* computeLeader.
computeLeader(ms) == IF ms = {} THEN None ELSE CHOOSE n \in ms : \A m \in ms : Hash[n] <= Hash[m]

\* notifyWatchersLocked: a full channel drops the event.
Notified(n, prev) == IF Len(events[n]) < ChanCap THEN Append(events[n], prev) ELSE events[n]

\* Watch: makes the scope, and tells of the leader it has, without a previous one.
Watch(n) ==
  /\ leader' = [leader EXCEPT ![n] = computeLeader(members[n])]
  /\ term' = [term EXCEPT ![n] = 1]
  /\ events' = [events EXCEPT ![n] = Notified(n, None)]
  /\ UNCHANGED members

\* OnMembershipChange: the member set, and the leader of the scope if there is one.
ElectionChange(n, ms) ==
  LET new == computeLeader(ms)
      changed == term[n] # 0 /\ new # leader[n]
  IN
  /\ members' = [members EXCEPT ![n] = ms]
  /\ leader' = [leader EXCEPT ![n] = IF changed THEN new ELSE @]
  /\ term' = [term EXCEPT ![n] = IF changed THEN @ + 1 ELSE @]
  /\ events' = [events EXCEPT ![n] = IF changed THEN Notified(n, leader[n]) ELSE @]

ElectionTypeOK ==
  /\ members \in [Node -> SUBSET Node]
  /\ leader \in [Node -> Node \cup {None}]
  /\ term \in [Node -> Nat]
  /\ \A n \in Node : Len(events[n]) <= ChanCap /\ \A i \in 1 .. Len(events[n]) : events[n][i] \in Node \cup {None}
=============================================================================
