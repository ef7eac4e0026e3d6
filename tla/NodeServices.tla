---------------------------- MODULE NodeServices ----------------------------
(***************************************************************************)
(* What a node keeps according to its members: the members its election    *)
(* counts (election_ring.go), the nodes its resolver can reach             *)
(* (remote_resolver.go), the names of the cluster registry                 *)
(* (registry_crdt.go), the placement decisions of a ClusterSupervisor      *)
(* (supervision_cluster.go, placement.go) and the daemons it runs          *)
(* (daemonset.go, daemonset_replicated.go).                                *)
(*                                                                         *)
(* The registry is one replica of an add-wins map: an entry that a peer    *)
(* made or removed arrives at any time.                                    *)
(***************************************************************************)
EXTENDS ClusterNodes, Naturals, FiniteSets

CONSTANTS Name, Daemon,
          Replicated,   \* the daemons with a replicated state
          Placed,       \* the daemons with a placement, which a tag of the node decides
          Rank,         \* the hash of the supervisor's scope and each node
          Registered    \* the names there are from the start

VARIABLES
  members,     \* RingElection.members
  moved,       \* the term of the supervisor's scope changed since it made its plan
  reach,       \* RemotePIDResolver.remoteNodes
  names,       \* the registry: the node of the PID of each name
  late,        \* history: the names put by a node that was gone already
  supervisor,  \* ClusterSupervisor.Start was called
  plan,        \* the decisions the supervisor is about to commit
  decisions,   \* ClusterSupervisor.decisions
  matches,     \* the node's own tags match the placement
  daemons,     \* DaemonSetManager.daemons: running, the actor with its name, and the
               \* replicated states that are open
  managing     \* DaemonSetManager.started

clusterState == <<members, moved, reach, names, late, supervisor, plan, decisions>>
daemonState == <<matches, daemons, managing>>
serviceVars == <<clusterState, daemonState>>

NoPlan == [failed |-> None, to |-> <<>>]
Absent == [spec |-> FALSE, running |-> FALSE, actor |-> "none", states |-> 0]

ServicesInit(settled) ==
  /\ members = settled \cup {Self}
  /\ moved = FALSE
  /\ reach = settled
  /\ names = Registered
  /\ late = {}
  /\ supervisor = FALSE
  /\ plan = NoPlan
  /\ decisions = {}
  /\ matches = TRUE
  /\ daemons = [d \in Daemon |-> Absent]
  /\ managing = FALSE
-----------------------------------------------------------------------------
(* Election and resolver                                                   *)

computeLeader(ms) == CHOOSE n \in ms : \A m \in ms : Rank[n] <= Rank[m]

After(S, ev) == IF ev.type \in {"join", "updated"} THEN S \cup {ev.peer} ELSE S \ {ev.peer}

ElectionChange(ev) ==
  /\ members' = After(members, ev)
  /\ moved' = (plan # NoPlan /\ (moved \/ computeLeader(After(members, ev)) # computeLeader(members)))

\* AddRemoteNode, RemoveRemoteNode.
ResolverChange(ev) == reach' = After(reach, ev)
-----------------------------------------------------------------------------
(* Registry                                                                *)

NamesByNode(n) == {x \in Name : names[x] = n}
UnregisterByNode(n) == names' = [x \in Name |-> IF names[x] = n THEN None ELSE names[x]]

\* A slip: only a failure removes the names.
OnMembershipChange_FailedOnly(ev) ==
  IF ev.type = "failed" THEN UnregisterByNode(ev.peer) ELSE UNCHANGED names

OnMembershipChange(ev) ==
  IF ev.type \in {"failed", "leave"} THEN UnregisterByNode(ev.peer) ELSE UNCHANGED names

\* Register refuses a name that is taken by another PID.
Register(x) ==
  /\ names[x] = None
  /\ names' = [names EXCEPT ![x] = Self]
  /\ late' = late \ {x}
  /\ UNCHANGED <<members, moved, reach, supervisor, plan, decisions, daemonState>>

Unregister(x) ==
  /\ names[x] # None
  /\ names' = [names EXCEPT ![x] = None]
  /\ UNCHANGED <<members, moved, reach, late, supervisor, plan, decisions, daemonState>>

\* An entry made by node n arrives; present says whether n is a member here.
MergePut(x, n, present) ==
  /\ names[x] = None
  /\ names' = [names EXCEPT ![x] = n]
  /\ late' = IF present THEN late \ {x} ELSE late \cup {x}
  /\ UNCHANGED <<members, moved, reach, supervisor, plan, decisions, daemonState>>
-----------------------------------------------------------------------------
(* Supervisor                                                              *)

\* Start: SetOnMemberEvent takes the place of the callback there was.
SupervisorStart ==
  /\ ~supervisor
  /\ supervisor' = TRUE
  /\ UNCHANGED <<members, moved, reach, names, late, plan, decisions, daemonState>>

\* SimpleRestartPolicy: the names in turn over the live nodes, both in the order of a
\* map, so each node gets as many as the next, give or take one.
RoundRobin(xs, live) ==
  {f \in [xs -> live] : \A m, n \in live :
     Cardinality({x \in xs : f[x] = m}) <= Cardinality({x \in xs : f[x] = n}) + 1}

\* handleNodeFailure, up to the decisions, after the election has seen the event: the
\* leader only, for a node with names.  Without a live peer there is no decision, and
\* the names are removed all the same.
handleNodeFailure(failed, live) ==
  IF computeLeader(members \ {failed}) # Self \/ NamesByNode(failed) = {} THEN UNCHANGED plan
  ELSE \E f \in IF live = {} THEN {<<>>} ELSE RoundRobin(NamesByNode(failed), live) :
         plan' = [failed |-> failed, to |-> f]

\* handleNodeFailure, from the fencing check on.
CommitDecisions ==
  /\ plan # NoPlan
  /\ plan' = NoPlan
  /\ moved' = FALSE
  /\ IF moved THEN UNCHANGED <<decisions, names>>
     ELSE /\ decisions' = decisions \cup {<<x, plan.to[x]>> : x \in DOMAIN plan.to}
          /\ UnregisterByNode(plan.failed)
  /\ UNCHANGED <<members, reach, late, supervisor, daemonState>>
-----------------------------------------------------------------------------
(* The callback of a member event                                          *)

\* The callback of cluster.Start: election, resolver, registry.  (The singleton
\* manager and the publication on cluster.membership are in modules of their own.)
StartCallback(ev) ==
  /\ ElectionChange(ev)
  /\ ResolverChange(ev)
  /\ OnMembershipChange(ev)
  /\ UNCHANGED <<late, supervisor, plan, decisions, daemonState>>

\* The callback of ClusterSupervisor.Start: election, and the failures.
SupervisorCallback(ev, live) ==
  /\ ElectionChange(ev)
  /\ IF ev.type = "failed" THEN handleNodeFailure(ev.peer, live \ {ev.peer}) ELSE UNCHANGED plan
  /\ UNCHANGED <<reach, names, late, supervisor, decisions, daemonState>>

OnMemberEvent(ev, live) == IF supervisor THEN SupervisorCallback(ev, live) ELSE StartCallback(ev)
-----------------------------------------------------------------------------
(* Daemons                                                                 *)

shouldRunLocally(d, m) == d \in Placed => m

\* The state is made first, and closed again when the actor cannot be created: an
\* actor that was stopped keeps its name in the runtime.
startReplicatedDaemon(e) ==
  IF e.actor = "none" THEN [spec |-> e.spec, running |-> TRUE, actor |-> "alive", states |-> e.states + 1] ELSE e

startDaemon(e) ==
  IF e.actor = "none" THEN [spec |-> e.spec, running |-> TRUE, actor |-> "alive", states |-> e.states] ELSE e

stopDaemon(d, e) ==
  [spec |-> e.spec, running |-> FALSE, actor |-> "stopped",
   states |-> IF d \in Replicated THEN e.states - 1 ELSE e.states]

reconcileDaemon(d, e, m) ==
  CASE e.spec /\ shouldRunLocally(d, m) /\ ~e.running ->
         IF d \in Replicated THEN startReplicatedDaemon(e) ELSE startDaemon(e)
    [] e.spec /\ ~shouldRunLocally(d, m) /\ e.running -> stopDaemon(d, e)
    [] OTHER -> e

\* Register and RegisterReplicated, each name once.
RegisterDaemon(d) ==
  /\ ~daemons[d].spec
  /\ daemons' = [daemons EXCEPT ![d] =
       LET e == [daemons[d] EXCEPT !.spec = TRUE] IN IF managing THEN reconcileDaemon(d, e, matches) ELSE e]
  /\ UNCHANGED <<matches, managing, clusterState>>

ReconcileAll == daemons' = [d \in Daemon |-> reconcileDaemon(d, daemons[d], matches)]

DaemonsStart ==
  /\ ~managing
  /\ managing' = TRUE
  /\ ReconcileAll
  /\ UNCHANGED <<matches, clusterState>>

StopDaemons ==
  /\ managing' = FALSE
  /\ daemons' = [d \in Daemon |-> IF daemons[d].running THEN stopDaemon(d, daemons[d]) ELSE daemons[d]]
  /\ UNCHANGED <<matches, clusterState>>

DaemonsStop == managing /\ StopDaemons

Reconcile ==
  /\ managing
  /\ ReconcileAll
  /\ UNCHANGED <<matches, managing, clusterState>>

\* UpdateTags, RemoveTag: they do not reconcile the daemons.
UpdateTags ==
  /\ matches' = ~matches
  /\ UNCHANGED <<daemons, managing, clusterState>>

NamesCommand ==
  \/ \E x \in Name : Register(x) \/ Unregister(x)
  \/ SupervisorStart

DaemonsCommand ==
  \/ \E d \in Daemon : RegisterDaemon(d)
  \/ DaemonsStart \/ DaemonsStop \/ Reconcile \/ UpdateTags
=============================================================================
