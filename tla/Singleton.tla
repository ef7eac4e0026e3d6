------------------------------ MODULE Singleton ------------------------------
(***************************************************************************)
(* A cluster singleton (singleton.go) on a set of nodes: the manager of    *)
(* each node, the election it follows, the distributed registry it looks   *)
(* into, and the hand-off protocol between a new leader and the node that  *)
(* runs the actor.  Nodes start, crash and are drained; each has its own   *)
(* view of the membership; messages are lost or late; waiting ends by a    *)
(* time-out.  A member event is one step: the callback of cluster.Start    *)
(* updates the election, reconciles, and cleans the registry; the watch    *)
(* loop takes the event of the election before or after it.                *)
(***************************************************************************)
EXTENDS RingElection

CONSTANTS Eligible,   \* the nodes that match the placement
          Faults,     \* which of "loss" (a message or a send fails), "timeout" (an
                      \* answer comes too late), "suspect" (a running node is
                      \* taken for failed) and "lag" (a node starts while others
                      \* start or have not seen it) may happen
          MaxTerm,    \* bound: terms
          MaxEvents,  \* bound: starts, crashes, drains, member events, rebalances
          MaxInst     \* bound: instances of the actor ever started

ASSUME SingletonAssumption == Eligible \subseteq Node /\ MaxInst \in Nat

VARIABLES
  node,      \* off, joining, started (Start has run), managed (registered),
             \* draining, stopped, crashed
  phase,     \* singletonState.phase
  sterm,     \* singletonState.term
  rebal,     \* singletonState.rebalancing
  cancel,    \* singletonState.cancel: the term of the hand-off it cancels, 0 none
  prev,      \* prevLeaders of the scope
  failed,    \* failedNodes
  reg,       \* the owner each node's replica of the registry has
  inst,      \* the instance of the actor that runs on each node, 0 none
  handoff,   \* the goroutines of runHandoff
  timers,    \* the goroutines of runDeactivationTimeout on each node
  wire,      \* requests and answers under way
  made,      \* counts instances
  next,      \* history: the instances that continue the state of an instance
  budget     \* counts events

manager == <<phase, sterm, rebal, cancel, prev, failed>>
net == <<handoff, timers, wire>>
vars == <<election, node, manager, reg, inst, net, made, next, budget>>

On(n) == node[n] \in {"joining", "started", "managed", "draining"}

Init ==
  /\ ElectionInit
  /\ node = [n \in Node |-> "off"]
  /\ phase = [n \in Node |-> "idle"]
  /\ sterm = [n \in Node |-> 0]
  /\ rebal = [n \in Node |-> FALSE]
  /\ cancel = [n \in Node |-> 0]
  /\ prev = [n \in Node |-> None]
  /\ failed = [n \in Node |-> {}]
  /\ reg = [n \in Node |-> None]
  /\ inst = [n \in Node |-> 0]
  /\ handoff = {}
  /\ timers = [n \in Node |-> 0]
  /\ wire = {}
  /\ made = 0
  /\ next = [i \in 1 .. MaxInst |-> {}]
  /\ budget = 0

Spend == budget < MaxEvents /\ budget' = budget + 1
-----------------------------------------------------------------------------
(* Starting, activating and giving up.                                     *)

isLeader(n, ms) == computeLeader(ms \cap Eligible) = n

\* findPrevLeader: what the watch loop or the discovery has set, or the registry.
findPrevLeader(n, p) ==
  CASE p # None -> p
    [] reg[n] \notin {None, n} -> reg[n]
    [] OTHER -> None

\* startActor: a stale actor is removed; the new one has the state of instance
\* from, or the initial one when from is 0, and is registered (RegAfter).
startActor(n, from) ==
  /\ made < MaxInst
  /\ made' = made + 1
  /\ inst' = [inst EXCEPT ![n] = made + 1]
  /\ next' = IF from = 0 THEN next ELSE [next EXCEPT ![from] = @ \cup {made + 1}]

NotStarted == UNCHANGED <<made, inst, next>>

\* The replica of node n after a step that may have started the actor there, and
\* then removed the names of node gone.
RegAfter(n, gone) ==
  LET r == IF made' # made THEN n ELSE reg[n] IN
  [reg EXCEPT ![n] = IF r = gone THEN None ELSE r]

Keep == NotStarted /\ UNCHANGED <<phase, sterm, rebal, cancel, handoff>>

\* gainLeadership in term t, with previous leader p, failed nodes fs, rebalancing r,
\* goroutines hs and s.cancel c: start at once; leave the actor where it runs; or
\* ask for it.
gainLeadership(n, t, p, fs, r, hs, c) ==
  LET owner == findPrevLeader(n, p)
      free == owner \in {None, n} \cup fs
  IN
  \/ /\ free
     /\ startActor(n, 0)
     /\ phase' = [phase EXCEPT ![n] = "active"]
     /\ sterm' = [sterm EXCEPT ![n] = t]
     /\ rebal' = [rebal EXCEPT ![n] = r]
     /\ handoff' = hs
     /\ cancel' = [cancel EXCEPT ![n] = c]
  \/ /\ ~free /\ ~r
     /\ handoff' = hs
     /\ cancel' = [cancel EXCEPT ![n] = c]
     /\ NotStarted /\ UNCHANGED <<phase, sterm, rebal>>
  \/ /\ ~free /\ r
     /\ phase' = [phase EXCEPT ![n] = "activating"]
     /\ sterm' = [sterm EXCEPT ![n] = t]
     /\ rebal' = [rebal EXCEPT ![n] = FALSE]
     /\ cancel' = [cancel EXCEPT ![n] = t]
     /\ handoff' = hs \cup {[at |-> n, to |-> owner, term |-> t, st |-> "new", cancelled |-> FALSE]}
     /\ NotStarted

\* The goroutines after s.cancel is called.
Cancelled(n) ==
  {IF h.at = n /\ h.term = cancel[n] THEN [h EXCEPT !.cancelled = TRUE] ELSE h : h \in handoff}

\* A slip: the running singleton is stopped when another node leads.
reconcile_NotSticky(n, ms, t, p, fs) ==
  \/ /\ phase[n] = "active" /\ ~isLeader(n, ms)
     /\ phase' = [phase EXCEPT ![n] = "idle"]
     /\ inst' = [inst EXCEPT ![n] = 0]
     /\ UNCHANGED <<made, next, sterm, rebal, cancel, handoff>>
  \/ (phase[n] = "active" => isLeader(n, ms)) /\ phase[n] # "idle" /\ Keep
  \/ /\ phase[n] = "idle"
     /\ IF isLeader(n, ms) THEN gainLeadership(n, t, p, fs, rebal[n], handoff, cancel[n]) ELSE Keep

\* reconcile, with the members ms and the term t of the election, the previous
\* leader p and the failed nodes fs.  A running singleton is left alone.
reconcile(n, ms, t, p, fs) ==
  \/ phase[n] \in {"active", "deactivating"} /\ Keep
  \/ /\ phase[n] = "activating" /\ ~isLeader(n, ms)
     /\ handoff' = Cancelled(n)
     /\ cancel' = [cancel EXCEPT ![n] = 0]
     /\ phase' = [phase EXCEPT ![n] = "idle"]
     /\ NotStarted /\ UNCHANGED <<sterm, rebal>>
  \/ /\ phase[n] = "activating" /\ isLeader(n, ms) /\ sterm[n] # t
     /\ gainLeadership(n, t, p, fs, rebal[n], Cancelled(n), 0)
  \/ phase[n] = "activating" /\ isLeader(n, ms) /\ sterm[n] = t /\ Keep
  \/ /\ phase[n] = "idle"
     /\ IF isLeader(n, ms) THEN gainLeadership(n, t, p, fs, rebal[n], handoff, cancel[n]) ELSE Keep
-----------------------------------------------------------------------------
(* The life of a node.                                                     *)

\* cluster.Start on a node, also after a crash: everything is new.
StartNode(n) ==
  /\ node[n] \in {"off", "crashed"} /\ Spend
  /\ "lag" \in Faults \/ \A m \in Node : node[m] \notin {"joining", "started"}
  /\ node' = [node EXCEPT ![n] = "joining"]
  /\ members' = [members EXCEPT ![n] = {n}]
  /\ leader' = [leader EXCEPT ![n] = None]
  /\ term' = [term EXCEPT ![n] = 0]
  /\ events' = [events EXCEPT ![n] = <<>>]
  /\ sterm' = [sterm EXCEPT ![n] = 0]
  /\ rebal' = [rebal EXCEPT ![n] = FALSE]
  /\ cancel' = [cancel EXCEPT ![n] = 0]
  /\ prev' = [prev EXCEPT ![n] = None]
  /\ failed' = [failed EXCEPT ![n] = {}]
  /\ reg' = [reg EXCEPT ![n] = None]
  /\ UNCHANGED <<phase, inst, net, made, next>>

\* SingletonManager.Start and DiscoverFromPeers.  A node with seeds waits for a
\* peer first.  The first answer that names the singleton is kept.
DiscoverFromPeers(n, answers) ==
  LET running == {m \in answers : phase[m] \in {"active", "deactivating"}} IN
  /\ node[n] = "joining"
  /\ members[n] # {n} \/ \A m \in Node \ {n} : ~On(m)
  /\ "lag" \in Faults \/ \A m \in Node : On(m) => m \in members[n] /\ n \in members[m]
  /\ answers \subseteq {m \in members[n] \ {n} : On(m)}
  /\ Faults \cap {"loss", "timeout"} = {} => answers = {m \in members[n] \ {n} : On(m)}
  /\ node' = [node EXCEPT ![n] = "started"]
  /\ IF running = {} \/ prev[n] # None THEN UNCHANGED prev
     ELSE \E m \in running : prev' = [prev EXCEPT ![n] = m]
  /\ UNCHANGED <<election, phase, sterm, rebal, cancel, failed, reg, inst, net, made, next, budget>>

\* Register of the singleton on a manager that has started: Watch, and reconcile,
\* which finds it idle.
Register(n) ==
  /\ node[n] = "started"
  /\ node' = [node EXCEPT ![n] = "managed"]
  /\ Watch(n)
  /\ IF isLeader(n, members[n])
     THEN gainLeadership(n, 1, prev[n], failed[n], FALSE, handoff, cancel[n]) ELSE Keep
  /\ reg' = RegAfter(n, None)
  /\ UNCHANGED <<prev, failed, timers, wire, budget>>

\* The callback of cluster.Start for a member event on node n: the election, the
\* failed nodes (old ones are forgotten), reconcile, and the registry.
Callback(n, kind, m, old) ==
  LET ms == IF kind \in {"join", "updated"} THEN members[n] \cup {m} ELSE members[n] \ {m}
      fs == (failed[n] \cup (IF kind = "failed" THEN {m} ELSE {})) \ old
  IN
  /\ term[n] < MaxTerm
  /\ ElectionChange(n, ms)
  /\ failed' = [failed EXCEPT ![n] = fs]
  /\ IF term[n] = 0 THEN Keep    \* not registered yet
     ELSE reconcile(n, ms, term'[n], prev[n], fs)
  /\ reg' = RegAfter(n, IF kind \in {"failed", "leave"} THEN m ELSE None)
  /\ UNCHANGED <<prev, timers, wire>>

\* A provider reports another node: joined, changed, failed, or left after a drain.
MemberEvent(n, kind, m, old) ==
  /\ On(n) /\ m # n /\ Spend
  /\ old \subseteq failed[n] \ {m}
  /\ CASE kind = "join"    -> m \notin members[n] /\ On(m)
       [] kind = "updated" -> m \in members[n] /\ On(m)
       [] kind = "failed"  -> m \in members[n] /\ (~On(m) \/ "suspect" \in Faults)
       [] kind = "leave"   -> m \in members[n] /\ node[m] = "stopped"
  /\ Callback(n, kind, m, old)
  /\ UNCHANGED node

\* The watch loop takes an event of the election.
watchLoop(n) ==
  LET p == IF Head(events[n]) # None THEN Head(events[n]) ELSE prev[n] IN
  /\ node[n] \in {"managed", "draining"} /\ events[n] # <<>>
  /\ events' = [events EXCEPT ![n] = Tail(@)]
  /\ prev' = [prev EXCEPT ![n] = p]
  /\ reconcile(n, members[n], term[n], p, failed[n])
  /\ reg' = RegAfter(n, None)
  /\ UNCHANGED <<members, leader, term, node, failed, timers, wire, budget>>

\* Rebalance: give up what another node should run, ask for what this one should.
Rebalance(n) ==
  /\ node[n] \in {"managed", "draining"} /\ Spend
  /\ \/ /\ phase[n] = "active" /\ ~isLeader(n, members[n])
        /\ phase' = [phase EXCEPT ![n] = "deactivating"]
        /\ sterm' = [sterm EXCEPT ![n] = term[n]]
        /\ cancel' = [cancel EXCEPT ![n] = 0]
        /\ timers' = [timers EXCEPT ![n] = @ + 1]
        /\ NotStarted /\ UNCHANGED <<rebal, handoff, reg>>
     \/ /\ phase[n] = "idle" /\ isLeader(n, members[n])
        /\ gainLeadership(n, term[n], prev[n], failed[n], TRUE, handoff, cancel[n])
        /\ reg' = RegAfter(n, None)
        /\ UNCHANGED timers
  /\ UNCHANGED <<election, node, prev, failed, wire>>

\* Drain: the event of its own leaving, which goes to the node's own callback.
DrainBegin(n) ==
  /\ node[n] = "managed" /\ Spend
  /\ node' = [node EXCEPT ![n] = "draining"]
  /\ Callback(n, "leave", n, {})

\* Drain, after the grace period: SingletonManager.Stop, the names, Cluster.Stop.
DrainStop(n) ==
  LET runs == phase[n] \in {"active", "deactivating"} IN
  /\ node[n] = "draining"
  /\ node' = [node EXCEPT ![n] = "stopped"]
  /\ handoff' = Cancelled(n)
  /\ cancel' = [cancel EXCEPT ![n] = 0]
  /\ phase' = [phase EXCEPT ![n] = IF runs THEN "idle" ELSE @]
  /\ inst' = [inst EXCEPT ![n] = IF runs THEN 0 ELSE @]
  /\ reg' = [reg EXCEPT ![n] = IF @ = n THEN None ELSE @]
  /\ UNCHANGED <<election, sterm, rebal, prev, failed, timers, wire, made, next, budget>>

\* The process ends, from one moment to the next.
Crash(n) ==
  /\ On(n) \/ node[n] = "stopped"
  /\ Spend
  /\ node' = [node EXCEPT ![n] = "crashed"]
  /\ phase' = [phase EXCEPT ![n] = "idle"]
  /\ inst' = [inst EXCEPT ![n] = 0]
  /\ handoff' = {h \in handoff : h.at # n}
  /\ timers' = [timers EXCEPT ![n] = 0]
  /\ UNCHANGED <<election, sterm, rebal, cancel, prev, failed, reg, wire, made, next>>
-----------------------------------------------------------------------------
(* The hand-off.                                                           *)

Replace(h, new) == handoff' = (handoff \ {h}) \cup {new}
Others == <<election, node, rebal, cancel, prev, failed, timers, budget>>

\* runHandoff sends the request; or the send fails, and it pauses.
SendRequest(h) ==
  /\ h \in handoff /\ h.st = "new"
  /\ \/ /\ Replace(h, [h EXCEPT !.st = "waiting"])
        /\ wire' = wire \cup {[kind |-> "request", from |-> h.at, to |-> h.to, term |-> h.term, ok |-> FALSE, inst |-> 0]}
     \/ /\ ~On(h.to) \/ h.cancelled \/ "loss" \in Faults
        /\ Replace(h, [h EXCEPT !.st = "pausing"])
        /\ UNCHANGED wire
  /\ UNCHANGED <<Others, phase, sterm, reg, inst, made, next>>

\* A slip: an answer without state is not acted upon.
completeActivation_OnlyState(h, from) ==
  LET n == h.at IN
  /\ handoff' = handoff \ {h}
  /\ IF from # 0 /\ phase[n] = "activating" /\ sterm[n] = h.term /\ term[n] = h.term
     THEN startActor(n, from) /\ phase' = [phase EXCEPT ![n] = "active"]
     ELSE NotStarted /\ UNCHANGED phase
  /\ reg' = RegAfter(n, None)
  /\ UNCHANGED <<Others, sterm>>

\* completeActivation, the last thing its goroutine does: not if the phase or the
\* term is another; back to idle if the election went on; else the actor starts.
completeActivation(h, from) ==
  LET n == h.at IN
  /\ handoff' = handoff \ {h}
  /\ \/ /\ phase[n] # "activating" \/ sterm[n] # h.term
        /\ NotStarted /\ UNCHANGED phase
     \/ /\ phase[n] = "activating" /\ sterm[n] = h.term /\ term[n] # h.term
        /\ phase' = [phase EXCEPT ![n] = "idle"]
        /\ NotStarted
     \/ /\ phase[n] = "activating" /\ sterm[n] = h.term /\ term[n] = h.term
        /\ startActor(n, from)
        /\ phase' = [phase EXCEPT ![n] = "active"]
  /\ reg' = RegAfter(n, None)
  /\ UNCHANGED <<Others, sterm>>

\* onHandoffResponse: the answer goes to the goroutine of its name and term.
TakeAnswer(h, r) ==
  /\ h \in handoff /\ h.st = "waiting" /\ On(h.at)
  /\ r \in wire /\ r.kind = "answer" /\ r.to = h.at /\ r.term = h.term
  /\ wire' = wire \ {r}
  /\ completeActivation(h, IF r.ok THEN r.inst ELSE 0)

Unanswered(h) ==
  \A r \in wire : ~(\/ r.kind = "request" /\ r.from = h.at /\ r.to = h.to /\ r.term = h.term
                    \/ r.kind = "answer" /\ r.to = h.at /\ r.term = h.term)

\* The context ends while the goroutine waits: the time is up, or it is cancelled.
HandoffTimeout(h) ==
  /\ h \in handoff /\ h.st = "waiting"
  /\ h.cancelled \/ Unanswered(h) \/ "timeout" \in Faults
  /\ completeActivation(h, 0)
  /\ UNCHANGED wire

\* The pause after a failed send ends; if the context ended before, nothing more
\* is done.
PauseEnds(h) ==
  /\ h \in handoff /\ h.st = "pausing"
  /\ \/ completeActivation(h, 0)
     \/ /\ h.cancelled
        /\ handoff' = handoff \ {h}
        /\ NotStarted
        /\ UNCHANGED <<Others, phase, sterm, reg>>
  /\ UNCHANGED wire

\* A slip: the state is taken from the actor, which goes on running.
onHandoffRequest_NotStopped(r) ==
  LET n == r.to
      runs == phase[n] \in {"active", "deactivating"}
  IN
  /\ r \in wire /\ r.kind = "request" /\ node[n] \in {"managed", "draining"}
  /\ wire' = (wire \ {r}) \cup {[kind |-> "answer", from |-> n, to |-> r.from, term |-> r.term,
                                 ok |-> runs, inst |-> inst[n]]}
  /\ UNCHANGED <<election, node, manager, reg, inst, handoff, timers, made, next, budget>>

\* onHandoffRequest: the actor is stopped and its state captured, the name goes,
\* and the answer is sent.
onHandoffRequest(r) ==
  LET n == r.to
      runs == phase[n] \in {"active", "deactivating"}
  IN
  /\ r \in wire /\ r.kind = "request" /\ node[n] \in {"managed", "draining"}
  /\ wire' = (wire \ {r}) \cup {[kind |-> "answer", from |-> n, to |-> r.from, term |-> r.term,
                                 ok |-> runs, inst |-> inst[n]]}
  /\ phase' = [phase EXCEPT ![n] = IF runs THEN "idle" ELSE @]
  /\ cancel' = [cancel EXCEPT ![n] = IF runs THEN 0 ELSE @]
  /\ inst' = [inst EXCEPT ![n] = IF runs THEN 0 ELSE @]
  /\ reg' = [reg EXCEPT ![n] = IF runs THEN None ELSE @]
  /\ UNCHANGED <<election, node, sterm, rebal, prev, failed, handoff, timers, made, next, budget>>

\* A slip: the phase stays, and the actor counts as running.
runDeactivationTimeout_KeepsPhase(n) ==
  /\ timers[n] > 0
  /\ timers' = [timers EXCEPT ![n] = @ - 1]
  /\ inst' = [inst EXCEPT ![n] = IF phase[n] = "deactivating" THEN 0 ELSE @]
  /\ UNCHANGED <<election, node, manager, reg, handoff, wire, made, next, budget>>

\* runDeactivationTimeout: nobody asked in time, and stopAndCleanup.
runDeactivationTimeout(n) ==
  LET stop == phase[n] = "deactivating" IN
  /\ timers[n] > 0
  /\ timers' = [timers EXCEPT ![n] = @ - 1]
  /\ phase' = [phase EXCEPT ![n] = IF stop THEN "idle" ELSE @]
  /\ cancel' = [cancel EXCEPT ![n] = IF stop THEN 0 ELSE @]
  /\ inst' = [inst EXCEPT ![n] = IF stop THEN 0 ELSE @]
  /\ reg' = [reg EXCEPT ![n] = IF stop THEN None ELSE @]
  /\ UNCHANGED <<election, node, sterm, rebal, prev, failed, handoff, wire, made, next, budget>>

\* A message is lost, or its receiver is gone, or nobody waits for the answer.
LoseMessage(r) ==
  /\ r \in wire
  /\ \/ "loss" \in Faults
     \/ ~On(r.to)
     \/ r.kind = "answer" /\ \A h \in handoff : ~(h.at = r.to /\ h.term = r.term)
  /\ wire' = wire \ {r}
  /\ UNCHANGED <<election, node, manager, reg, inst, handoff, timers, made, next, budget>>

\* The replicas of the registry converge: an entry of a running singleton, or the
\* removal of one, arrives.
SyncRegistry(n, m) ==
  /\ On(n) /\ On(m) /\ reg[n] # reg[m]
  /\ \/ reg[m] # None /\ inst[reg[m]] # 0
     \/ reg[m] = None /\ reg[n] # n /\ inst[reg[n]] = 0
  /\ reg' = [reg EXCEPT ![n] = reg[m]]
  /\ UNCHANGED <<election, node, manager, inst, net, made, next, budget>>

Next ==
  \/ \E n \in Node : StartNode(n) \/ Register(n) \/ watchLoop(n) \/ Rebalance(n)
  \/ \E n \in Node, answers \in SUBSET Node : DiscoverFromPeers(n, answers)
  \/ \E n, m \in Node, kind \in {"join", "updated", "failed", "leave"}, old \in SUBSET Node :
       MemberEvent(n, kind, m, old)
  \/ \E n \in Node : DrainBegin(n) \/ DrainStop(n) \/ Crash(n) \/ runDeactivationTimeout(n)
  \/ \E h \in handoff : SendRequest(h) \/ HandoffTimeout(h) \/ PauseEnds(h)
  \/ \E h \in handoff, r \in wire : TakeAnswer(h, r)
  \/ \E r \in wire : onHandoffRequest(r) \/ LoseMessage(r)
  \/ \E n, m \in Node : SyncRegistry(n, m)

Spec == Init /\ [][Next]_vars
-----------------------------------------------------------------------------
(* Properties.                                                             *)

\* The manager's phase tells the truth: it is active or deactivating exactly where
\* the actor runs, whatever order requests, answers, time-outs and events come in
\* (Running, which answers a discovery, and onHandoffRequest rely on it).
PhaseTruthful == \A n \in Node : inst[n] # 0 <=> phase[n] \in {"active", "deactivating"}

\* An activation of the current term has its goroutine: it will be completed, by an
\* answer or by a time-out, as long as the manager is not stopped (gainLeadership,
\* reconcile, completeActivation).
ActivationAttended ==
  \A n \in Node : phase[n] = "activating" /\ node[n] = "managed" /\ sterm[n] = term[n] =>
    \E h \in handoff : h.at = n /\ h.term = sterm[n]

\* The state of an instance is continued by one instance at most, and only after it
\* was stopped: no loss, delay or repetition of a hand-off lets two nodes go on from
\* the same state (onHandoffRequest, the correlation by term).
StateHandedOnce ==
  \A i \in 1 .. MaxInst :
    /\ Cardinality(next[i]) <= 1
    /\ next[i] # {} => \A n \in Node : inst[n] # i

\* A member event or an election never stops a running singleton: it stops when a
\* new leader asks for it, when its own time is up after a Rebalance, with the
\* drain of its node, or with the process (the stickiness of reconcile).
Sticky ==
  [][\A n \in Node : inst[n] # 0 /\ inst'[n] # inst[n] =>
       \/ \E r \in wire : r.kind = "request" /\ r.to = n /\ r \notin wire'
       \/ phase[n] = "deactivating" /\ timers'[n] < timers[n]
       \/ node'[n] \in {"stopped", "crashed"}]_vars

\* The singleton runs on one node at most.
AtMostOne == Cardinality({n \in Node : inst[n] # 0}) <= 1
=============================================================================
