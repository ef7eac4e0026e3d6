------------------------------- MODULE Routers -------------------------------
(***************************************************************************)
(* Who gets a message: the router of a pool of workers (ConfigureRouter    *)
(* and dispatchRouted of runtime.go), the router of a service whose        *)
(* workers join from every node (cluster_router.go), and the type rules of *)
(* the worker (routing.go).                                                *)
(*                                                                         *)
(* A call copies the list of workers under a lock, chooses from the copy   *)
(* without one, and sends: calls and reconfigurations interleave at these  *)
(* points.  The workers are the subscribers, and a worker is not a router  *)
(* itself.  Ask differs from Send in what follows the choice, Broadcast    *)
(* makes none.                                                             *)
(***************************************************************************)
EXTENDS Subscribers

CONSTANTS WorkerList,   \* the lists a router is configured with
          Message,      \* type, version ("" when it has none), the hash of its key
                        \* (0 when it has none), and the nodes the call prefers
          MaxRoutes,    \* bound: calls
          MaxStates     \* bound: states of the service's router ever made

ASSUME RouterAssumption ==
  /\ WorkerList \subseteq Seq(Subscriber)
  /\ Message \subseteq [type : STRING, version : STRING, key : Nat, near : SUBSET Node]
  /\ MaxRoutes \in Nat /\ MaxStates \in Nat

VARIABLES
  hub,      \* the actor that is the router is not stopped
  states,   \* the routerRuntimeState of the hub (0) and the states of the service's
            \* router, with the workers each has taken in a row (history)
  service,  \* ClusterRouter.routers: the state of the service, 0 when none
  group,    \* the registry: the generation of the PID under each worker's key
  order,    \* the workers in the order of their keys, <<>> when there is no service
  rules,    \* typeRoutingRegistry.byActor
  route     \* the calls

routerVars == <<hub, states, service, group, order, rules, route>>

Strategy == {"round_robin", "random", "consistent_key"}
Group == {{}} \cup {{n} : n \in Node}   \* a filter or a preference, {} for none

NoRun == [list |-> <<>>, took |-> [s \in Subscriber |-> 0]]
NewState(strategy, filter, prefer) ==
  [strategy |-> strategy, workers |-> <<>>, filter |-> filter, prefer |-> prefer, next |-> 0, run |-> NoRun]
Unset == NewState("none", {}, {})
Over == [at |-> "refused", obj |-> 0, strategy |-> "none", list |-> <<>>, msg |-> <<>>, to |-> <<>>]

\* What a loop keeps of a list: the elements at the places of I, in their order.
Kept(s, I) ==
  LET at == CHOOSE f \in [1 .. Cardinality(I) -> I] : \A a, b \in DOMAIN f : a < b => f[a] < f[b]
  IN  [k \in 1 .. Cardinality(I) |-> s[at[k]]]

\* The first of equal workers stays.
normalized(ws) == Kept(ws, {i \in 1 .. Len(ws) : \A j \in 1 .. i - 1 : ws[j] # ws[i]})

\* A worker of a pool is an id, so that any generation will do.
Ids(ws) == [k \in 1 .. Len(ws) |-> <<ws[k], 0>>]

\* What ConfigureRouter stores.
Pool(strategy, ws) == [NewState(strategy, {}, {}) EXCEPT !.workers = Ids(normalized(ws))]

\* The pool may have its workers already, and the workers have joined the service.
RoutersInit ==
  /\ hub = TRUE
  /\ states \in {[o \in 0 .. MaxStates |-> IF o = 0 THEN hubState ELSE Unset] :
                   hubState \in {Unset} \cup {Pool(strategy, ws) : strategy \in Strategy, ws \in WorkerList}}
  /\ service = 0
  /\ group = [s \in Subscriber |-> gen[s]]
  /\ order \in Injection(1 .. Cardinality(Subscriber), Subscriber) \cup {<<>>}
  /\ rules = [s \in Subscriber |-> [exact |-> {}, fallback |-> FALSE]]
  /\ route = <<>>

Set(i, c) == route' = [route EXCEPT ![i] = c]
-----------------------------------------------------------------------------
(* The type rules of a worker, which outlive the actor.  A stopped actor   *)
(* has an entry in the registry until it is removed, and may get rules.    *)

SchemaVersion(v) == IF v = "" THEN "v1" ELSE v

RegisterTypeRoute(s, type, version) ==
  /\ rules' = [rules EXCEPT ![s].exact = @ \cup {<<type, SchemaVersion(version)>>}]
  /\ UNCHANGED <<hub, states, service, group, order, route, life>>

RegisterFallbackRoute(s) ==
  /\ rules' = [rules EXCEPT ![s].fallback = TRUE]
  /\ UNCHANGED <<hub, states, service, group, order, route, life>>

\* A slip: the fallback comes before the look at the versions.
resolve_FallbackFirst(ar, m) ==
  CASE ar.exact = {} /\ ~ar.fallback -> "no_rules"
    [] <<m.type, SchemaVersion(m.version)>> \in ar.exact -> "exact"
    [] OTHER -> IF ar.fallback THEN "fallback" ELSE "unsupported_type"

resolve(ar, m) ==
  CASE ar.exact = {} /\ ~ar.fallback -> "no_rules"
    [] <<m.type, SchemaVersion(m.version)>> \in ar.exact -> "exact"
    [] OTHER -> IF \E r \in ar.exact : r[1] = m.type THEN "version_mismatch"
                ELSE IF ar.fallback THEN "fallback" ELSE "unsupported_type"
-----------------------------------------------------------------------------
(* The router of a pool.                                                   *)

\* The state stays the same object, and calls under way keep its counter.
ConfigureRouter(strategy, ws) ==
  /\ states' = [states EXCEPT ![0] = Pool(strategy, ws)]
  /\ UNCHANGED <<hub, service, group, order, rules, route, life>>

StopHub == hub /\ hub' = FALSE /\ UNCHANGED <<states, service, group, order, rules, route, life>>

\* Route, and Send to the router's id: routerState, then the router's own status.
Route(m) ==
  LET r == states[0] IN
  /\ Len(route) < MaxRoutes /\ r.strategy # "none"
  /\ route' = Append(route, IF hub /\ r.workers # <<>>
                            THEN [Over EXCEPT !.at = "select", !.strategy = r.strategy, !.list = r.workers, !.msg = m]
                            ELSE Over)
  /\ UNCHANGED <<hub, states, service, group, order, rules, life>>
-----------------------------------------------------------------------------
(* The router of a service.                                                *)

\* A new state takes the place of the old one.
NewServiceState(strategy, filter, prefer) ==
  \E o \in 1 .. MaxStates :
    /\ states[o] = Unset /\ \A x \in 1 .. o - 1 : states[x] # Unset
    /\ states' = [states EXCEPT ![o] = NewState(strategy, filter, prefer)]
    /\ service' = o

Configure(strategy, filter, prefer) ==
  /\ NewServiceState(strategy, filter, prefer)
  /\ UNCHANGED <<hub, group, order, rules, route, life>>

\* A key that is there stays as it is, with the generation it has.
Join(s) ==
  /\ up[s]
  /\ group' = [group EXCEPT ![s] = IF @ = 0 THEN gen[s] ELSE @]
  /\ UNCHANGED <<hub, states, service, order, rules, route, life>>

\* Also when the registry drops the names of a node that has gone.
Leave(s) ==
  /\ group[s] # 0
  /\ group' = [group EXCEPT ![s] = 0]
  /\ UNCHANGED <<hub, states, service, order, rules, route, life>>

\* The PIDs as they were registered.
Members ==
  LET in == Kept(order, {k \in 1 .. Len(order) : group[order[k]] # 0})
  IN  [k \in 1 .. Len(in) |-> <<in[k], group[in[k]]>>]

\* Send and SendWith: Members reads the registry, and after that the filter.
SendWith(m) ==
  /\ Len(route) < MaxRoutes
  /\ route' = Append(route, [Over EXCEPT !.at = "filter", !.list = Members, !.msg = m])
  /\ UNCHANGED <<hub, states, service, group, order, rules, life>>

filterByNodeMeta(i) ==
  LET c == route[i]
      filter == IF service = 0 THEN {} ELSE states[service].filter
      list == Kept(c.list, {k \in 1 .. Len(c.list) : filter = {} \/ Home[c.list[k][1]] \in filter})
  IN
  /\ c.at = "filter"
  /\ Set(i, IF list = <<>> THEN Over ELSE [c EXCEPT !.at = "prefer", !.list = list])
  /\ UNCHANGED <<hub, states, service, group, order, rules, life>>

One(b) == IF b THEN 1 ELSE 0

\* The highest score first, and the order of the keys among equals.
applyPreferences(i) ==
  LET c == route[i]
      static == IF service = 0 THEN {} ELSE states[service].prefer
      Score(s) == One(Home[s] \in static) + One(Home[s] \in c.msg.near)
      Of(n) == Kept(c.list, {k \in 1 .. Len(c.list) : Score(c.list[k][1]) = n})
  IN
  /\ c.at = "prefer"
  /\ Set(i, [c EXCEPT !.at = "look", !.list = Of(2) \o Of(1) \o Of(0)])
  /\ UNCHANGED <<hub, states, service, group, order, rules, life>>

\* selectWorker looks for the state under the read lock; without one the strategy
\* is round-robin, and the call makes one under the lock.
LookUp(i) ==
  /\ route[i].at = "look"
  /\ Set(i, IF service = 0 THEN [route[i] EXCEPT !.at = "make", !.strategy = "round_robin"]
            ELSE [route[i] EXCEPT !.at = "select", !.obj = service, !.strategy = states[service].strategy])
  /\ UNCHANGED <<hub, states, service, group, order, rules, life>>

MakeState(i) ==
  /\ route[i].at = "make"
  /\ NewServiceState("round_robin", {}, {})
  /\ Set(i, [route[i] EXCEPT !.at = "select", !.obj = service'])
  /\ UNCHANGED <<hub, group, order, rules, life>>
-----------------------------------------------------------------------------
(* The choice, and the delivery.                                           *)

\* The place in the list.  Without a key a pool's router refuses the message, and a
\* service's takes the first worker.
Places(c) ==
  LET n == Len(c.list) IN
  CASE c.strategy = "round_robin" -> {(states[c.obj].next % n) + 1}
    [] c.strategy = "random" -> 1 .. n
    [] c.strategy = "consistent_key" -> IF c.msg.key # 0 THEN {(c.msg.key % n) + 1} ELSE IF c.obj = 0 THEN {} ELSE {1}

\* A turn of the state's counter, and who has had one from the same list in a row.
Turn(st, list, w) ==
  [st EXCEPT !.next = @ + 1,
             !.run = [list |-> list,
                      took |-> [s \in Subscriber |-> (IF st.run.list = list THEN st.run.took[s] ELSE 0) + One(s = w)]]]

\* A slip: the counter is read, and is written back after the message was sent.
Select_LoadOnly(i) ==
  LET c == route[i]  turn == c.strategy = "round_robin" IN
  /\ c.at = "select"
  /\ \/ /\ Places(c) = {}
        /\ Set(i, Over)
        /\ UNCHANGED states
     \/ \E k \in Places(c) :
          /\ Set(i, [c EXCEPT !.at = "deliver", !.to = c.list[k]])
          /\ states' = IF turn THEN [states EXCEPT ![c.obj] = [Turn(@, c.list, c.list[k][1]) EXCEPT !.next = @ - 1]] ELSE states
  /\ UNCHANGED <<hub, service, group, order, rules, life>>

\* selectRoutedWorker and selectWorker: the counter's Add is atomic.
Select(i) ==
  LET c == route[i]  turn == c.strategy = "round_robin" IN
  /\ c.at = "select"
  /\ \/ /\ Places(c) = {}
        /\ Set(i, Over)
        /\ UNCHANGED states
     \/ \E k \in Places(c) :
          /\ Set(i, [c EXCEPT !.at = "deliver", !.to = c.list[k]])
          /\ states' = IF turn THEN [states EXCEPT ![c.obj] = Turn(@, c.list, c.list[k][1])] ELSE states
  /\ UNCHANGED <<hub, service, group, order, rules, life>>

\* sendWithAskContext to the worker, by SendPID for a service; the mailbox has room.
Deliver(i) ==
  LET c == route[i]
      there == IF c.to[2] = 0 THEN up[c.to[1]] ELSE Reaches(c.to[1], c.to[2])
      taken == there /\ resolve(rules[c.to[1]], c.msg) \in {"no_rules", "exact", "fallback"}
  IN
  /\ c.at = "deliver"
  /\ Set(i, [Over EXCEPT !.at = IF taken THEN "accepted" ELSE "refused"])
  /\ UNCHANGED <<hub, states, service, group, order, rules, life>>

PoolCommand ==
  \/ \E strategy \in Strategy, ws \in WorkerList : ConfigureRouter(strategy, ws)
  \/ \E m \in Message : Route(m)
  \/ \E s \in Subscriber, m \in Message : RegisterTypeRoute(s, m.type, m.version)
  \/ \E s \in Subscriber : RegisterFallbackRoute(s)
  \/ StopHub

ServiceCommand ==
  \/ \E strategy \in Strategy, filter, prefer \in Group : Configure(strategy, filter, prefer)
  \/ \E m \in Message : SendWith(m)
  \/ \E s \in Subscriber : Join(s) \/ Leave(s)

RouterStep == \E i \in 1 .. Len(route) :
  filterByNodeMeta(i) \/ applyPreferences(i) \/ LookUp(i) \/ MakeState(i) \/ Select(i) \/ Deliver(i)
-----------------------------------------------------------------------------
(* Properties.                                                             *)

\* Round-robin is even: as long as the calls that take turns see the same list, no
\* worker has had more than one turn more than another, however calls interleave
\* with each other, with reconfigurations and with workers that join and leave
\* (rrNext.Add in selectRoutedWorker and selectWorker, the removal of duplicates).
RoundRobinEven ==
  \A o \in 0 .. MaxStates :
    LET run == states[o].run
        turns == {run.took[run.list[k][1]] : k \in 1 .. Len(run.list)}
    IN  \A a, b \in turns : a <= b + 1

\* What the rules of a worker mean: without any it takes every message; else a message
\* whose type and version have a rule, and with a fallback one whose type has none.
Takes(ar, m) ==
  \/ ar = [exact |-> {}, fallback |-> FALSE]
  \/ <<m.type, SchemaVersion(m.version)>> \in ar.exact
  \/ ar.fallback /\ m.type \notin {r[1] : r \in ar.exact}

\* A routed message is accepted exactly when its worker is there and the rules the
\* worker has then, those of an earlier actor of its id included, mean so: a new
\* version of a known type never goes to the fallback (resolve).
RulesDecide ==
  [][\A i \in 1 .. Len(route) :
       LET c == route[i] IN
       c.at = "deliver" /\ c.to[2] = 0 /\ route'[i].at # "deliver" =>
         (route'[i].at = "accepted" <=> up[c.to[1]] /\ Takes(rules[c.to[1]], c.msg))]_routerVars
=============================================================================
