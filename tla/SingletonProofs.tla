--------------------------- MODULE SingletonProofs ---------------------------
(***************************************************************************)
(* The properties of a cluster singleton that hold with every fault, for   *)
(* any number of nodes: a manager's phase is true, an activation is        *)
(* attended to, a state is continued once, and a running singleton stays.  *)
(*                                                                         *)
(* The argument goes by what a step does to the instances: it starts one   *)
(* where none runs, it ends one, or it leaves them (InstanceStep).         *)
(***************************************************************************)
EXTENDS Singleton, FiniteSetTheorems, TLAPS

Maybe == Node \cup {None}
Down == {"idle", "activating"}
Running == {"active", "deactivating"}
Lives == {"off", "joining", "started", "managed", "draining", "stopped", "crashed"}
Goroutine == [at : Node, to : Node, term : Nat, st : {"new", "waiting", "pausing"}, cancelled : BOOLEAN]
Message == [kind : {"request", "answer"}, from : Node, to : Node, term : Nat, ok : BOOLEAN, inst : Nat]

ElectionType ==
  /\ members \in [Node -> SUBSET Node]
  /\ leader \in [Node -> Maybe]
  /\ term \in [Node -> Nat]
  /\ events \in [Node -> Seq(Maybe)]

StateType ==
  /\ phase \in [Node -> Down \cup Running]
  /\ sterm \in [Node -> Nat]
  /\ rebal \in [Node -> BOOLEAN]
  /\ cancel \in [Node -> Nat]
  /\ handoff \in SUBSET Goroutine
  /\ inst \in [Node -> Nat]
  /\ made \in Nat
  /\ next \in [1 .. MaxInst -> SUBSET Nat]

RestType ==
  /\ node \in [Node -> Lives]
  /\ prev \in [Node -> Maybe]
  /\ failed \in [Node -> SUBSET Node]
  /\ reg \in [Node -> Maybe]
  /\ timers \in [Node -> Nat]
  /\ wire \in SUBSET Message

TypeInv == ElectionType /\ StateType /\ RestType
-----------------------------------------------------------------------------
(* The election.                                                           *)

\* A set of naturals that is not empty has a least element.
LEMMA LeastElement ==
  ASSUME NEW T \in SUBSET Nat, T # {}
  PROVE  \E x \in T : \A y \in T : x <= y
<1> DEFINE R == OpToRel(<, Nat)
<1>1. IsWellFoundedOn(R, Nat)
  BY Zenon, NatLessThanWellFounded
<1>2. PICK x \in T : \A y \in T : ~(<<y, x>> \in R)
  BY Zenon, <1>1, WFMin
<1>3. \A y \in T : y < x => <<y, x>> \in R
  BY Zenon DEF OpToRel
<1> HIDE DEF R
<1>4. \A y \in T : ~(y < x)
  BY Zenon, <1>2, <1>3
<1> QED BY <1>4

LEMMA LeaderType ==
  ASSUME NEW ms \in SUBSET Node
  PROVE  computeLeader(ms) \in ms \cup {None}
<1>1. CASE ms = {}
  BY Zenon, <1>1 DEF computeLeader
<1>2. CASE ms # {}
  <2> DEFINE T == {Hash[n] : n \in ms}
  <2>1. T \in SUBSET Nat /\ T # {}
    BY Zenon, <1>2, ElectionAssumption
  <2>2. PICK x \in T : \A y \in T : x <= y
    BY Zenon, <2>1, LeastElement
  <2>3. \E n \in ms : \A m \in ms : Hash[n] <= Hash[m]
    BY Zenon, <2>2
  <2> QED BY Zenon, <1>2, <2>3 DEF computeLeader
<1> QED BY Zenon, <1>1, <1>2

LEMMA NotifiedType ==
  ASSUME ElectionType, NEW n \in Node, NEW p \in Maybe
  PROVE  Notified(n, p) \in Seq(Maybe)
BY DEF ElectionType, Notified

LEMMA WatchType ==
  ASSUME ElectionType, NEW n \in Node, Watch(n)
  PROVE  ElectionType' /\ term' = [term EXCEPT ![n] = 1]
<1>1. computeLeader(members[n]) \in Maybe
  BY Zenon, LeaderType DEF ElectionType, Maybe
<1>2. Notified(n, None) \in Seq(Maybe)
  BY Zenon, NotifiedType DEF Maybe
<1> QED BY Zenon, <1>1, <1>2 DEF ElectionType, Watch

\* A term never goes back.
LEMMA ChangeType ==
  ASSUME ElectionType, NEW n \in Node, NEW ms \in SUBSET Node, ElectionChange(n, ms)
  PROVE  /\ ElectionType'
         /\ \A m \in Node : term[m] <= term'[m] /\ (m # n \/ term[m] = 0 => term'[m] = term[m])
<1>1. computeLeader(ms) \in Maybe
  BY Zenon, LeaderType DEF Maybe
<1>2. leader[n] \in Maybe
  BY Zenon DEF ElectionType
<1>3. Notified(n, leader[n]) \in Seq(Maybe)
  BY Zenon, <1>2, NotifiedType
<1>4. members' \in [Node -> SUBSET Node] /\ leader' \in [Node -> Maybe] /\ events' \in [Node -> Seq(Maybe)]
  BY Zenon, <1>1, <1>3 DEF ElectionType, ElectionChange
<1>5. /\ term' \in [Node -> Nat]
      /\ \A m \in Node : term[m] <= term'[m] /\ (m # n \/ term[m] = 0 => term'[m] = term[m])
  BY DEF ElectionType, ElectionChange
<1> QED BY Zenon, <1>4, <1>5 DEF ElectionType
-----------------------------------------------------------------------------
(* What the steps of a manager do to its instance.                         *)

\* An instance starts, from the state of another or from none, where none runs.
Begins(n, from) ==
  /\ phase[n] \in Down
  /\ startActor(n, from)
  /\ phase' = [phase EXCEPT ![n] = "active"]

\* No instance starts or ends.
Rests(n) ==
  /\ NotStarted
  /\ phase' = [phase EXCEPT ![n] = phase'[n]]
  /\ phase[n] \in Down <=> phase'[n] \in Down

\* The goroutine that will complete the activation of node n in term t.
Attends(h, n, t) == h.at = n /\ h.term = t /\ ~h.cancelled

Attended(n) == phase[n] = "activating" /\ sterm[n] = term[n] => \E h \in handoff : Attends(h, n, term[n])

\* What taking the leadership of term t leaves, of the goroutines hs.
Gained(n, t, hs) ==
  /\ StateType'
  /\ Begins(n, 0) \/ Rests(n)
  /\ hs \subseteq handoff'
  /\ sterm'[n] \in {t, sterm[n]}
  /\ \A m \in Node : m # n => sterm'[m] = sterm[m]
  /\ phase'[n] = "activating" /\ sterm'[n] = t /\ (phase[n] = "activating" => sterm[n] # t)
       => \E h \in handoff' : Attends(h, n, t)

LEMMA GainSteps ==
  ASSUME TypeInv, NEW n \in Node, NEW t \in Nat, NEW p \in Maybe, NEW fs \in SUBSET Node,
         NEW r \in BOOLEAN, NEW hs \in SUBSET Goroutine, NEW c \in Nat,
         phase[n] \in Down, gainLeadership(n, t, p, fs, r, hs, c)
  PROVE  Gained(n, t, hs)
<1> DEFINE owner == findPrevLeader(n, p)
           free == owner \in {None, n} \cup fs
           new == [at |-> n, to |-> owner, term |-> t, st |-> "new", cancelled |-> FALSE]
<1> USE DEF TypeInv, StateType, Down, Running, Gained
<1>1. owner \in Maybe
  BY Zenon DEF findPrevLeader, RestType, Maybe
<1>2. CASE /\ free
           /\ startActor(n, 0)
           /\ phase' = [phase EXCEPT ![n] = "active"]
           /\ sterm' = [sterm EXCEPT ![n] = t]
           /\ rebal' = [rebal EXCEPT ![n] = r]
           /\ handoff' = hs
           /\ cancel' = [cancel EXCEPT ![n] = c]
  <2>1. StateType'
    BY <1>2 DEF startActor
  <2> QED BY Zenon, <1>2, <2>1 DEF Begins
<1>3. CASE /\ ~free /\ ~r
           /\ handoff' = hs
           /\ cancel' = [cancel EXCEPT ![n] = c]
           /\ NotStarted /\ UNCHANGED <<phase, sterm, rebal>>
  BY Zenon, <1>3 DEF Rests, NotStarted
<1>4. CASE /\ ~free /\ r
           /\ phase' = [phase EXCEPT ![n] = "activating"]
           /\ sterm' = [sterm EXCEPT ![n] = t]
           /\ rebal' = [rebal EXCEPT ![n] = FALSE]
           /\ cancel' = [cancel EXCEPT ![n] = t]
           /\ handoff' = hs \cup {new}
           /\ NotStarted
  <2>1. new \in Goroutine
    BY Zenon, <1>1, <1>4 DEF Goroutine, Maybe
  <2>2. StateType'
    BY Zenon, <1>4, <2>1 DEF NotStarted
  <2>3. Attends(new, n, t)
    BY Zenon DEF Attends
  <2>4. Rests(n)
    BY Zenon, <1>4 DEF Rests
  <2>5. new \in handoff' /\ hs \subseteq handoff'
    BY Zenon, <1>4
  <2>6. sterm'[n] = t /\ \A m \in Node : m # n => sterm'[m] = sterm[m]
    BY Zenon, <1>4
  <2> HIDE DEF new
  <2> QED BY Zenon, <2>2, <2>3, <2>4, <2>5, <2>6
<1> QED BY Zenon, <1>2, <1>3, <1>4 DEF gainLeadership

\* Cancelling the goroutine of a node leaves those of the others.
LEMMA CancelledKeepsOthers ==
  ASSUME TypeInv, NEW n \in Node
  PROVE  /\ Cancelled(n) \in SUBSET Goroutine
         /\ \A h \in handoff : h.at # n => h \in Cancelled(n)
BY Zenon DEF TypeInv, StateType, Cancelled, Goroutine

LEMMA ReconcileSteps ==
  ASSUME TypeInv, NEW n \in Node, NEW ms \in SUBSET Node, NEW t \in Nat, NEW p \in Maybe,
         NEW fs \in SUBSET Node, reconcile(n, ms, t, p, fs)
  PROVE  /\ StateType'
         /\ Begins(n, 0) \/ Rests(n)
         /\ sterm'[n] \in {t, sterm[n]}
         /\ \A m \in Node : m # n => sterm'[m] = sterm[m]
         /\ \A h \in handoff : h.at # n => h \in handoff'
         /\ phase'[n] = "activating" /\ sterm'[n] = t =>
              \/ \E h \in handoff' : Attends(h, n, t)
              \/ phase[n] = "activating" /\ sterm[n] = t /\ handoff' = handoff
<1> USE DEF TypeInv, Down, Running
<1>1. /\ cancel[n] \in Nat /\ rebal[n] \in BOOLEAN /\ handoff \in SUBSET Goroutine
      /\ sterm[n] \in Nat /\ 0 \in Nat
  BY Zenon DEF StateType
<1>2. CASE Keep
  BY Zenon, <1>2 DEF StateType, Keep, NotStarted, Rests
<1>3. CASE /\ phase[n] = "activating" /\ ~isLeader(n, ms)
           /\ handoff' = Cancelled(n)
           /\ cancel' = [cancel EXCEPT ![n] = 0]
           /\ phase' = [phase EXCEPT ![n] = "idle"]
           /\ NotStarted /\ UNCHANGED <<sterm, rebal>>
  <2>1. StateType'
    BY Zenon, <1>3, CancelledKeepsOthers DEF StateType, NotStarted
  <2>2. Rests(n) /\ phase'[n] = "idle"
    BY Zenon, <1>3 DEF Rests, StateType
  <2> QED BY Zenon, <1>3, <2>1, <2>2, CancelledKeepsOthers
<1>4. CASE /\ phase[n] = "activating" /\ sterm[n] # t
           /\ gainLeadership(n, t, p, fs, rebal[n], Cancelled(n), 0)
  <2>1. phase[n] \in Down
    BY Zenon, <1>4
  <2> HIDE DEF TypeInv, Down, Running
  <2>2. /\ Cancelled(n) \in SUBSET Goroutine
        /\ \A h \in handoff : h.at # n => h \in Cancelled(n)
    BY Zenon, CancelledKeepsOthers
  <2>3. Gained(n, t, Cancelled(n))
    BY Zenon, <1>1, <1>4, <2>1, <2>2, GainSteps
  <2> QED BY Zenon, <1>4, <2>2, <2>3 DEF Gained
<1>5. CASE phase[n] = "idle" /\ gainLeadership(n, t, p, fs, rebal[n], handoff, cancel[n])
  <2>1. phase[n] \in Down
    BY Zenon, <1>5
  <2> HIDE DEF TypeInv, Down, Running
  <2>2. phase[n] # "activating"
    BY Zenon, <1>5
  <2>3. Gained(n, t, handoff)
    BY Zenon, <1>1, <1>5, <2>1, GainSteps
  <2> QED BY Zenon, <2>2, <2>3 DEF Gained
<1> QED BY Zenon, <1>2, <1>3, <1>4, <1>5 DEF reconcile
-----------------------------------------------------------------------------
(* What a step does to the instances, and to the answers with a state.     *)

Granted(w) == {r \in w : r.kind = "answer" /\ r.ok}

Ends(n) ==
  /\ phase' = [phase EXCEPT ![n] = "idle"]
  /\ inst' = [inst EXCEPT ![n] = 0]
  /\ UNCHANGED <<made, next>>

Grants(n, r) == wire' = (wire \ {r}) \cup
  {[kind |-> "answer", from |-> n, to |-> r.from, term |-> r.term, ok |-> TRUE, inst |-> inst[n]]}

InstanceStep ==
  \/ \E n \in Node : (Begins(n, 0) \/ Rests(n)) /\ Granted(wire') \subseteq Granted(wire)
  \/ \E n \in Node, r \in Granted(wire) : Begins(n, r.inst) /\ wire' = wire \ {r}
  \/ \E n \in Node :
       /\ Ends(n) /\ wire' = wire
       /\ \/ phase[n] = "deactivating" /\ timers'[n] < timers[n]
          \/ node'[n] \in {"stopped", "crashed"}
  \/ \E n \in Node, r \in wire :
       r.kind = "request" /\ r.to = n /\ phase[n] \in Running /\ Ends(n) /\ Grants(n, r)

Unmanaged == {"off", "joining", "started", "crashed"}

\* The terms of a manager, and the activations that are attended to.
TermInv ==
  \A n \in Node :
    /\ node[n] \in Unmanaged => phase[n] = "idle"
    /\ node[n] \in {"joining", "started"} => term[n] = 0 /\ sterm[n] = 0
    /\ node[n] \in {"managed", "draining"} => sterm[n] <= term[n] /\ Attended(n)

StepOK == TypeInv' /\ InstanceStep /\ TermInv'

\* A step of the manager of node n that takes its election to a term t no earlier.
ManagerStep(n) ==
  /\ StateType'
  /\ Begins(n, 0) \/ Rests(n)
  /\ sterm'[n] \in {term'[n], sterm[n]}
  /\ \A m \in Node : m # n => sterm'[m] = sterm[m] /\ term'[m] = term[m]
  /\ \A h \in handoff : h.at # n => h \in handoff'
  /\ phase'[n] = "activating" /\ sterm'[n] = term'[n] =>
       \/ \E h \in handoff' : Attends(h, n, term'[n])
       \/ phase[n] = "activating" /\ sterm[n] = term'[n] /\ handoff' = handoff

\* Node n is managed, or becomes so, and its term is no earlier.
Advances(n) ==
  /\ node[n] \in {"started", "managed", "draining"}
  /\ node'[n] \in {"managed", "draining"}
  /\ \A m \in Node : m # n => node'[m] = node[m]
  /\ \/ sterm[n] <= term[n] /\ term[n] <= term'[n]
     \/ phase[n] = "idle" /\ sterm[n] <= term'[n]

\* Such a step keeps the terms in order.
LEMMA ManagerKeepsTerms ==
  ASSUME TypeInv, TermInv, NEW n \in Node, ManagerStep(n), ElectionType', Advances(n)
  PROVE  TermInv'
<1> SUFFICES ASSUME NEW m \in Node
             PROVE  /\ node'[m] \in Unmanaged => phase'[m] = "idle"
                    /\ node'[m] \in {"joining", "started"} => term'[m] = 0 /\ sterm'[m] = 0
                    /\ node'[m] \in {"managed", "draining"} => sterm'[m] <= term'[m] /\ Attended(m)'
  BY Zenon DEF TermInv
<1>1. /\ sterm[n] \in Nat /\ term[n] \in Nat /\ term'[n] \in Nat
      /\ phase \in [Node -> Down \cup Running]
  BY Zenon DEF TypeInv, ElectionType, StateType
<1>2. CASE m # n
  <2>1. phase'[m] = phase[m] /\ sterm'[m] = sterm[m] /\ term'[m] = term[m] /\ node'[m] = node[m]
    BY Zenon, <1>1, <1>2 DEF ManagerStep, Begins, Rests, Advances
  <2>2. \A h \in handoff : h.at = m => h \in handoff'
    BY Zenon, <1>2 DEF ManagerStep
  <2>3. Attended(m) => Attended(m)'
    BY Zenon, <2>1, <2>2 DEF Attended, Attends
  <2> QED BY Zenon, <2>1, <2>3 DEF TermInv
<1>3. CASE m = n
  <2>1. node'[n] \notin Unmanaged \cup {"joining", "started"}
    BY Zenon DEF Unmanaged, Advances
  <2>2. sterm'[n] <= term'[n]
    BY <1>1 DEF ManagerStep, Advances
  <2>3. Attended(n)'
    <3>1. SUFFICES ASSUME phase'[n] = "activating", sterm'[n] = term'[n]
                   PROVE  \E h \in handoff' : Attends(h, n, term'[n])
      BY Zenon DEF Attended, Attends
    <3>2. CASE phase[n] = "activating" /\ sterm[n] = term'[n] /\ handoff' = handoff
      <4>1. node[n] \in {"managed", "draining"}
        BY Zenon, <3>2 DEF TermInv, Unmanaged, Advances
      <4>2. sterm[n] = term[n]
        BY <1>1, <3>2 DEF Advances
      <4> QED BY Zenon, <3>2, <4>1, <4>2 DEF TermInv, Attended
    <3> QED BY Zenon, <3>1, <3>2 DEF ManagerStep
  <2> QED BY Zenon, <1>3, <2>1, <2>2, <2>3
<1> QED BY Zenon, <1>2, <1>3
-----------------------------------------------------------------------------
(* The steps of a manager.                                                 *)

LEMMA RegAfterType ==
  ASSUME TypeInv, NEW n \in Node, NEW gone, reg' = RegAfter(n, gone)
  PROVE  reg' \in [Node -> Maybe]
BY Zenon DEF TypeInv, RestType, RegAfter, Maybe

LEMMA KeepSteps ==
  ASSUME TypeInv, NEW n \in Node, Keep
  PROVE  StateType' /\ Rests(n) /\ UNCHANGED <<phase, sterm, handoff>>
BY Zenon DEF TypeInv, StateType, Keep, NotStarted, Rests

LEMMA CallbackSteps ==
  ASSUME TypeInv, NEW n \in Node, NEW kind, NEW m \in Node, NEW old \in SUBSET Node,
         Callback(n, kind, m, old)
  PROVE  /\ ElectionType' /\ ManagerStep(n) /\ term[n] <= term'[n]
         /\ failed' \in [Node -> SUBSET Node] /\ reg' \in [Node -> Maybe]
         /\ term[n] = 0 => Keep /\ UNCHANGED term
<1> DEFINE ms == IF kind \in {"join", "updated"} THEN members[n] \cup {m} ELSE members[n] \ {m}
           fs == (failed[n] \cup (IF kind = "failed" THEN {m} ELSE {})) \ old
<1>1. ms \in SUBSET Node /\ fs \in SUBSET Node /\ prev[n] \in Maybe
  BY Zenon DEF TypeInv, ElectionType, RestType
<1>2. /\ ElectionChange(n, ms)
      /\ failed' = [failed EXCEPT ![n] = fs]
      /\ IF term[n] = 0 THEN Keep ELSE reconcile(n, ms, term'[n], prev[n], fs)
      /\ \E gone : reg' = RegAfter(n, gone)
  BY Zenon DEF Callback
<1> HIDE DEF ms, fs
<1>3. /\ ElectionType'
      /\ \A x \in Node : term[x] <= term'[x] /\ (x # n \/ term[x] = 0 => term'[x] = term[x])
  BY Zenon, <1>1, <1>2, ChangeType DEF TypeInv
<1>4. failed' \in [Node -> SUBSET Node] /\ reg' \in [Node -> Maybe]
  BY Zenon, <1>1, <1>2, RegAfterType DEF TypeInv, RestType
<1>5. CASE term[n] = 0
  <2>1. Keep /\ term'[n] = term[n]
    BY Zenon, <1>2, <1>3, <1>5
  <2>2. UNCHANGED term
    BY <1>3, <2>1 DEF TypeInv, ElectionType
  <2>3. StateType' /\ Rests(n) /\ UNCHANGED <<phase, sterm, handoff>>
    BY Zenon, <2>1, KeepSteps
  <2>4. ManagerStep(n)
    BY Zenon, <2>2, <2>3 DEF ManagerStep
  <2> QED BY Zenon, <1>3, <1>4, <2>1, <2>2, <2>4
<1>6. CASE term[n] # 0
  <2>1. term'[n] \in Nat
    BY Zenon, <1>3 DEF ElectionType
  <2>2. ManagerStep(n)
    BY Zenon, <1>1, <1>2, <1>3, <1>6, <2>1, ReconcileSteps DEF ManagerStep
  <2> QED BY Zenon, <1>3, <1>4, <1>6, <2>2
<1> QED BY Zenon, <1>5, <1>6

LEMMA MemberEventOK ==
  ASSUME TypeInv, TermInv, NEW n \in Node, NEW m \in Node, NEW kind, NEW old \in SUBSET Node,
         MemberEvent(n, kind, m, old)
  PROVE  StepOK
<1>1. Callback(n, kind, m, old) /\ UNCHANGED node /\ On(n)
  BY Zenon DEF MemberEvent
<1>2. UNCHANGED <<prev, timers, wire>>
  BY Zenon, <1>1 DEF Callback
<1>3. /\ ElectionType' /\ ManagerStep(n) /\ term[n] <= term'[n]
      /\ failed' \in [Node -> SUBSET Node] /\ reg' \in [Node -> Maybe]
      /\ term[n] = 0 => Keep /\ UNCHANGED term
  BY Zenon, <1>1, CallbackSteps
<1>4. TypeInv'
  BY Zenon, <1>1, <1>2, <1>3 DEF TypeInv, RestType, ManagerStep
<1>5. InstanceStep
  BY Zenon, <1>2, <1>3 DEF InstanceStep, ManagerStep
<1>6. CASE node[n] \in {"joining", "started"}
  <2>1. Keep /\ UNCHANGED <<term, node>>
    BY Zenon, <1>1, <1>3, <1>6 DEF TermInv
  <2>2. UNCHANGED <<phase, sterm, handoff>>
    BY Zenon, <2>1, KeepSteps
  <2>3. TermInv'
    BY Zenon, <2>1, <2>2 DEF TermInv, Attended, Attends
  <2> QED BY Zenon, <1>4, <1>5, <2>3 DEF StepOK
<1>7. CASE node[n] \in {"managed", "draining"}
  <2>1. sterm[n] <= term[n]
    BY Zenon, <1>7 DEF TermInv
  <2>2. Advances(n)
    BY Zenon, <1>1, <1>3, <1>7, <2>1 DEF Advances
  <2>3. TermInv'
    BY Zenon, <1>3, <2>2, ManagerKeepsTerms
  <2> QED BY Zenon, <1>4, <1>5, <2>3 DEF StepOK
<1> QED BY Zenon, <1>1, <1>6, <1>7 DEF On

LEMMA DrainBeginOK ==
  ASSUME TypeInv, TermInv, NEW n \in Node, DrainBegin(n)
  PROVE  StepOK
<1>1. Callback(n, "leave", n, {}) /\ node[n] = "managed" /\ node' = [node EXCEPT ![n] = "draining"]
  BY Zenon DEF DrainBegin
<1>2. UNCHANGED <<prev, timers, wire>>
  BY Zenon, <1>1 DEF Callback
<1>3. /\ ElectionType' /\ ManagerStep(n) /\ term[n] <= term'[n]
      /\ failed' \in [Node -> SUBSET Node] /\ reg' \in [Node -> Maybe]
  <2>1. {} \in SUBSET Node
    OBVIOUS
  <2> QED BY Zenon, <1>1, <2>1, CallbackSteps
<1>4. TypeInv'
  BY Zenon, <1>1, <1>2, <1>3 DEF TypeInv, RestType, ManagerStep, Lives
<1>5. InstanceStep
  BY Zenon, <1>2, <1>3 DEF InstanceStep, ManagerStep
<1>6. Advances(n)
  BY Zenon, <1>1, <1>3 DEF Advances, TypeInv, RestType, TermInv
<1>7. TermInv'
  BY Zenon, <1>3, <1>6, ManagerKeepsTerms
<1> QED BY Zenon, <1>4, <1>5, <1>7 DEF StepOK

\* The manager of an idle singleton that leads takes the leadership.
LEMMA GainManagerStep ==
  ASSUME TypeInv, ElectionType', NEW n \in Node, NEW r \in BOOLEAN, phase[n] = "idle",
         gainLeadership(n, term'[n], prev[n], failed[n], r, handoff, cancel[n]),
         \A m \in Node : m # n => term'[m] = term[m]
  PROVE  ManagerStep(n)
<1>1. /\ term'[n] \in Nat /\ prev[n] \in Maybe /\ failed[n] \in SUBSET Node
      /\ handoff \in SUBSET Goroutine /\ cancel[n] \in Nat
  BY Zenon DEF TypeInv, ElectionType, StateType, RestType
<1>2. phase[n] \in Down
  BY Zenon DEF Down
<1>3. Gained(n, term'[n], handoff)
  BY Zenon, <1>1, <1>2, GainSteps
<1> QED BY Zenon, <1>3 DEF ManagerStep, Gained

LEMMA RegisterOK ==
  ASSUME TypeInv, TermInv, NEW n \in Node, Register(n)
  PROVE  StepOK
<1>1. /\ node[n] = "started" /\ node' = [node EXCEPT ![n] = "managed"]
      /\ UNCHANGED <<prev, failed, timers, wire>>
      /\ \E gone : reg' = RegAfter(n, gone)
      /\ Watch(n)
  BY Zenon DEF Register
<1>2. ElectionType' /\ term' = [term EXCEPT ![n] = 1]
  BY Zenon, <1>1, WatchType DEF TypeInv
<1>3. term'[n] = 1 /\ (\A m \in Node : m # n => term'[m] = term[m])
  BY Zenon, <1>2 DEF TypeInv, ElectionType
<1>4. phase[n] = "idle" /\ sterm[n] = 0 /\ FALSE \in BOOLEAN
  BY Zenon, <1>1 DEF TermInv, Unmanaged
<1>5. ManagerStep(n)
  <2>1. CASE Keep
    <3>1. StateType' /\ Rests(n) /\ UNCHANGED <<phase, sterm, handoff>>
      BY Zenon, <2>1, KeepSteps
    <3> QED BY Zenon, <1>3, <1>4, <3>1 DEF ManagerStep
  <2>2. CASE gainLeadership(n, 1, prev[n], failed[n], FALSE, handoff, cancel[n])
    <3>1. gainLeadership(n, term'[n], prev[n], failed[n], FALSE, handoff, cancel[n])
      BY Zenon, <1>3, <2>2
    <3> QED BY Zenon, <1>2, <1>3, <1>4, <3>1, GainManagerStep
  <2> QED BY Zenon, <2>1, <2>2 DEF Register
<1>6. reg' \in [Node -> Maybe]
  BY Zenon, <1>1, RegAfterType
<1>7. TypeInv'
  BY Zenon, <1>1, <1>2, <1>5, <1>6 DEF TypeInv, RestType, ManagerStep, Lives
<1>8. InstanceStep
  BY Zenon, <1>1, <1>5 DEF InstanceStep, ManagerStep
<1>9. Advances(n)
  BY <1>1, <1>3, <1>4 DEF Advances, TypeInv, RestType
<1>10. TermInv'
  BY Zenon, <1>2, <1>5, <1>9, ManagerKeepsTerms
<1> QED BY Zenon, <1>7, <1>8, <1>10 DEF StepOK

LEMMA WatchLoopOK ==
  ASSUME TypeInv, TermInv, NEW n \in Node, watchLoop(n)
  PROVE  StepOK
<1> DEFINE p == IF Head(events[n]) # None THEN Head(events[n]) ELSE prev[n]
<1>1. /\ node[n] \in {"managed", "draining"}
      /\ events[n] # <<>> /\ events' = [events EXCEPT ![n] = Tail(@)]
      /\ prev' = [prev EXCEPT ![n] = p]
      /\ reconcile(n, members[n], term[n], p, failed[n])
      /\ \E gone : reg' = RegAfter(n, gone)
      /\ UNCHANGED <<members, leader, term, node, failed, timers, wire>>
  BY Zenon DEF watchLoop
<1>2. events[n] \in Seq(Maybe) /\ prev[n] \in Maybe /\ members[n] \in SUBSET Node
      /\ failed[n] \in SUBSET Node /\ term[n] \in Nat /\ sterm[n] \in Nat
  BY Zenon DEF TypeInv, ElectionType, RestType, StateType
<1>3. Head(events[n]) \in Maybe /\ Tail(events[n]) \in Seq(Maybe)
  BY <1>1, <1>2
<1>4. p \in Maybe
  BY Zenon, <1>2, <1>3
<1> HIDE DEF p
<1>5. ElectionType'
  BY Zenon, <1>1, <1>3 DEF TypeInv, ElectionType
<1>6. ManagerStep(n)
  <2>1. /\ StateType'
        /\ Begins(n, 0) \/ Rests(n)
        /\ sterm'[n] \in {term[n], sterm[n]}
        /\ \A m \in Node : m # n => sterm'[m] = sterm[m]
        /\ \A h \in handoff : h.at # n => h \in handoff'
        /\ phase'[n] = "activating" /\ sterm'[n] = term[n] =>
             \/ \E h \in handoff' : Attends(h, n, term[n])
             \/ phase[n] = "activating" /\ sterm[n] = term[n] /\ handoff' = handoff
    BY Zenon, <1>1, <1>2, <1>4, ReconcileSteps
  <2>2. term' = term
    BY Zenon, <1>1
  <2> QED BY Zenon, <2>1, <2>2 DEF ManagerStep
<1>7. reg' \in [Node -> Maybe]
  BY Zenon, <1>1, RegAfterType
<1>8. TypeInv'
  BY Zenon, <1>1, <1>4, <1>5, <1>6, <1>7 DEF TypeInv, RestType, ManagerStep
<1>9. InstanceStep
  BY Zenon, <1>1, <1>6 DEF InstanceStep, ManagerStep
<1>10. Advances(n)
  BY <1>1, <1>2 DEF Advances, TermInv
<1>11. TermInv'
  BY Zenon, <1>5, <1>6, <1>10, ManagerKeepsTerms
<1> QED BY Zenon, <1>8, <1>9, <1>11 DEF StepOK

LEMMA RebalanceOK ==
  ASSUME TypeInv, TermInv, NEW n \in Node, Rebalance(n)
  PROVE  StepOK
<1>1. /\ node[n] \in {"managed", "draining"}
      /\ UNCHANGED <<members, leader, term, events, node, prev, failed, wire>>
  BY Zenon DEF Rebalance, election
<1>2. term[n] \in Nat /\ sterm[n] \in Nat /\ sterm[n] <= term[n] /\ TRUE \in BOOLEAN
  BY Zenon, <1>1 DEF TypeInv, ElectionType, StateType, TermInv
<1>3. ElectionType'
  BY Zenon, <1>1 DEF TypeInv, ElectionType
<1>4. ManagerStep(n) /\ reg' \in [Node -> Maybe] /\ timers' \in [Node -> Nat]
  <2>1. CASE /\ phase[n] = "active"
             /\ phase' = [phase EXCEPT ![n] = "deactivating"]
             /\ sterm' = [sterm EXCEPT ![n] = term[n]]
             /\ cancel' = [cancel EXCEPT ![n] = 0]
             /\ timers' = [timers EXCEPT ![n] = @ + 1]
             /\ NotStarted /\ UNCHANGED <<rebal, handoff, reg>>
    <3>1. StateType' /\ phase'[n] = "deactivating" /\ sterm'[n] = term[n]
      BY Zenon, <1>2, <2>1 DEF TypeInv, StateType, NotStarted, Down, Running
    <3>2. Rests(n) /\ \A m \in Node : m # n => sterm'[m] = sterm[m]
      BY Zenon, <2>1, <3>1 DEF TypeInv, StateType, Rests, Down
    <3>3. reg' \in [Node -> Maybe] /\ timers' \in [Node -> Nat]
      BY <2>1 DEF TypeInv, RestType
    <3> QED BY Zenon, <1>1, <2>1, <3>1, <3>2, <3>3 DEF ManagerStep
  <2>2. CASE /\ phase[n] = "idle"
             /\ gainLeadership(n, term[n], prev[n], failed[n], TRUE, handoff, cancel[n])
             /\ reg' = RegAfter(n, None)
             /\ UNCHANGED timers
    <3>1. /\ gainLeadership(n, term'[n], prev[n], failed[n], TRUE, handoff, cancel[n])
          /\ \A m \in Node : m # n => term'[m] = term[m]
      BY Zenon, <1>1, <2>2
    <3>2. ManagerStep(n)
      BY Zenon, <1>2, <1>3, <2>2, <3>1, GainManagerStep
    <3>3. reg' \in [Node -> Maybe]
      BY Zenon, <2>2, RegAfterType
    <3> QED BY Zenon, <2>2, <3>2, <3>3 DEF TypeInv, RestType
  <2> QED BY Zenon, <2>1, <2>2 DEF Rebalance
<1>5. TypeInv'
  BY Zenon, <1>1, <1>3, <1>4 DEF TypeInv, RestType, ManagerStep
<1>6. InstanceStep
  BY Zenon, <1>1, <1>4 DEF InstanceStep, ManagerStep
<1>7. Advances(n)
  BY <1>1, <1>2 DEF Advances
<1>8. TermInv'
  BY Zenon, <1>3, <1>4, <1>7, ManagerKeepsTerms
<1> QED BY Zenon, <1>5, <1>6, <1>8 DEF StepOK
-----------------------------------------------------------------------------
(* The steps of a node.                                                    *)

LEMMA StartNodeOK ==
  ASSUME TypeInv, TermInv, NEW n \in Node, StartNode(n)
  PROVE  StepOK
<1>1. phase[n] = "idle"
  BY Zenon DEF StartNode, TermInv, Unmanaged
<1>2. /\ node' = [node EXCEPT ![n] = "joining"]
      /\ term' = [term EXCEPT ![n] = 0] /\ sterm' = [sterm EXCEPT ![n] = 0]
      /\ UNCHANGED <<phase, inst, handoff, timers, wire, made, next>>
  BY Zenon DEF StartNode, net
<1>3. ElectionType'
  <2>1. <<>> \in Seq(Maybe) /\ None \in Maybe
    BY DEF Maybe
  <2> QED BY Zenon, <2>1 DEF TypeInv, ElectionType, StartNode
<1>4. StateType'
  BY <1>2 DEF TypeInv, StateType, StartNode
<1>5. RestType'
  BY Zenon, <1>2 DEF TypeInv, RestType, StartNode, Lives, Maybe
<1>6. InstanceStep
  <2>1. Rests(n)
    BY Zenon, <1>2 DEF Rests, NotStarted, TypeInv, StateType
  <2> QED BY Zenon, <1>2, <2>1 DEF InstanceStep
<1>7. TermInv'
  <2> SUFFICES ASSUME NEW m \in Node
               PROVE  /\ node'[m] \in Unmanaged => phase'[m] = "idle"
                      /\ node'[m] \in {"joining", "started"} => term'[m] = 0 /\ sterm'[m] = 0
                      /\ node'[m] \in {"managed", "draining"} => sterm'[m] <= term'[m] /\ Attended(m)'
    BY Zenon DEF TermInv
  <2>1. CASE m = n
    BY Zenon, <1>1, <1>2, <2>1 DEF TypeInv, RestType, StateType, ElectionType
  <2>2. CASE m # n
    <3>1. node'[m] = node[m] /\ term'[m] = term[m] /\ sterm'[m] = sterm[m] /\ UNCHANGED <<phase, handoff>>
      BY Zenon, <1>2, <2>2 DEF TypeInv, RestType, StateType, ElectionType
    <3>2. Attended(m) => Attended(m)'
      BY Zenon, <3>1 DEF Attended, Attends
    <3> QED BY Zenon, <3>1, <3>2 DEF TermInv
  <2> QED BY Zenon, <2>1, <2>2
<1> QED BY Zenon, <1>3, <1>4, <1>5, <1>6, <1>7 DEF StepOK, TypeInv

LEMMA DiscoverOK ==
  ASSUME TypeInv, TermInv, NEW n \in Node, NEW answers \in SUBSET Node, DiscoverFromPeers(n, answers)
  PROVE  StepOK
<1>1. /\ node[n] = "joining" /\ node' = [node EXCEPT ![n] = "started"]
      /\ prev' = prev \/ \E m \in answers : prev' = [prev EXCEPT ![n] = m]
      /\ UNCHANGED <<members, leader, term, events, phase, sterm, rebal, cancel, failed, reg, inst>>
      /\ UNCHANGED <<handoff, timers, wire, made, next>>
  BY Zenon DEF DiscoverFromPeers, election, net
<1>2. TypeInv'
  <2>1. ElectionType' /\ StateType'
    BY Zenon, <1>1 DEF TypeInv, ElectionType, StateType
  <2>2. RestType'
    BY Zenon, <1>1 DEF TypeInv, RestType, Lives, Maybe
  <2> QED BY Zenon, <2>1, <2>2 DEF TypeInv
<1>3. InstanceStep
  <2>1. Rests(n)
    BY Zenon, <1>1 DEF Rests, NotStarted, TypeInv, StateType
  <2> QED BY Zenon, <1>1, <2>1 DEF InstanceStep
<1>4. TermInv'
  <2>1. \A m \in Node : Attended(m) <=> Attended(m)'
    BY Zenon, <1>1 DEF Attended, Attends
  <2>2. \A m \in Node : node'[m] = IF m = n THEN "started" ELSE node[m]
    BY Zenon, <1>1 DEF TypeInv, RestType
  <2> QED BY <1>1, <2>1, <2>2 DEF TermInv, Unmanaged
<1> QED BY Zenon, <1>2, <1>3, <1>4 DEF StepOK

\* The terms after a step that leaves every other node and its goroutine alone.
LEMMA OthersKeepTerms ==
  ASSUME TermInv, NEW n \in Node,
         \A m \in Node : m # n => /\ node'[m] = node[m] /\ phase'[m] = phase[m]
                                  /\ term'[m] = term[m] /\ sterm'[m] = sterm[m],
         \A h \in handoff : h.at # n => h \in handoff',
         node'[n] \in {"stopped", "crashed"}, node'[n] = "crashed" => phase'[n] = "idle"
  PROVE  TermInv'
<1> SUFFICES ASSUME NEW m \in Node
             PROVE  /\ node'[m] \in Unmanaged => phase'[m] = "idle"
                    /\ node'[m] \in {"joining", "started"} => term'[m] = 0 /\ sterm'[m] = 0
                    /\ node'[m] \in {"managed", "draining"} => sterm'[m] <= term'[m] /\ Attended(m)'
  BY Zenon DEF TermInv
<1>1. CASE m = n
  BY Zenon, <1>1 DEF Unmanaged
<1>2. CASE m # n
  <2>1. Attended(m) => Attended(m)'
    BY Zenon, <1>2 DEF Attended, Attends
  <2> QED BY Zenon, <1>2, <2>1 DEF TermInv
<1> QED BY Zenon, <1>1, <1>2

LEMMA DrainStopOK ==
  ASSUME TypeInv, TermInv, NEW n \in Node, DrainStop(n)
  PROVE  StepOK
<1>1. /\ node' = [node EXCEPT ![n] = "stopped"] /\ handoff' = Cancelled(n)
      /\ cancel' = [cancel EXCEPT ![n] = 0]
      /\ reg' = [reg EXCEPT ![n] = IF @ = n THEN None ELSE @]
      /\ UNCHANGED <<members, leader, term, events, sterm, rebal, prev, failed, timers, wire, made, next>>
  BY Zenon DEF DrainStop, election
<1>2. \/ /\ phase[n] \in Running /\ phase' = [phase EXCEPT ![n] = "idle"]
         /\ inst' = [inst EXCEPT ![n] = 0]
      \/ phase[n] \notin Running /\ phase' = phase /\ inst' = inst
  BY Zenon DEF DrainStop, TypeInv, StateType, Running
<1>3. TypeInv'
  <2>1. ElectionType'
    BY Zenon, <1>1 DEF TypeInv, ElectionType
  <2>2. StateType'
    <3>1. handoff' \in SUBSET Goroutine
      BY Zenon, <1>1, CancelledKeepsOthers
    <3>2. phase' \in [Node -> Down \cup Running] /\ inst' \in [Node -> Nat]
      <4>1. CASE phase' = [phase EXCEPT ![n] = "idle"] /\ inst' = [inst EXCEPT ![n] = 0]
        BY Zenon, <4>1 DEF TypeInv, StateType, Down
      <4>2. CASE phase' = phase /\ inst' = inst
        BY Zenon, <4>2 DEF TypeInv, StateType
      <4> QED BY Zenon, <1>2, <4>1, <4>2
    <3> QED BY Zenon, <1>1, <3>1, <3>2 DEF TypeInv, StateType
  <2>3. RestType'
    BY Zenon, <1>1 DEF TypeInv, RestType, Lives, Maybe
  <2> QED BY Zenon, <2>1, <2>2, <2>3 DEF TypeInv
<1>4. node'[n] = "stopped" /\ \A m \in Node : m # n => node'[m] = node[m]
  BY Zenon, <1>1 DEF TypeInv, RestType
<1>5. InstanceStep
  <2>1. Ends(n) \/ Rests(n)
    BY Zenon, <1>1, <1>2 DEF Ends, Rests, NotStarted, TypeInv, StateType
  <2>2. wire' = wire
    BY Zenon, <1>1
  <2> QED BY Zenon, <1>4, <2>1, <2>2 DEF InstanceStep
<1>6. \A m \in Node : m # n => phase'[m] = phase[m] /\ sterm'[m] = sterm[m] /\ term'[m] = term[m]
  BY Zenon, <1>1, <1>2 DEF TypeInv, StateType
<1>7. \A h \in handoff : h.at # n => h \in handoff'
  BY Zenon, <1>1, CancelledKeepsOthers
<1>8. TermInv'
  BY Zenon, <1>4, <1>6, <1>7, OthersKeepTerms
<1> QED BY Zenon, <1>3, <1>5, <1>8 DEF StepOK

LEMMA CrashOK ==
  ASSUME TypeInv, TermInv, NEW n \in Node, Crash(n)
  PROVE  StepOK
<1>1. /\ node' = [node EXCEPT ![n] = "crashed"] /\ phase' = [phase EXCEPT ![n] = "idle"]
      /\ inst' = [inst EXCEPT ![n] = 0] /\ handoff' = {h \in handoff : h.at # n}
      /\ timers' = [timers EXCEPT ![n] = 0]
      /\ UNCHANGED <<members, leader, term, events, sterm, rebal, cancel, prev, failed, reg, wire, made, next>>
  BY Zenon DEF Crash, election
<1>2. TypeInv'
  <2>1. ElectionType'
    BY Zenon, <1>1 DEF TypeInv, ElectionType
  <2>2. StateType'
    BY Zenon, <1>1 DEF TypeInv, StateType, Down
  <2>3. RestType'
    BY Zenon, <1>1 DEF TypeInv, RestType, Lives
  <2> QED BY Zenon, <2>1, <2>2, <2>3 DEF TypeInv
<1>3. /\ node'[n] = "crashed" /\ phase'[n] = "idle"
      /\ \A m \in Node : m # n => /\ node'[m] = node[m] /\ phase'[m] = phase[m]
                                  /\ term'[m] = term[m] /\ sterm'[m] = sterm[m]
  BY Zenon, <1>1 DEF TypeInv, RestType, StateType
<1>4. InstanceStep
  BY Zenon, <1>1, <1>3 DEF InstanceStep, Ends
<1>5. \A h \in handoff : h.at # n => h \in handoff'
  BY Zenon, <1>1
<1>6. TermInv'
  BY Zenon, <1>3, <1>5, OthersKeepTerms
<1> QED BY Zenon, <1>2, <1>4, <1>6 DEF StepOK
-----------------------------------------------------------------------------
(* The steps of the hand-off.                                              *)

\* A step that leaves the terms, takes no phase to activating, and keeps the
\* goroutine of each activation that goes on.
Continues ==
  /\ UNCHANGED <<node, term, sterm>>
  /\ \A m \in Node : phase'[m] = phase[m] \/ (node[m] \notin Unmanaged /\ phase'[m] # "activating")
  /\ \A m \in Node, g \in handoff : phase'[m] = "activating" /\ sterm[m] = term[m] /\ Attends(g, m, term[m]) =>
       \E k \in handoff' : Attends(k, m, term[m])

LEMMA HandoffKeepsTerms ==
  ASSUME TermInv, Continues
  PROVE  TermInv'
<1> SUFFICES ASSUME NEW m \in Node
             PROVE  /\ node'[m] \in Unmanaged => phase'[m] = "idle"
                    /\ node'[m] \in {"joining", "started"} => term'[m] = 0 /\ sterm'[m] = 0
                    /\ node'[m] \in {"managed", "draining"} => sterm'[m] <= term'[m] /\ Attended(m)'
  BY Zenon DEF TermInv
<1>1. phase'[m] # "activating" => Attended(m)'
  BY Zenon DEF Attended
<1>2. phase'[m] = "activating" /\ Attended(m) => Attended(m)'
  BY Zenon DEF Attended, Continues
<1> QED BY Zenon, <1>1, <1>2 DEF TermInv, Continues

LEMMA SendRequestOK ==
  ASSUME TypeInv, TermInv, NEW h \in handoff, SendRequest(h)
  PROVE  StepOK
<1>1. PICK s \in {"waiting", "pausing"} :
        /\ handoff' = (handoff \ {h}) \cup {[h EXCEPT !.st = s]}
        /\ \/ wire' = wire
           \/ wire' = wire \cup {[kind |-> "request", from |-> h.at, to |-> h.to, term |-> h.term, ok |-> FALSE, inst |-> 0]}
  BY Zenon DEF SendRequest, Replace
<1>2. /\ UNCHANGED <<members, leader, term, events, node, rebal, cancel, prev, failed, timers>>
      /\ UNCHANGED <<phase, sterm, reg, inst, made, next>>
  BY Zenon DEF SendRequest, Others, election
<1>3. h \in Goroutine
  BY Zenon DEF TypeInv, StateType
<1>4. [h EXCEPT !.st = s] \in Goroutine
  BY Zenon, <1>3 DEF Goroutine
<1>5. TypeInv'
  <2>1. ElectionType'
    BY Zenon, <1>2 DEF TypeInv, ElectionType
  <2>2. StateType'
    BY Zenon, <1>1, <1>2, <1>4 DEF TypeInv, StateType
  <2>3. RestType'
    <3>1. [kind |-> "request", from |-> h.at, to |-> h.to, term |-> h.term, ok |-> FALSE, inst |-> 0] \in Message
      BY Zenon, <1>3 DEF Message, Goroutine
    <3> QED BY Zenon, <1>1, <1>2, <3>1 DEF TypeInv, RestType
  <2> QED BY Zenon, <2>1, <2>2, <2>3 DEF TypeInv
<1>6. InstanceStep
  <2>1. h.at \in Node /\ Rests(h.at)
    BY Zenon, <1>2, <1>3 DEF Goroutine, Rests, NotStarted, TypeInv, StateType
  <2>2. Granted(wire') \subseteq Granted(wire)
    BY <1>1 DEF Granted
  <2> QED BY Zenon, <2>1, <2>2 DEF InstanceStep
<1>7. ASSUME NEW m \in Node, NEW g \in handoff, Attends(g, m, term[m])
      PROVE  \E k \in handoff' : Attends(k, m, term[m])
  <2>1. CASE g = h
    <3>1. Attends([h EXCEPT !.st = s], m, term[m])
      BY Zenon, <1>3, <1>7, <2>1 DEF Attends, Goroutine
    <3> QED BY Zenon, <1>1, <3>1
  <2>2. CASE g # h
    BY Zenon, <1>1, <1>7, <2>2
  <2> QED BY Zenon, <2>1, <2>2
<1>8. Continues
  BY Zenon, <1>2, <1>7 DEF Continues
<1>9. TermInv'
  BY Zenon, <1>8, HandoffKeepsTerms
<1> QED BY Zenon, <1>5, <1>6, <1>9 DEF StepOK

\* The goroutine that ends was not the one of an activation that goes on.
LEMMA EndedKeepsTerms ==
  ASSUME TypeInv, TermInv, NEW h \in handoff, handoff' = handoff \ {h}, UNCHANGED <<node, term, sterm>>,
         \A m \in Node : phase'[m] = phase[m] \/ (node[m] \notin Unmanaged /\ phase'[m] # "activating"),
         h.cancelled \/ phase'[h.at] # "activating" \/ sterm[h.at] # h.term
  PROVE  TermInv'
<1>1. h \in Goroutine
  BY Zenon DEF TypeInv, StateType
<1>2. ASSUME NEW m \in Node, NEW g \in handoff, phase'[m] = "activating", sterm[m] = term[m], Attends(g, m, term[m])
      PROVE  g \in handoff'
  BY Zenon, <1>1, <1>2 DEF Attends, Goroutine
<1>3. Continues
  BY Zenon, <1>2 DEF Continues
<1> QED BY Zenon, <1>3, HandoffKeepsTerms

LEMMA CompleteSteps ==
  ASSUME TypeInv, TermInv, NEW h \in handoff, NEW from \in Nat, completeActivation(h, from)
  PROVE  /\ h.at \in Node /\ TermInv' /\ ElectionType' /\ StateType' /\ reg' \in [Node -> Maybe]
         /\ UNCHANGED <<node, prev, failed, timers>>
         /\ Begins(h.at, from) \/ Rests(h.at)
<1> DEFINE n == h.at
<1>1. h \in Goroutine /\ n \in Node
  BY Zenon DEF TypeInv, StateType, Goroutine
<1>2. /\ UNCHANGED <<members, leader, term, events, node, rebal, cancel, prev, failed, timers, sterm>>
      /\ handoff' = handoff \ {h} /\ reg' = RegAfter(n, None)
  BY Zenon DEF completeActivation, Others, election
<1>3. ElectionType' /\ reg' \in [Node -> Maybe]
  <2>1. reg' \in [Node -> Maybe]
    BY Zenon, <1>1, <1>2, RegAfterType
  <2> QED BY Zenon, <1>2, <2>1 DEF TypeInv, ElectionType
<1>4. CASE /\ phase[n] # "activating" \/ sterm[n] # h.term
           /\ NotStarted /\ UNCHANGED phase
  <2>1. StateType' /\ Rests(n)
    BY Zenon, <1>2, <1>4 DEF TypeInv, StateType, NotStarted, Rests
  <2>2. TermInv'
    BY Zenon, <1>2, <1>4, EndedKeepsTerms
  <2> QED BY Zenon, <1>1, <1>2, <1>3, <2>1, <2>2
<1>5. CASE phase[n] = "activating" /\ phase' = [phase EXCEPT ![n] = "idle"] /\ NotStarted
  <2>1. StateType' /\ Rests(n)
    BY Zenon, <1>1, <1>2, <1>5 DEF TypeInv, StateType, NotStarted, Rests, Down
  <2>2. phase'[n] = "idle" /\ node[n] \notin Unmanaged /\ \A m \in Node : m # n => phase'[m] = phase[m]
    BY Zenon, <1>1, <1>5 DEF TypeInv, StateType, TermInv
  <2>3. TermInv'
    BY Zenon, <1>2, <2>2, EndedKeepsTerms
  <2> QED BY Zenon, <1>1, <1>2, <1>3, <2>1, <2>3
<1>6. CASE phase[n] = "activating" /\ startActor(n, from) /\ phase' = [phase EXCEPT ![n] = "active"]
  <2>1. StateType'
    <3>1. made' \in Nat /\ inst' \in [Node -> Nat] /\ next' \in [1 .. MaxInst -> SUBSET Nat]
      <4>1. made \in Nat /\ made + 1 \in Nat /\ made' = made + 1 /\ inst' = [inst EXCEPT ![n] = made + 1]
        BY <1>6 DEF TypeInv, StateType, startActor
      <4>2. next \in [1 .. MaxInst -> SUBSET Nat]
        BY Zenon DEF TypeInv, StateType
      <4>3. CASE from = 0
        <5>1. next' = next
          BY Zenon, <1>6, <4>3 DEF startActor
        <5> QED BY Zenon, <1>1, <4>1, <4>2, <5>1 DEF TypeInv, StateType
      <4>4. CASE from # 0
        <5>1. next' = [next EXCEPT ![from] = @ \cup {made + 1}]
          BY Zenon, <1>6, <4>4 DEF startActor
        <5> QED BY Zenon, <1>1, <4>1, <4>2, <5>1 DEF TypeInv, StateType
      <4> QED BY Zenon, <4>3, <4>4
    <3>2. phase' \in [Node -> Down \cup Running] /\ handoff' \in SUBSET Goroutine
      BY Zenon, <1>1, <1>2, <1>6 DEF TypeInv, StateType, Running
    <3> QED BY Zenon, <1>2, <3>1, <3>2 DEF TypeInv, StateType
  <2>2. phase'[n] = "active" /\ node[n] \notin Unmanaged /\ \A m \in Node : m # n => phase'[m] = phase[m]
    BY Zenon, <1>1, <1>6 DEF TypeInv, StateType, TermInv
  <2>3. TermInv'
    BY Zenon, <1>2, <2>2, EndedKeepsTerms
  <2>4. Begins(n, from)
    BY Zenon, <1>6 DEF Begins, Down
  <2> QED BY Zenon, <1>1, <1>2, <1>3, <2>1, <2>3, <2>4
<1> QED BY Zenon, <1>4, <1>5, <1>6 DEF completeActivation

LEMMA TakeAnswerOK ==
  ASSUME TypeInv, TermInv, NEW h \in handoff, NEW r \in wire, TakeAnswer(h, r)
  PROVE  StepOK
<1> DEFINE from == IF r.ok THEN r.inst ELSE 0
<1>1. r.kind = "answer" /\ wire' = wire \ {r} /\ completeActivation(h, from)
  BY Zenon DEF TakeAnswer
<1>2. r.inst \in Nat /\ from \in Nat
  BY Zenon DEF TypeInv, RestType, Message
<1>3. /\ h.at \in Node /\ TermInv' /\ ElectionType' /\ StateType' /\ reg' \in [Node -> Maybe]
      /\ UNCHANGED <<node, prev, failed, timers>>
      /\ Begins(h.at, from) \/ Rests(h.at)
  <2> HIDE DEF from
  <2> QED BY Zenon, <1>1, <1>2, CompleteSteps
<1>4. TypeInv'
  BY Zenon, <1>1, <1>3 DEF TypeInv, RestType
<1>5. Granted(wire') \subseteq Granted(wire)
  BY Zenon, <1>1 DEF Granted
<1>6. InstanceStep
  <2>1. CASE Rests(h.at) \/ Begins(h.at, 0)
    BY Zenon, <1>3, <1>5, <2>1 DEF InstanceStep
  <2>2. CASE Begins(h.at, r.inst) /\ r.ok
    <3>1. r \in Granted(wire)
      BY Zenon, <1>1, <2>2 DEF Granted
    <3> QED BY Zenon, <1>1, <1>3, <2>2, <3>1 DEF InstanceStep
  <2> QED BY Zenon, <1>3, <2>1, <2>2
<1> QED BY Zenon, <1>3, <1>4, <1>6 DEF StepOK

LEMMA CompleteUnansweredOK ==
  ASSUME TypeInv, TermInv, NEW h \in handoff, completeActivation(h, 0), wire' = wire
  PROVE  StepOK
<1>1. /\ h.at \in Node /\ TermInv' /\ ElectionType' /\ StateType' /\ reg' \in [Node -> Maybe]
      /\ UNCHANGED <<node, prev, failed, timers>>
      /\ Begins(h.at, 0) \/ Rests(h.at)
  BY Zenon, CompleteSteps
<1>2. TypeInv'
  BY Zenon, <1>1 DEF TypeInv, RestType
<1>3. InstanceStep
  BY Zenon, <1>1 DEF InstanceStep
<1> QED BY Zenon, <1>1, <1>2, <1>3 DEF StepOK

LEMMA PauseEndsOK ==
  ASSUME TypeInv, TermInv, NEW h \in handoff, PauseEnds(h)
  PROVE  StepOK
<1>1. CASE completeActivation(h, 0)
  BY Zenon, <1>1, CompleteUnansweredOK DEF PauseEnds
<1>2. CASE h.cancelled /\ handoff' = handoff \ {h} /\ NotStarted /\ UNCHANGED <<Others, phase, sterm, reg>>
  <2>1. /\ UNCHANGED <<members, leader, term, events, node, rebal, cancel, prev, failed, timers, phase, sterm, reg>>
        /\ UNCHANGED <<made, inst, next, wire>>
    BY Zenon, <1>2 DEF Others, election, NotStarted, PauseEnds
  <2>2. TypeInv'
    BY Zenon, <1>2, <2>1 DEF TypeInv, ElectionType, StateType, RestType
  <2>3. InstanceStep
    <3>1. h.at \in Node /\ Rests(h.at)
      BY Zenon, <2>1 DEF TypeInv, StateType, Goroutine, Rests, NotStarted
    <3> QED BY Zenon, <2>1, <3>1 DEF InstanceStep
  <2>4. TermInv'
    BY Zenon, <1>2, <2>1, EndedKeepsTerms
  <2> QED BY Zenon, <2>2, <2>3, <2>4 DEF StepOK
<1> QED BY Zenon, <1>1, <1>2 DEF PauseEnds

\* The actor is stopped on a node, or nothing happens to the phases.
LEMMA StopKeepsTerms ==
  ASSUME TypeInv, TermInv, NEW n \in Node, UNCHANGED <<node, term, sterm, handoff>>,
         phase' = phase \/ (phase[n] \in Running /\ phase' = [phase EXCEPT ![n] = "idle"])
  PROVE  TermInv'
<1>1. ASSUME phase[n] \in Running
      PROVE  node[n] \notin Unmanaged
  BY Zenon, <1>1 DEF TermInv, Running
<1>2. \A m \in Node : phase'[m] = phase[m] \/ (node[m] \notin Unmanaged /\ phase'[m] # "activating")
  BY Zenon, <1>1 DEF TypeInv, StateType
<1>3. Continues
  BY Zenon, <1>2 DEF Continues
<1> QED BY Zenon, <1>3, HandoffKeepsTerms

LEMMA HandoffRequestOK ==
  ASSUME TypeInv, TermInv, NEW r \in wire, onHandoffRequest(r)
  PROVE  StepOK
<1> DEFINE n == r.to
           runs == phase[n] \in Running
           answer == [kind |-> "answer", from |-> n, to |-> r.from, term |-> r.term, ok |-> runs, inst |-> inst[n]]
<1>1. /\ r.kind = "request" /\ wire' = (wire \ {r}) \cup {answer}
      /\ phase' = [phase EXCEPT ![n] = IF runs THEN "idle" ELSE @]
      /\ cancel' = [cancel EXCEPT ![n] = IF runs THEN 0 ELSE @]
      /\ inst' = [inst EXCEPT ![n] = IF runs THEN 0 ELSE @]
      /\ reg' = [reg EXCEPT ![n] = IF runs THEN None ELSE @]
      /\ UNCHANGED <<members, leader, term, events, node, sterm, rebal, prev, failed, handoff, timers, made, next>>
  BY Zenon DEF onHandoffRequest, election, Running
<1>2. r \in Message /\ n \in Node /\ r.from \in Node /\ r.term \in Nat /\ inst[n] \in Nat
  BY Zenon DEF TypeInv, RestType, StateType, Message
<1>3. answer \in Message
  BY <1>2 DEF Message
<1>4. TypeInv'
  <2>1. ElectionType'
    BY Zenon, <1>1 DEF TypeInv, ElectionType
  <2>2. StateType'
    BY Zenon, <1>1, <1>2 DEF TypeInv, StateType, Down
  <2>3. RestType'
    <3> HIDE DEF answer, runs
    <3>1. wire' \in SUBSET Message
      BY Zenon, <1>1, <1>3 DEF TypeInv, RestType
    <3> QED BY Zenon, <1>1, <1>2, <3>1 DEF TypeInv, RestType, Maybe
  <2> QED BY Zenon, <2>1, <2>2, <2>3 DEF TypeInv
<1>5. CASE phase[n] \in Running
  <2>1. Ends(n)
    BY Zenon, <1>1, <1>5 DEF Ends
  <2>2. Grants(n, r)
    BY Zenon, <1>1, <1>5 DEF Grants
  <2>3. InstanceStep
    BY Zenon, <1>1, <1>2, <1>5, <2>1, <2>2 DEF InstanceStep
  <2>4. TermInv'
    <3>1. phase' = [phase EXCEPT ![n] = "idle"] /\ UNCHANGED <<node, term, sterm, handoff>>
      BY Zenon, <1>1, <1>5
    <3> QED BY Zenon, <1>2, <1>5, <3>1, StopKeepsTerms
  <2> QED BY Zenon, <1>4, <2>3, <2>4 DEF StepOK
<1>6. CASE phase[n] \notin Running
  <2>1. phase' = phase /\ inst' = inst /\ made' = made /\ next' = next /\ UNCHANGED <<node, term, sterm, handoff>>
    BY Zenon, <1>1, <1>2, <1>6 DEF TypeInv, StateType
  <2>2. Rests(n)
    BY Zenon, <1>2, <2>1 DEF Rests, NotStarted, TypeInv, StateType
  <2>3. ~answer.ok
    BY Zenon, <1>6
  <2>4. Granted(wire') \subseteq Granted(wire)
    <3> HIDE DEF answer
    <3> QED BY Zenon, <1>1, <2>3 DEF Granted
  <2>5. InstanceStep
    BY Zenon, <1>2, <2>2, <2>4 DEF InstanceStep
  <2>6. TermInv'
    BY Zenon, <1>2, <2>1, StopKeepsTerms
  <2> QED BY Zenon, <1>4, <2>5, <2>6 DEF StepOK
<1> QED BY Zenon, <1>5, <1>6

LEMMA DeactivationTimeoutOK ==
  ASSUME TypeInv, TermInv, NEW n \in Node, runDeactivationTimeout(n)
  PROVE  StepOK
<1>1. /\ timers[n] > 0 /\ timers' = [timers EXCEPT ![n] = @ - 1]
      /\ cancel' = [cancel EXCEPT ![n] = IF phase[n] = "deactivating" THEN 0 ELSE @]
      /\ reg' = [reg EXCEPT ![n] = IF phase[n] = "deactivating" THEN None ELSE @]
      /\ UNCHANGED <<members, leader, term, events, node, sterm, rebal, prev, failed, handoff, wire, made, next>>
  BY Zenon DEF runDeactivationTimeout, election
<1>2. timers[n] \in Nat /\ timers'[n] = timers[n] - 1 /\ timers' \in [Node -> Nat]
  BY <1>1 DEF TypeInv, RestType
<1>3. \/ /\ phase[n] = "deactivating" /\ phase' = [phase EXCEPT ![n] = "idle"]
         /\ inst' = [inst EXCEPT ![n] = 0]
      \/ phase' = phase /\ inst' = inst
  BY Zenon DEF runDeactivationTimeout, TypeInv, StateType
<1>4. TypeInv'
  <2>1. ElectionType'
    BY Zenon, <1>1 DEF TypeInv, ElectionType
  <2>2. phase' \in [Node -> Down \cup Running] /\ inst' \in [Node -> Nat]
    <3>1. CASE phase' = [phase EXCEPT ![n] = "idle"] /\ inst' = [inst EXCEPT ![n] = 0]
      BY Zenon, <3>1 DEF TypeInv, StateType, Down
    <3>2. CASE phase' = phase /\ inst' = inst
      BY Zenon, <3>2 DEF TypeInv, StateType
    <3> QED BY Zenon, <1>3, <3>1, <3>2
  <2>3. StateType'
    BY Zenon, <1>1, <2>2 DEF TypeInv, StateType
  <2>4. RestType'
    BY Zenon, <1>1, <1>2 DEF TypeInv, RestType, Maybe
  <2> QED BY Zenon, <2>1, <2>3, <2>4 DEF TypeInv
<1>5. InstanceStep
  <2>1. timers'[n] < timers[n] /\ wire' = wire
    BY <1>1, <1>2
  <2>2. Rests(n) \/ (Ends(n) /\ phase[n] = "deactivating")
    BY Zenon, <1>1, <1>3 DEF Ends, Rests, NotStarted, TypeInv, StateType
  <2> QED BY Zenon, <2>1, <2>2 DEF InstanceStep
<1>6. TermInv'
  <2>1. UNCHANGED <<node, term, sterm, handoff>>
    BY Zenon, <1>1
  <2>2. phase' = phase \/ (phase[n] \in Running /\ phase' = [phase EXCEPT ![n] = "idle"])
    BY Zenon, <1>3 DEF Running
  <2> QED BY Zenon, <2>1, <2>2, StopKeepsTerms
<1> QED BY Zenon, <1>4, <1>5, <1>6 DEF StepOK

LEMMA LoseMessageOK ==
  ASSUME TypeInv, TermInv, NEW r \in wire, LoseMessage(r)
  PROVE  StepOK
<1>1. /\ wire' = wire \ {r}
      /\ UNCHANGED <<members, leader, term, events, node, phase, sterm, rebal, cancel, prev, failed>>
      /\ UNCHANGED <<reg, inst, handoff, timers, made, next>>
  BY Zenon DEF LoseMessage, election, manager
<1>2. r.to \in Node
  BY Zenon DEF TypeInv, RestType, Message
<1>3. TypeInv'
  BY Zenon, <1>1 DEF TypeInv, ElectionType, StateType, RestType
<1>4. InstanceStep
  <2>1. Rests(r.to)
    BY Zenon, <1>1, <1>2 DEF Rests, NotStarted, TypeInv, StateType
  <2>2. Granted(wire') \subseteq Granted(wire)
    BY Zenon, <1>1 DEF Granted
  <2> QED BY Zenon, <1>2, <2>1, <2>2 DEF InstanceStep
<1>5. TermInv'
  BY Zenon, <1>1, <1>2, StopKeepsTerms
<1> QED BY Zenon, <1>3, <1>4, <1>5 DEF StepOK

LEMMA SyncRegistryOK ==
  ASSUME TypeInv, TermInv, NEW n \in Node, NEW m \in Node, SyncRegistry(n, m)
  PROVE  StepOK
<1>1. /\ reg' = [reg EXCEPT ![n] = reg[m]]
      /\ UNCHANGED <<members, leader, term, events, node, phase, sterm, rebal, cancel, prev, failed>>
      /\ UNCHANGED <<inst, handoff, timers, wire, made, next>>
  BY Zenon DEF SyncRegistry, election, manager, net
<1>2. TypeInv'
  BY Zenon, <1>1 DEF TypeInv, ElectionType, StateType, RestType
<1>3. InstanceStep
  <2>1. Rests(n)
    BY Zenon, <1>1 DEF Rests, NotStarted, TypeInv, StateType
  <2> QED BY Zenon, <1>1, <2>1 DEF InstanceStep
<1>4. TermInv'
  BY Zenon, <1>1, StopKeepsTerms
<1> QED BY Zenon, <1>2, <1>3, <1>4 DEF StepOK

LEMMA NextOK ==
  ASSUME TypeInv, TermInv, Next
  PROVE  StepOK
<1>1. ASSUME NEW n \in Node, StartNode(n) \/ Register(n) \/ watchLoop(n) \/ Rebalance(n)
      PROVE  StepOK
  BY Zenon, <1>1, StartNodeOK, RegisterOK, WatchLoopOK, RebalanceOK
<1>2. ASSUME NEW n \in Node, NEW answers \in SUBSET Node, DiscoverFromPeers(n, answers)
      PROVE  StepOK
  BY Zenon, <1>2, DiscoverOK
<1>3. ASSUME NEW n \in Node, NEW m \in Node, NEW kind, NEW old \in SUBSET Node, MemberEvent(n, kind, m, old)
      PROVE  StepOK
  BY Zenon, <1>3, MemberEventOK
<1>4. ASSUME NEW n \in Node, DrainBegin(n) \/ DrainStop(n) \/ Crash(n) \/ runDeactivationTimeout(n)
      PROVE  StepOK
  BY Zenon, <1>4, DrainBeginOK, DrainStopOK, CrashOK, DeactivationTimeoutOK
<1>5. ASSUME NEW h \in handoff, SendRequest(h) \/ HandoffTimeout(h) \/ PauseEnds(h)
      PROVE  StepOK
  <2>1. CASE HandoffTimeout(h)
    BY Zenon, <2>1, CompleteUnansweredOK DEF HandoffTimeout
  <2> QED BY Zenon, <1>5, <2>1, SendRequestOK, PauseEndsOK
<1>6. ASSUME NEW h \in handoff, NEW r \in wire, TakeAnswer(h, r)
      PROVE  StepOK
  BY Zenon, <1>6, TakeAnswerOK
<1>7. ASSUME NEW r \in wire, onHandoffRequest(r) \/ LoseMessage(r)
      PROVE  StepOK
  BY Zenon, <1>7, HandoffRequestOK, LoseMessageOK
<1>8. ASSUME NEW n \in Node, NEW m \in Node, SyncRegistry(n, m)
      PROVE  StepOK
  BY Zenon, <1>8, SyncRegistryOK
<1> QED BY Zenon, <1>1, <1>2, <1>3, <1>4, <1>5, <1>6, <1>7, <1>8 DEF Next
-----------------------------------------------------------------------------
(* The instances and their states.                                         *)

\* An instance runs on one node, and its state is not yet continued.
RunInv ==
  /\ made <= MaxInst
  /\ PhaseTruthful
  /\ \A n \in Node : inst[n] # 0 => inst[n] <= made /\ next[inst[n]] = {}
  /\ \A n, m \in Node : inst[n] # 0 /\ inst[n] = inst[m] => n = m

\* A state that is under way is that of an instance that ended, in one answer.
AnswerInv ==
  /\ \A r \in Granted(wire) : r.inst \in 1 .. made /\ next[r.inst] = {} /\ \A n \in Node : inst[n] # r.inst
  /\ \A r, q \in Granted(wire) : r.inst = q.inst => r = q

ContinuedInv ==
  \A i \in 1 .. MaxInst : /\ next[i] = {} \/ \E j \in Nat : next[i] = {j}
                          /\ made < i => next[i] = {}

InstInv == RunInv /\ AnswerInv /\ ContinuedInv

LEMMA StartKeeps ==
  ASSUME TypeInv, TypeInv', InstInv, NEW n \in Node, Begins(n, 0), Granted(wire') \subseteq Granted(wire)
  PROVE  InstInv'
<1>1. /\ made < MaxInst /\ made' = made + 1 /\ inst' = [inst EXCEPT ![n] = made + 1] /\ next' = next
      /\ phase' = [phase EXCEPT ![n] = "active"] /\ made \in Nat /\ MaxInst \in Nat
      /\ inst \in [Node -> Nat] /\ phase \in [Node -> Down \cup Running]
  BY Zenon, SingletonAssumption DEF Begins, startActor, TypeInv, StateType
<1>2. RunInv'
  BY <1>1 DEF InstInv, RunInv, ContinuedInv, PhaseTruthful
<1>3. AnswerInv'
  BY <1>1 DEF InstInv, AnswerInv
<1>4. ContinuedInv'
  BY <1>1 DEF InstInv, ContinuedInv
<1> QED BY Zenon, <1>2, <1>3, <1>4 DEF InstInv

LEMMA RestKeeps ==
  ASSUME TypeInv, TypeInv', InstInv, NEW n \in Node, Rests(n), Granted(wire') \subseteq Granted(wire)
  PROVE  InstInv'
<1>1. /\ made' = made /\ inst' = inst /\ next' = next
      /\ \A m \in Node : phase[m] \in Down <=> phase'[m] \in Down
      /\ phase \in [Node -> Down \cup Running] /\ phase' \in [Node -> Down \cup Running]
  BY Zenon DEF Rests, NotStarted, TypeInv, StateType
<1>2. PhaseTruthful'
  BY Zenon, <1>1 DEF InstInv, RunInv, PhaseTruthful, Down, Running
<1>3. RunInv'
  BY Zenon, <1>1, <1>2 DEF InstInv, RunInv
<1>4. AnswerInv'
  BY Zenon, <1>1 DEF InstInv, AnswerInv
<1>5. ContinuedInv'
  BY Zenon, <1>1 DEF InstInv, ContinuedInv
<1> QED BY Zenon, <1>3, <1>4, <1>5 DEF InstInv

LEMMA ContinueKeeps ==
  ASSUME TypeInv, TypeInv', InstInv, NEW n \in Node, NEW r \in Granted(wire), Begins(n, r.inst), wire' = wire \ {r}
  PROVE  InstInv'
<1> DEFINE k == r.inst
<1>1. k \in 1 .. made /\ next[k] = {} /\ \A m \in Node : inst[m] # k
  BY Zenon DEF InstInv, AnswerInv
<1>2. /\ made < MaxInst /\ made' = made + 1 /\ inst' = [inst EXCEPT ![n] = made + 1]
      /\ made \in Nat /\ MaxInst \in Nat /\ k \in 1 .. MaxInst /\ k # 0 /\ k # made + 1
  BY <1>1, SingletonAssumption DEF Begins, startActor, TypeInv, StateType
<1>3. /\ phase' = [phase EXCEPT ![n] = "active"]
      /\ inst \in [Node -> Nat] /\ phase \in [Node -> Down \cup Running]
  BY Zenon DEF Begins, TypeInv, StateType
<1>4. /\ next'[k] = {made + 1}
      /\ \A i \in 1 .. MaxInst : i # k => next'[i] = next[i]
  BY Zenon, <1>1, <1>2 DEF Begins, startActor, TypeInv, StateType
<1>5. Granted(wire') \subseteq Granted(wire) \ {r}
  BY Zenon DEF Granted
<1> HIDE DEF k
<1>6. RunInv'
  <2>1. PhaseTruthful'
    BY <1>2, <1>3 DEF InstInv, RunInv, PhaseTruthful
  <2>2. next'[made + 1] = {}
    BY <1>2, <1>4 DEF InstInv, ContinuedInv
  <2>3. \A m \in Node : inst'[m] # 0 => inst'[m] <= made' /\ next'[inst'[m]] = {}
    BY <1>1, <1>2, <1>3, <1>4, <2>2 DEF InstInv, RunInv
  <2>4. \A m, x \in Node : inst'[m] # 0 /\ inst'[m] = inst'[x] => m = x
    BY <1>2, <1>3 DEF InstInv, RunInv
  <2> QED BY <1>2, <2>1, <2>3, <2>4 DEF RunInv
<1>7. AnswerInv'
  <2>1. \A q \in Granted(wire') : q \in Granted(wire) /\ q.inst # k
    BY Zenon, <1>5 DEF InstInv, AnswerInv, k
  <2>2. \A q \in Granted(wire') : q.inst \in 1 .. made' /\ next'[q.inst] = {} /\ \A m \in Node : inst'[m] # q.inst
    BY <1>2, <1>3, <1>4, <2>1 DEF InstInv, RunInv, AnswerInv
  <2> QED BY Zenon, <2>1, <2>2 DEF InstInv, AnswerInv
<1>8. ContinuedInv'
  BY <1>1, <1>2, <1>4 DEF InstInv, ContinuedInv
<1> QED BY Zenon, <1>6, <1>7, <1>8 DEF InstInv

LEMMA EndKeeps ==
  ASSUME TypeInv, TypeInv', InstInv, NEW n \in Node, Ends(n), wire' = wire
  PROVE  InstInv'
<1>1. /\ made' = made /\ next' = next /\ inst' = [inst EXCEPT ![n] = 0]
      /\ phase' = [phase EXCEPT ![n] = "idle"]
      /\ inst \in [Node -> Nat] /\ phase \in [Node -> Down \cup Running] /\ made \in Nat
  BY Zenon DEF Ends, TypeInv, StateType
<1>2. RunInv'
  BY Zenon, <1>1 DEF InstInv, RunInv, PhaseTruthful
<1>3. 0 \notin 1 .. made
  BY <1>1
<1>4. AnswerInv'
  BY Zenon, <1>1, <1>3 DEF InstInv, AnswerInv
<1>5. ContinuedInv'
  BY Zenon, <1>1 DEF InstInv, ContinuedInv
<1> QED BY Zenon, <1>2, <1>4, <1>5 DEF InstInv

LEMMA GrantKeeps ==
  ASSUME TypeInv, TypeInv', InstInv, NEW n \in Node, NEW r \in wire,
         r.kind = "request", phase[n] \in Running, Ends(n), Grants(n, r)
  PROVE  InstInv'
<1> DEFINE a == [kind |-> "answer", from |-> n, to |-> r.from, term |-> r.term, ok |-> TRUE, inst |-> inst[n]]
<1>1. /\ made' = made /\ next' = next /\ inst' = [inst EXCEPT ![n] = 0]
      /\ phase' = [phase EXCEPT ![n] = "idle"]
      /\ inst \in [Node -> Nat] /\ phase \in [Node -> Down \cup Running] /\ made \in Nat
  BY Zenon DEF Ends, TypeInv, StateType
<1>2. RunInv'
  BY Zenon, <1>1 DEF InstInv, RunInv, PhaseTruthful
<1>3. inst[n] # 0 /\ inst[n] \in 1 .. made /\ next[inst[n]] = {} /\ \A m \in Node : inst'[m] # inst[n]
  BY <1>1 DEF InstInv, RunInv, PhaseTruthful, Running
<1>4. a.inst = inst[n] /\ Granted(wire') \subseteq Granted(wire) \cup {a}
  BY Zenon DEF Grants, Granted
<1>5. \A q \in Granted(wire) : q.inst # inst[n]
  BY Zenon DEF InstInv, AnswerInv
<1> HIDE DEF a
<1>6. AnswerInv'
  <2>1. ASSUME NEW q \in Granted(wire')
        PROVE  q.inst \in 1 .. made' /\ next'[q.inst] = {} /\ \A m \in Node : inst'[m] # q.inst
    <3>1. CASE q = a
      BY Zenon, <1>1, <1>3, <1>4, <3>1
    <3>2. CASE q \in Granted(wire)
      BY <1>1, <3>2 DEF InstInv, AnswerInv
    <3> QED BY Zenon, <1>4, <3>1, <3>2
  <2>2. \A p, q \in Granted(wire') : p.inst = q.inst => p = q
    BY Zenon, <1>4, <1>5 DEF InstInv, AnswerInv
  <2> QED BY Zenon, <2>1, <2>2 DEF AnswerInv
<1>7. ContinuedInv'
  BY Zenon, <1>1 DEF InstInv, ContinuedInv
<1> QED BY Zenon, <1>2, <1>6, <1>7 DEF InstInv

LEMMA InstanceStepKeeps ==
  ASSUME TypeInv, TypeInv', InstInv, InstanceStep
  PROVE  InstInv'
BY Zenon, StartKeeps, RestKeeps, ContinueKeeps, EndKeeps, GrantKeeps DEF InstanceStep
-----------------------------------------------------------------------------
(* The inductive invariant, and the theorems.                              *)

IInv == TypeInv /\ TermInv /\ InstInv

LEMMA InitHolds == Init => IInv
<1> SUFFICES ASSUME Init
             PROVE  IInv
  OBVIOUS
<1>1. ElectionType
  <2>1. <<>> \in Seq(Maybe) /\ None \in Maybe
    BY DEF Maybe
  <2> QED BY Zenon, <2>1 DEF Init, ElectionInit, ElectionType
<1>2. StateType
  BY Zenon DEF Init, StateType, Down
<1>3. RestType
  BY Zenon DEF Init, RestType, Lives, Maybe
<1>4. TermInv
  BY Zenon DEF Init, TermInv, Attended, Unmanaged
<1>5. InstInv
  <2>1. Granted(wire) = {}
    BY Zenon DEF Init, Granted
  <2>2. RunInv
    BY SingletonAssumption DEF Init, RunInv, PhaseTruthful
  <2> QED BY Zenon, <2>1, <2>2 DEF Init, InstInv, AnswerInv, ContinuedInv
<1> QED BY Zenon, <1>1, <1>2, <1>3, <1>4, <1>5 DEF IInv, TypeInv

LEMMA StutterKeeps ==
  ASSUME IInv, UNCHANGED vars
  PROVE  IInv'
<1>1. /\ UNCHANGED <<members, leader, term, events, node, phase, sterm, rebal, cancel, prev, failed>>
      /\ UNCHANGED <<reg, inst, handoff, timers, wire, made, next>>
  BY Zenon DEF vars, election, manager, net
<1>2. TypeInv'
  BY Zenon, <1>1 DEF IInv, TypeInv, ElectionType, StateType, RestType
<1>3. TermInv'
  BY Zenon, <1>1 DEF IInv, TermInv, Attended, Attends
<1>4. InstInv'
  BY Zenon, <1>1 DEF IInv, InstInv, RunInv, AnswerInv, ContinuedInv, PhaseTruthful, Granted
<1> QED BY Zenon, <1>2, <1>3, <1>4 DEF IInv

LEMMA NextKeeps == IInv /\ [Next]_vars => IInv'
<1>1. ASSUME IInv, Next
      PROVE  IInv'
  <2>1. TypeInv /\ TermInv /\ InstInv
    BY Zenon, <1>1 DEF IInv
  <2>2. TypeInv' /\ InstanceStep /\ TermInv'
    BY Zenon, <1>1, <2>1, NextOK DEF StepOK
  <2>3. InstInv'
    BY Zenon, <2>1, <2>2, InstanceStepKeeps
  <2> QED BY Zenon, <2>2, <2>3 DEF IInv
<1> QED BY Zenon, <1>1, StutterKeeps

\* IInv is an invariant of the singleton, with every fault and for any nodes.
LEMMA Invariance == Spec => []IInv
BY InitHolds, NextKeeps, PTL DEF Spec

\* A manager's phase is active or deactivating exactly where the actor runs, in
\* whatever order requests, answers, time-outs, events, drains and crashes come.
THEOREM SingletonPhaseTruthful == Spec => []PhaseTruthful
<1>1. IInv => PhaseTruthful
  BY Zenon DEF IInv, InstInv, RunInv
<1> QED BY <1>1, Invariance, PTL

\* An activation of the current term has the goroutine that will complete it, and
\* nobody has cancelled it.
THEOREM SingletonActivationAttended == Spec => []ActivationAttended
<1>1. IInv => ActivationAttended
  BY DEF IInv, TermInv, ActivationAttended, Attended, Attends
<1> QED BY <1>1, Invariance, PTL

\* The state of an instance is continued by one instance at most, after it ended.
THEOREM SingletonStateHandedOnce == Spec => []StateHandedOnce
<1>1. ASSUME IInv
      PROVE  StateHandedOnce
  <2> SUFFICES ASSUME NEW i \in 1 .. MaxInst
               PROVE  /\ Cardinality(next[i]) <= 1
                      /\ next[i] # {} => \A n \in Node : inst[n] # i
    BY Zenon DEF StateHandedOnce
  <2>1. next[i] = {} \/ \E j \in Nat : next[i] = {j}
    BY Zenon, <1>1 DEF IInv, InstInv, ContinuedInv
  <2>2. Cardinality(next[i]) <= 1
    <3>1. CASE next[i] = {}
      BY <3>1, FS_EmptySet
    <3>2. ASSUME NEW j \in Nat, next[i] = {j}
          PROVE  Cardinality(next[i]) <= 1
      <4>1. Cardinality({j}) = 1
        BY Zenon, FS_Singleton
      <4> QED BY <3>2, <4>1
    <3> QED BY Zenon, <2>1, <3>1, <3>2
  <2>3. i # 0
    BY SingletonAssumption
  <2>4. next[i] # {} => \A n \in Node : inst[n] # i
    BY Zenon, <1>1, <2>3 DEF IInv, InstInv, RunInv
  <2> QED BY Zenon, <2>2, <2>4
<1> QED BY <1>1, Invariance, PTL

\* Only a request of a new leader, the time-out after a Rebalance, the drain of its
\* node or the end of the process stops a running singleton.
THEOREM SingletonSticky == Spec => Sticky
<1> DEFINE Stops == \A n \in Node : inst[n] # 0 /\ inst'[n] # inst[n] =>
                      \/ \E r \in wire : r.kind = "request" /\ r.to = n /\ r \notin wire'
                      \/ phase[n] = "deactivating" /\ timers'[n] < timers[n]
                      \/ node'[n] \in {"stopped", "crashed"}
<1>1. ASSUME IInv, Next
      PROVE  Stops
  <2>1. InstanceStep /\ PhaseTruthful /\ inst \in [Node -> Nat]
    BY Zenon, <1>1, NextOK DEF IInv, StepOK, InstInv, RunInv, TypeInv, StateType
  <2>2. ASSUME NEW n \in Node, NEW from, Begins(n, from)
        PROVE  Stops
    BY Zenon, <2>1, <2>2 DEF Begins, startActor, PhaseTruthful, Down
  <2>3. ASSUME NEW n \in Node, Rests(n)
        PROVE  Stops
    BY Zenon, <2>3 DEF Rests, NotStarted
  <2>4. ASSUME NEW n \in Node, Ends(n),
               \/ phase[n] = "deactivating" /\ timers'[n] < timers[n]
               \/ node'[n] \in {"stopped", "crashed"}
        PROVE  Stops
    BY Zenon, <2>1, <2>4 DEF Ends
  <2>5. ASSUME NEW n \in Node, NEW r \in wire, r.kind = "request", r.to = n, Ends(n), Grants(n, r)
        PROVE  Stops
    <3>1. r \notin wire'
      BY <2>5 DEF Grants
    <3> QED BY Zenon, <2>1, <2>5, <3>1 DEF Ends
  <2> HIDE DEF Stops
  <2> QED BY Zenon, <2>1, <2>2, <2>3, <2>4, <2>5 DEF InstanceStep
<1>2. IInv /\ [Next]_vars => [Stops]_vars
  BY Zenon, <1>1
<1> QED BY <1>2, Invariance, PTL DEF Spec, Sticky
=============================================================================
