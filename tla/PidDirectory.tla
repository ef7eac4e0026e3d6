---------------------------- MODULE PidDirectory ----------------------------
(***************************************************************************)
(* How a runtime finds an actor: the PID resolver (pid_resolver.go), the   *)
(* PID each actor was last issued (actorPID), the name registry            *)
(* (registry.go), and the calls of runtime.go that keep them: IssuePID,    *)
(* RegisterName, UnregisterName, Stop, RemoveActor, SendPID, SendName, and *)
(* the restart of a failed actor, which gives its PID a new generation.    *)
(*                                                                         *)
(* Each structure has a lock of its own and no lock spans a call, so a     *)
(* call is a sequence of steps, one per access.  An actor id is reused     *)
(* after RemoveActor: its instances are numbered, and a call or a          *)
(* goroutine that holds an instance keeps it.                              *)
(***************************************************************************)
EXTENDS Naturals, FiniteSets

CONSTANTS
  ActorId, Namespace, Name, Client,
  MaxInstance,     \* bound: instances of one id
  MaxGeneration,   \* bound: generations of one PID
  MaxCalls         \* bound: calls that each client makes

ASSUME BoundsAssumption ==
  MaxInstance \in Nat \ {0} /\ MaxGeneration \in Nat \ {0} /\ MaxCalls \in Nat

VARIABLES
  current,    \* actorRegistry: the instance an id names, 0 when none
  status,     \* the status of each instance
  closed,     \* the instances of each id that are cancelled, mailbox closed
  loop,       \* where the goroutine of each instance is in a restart, and
              \* the PID it loaded
  entry,      \* InMemoryPIDResolver.byKey
  actorPID,   \* Runtime.actorPID
  byName, byActor,   \* namedRegistry
  call,       \* where each client is in its call, and what it holds
  overlap     \* history: the ids whose PID two calls or restarts changed at
              \* the same time

vars == <<current, status, closed, loop, entry, actorPID, byName, byActor, call,
          overlap>>

names == <<byName, byActor>>
-----------------------------------------------------------------------------
Instance == 1 .. MaxInstance
Nobody   == "none"
PID      == [ns : Namespace, id : ActorId, gen : 1 .. MaxGeneration]
NoPID    == [ns |-> Nobody, id |-> Nobody, gen |-> 0]
Key(pid) == <<pid.ns, pid.id>>
NoEntry  == [gen |-> 0, route |-> Nobody]
NoName   == NoPID

ASSUME NobodyAssumption == Nobody \notin ActorId \cup Namespace

Idle == [at |-> "idle", id |-> Nobody, inst |-> 0, ns |-> Nobody, name |-> Nobody,
         pid |-> NoPID, left |-> MaxCalls]

\* The client moves on to the next step of its call.
Goto(c, step) == call' = [call EXCEPT ![c].at = step]
Return(c)     == call' = [call EXCEPT ![c] = [Idle EXCEPT !.left = call[c].left]]

\* An idle client begins a call.
Begin(c, first) ==
  /\ call[c].at = "idle" /\ call[c].left > 0
  /\ call' = [call EXCEPT ![c] = [first EXCEPT !.left = call[c].left - 1]]

Alive(a) == current[a] # 0

\* The restarts, issues and removals of an id's PID that are under way, and what
\* the history keeps when another begins.
RemoveSteps   == {"remove_id", "remove_pid", "remove_key"}
IssueSteps    == {"issue_key", "issue_pid", "name_issue_key", "name_issue_pid"}
Restarting(a) == \E i \in Instance : loop[a][i].at \in {"load", "route", "bump", "store"}
Changing(a)   == \E c \in Client : call[c].id = a /\ call[c].at \in RemoveSteps \cup IssueSteps
Overlap(a)    == overlap' = IF Restarting(a) \/ Changing(a) THEN overlap \cup {a} ELSE overlap
-----------------------------------------------------------------------------
(* The resolver.                                                           *)

Register(pid) ==
  entry' = [entry EXCEPT ![Key(pid)] = [gen |-> pid.gen, route |-> "reachable"]]

Remove(pid) == entry' = [entry EXCEPT ![Key(pid)] = NoEntry]

\* An entry that is missing is made, with the generation of the PID.
SetState(pid, route) ==
  entry' = [entry EXCEPT ![Key(pid)] =
              [gen |-> IF @ = NoEntry THEN pid.gen ELSE @.gen, route |-> route]]

BumpGeneration(pid) ==
  entry' = [entry EXCEPT ![Key(pid)] = [gen |-> @.gen + 1, route |-> "reachable"]]
-----------------------------------------------------------------------------
(* The name registry: each operation runs under its lock.                  *)

registerName(n, pid) ==
  /\ byName' = [byName EXCEPT ![n] = pid]
  /\ byActor' = [byActor EXCEPT ![pid.id] = @ \cup {n}]

\* A slip: the reverse index keeps the name.
unregister_IndexKept(n) ==
  /\ byName' = [byName EXCEPT ![n] = NoName]
  /\ UNCHANGED byActor

unregister(n) ==
  /\ byName' = [byName EXCEPT ![n] = NoName]
  /\ byActor' = [byActor EXCEPT ![byName[n].id] = @ \ {n}]

unregisterByActor(a) ==
  /\ byName' = [n \in Name |-> IF n \in byActor[a] THEN NoName ELSE byName[n]]
  /\ byActor' = [byActor EXCEPT ![a] = {}]
-----------------------------------------------------------------------------
Init ==
  /\ current = [a \in ActorId |-> 0]
  /\ status = [a \in ActorId |-> [i \in Instance |-> Nobody]]
  /\ closed = [a \in ActorId |-> {}]
  /\ loop = [a \in ActorId |-> [i \in Instance |-> [at |-> Nobody, pid |-> NoPID]]]
  /\ entry = [k \in Namespace \X ActorId |-> NoEntry]
  /\ actorPID = [a \in ActorId |-> NoPID]
  /\ byName = [n \in Name |-> NoName]
  /\ byActor = [a \in ActorId |-> {}]
  /\ call = [c \in Client |-> Idle]
  /\ overlap = {}

\* CreateActor; an id that is registered is refused.
CreateActor(a, i) ==
  /\ ~Alive(a)
  /\ status[a][i] = Nobody
  /\ \A j \in 1 .. i - 1 : status[a][j] # Nobody
  /\ current' = [current EXCEPT ![a] = i]
  /\ status' = [status EXCEPT ![a][i] = "Running"]
  /\ UNCHANGED <<closed, loop, entry, actorPID, names, call, overlap>>
-----------------------------------------------------------------------------
(* IssuePID: the actor exists, resolver.Register, actorPID.Store.          *)

IssuePID(c, a, ns) ==
  /\ Alive(a)
  /\ Begin(c, [Idle EXCEPT !.at = "issue_key", !.id = a,
                           !.pid = [ns |-> ns, id |-> a, gen |-> 1]])
  /\ Overlap(a)
  /\ UNCHANGED <<current, status, closed, loop, entry, actorPID, names>>

IssueKey(c, here, next) ==
  /\ call[c].at = here
  /\ Register(call[c].pid)
  /\ Goto(c, next)
  /\ UNCHANGED <<current, status, closed, loop, actorPID, names, overlap>>

StorePID(c) == actorPID' = [actorPID EXCEPT ![call[c].id] = call[c].pid]

IssueStore(c) ==
  /\ call[c].at = "issue_pid"
  /\ StorePID(c)
  /\ Return(c)
  /\ UNCHANGED <<current, status, closed, loop, entry, names, overlap>>
-----------------------------------------------------------------------------
(* RegisterName: the actor exists, PIDForActor, IssuePID when there is     *)
(* none in the namespace, names.register.                                  *)

RegisterName(c, a, ns, n) ==
  /\ Alive(a)
  /\ Begin(c, [Idle EXCEPT !.at = "name_pid", !.id = a, !.ns = ns, !.name = n])
  /\ UNCHANGED <<current, status, closed, loop, entry, actorPID, names, overlap>>

NamePid(c) ==
  LET a == call[c].id  ns == call[c].ns IN
  /\ call[c].at = "name_pid"
  /\ \/ /\ actorPID[a].ns = ns
        /\ call' = [call EXCEPT ![c].at = "name_register", ![c].pid = actorPID[a]]
        /\ UNCHANGED overlap
     \/ /\ actorPID[a].ns # ns /\ Alive(a)
        /\ call' = [call EXCEPT ![c].at = "name_issue_key",
                                ![c].pid = [ns |-> ns, id |-> a, gen |-> 1]]
        /\ Overlap(a)
     \/ /\ actorPID[a].ns # ns /\ ~Alive(a)
        /\ Return(c)
        /\ UNCHANGED overlap
  /\ UNCHANGED <<current, status, closed, loop, entry, actorPID, names>>

NameIssueStore(c) ==
  /\ call[c].at = "name_issue_pid"
  /\ StorePID(c)
  /\ Goto(c, "name_register")
  /\ UNCHANGED <<current, status, closed, loop, entry, names, overlap>>

\* A name that is taken is refused.
NameRegister(c) ==
  /\ call[c].at = "name_register"
  /\ IF byName[call[c].name] = NoName
     THEN registerName(call[c].name, call[c].pid) ELSE UNCHANGED names
  /\ Return(c)
  /\ UNCHANGED <<current, status, closed, loop, entry, actorPID, overlap>>

UnregisterName(n) ==
  /\ byName[n] # NoName
  /\ unregister(n)
  /\ UNCHANGED <<current, status, closed, loop, entry, actorPID, call, overlap>>
-----------------------------------------------------------------------------
(* Stop and StopAndCapture: Stopping, the stop hook, Stopped, the PID's    *)
(* route, and the names.                                                   *)

Stop(c, a) ==
  /\ Alive(a)
  /\ status[a][current[a]] # "Stopped"
  /\ status' = [status EXCEPT ![a][current[a]] = "Stopping"]
  /\ Begin(c, [Idle EXCEPT !.at = "stop_status", !.id = a, !.inst = current[a]])
  /\ UNCHANGED <<current, closed, loop, entry, actorPID, names, overlap>>

StopStatus(c) ==
  /\ call[c].at = "stop_status"
  /\ status' = [status EXCEPT ![call[c].id][call[c].inst] = "Stopped"]
  /\ Goto(c, "stop_load")
  /\ UNCHANGED <<current, closed, loop, entry, actorPID, names, overlap>>

\* The PID is loaded by id: it may belong to a later instance.
StopLoad(c) ==
  LET pid == actorPID[call[c].id] IN
  /\ call[c].at = "stop_load"
  /\ call' = [call EXCEPT ![c].at = IF pid = NoPID THEN "stop_names" ELSE "stop_route",
                          ![c].pid = pid]
  /\ UNCHANGED <<current, status, closed, loop, entry, actorPID, names, overlap>>

StopRoute(c) ==
  /\ call[c].at = "stop_route"
  /\ SetState(call[c].pid, "stopped")
  /\ Goto(c, "stop_names")
  /\ UNCHANGED <<current, status, closed, loop, actorPID, names, overlap>>

\* cancel and mailbox.Close, then the names.
StopNames(c) ==
  /\ call[c].at = "stop_names"
  /\ closed' = [closed EXCEPT ![call[c].id] = @ \cup {call[c].inst}]
  /\ unregisterByActor(call[c].id)
  /\ Return(c)
  /\ UNCHANGED <<current, status, loop, entry, actorPID, overlap>>
-----------------------------------------------------------------------------
(* RemoveActor: the instance is stopped; then the id, the actor's PID and  *)
(* the resolver's entry go, one after the other.                           *)

RemoveActor(c, a) ==
  /\ Alive(a)
  /\ status[a][current[a]] = "Stopped"
  /\ Begin(c, [Idle EXCEPT !.at = "remove_id", !.id = a])
  /\ Overlap(a)
  /\ UNCHANGED <<current, status, closed, loop, entry, actorPID, names>>

RemoveId(c) ==
  /\ call[c].at = "remove_id"
  /\ current' = [current EXCEPT ![call[c].id] = 0]
  /\ Goto(c, "remove_pid")
  /\ UNCHANGED <<status, closed, loop, entry, actorPID, names, overlap>>

RemovePid(c) ==
  LET a == call[c].id IN
  /\ call[c].at = "remove_pid"
  /\ actorPID' = [actorPID EXCEPT ![a] = NoPID]
  /\ IF actorPID[a] = NoPID
     THEN Return(c)
     ELSE call' = [call EXCEPT ![c].at = "remove_key", ![c].pid = actorPID[a]]
  /\ UNCHANGED <<current, status, closed, loop, entry, names, overlap>>

RemoveKey(c) ==
  /\ call[c].at = "remove_key"
  /\ Remove(call[c].pid)
  /\ Return(c)
  /\ UNCHANGED <<current, status, closed, loop, actorPID, names, overlap>>
-----------------------------------------------------------------------------
(* The goroutine of an instance: the handler fails and the supervisor      *)
(* decides.  Messages that were queued when the actor was stopped are      *)
(* still handled, so that it may restart after a Stop.                     *)

GoLoop(a, i, step) == loop' = [loop EXCEPT ![a][i].at = step]

RestartBegin(a, i) ==
  /\ status[a][i] # Nobody
  /\ loop[a][i].at = Nobody
  /\ status' = [status EXCEPT ![a][i] = "Restarting"]
  /\ GoLoop(a, i, "load")
  /\ Overlap(a)
  /\ UNCHANGED <<current, closed, entry, actorPID, names, call>>

RestartLoad(a, i) ==
  /\ loop[a][i].at = "load"
  /\ loop' = [loop EXCEPT ![a][i] = [at |-> IF actorPID[a] = NoPID THEN "hook" ELSE "route",
                                     pid |-> actorPID[a]]]
  /\ UNCHANGED <<current, status, closed, entry, actorPID, names, call, overlap>>

RestartRoute(a, i) ==
  /\ loop[a][i].at = "route"
  /\ SetState(loop[a][i].pid, "restarting")
  /\ GoLoop(a, i, "bump")
  /\ UNCHANGED <<current, status, closed, actorPID, names, call, overlap>>

\* Fails when the entry was removed meanwhile.
RestartBump(a, i) ==
  LET pid == loop[a][i].pid  e == entry[Key(pid)] IN
  /\ loop[a][i].at = "bump"
  /\ e.gen < MaxGeneration
  /\ IF e = NoEntry
     THEN /\ GoLoop(a, i, "hook")
          /\ UNCHANGED entry
     ELSE /\ BumpGeneration(pid)
          /\ loop' = [loop EXCEPT ![a][i] = [at |-> "store", pid |-> [pid EXCEPT !.gen = e.gen + 1]]]
  /\ UNCHANGED <<current, status, closed, actorPID, names, call, overlap>>

\* A slip: the actor's PID keeps its old generation.
RestartStore_Forgotten(a, i) ==
  /\ loop[a][i].at = "store"
  /\ GoLoop(a, i, "hook")
  /\ UNCHANGED <<current, status, closed, entry, actorPID, names, call, overlap>>

RestartStore(a, i) ==
  /\ loop[a][i].at = "store"
  /\ actorPID' = [actorPID EXCEPT ![a] = loop[a][i].pid]
  /\ GoLoop(a, i, "hook")
  /\ UNCHANGED <<current, status, closed, entry, names, call, overlap>>

\* A slip: a restart cleans up as the end of the actor does.
RestartDone_Cleans(a, i) ==
  /\ loop[a][i].at = "hook"
  /\ status' = [status EXCEPT ![a][i] = "Running"]
  /\ loop' = [loop EXCEPT ![a][i] = [at |-> Nobody, pid |-> NoPID]]
  /\ unregisterByActor(a)
  /\ UNCHANGED <<current, closed, entry, actorPID, call, overlap>>

\* The start hook succeeds.
RestartDone(a, i) ==
  /\ loop[a][i].at = "hook"
  /\ status' = [status EXCEPT ![a][i] = "Running"]
  /\ loop' = [loop EXCEPT ![a][i] = [at |-> Nobody, pid |-> NoPID]]
  /\ UNCHANGED <<current, closed, entry, actorPID, names, call, overlap>>

\* The supervisor stops or escalates, or the start hook of a restart fails: the
\* PID's route is left as it is.
Terminate(a, i) ==
  /\ status[a][i] # Nobody
  /\ loop[a][i].at \in {Nobody, "hook"}
  /\ status' = [status EXCEPT ![a][i] = "Stopped"]
  /\ closed' = [closed EXCEPT ![a] = @ \cup {i}]
  /\ GoLoop(a, i, "names")
  /\ UNCHANGED <<current, entry, actorPID, names, call, overlap>>

TerminateNames(a, i) ==
  /\ loop[a][i].at = "names"
  /\ unregisterByActor(a)
  /\ GoLoop(a, i, "ended")
  /\ UNCHANGED <<current, status, closed, entry, actorPID, call, overlap>>

\* The goroutine of a cancelled instance leaves.
LoopExit(a, i) ==
  /\ loop[a][i].at = Nobody /\ i \in closed[a]
  /\ status' = [status EXCEPT ![a][i] = "Stopped"]
  /\ GoLoop(a, i, "ended")
  /\ UNCHANGED <<current, closed, entry, actorPID, names, call, overlap>>
-----------------------------------------------------------------------------
\* sendPIDWithSender to a local actor: what the resolver says of the PID, and
\* then what Send says of the actor.  A mailbox that is full counts as stopped.
SendPID(pid, gatewayDown) ==
  LET e == entry[Key(pid)]  i == current[pid.id] IN
  CASE e = NoEntry /\ i = 0 -> "rejected_not_found"
    [] e = NoEntry /\ i # 0 -> "unresolved"
    [] e.route = "stopped" -> "rejected_stopped"
    [] e # NoEntry /\ e.route # "stopped" /\ pid.gen # e.gen -> "rejected_stale_generation"
    [] e # NoEntry /\ e.route # "stopped" /\ pid.gen = e.gen /\ gatewayDown -> "unresolved"
    [] OTHER -> IF i = 0 THEN "rejected_stopped"
                ELSE IF status[pid.id][i] = "Stopped" \/ i \in closed[pid.id]
                THEN "rejected_stopped" ELSE "delivered"

\* SendName: the PID is the one stored when the name was registered.
SendName(n, gatewayDown) ==
  IF byName[n] = NoName THEN "rejected_not_found" ELSE SendPID(byName[n], gatewayDown)
-----------------------------------------------------------------------------
ClientStep(c) ==
  \/ \E a \in ActorId, ns \in Namespace : IssuePID(c, a, ns)
  \/ IssueKey(c, "issue_key", "issue_pid") \/ IssueStore(c)
  \/ \E a \in ActorId, ns \in Namespace, n \in Name : RegisterName(c, a, ns, n)
  \/ NamePid(c) \/ IssueKey(c, "name_issue_key", "name_issue_pid")
  \/ NameIssueStore(c) \/ NameRegister(c)
  \/ \E a \in ActorId : Stop(c, a) \/ RemoveActor(c, a)
  \/ StopStatus(c) \/ StopLoad(c) \/ StopRoute(c) \/ StopNames(c)
  \/ RemoveId(c) \/ RemovePid(c) \/ RemoveKey(c)

ActorStep(a, i) ==
  \/ CreateActor(a, i)
  \/ RestartBegin(a, i) \/ RestartLoad(a, i) \/ RestartRoute(a, i) \/ RestartBump(a, i)
  \/ RestartStore(a, i) \/ RestartDone(a, i)
  \/ Terminate(a, i) \/ TerminateNames(a, i) \/ LoopExit(a, i)

Next ==
  \/ \E c \in Client : ClientStep(c)
  \/ \E a \in ActorId, i \in Instance : ActorStep(a, i)
  \/ \E n \in Name : UnregisterName(n)

Spec == Init /\ [][Next]_vars
-----------------------------------------------------------------------------
Routes   == {"reachable", "stopped", "restarting"}
Statuses == {Nobody, "Running", "Restarting", "Stopping", "Stopped"}
CallSteps == {"idle", "name_pid", "name_register", "stop_status", "stop_load", "stop_route",
              "stop_names"} \cup IssueSteps \cup RemoveSteps
LoopSteps == {Nobody, "load", "route", "bump", "store", "hook", "names", "ended"}

\* The directory's structures hold PIDs of their own keys with generations from
\* 1 on, and every step of a call that uses a PID holds one.
TypeOK ==
  /\ current \in [ActorId -> 0 .. MaxInstance]
  /\ status \in [ActorId -> [Instance -> Statuses]]
  /\ closed \in [ActorId -> SUBSET Instance]
  /\ loop \in [ActorId -> [Instance -> [at : LoopSteps, pid : PID \cup {NoPID}]]]
  /\ entry \in [Namespace \X ActorId -> [gen : 1 .. MaxGeneration, route : Routes] \cup {NoEntry}]
  /\ actorPID \in [ActorId -> PID \cup {NoPID}]
  /\ byName \in [Name -> PID \cup {NoName}]
  /\ byActor \in [ActorId -> SUBSET Name]
  /\ call \in [Client -> [at : CallSteps, id : ActorId \cup {Nobody}, inst : 0 .. MaxInstance,
                          ns : Namespace \cup {Nobody}, name : Name \cup {Nobody},
                          pid : PID \cup {NoPID}, left : 0 .. MaxCalls]]
  /\ overlap \subseteq ActorId
  /\ \A a \in ActorId : actorPID[a] # NoPID => actorPID[a].id = a

\* namedRegistry's two maps say the same: a name has one owner, and the clean-up
\* of an actor that ends, which reads byActor, finds every name it owns, whatever
\* the order of registrations, refusals, unregistrations and clean-ups.
NamesAgree ==
  \A n \in Name, a \in ActorId : n \in byActor[a] <=> byName[n].id = a

\* A name is taken from its owner only by UnregisterName or because an instance
\* of the owner's id has ended: no restart, registration or other call loses it.
RestartKeepsName ==
  [][\A n \in Name : byName[n] # NoName /\ byName'[n] # byName[n]
       => \/ UnregisterName(n)
          \/ \E i \in Instance : i \in closed'[byName[n].id]]_vars

\* When neither a call nor a restart is changing an actor's PID, and no two of
\* them ever did so at once, the PID that PIDForActor gives for an actor is never
\* refused as unknown or stale: the resolver has its entry, at its generation.
PidCurrent ==
  \A a \in ActorId :
    /\ a \notin overlap /\ ~Restarting(a) /\ ~Changing(a)
    /\ actorPID[a] # NoPID
    => SendPID(actorPID[a], FALSE) \in {"delivered", "rejected_stopped"}
=============================================================================
