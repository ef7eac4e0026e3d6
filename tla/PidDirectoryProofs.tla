-------------------------- MODULE PidDirectoryProofs --------------------------
(***************************************************************************)
(* The properties of the directory for any actors, names, namespaces and   *)
(* clients: the two maps of the name registry agree, no restart loses a    *)
(* name, and the PID of an actor is current when nobody changes it.        *)
(***************************************************************************)
EXTENDS PidDirectory, TLAPS

Gen == 1 .. MaxGeneration
CallRec == [at : CallSteps, id : ActorId \cup {Nobody}, inst : 0 .. MaxInstance,
            ns : Namespace \cup {Nobody}, name : Name \cup {Nobody},
            pid : PID \cup {NoPID}, left : 0 .. MaxCalls]
LoopRec == [at : LoopSteps, pid : PID \cup {NoPID}]
EntryRec == [gen : Gen, route : Routes] \cup {NoEntry}

\* What a call holds at each step.
PidSteps == IssueSteps \cup {"name_register", "remove_key"}
StopSteps == {"stop_status", "stop_load", "stop_route", "stop_names"}
NameSteps == {"name_pid", "name_register", "name_issue_key", "name_issue_pid"}

CallOK(x) ==
  /\ x.at # "idle" => x.id \in ActorId
  /\ x.at \in PidSteps => x.pid \in PID /\ x.pid.id = x.id
  /\ x.at = "stop_route" => x.pid \in PID
  /\ x.at \in StopSteps => x.inst \in Instance
  /\ x.at \in NameSteps => x.name \in Name /\ x.ns \in Namespace

\* What the goroutine of an instance of id a holds in a restart.
LoopOK(a, x) == x.at \in {"route", "bump", "store"} => x.pid \in PID /\ x.pid.id = a

CallsType == call \in [Client -> CallRec] /\ \A c \in Client : CallOK(call[c])

LoopsType ==
  /\ closed \in [ActorId -> SUBSET Instance]
  /\ loop \in [ActorId -> [Instance -> LoopRec]]
  /\ \A a \in ActorId, i \in Instance :
       LoopOK(a, loop[a][i]) /\ (loop[a][i].at = "names" => i \in closed[a])

ActorsType ==
  /\ current \in [ActorId -> 0 .. MaxInstance]
  /\ status \in [ActorId -> [Instance -> Statuses]]

PidsType ==
  /\ entry \in [Namespace \X ActorId -> EntryRec]
  /\ actorPID \in [ActorId -> PID \cup {NoPID}]
  /\ \A a \in ActorId : actorPID[a] # NoPID => actorPID[a].id = a

NamesType == byName \in [Name -> PID \cup {NoName}] /\ byActor \in [ActorId -> SUBSET Name]

TypeInv == CallsType /\ LoopsType /\ ActorsType /\ PidsType /\ NamesType /\ overlap \subseteq ActorId
-----------------------------------------------------------------------------
(* The steps of a call.                                                    *)

LEMMA NoPIDFacts == NoPID \notin PID /\ NoPID.id \notin ActorId /\ NoPID.ns \notin Namespace
BY Zenon, NobodyAssumption DEF NoPID, PID

LEMMA IdleRec == Idle \in CallRec
BY BoundsAssumption DEF Idle, CallRec, CallSteps

LEMMA CallKept ==
  ASSUME CallsType, NEW c \in Client, NEW x \in CallRec, CallOK(x), call' = [call EXCEPT ![c] = x]
  PROVE  CallsType' /\ call'[c] = x /\ \A d \in Client : d # c => call'[d] = call[d]
BY Zenon DEF CallsType

LEMMA GotoKept ==
  ASSUME CallsType, NEW c \in Client, NEW step \in CallSteps, Goto(c, step),
         CallOK([call[c] EXCEPT !.at = step])
  PROVE  /\ CallsType' /\ call'[c] = [call[c] EXCEPT !.at = step]
         /\ \A d \in Client : d # c => call'[d] = call[d]
<1>1. call[c] \in CallRec
  BY Zenon DEF CallsType
<1>2. [call[c] EXCEPT !.at = step] \in CallRec
  BY Zenon, <1>1 DEF CallRec
<1>3. call' = [call EXCEPT ![c] = [call[c] EXCEPT !.at = step]]
  BY Zenon DEF Goto
<1> QED BY Zenon, <1>2, <1>3, CallKept

LEMMA ReturnKept ==
  ASSUME CallsType, NEW c \in Client, Return(c)
  PROVE  /\ CallsType' /\ call'[c].at = "idle" /\ \A d \in Client : d # c => call'[d] = call[d]
<1> DEFINE x == [Idle EXCEPT !.left = call[c].left]
<1>1. call[c].left \in 0 .. MaxCalls
  BY Zenon DEF CallsType, CallRec
<1>2. x \in CallRec /\ CallOK(x) /\ x.at = "idle"
  BY <1>1, BoundsAssumption DEF Idle, CallRec, CallOK, CallSteps, PidSteps, IssueSteps, StopSteps, NameSteps
<1>3. call' = [call EXCEPT ![c] = x]
  BY Zenon DEF Return
<1> HIDE DEF x
<1> QED BY Zenon, <1>2, <1>3, CallKept

LEMMA BeginKept ==
  ASSUME CallsType, NEW c \in Client, NEW first \in CallRec, CallOK(first), Begin(c, first)
  PROVE  /\ CallsType' /\ \A d \in Client : d # c => call'[d] = call[d]
         /\ call[c].at = "idle" /\ call'[c].at = first.at /\ call'[c].id = first.id /\ call'[c].pid = first.pid
<1> DEFINE x == [first EXCEPT !.left = call[c].left - 1]
<1>1. call[c].left \in 0 .. MaxCalls /\ call[c].left > 0 /\ call[c].at = "idle"
  BY Zenon DEF CallsType, CallRec, Begin
<1>2. call[c].left - 1 \in 0 .. MaxCalls
  BY <1>1, BoundsAssumption
<1>3. x \in CallRec /\ x.at = first.at /\ x.id = first.id /\ x.pid = first.pid
  BY Zenon, <1>2 DEF CallRec
<1>4. x.inst = first.inst /\ x.name = first.name /\ x.ns = first.ns
  BY Zenon DEF CallRec
<1>5. call' = [call EXCEPT ![c] = x]
  BY Zenon DEF Begin
<1> HIDE DEF x
<1>6. CallOK(x)
  BY Zenon, <1>3, <1>4 DEF CallOK
<1>7. CallsType' /\ call'[c] = x /\ \A d \in Client : d # c => call'[d] = call[d]
  BY Zenon, <1>3, <1>5, <1>6, CallKept
<1> QED BY Zenon, <1>1, <1>3, <1>7
-----------------------------------------------------------------------------
(* Who changes the PID of an id, and what the resolver has for it.         *)

BusyAt == {"load", "route", "bump", "store"}
StoreSteps == {"issue_pid", "name_issue_pid"}
Edit(x, a) == x.id = a /\ x.at \in RemoveSteps \cup IssueSteps

\* With the goroutines l of id a and the calls cs, one at most changes its PID.
Alone(a, l, cs) ==
  /\ \A i, j \in Instance : l[i].at \in BusyAt /\ l[j].at \in BusyAt => i = j
  /\ \A c, d \in Client : Edit(cs[c], a) /\ Edit(cs[d], a) => c = d
  /\ \A i \in Instance, c \in Client : ~(l[i].at \in BusyAt /\ Edit(cs[c], a))

\* The entries e have the PID, at its generation.
Fresh(e, pid) == e[Key(pid)] # NoEntry /\ e[Key(pid)].gen = pid.gen

\* The PID p of id a is in the entries e, or is about to be replaced by one that
\* is, or is gone.
Own(a, l, cs, e, p) ==
  /\ \/ p = NoPID \/ Fresh(e, p)
     \/ \E i \in Instance : l[i].at = "store"
     \/ \E c \in Client : cs[c].id = a /\ cs[c].at \in StoreSteps
  /\ \A i \in Instance : l[i].at \in {"route", "bump"} => l[i].pid = p
  /\ \A i \in Instance : l[i].at = "store" => Fresh(e, l[i].pid)
  /\ \A c \in Client : cs[c].id = a /\ cs[c].at \in StoreSteps => Fresh(e, cs[c].pid)
  /\ \A c \in Client : cs[c].id = a /\ cs[c].at = "remove_key" => p = NoPID

PidInv == \A a \in ActorId \ overlap : Alone(a, loop[a], call) /\ Own(a, loop[a], call, entry, actorPID[a])

PidOK == \A a \in ActorId \ overlap' : Alone(a, loop'[a], call') /\ Own(a, loop'[a], call', entry', actorPID'[a])

\* A step that changes nothing of the PID of id a.
LoopQuiet(a) == \A i \in Instance : loop[a][i].at \in BusyAt \/ loop'[a][i].at \in BusyAt => loop'[a][i] = loop[a][i]
CallQuiet(a) == \A c \in Client : Edit(call[c], a) \/ Edit(call'[c], a) => call'[c] = call[c]
EntryQuiet(a) == \A ns \in Namespace : entry[<<ns, a>>] # NoEntry =>
                   entry'[<<ns, a>>] # NoEntry /\ entry'[<<ns, a>>].gen = entry[<<ns, a>>].gen

Quiet(a) == LoopQuiet(a) /\ CallQuiet(a) /\ EntryQuiet(a) /\ actorPID'[a] = actorPID[a]

LEMMA FreshKept ==
  ASSUME NEW a \in ActorId, EntryQuiet(a), NEW pid \in PID, pid.id = a, Fresh(entry, pid)
  PROVE  Fresh(entry', pid)
<1>1. pid.ns \in Namespace /\ Key(pid) = <<pid.ns, a>>
  BY Zenon DEF PID, Key
<1> QED BY Zenon, <1>1 DEF EntryQuiet, Fresh

LEMMA QuietKeeps ==
  ASSUME TypeInv, NEW a \in ActorId, Quiet(a),
         Alone(a, loop[a], call), Own(a, loop[a], call, entry, actorPID[a])
  PROVE  Alone(a, loop'[a], call') /\ Own(a, loop'[a], call', entry', actorPID'[a])
<1>1. Alone(a, loop'[a], call')
  BY Zenon DEF Alone, Quiet, LoopQuiet, CallQuiet
<1>2. /\ \A i \in Instance : loop[a][i].at \in BusyAt \/ loop'[a][i].at \in BusyAt => loop'[a][i] = loop[a][i]
      /\ \A c \in Client : Edit(call[c], a) \/ Edit(call'[c], a) => call'[c] = call[c]
      /\ actorPID'[a] = actorPID[a] /\ EntryQuiet(a)
  BY Zenon DEF Quiet, LoopQuiet, CallQuiet
<1>3. /\ \A i \in Instance : loop[a][i].at = "store" => loop[a][i].pid \in PID /\ loop[a][i].pid.id = a
      /\ actorPID[a] # NoPID => actorPID[a] \in PID /\ actorPID[a].id = a
  BY Zenon DEF TypeInv, LoopsType, LoopOK, PidsType
<1>4. \A c \in Client : call[c].id = a /\ call[c].at \in StoreSteps => call[c].pid \in PID /\ call[c].pid.id = a
  BY Zenon DEF TypeInv, CallsType, CallOK, PidSteps, StoreSteps, IssueSteps
<1>5. \A i \in Instance : loop'[a][i].at = "store" => Fresh(entry', loop'[a][i].pid)
  BY Zenon, <1>2, <1>3, FreshKept DEF Own, BusyAt
<1>6. \A c \in Client : call'[c].id = a /\ call'[c].at \in StoreSteps => Fresh(entry', call'[c].pid)
  <2> SUFFICES ASSUME NEW c \in Client, call'[c].id = a, call'[c].at \in StoreSteps
               PROVE  Fresh(entry', call'[c].pid)
    OBVIOUS
  <2>1. Edit(call'[c], a)
    BY Zenon DEF Edit, StoreSteps, IssueSteps
  <2>2. call'[c] = call[c]
    BY Zenon, <1>2, <2>1
  <2> QED BY Zenon, <1>2, <1>4, <2>2, FreshKept DEF Own
<1>7. \A i \in Instance : loop'[a][i].at \in {"route", "bump"} => loop'[a][i].pid = actorPID'[a]
  BY Zenon, <1>2 DEF Own, BusyAt
<1>8. \A c \in Client : call'[c].id = a /\ call'[c].at = "remove_key" => actorPID'[a] = NoPID
  BY Zenon, <1>2 DEF Own, Edit, RemoveSteps
<1>9. \/ actorPID'[a] = NoPID \/ Fresh(entry', actorPID'[a])
      \/ \E i \in Instance : loop'[a][i].at = "store"
      \/ \E c \in Client : call'[c].id = a /\ call'[c].at \in StoreSteps
  <2>1. CASE actorPID[a] = NoPID \/ Fresh(entry, actorPID[a])
    BY Zenon, <1>2, <1>3, <2>1, FreshKept
  <2>2. CASE \E i \in Instance : loop[a][i].at = "store"
    BY Zenon, <1>2, <2>2 DEF BusyAt
  <2>3. CASE \E c \in Client : call[c].id = a /\ call[c].at \in StoreSteps
    BY Zenon, <1>2, <2>3 DEF Edit, StoreSteps, IssueSteps
  <2> QED BY Zenon, <2>1, <2>2, <2>3 DEF Own
<1> QED BY Zenon, <1>1, <1>5, <1>6, <1>7, <1>8, <1>9 DEF Own

\* A step that changes the PID of id b at most.
LEMMA OthersQuiet ==
  ASSUME TypeInv, PidInv, NEW b \in ActorId, overlap \subseteq overlap',
         \A a \in ActorId : a # b => Quiet(a),
         b \notin overlap' => Alone(b, loop'[b], call') /\ Own(b, loop'[b], call', entry', actorPID'[b])
  PROVE  PidOK
BY Zenon, QuietKeeps DEF PidOK, PidInv

LEMMA AllQuiet ==
  ASSUME TypeInv, PidInv, overlap' = overlap, \A a \in ActorId : Quiet(a)
  PROVE  PidOK
BY Zenon, QuietKeeps DEF PidOK, PidInv
-----------------------------------------------------------------------------
(* What a step does to the names, and the steps that leave every PID.      *)

NameStep ==
  \/ UNCHANGED names
  \/ \E n \in Name, pid \in PID : byName[n] = NoName /\ registerName(n, pid)
  \/ \E n \in Name : UnregisterName(n)
  \/ \E a \in ActorId : unregisterByActor(a) /\ \E i \in Instance : i \in closed'[a]

StepOK == TypeInv' /\ NameStep /\ PidOK

ChangeSteps == RemoveSteps \cup IssueSteps

LEMMA CallsQuiet ==
  ASSUME NEW c \in Client, \A d \in Client : d # c => call'[d] = call[d],
         call[c].at \notin ChangeSteps, call'[c].at \notin ChangeSteps, NEW a
  PROVE  CallQuiet(a)
BY Zenon DEF CallQuiet, Edit, ChangeSteps

LEMMA SameQuiet ==
  ASSUME NEW a
  PROVE  /\ loop' = loop => LoopQuiet(a)
         /\ call' = call => CallQuiet(a)
         /\ entry' = entry => EntryQuiet(a)
BY Zenon DEF LoopQuiet, CallQuiet, EntryQuiet

\* A call that changes neither a loop nor a PID.
LEMMA CallStepPidOK ==
  ASSUME TypeInv, PidInv, NEW c \in Client, \A d \in Client : d # c => call'[d] = call[d],
         call[c].at \notin ChangeSteps, call'[c].at \notin ChangeSteps,
         UNCHANGED <<loop, actorPID, overlap>>, \A a \in ActorId : EntryQuiet(a)
  PROVE  PidOK
<1>1. ASSUME NEW a \in ActorId
      PROVE  Quiet(a)
  <2>1. CallQuiet(a)
    BY Zenon, CallsQuiet
  <2>2. LoopQuiet(a)
    BY Zenon, SameQuiet
  <2> QED BY Zenon, <2>1, <2>2 DEF Quiet
<1> QED BY Zenon, <1>1, AllQuiet

\* A goroutine that changes no PID.
LEMMA LoopStepPidOK ==
  ASSUME TypeInv, PidInv, NEW b \in ActorId, NEW i \in Instance, NEW x \in LoopRec,
         loop' = [loop EXCEPT ![b][i] = x], loop[b][i].at \notin BusyAt, x.at \notin BusyAt,
         UNCHANGED <<call, entry, actorPID, overlap>>
  PROVE  PidOK
<1>1. ASSUME NEW a \in ActorId
      PROVE  Quiet(a)
  <2>1. loop \in [ActorId -> [Instance -> LoopRec]]
    BY Zenon DEF TypeInv, LoopsType
  <2>2. \A j \in Instance : loop'[a][j] = IF a = b /\ j = i THEN x ELSE loop[a][j]
    BY Zenon, <2>1
  <2>3. LoopQuiet(a)
    BY Zenon, <2>2 DEF LoopQuiet
  <2>4. CallQuiet(a) /\ EntryQuiet(a)
    BY Zenon, SameQuiet
  <2> QED BY Zenon, <2>3, <2>4 DEF Quiet
<1> QED BY Zenon, <1>1, AllQuiet

LEMMA CreateActorOK ==
  ASSUME TypeInv, PidInv, NEW a \in ActorId, NEW i \in Instance, CreateActor(a, i)
  PROVE  StepOK
<1>1. /\ current' = [current EXCEPT ![a] = i] /\ status' = [status EXCEPT ![a][i] = "Running"]
      /\ UNCHANGED <<closed, loop, entry, actorPID, byName, byActor, call, overlap>>
  BY Zenon DEF CreateActor, names
<1>2. TypeInv'
  <2>1. ActorsType'
    BY <1>1, BoundsAssumption DEF TypeInv, ActorsType, Instance, Statuses
  <2> QED BY Zenon, <1>1, <2>1 DEF TypeInv, CallsType, LoopsType, PidsType, NamesType
<1>3. \A b \in ActorId : Quiet(b)
  BY Zenon, <1>1, SameQuiet DEF Quiet
<1>4. PidOK
  BY Zenon, <1>1, <1>3, AllQuiet
<1> QED BY Zenon, <1>1, <1>2, <1>4 DEF StepOK, NameStep, names

\* The types after a call's step that changes nothing else, or one structure.
LEMMA CallStepType ==
  ASSUME TypeInv, CallsType', UNCHANGED overlap \/ overlap' \subseteq ActorId,
         (closed' = closed /\ loop' = loop) \/ LoopsType',
         (current' = current /\ status' = status) \/ ActorsType',
         (entry' = entry /\ actorPID' = actorPID) \/ PidsType',
         (byName' = byName /\ byActor' = byActor) \/ NamesType'
  PROVE  TypeInv'
BY Zenon DEF TypeInv, LoopsType, ActorsType, PidsType, NamesType
-----------------------------------------------------------------------------
(* The calls that leave every PID: names, and Stop.                        *)

LEMMA RegisterNameOK ==
  ASSUME TypeInv, PidInv, NEW c \in Client, NEW a \in ActorId, NEW ns \in Namespace, NEW n \in Name,
         RegisterName(c, a, ns, n)
  PROVE  StepOK
<1> DEFINE x == [Idle EXCEPT !.at = "name_pid", !.id = a, !.ns = ns, !.name = n]
<1>1. Begin(c, x) /\ UNCHANGED <<current, status, closed, loop, entry, actorPID, byName, byActor, overlap>>
  BY Zenon DEF RegisterName, names
<1>2. x \in CallRec /\ x.at = "name_pid"
  BY Zenon, IdleRec DEF CallRec, CallSteps
<1>3. CallOK(x)
  BY Zenon DEF CallOK, PidSteps, IssueSteps, StopSteps, NameSteps, Idle
<1> HIDE DEF x
<1>4. /\ CallsType' /\ \A d \in Client : d # c => call'[d] = call[d]
      /\ call[c].at = "idle" /\ call'[c].at = "name_pid"
  BY Zenon, <1>1, <1>2, <1>3, BeginKept DEF TypeInv
<1>5. TypeInv'
  BY Zenon, <1>1, <1>4, CallStepType
<1>6. PidOK
  <2>1. call[c].at \notin ChangeSteps /\ call'[c].at \notin ChangeSteps
    BY Zenon, <1>4 DEF ChangeSteps, RemoveSteps, IssueSteps
  <2> QED BY Zenon, <1>1, <1>4, <2>1, CallStepPidOK, SameQuiet
<1> QED BY Zenon, <1>1, <1>5, <1>6 DEF StepOK, NameStep, names

LEMMA NameRegisterOK ==
  ASSUME TypeInv, PidInv, NEW c \in Client, NameRegister(c)
  PROVE  StepOK
<1>1. /\ call[c].at = "name_register" /\ Return(c)
      /\ \/ byName[call[c].name] = NoName /\ registerName(call[c].name, call[c].pid)
         \/ byName' = byName /\ byActor' = byActor
      /\ UNCHANGED <<current, status, closed, loop, entry, actorPID, overlap>>
  BY Zenon DEF NameRegister, names
<1>2. call[c].name \in Name /\ call[c].pid \in PID
  BY Zenon, <1>1 DEF TypeInv, CallsType, CallOK, PidSteps, NameSteps
<1>3. NameStep
  BY Zenon, <1>1, <1>2 DEF NameStep, names
<1>4. CallsType' /\ call'[c].at = "idle" /\ \A d \in Client : d # c => call'[d] = call[d]
  BY Zenon, <1>1, ReturnKept DEF TypeInv
<1>5. (byName' = byName /\ byActor' = byActor) \/ NamesType'
  BY <1>1, <1>2 DEF TypeInv, NamesType, registerName
<1>6. TypeInv'
  BY Zenon, <1>1, <1>4, <1>5, CallStepType
<1>7. PidOK
  <2>1. call[c].at \notin ChangeSteps /\ call'[c].at \notin ChangeSteps
    BY Zenon, <1>1, <1>4 DEF ChangeSteps, RemoveSteps, IssueSteps
  <2> QED BY Zenon, <1>1, <1>4, <2>1, CallStepPidOK, SameQuiet
<1> QED BY Zenon, <1>3, <1>6, <1>7 DEF StepOK

LEMMA UnregisterNameOK ==
  ASSUME TypeInv, PidInv, NEW n \in Name, UnregisterName(n)
  PROVE  StepOK
<1>1. /\ byName' = [byName EXCEPT ![n] = NoName]
      /\ byActor' = [byActor EXCEPT ![byName[n].id] = @ \ {n}]
      /\ UNCHANGED <<current, status, closed, loop, entry, actorPID, call, overlap>>
  BY Zenon DEF UnregisterName, unregister
<1>2. NamesType' /\ CallsType'
  BY Zenon, <1>1 DEF TypeInv, NamesType, CallsType
<1>3. TypeInv'
  BY Zenon, <1>1, <1>2, CallStepType
<1>4. PidOK
  BY Zenon, <1>1, SameQuiet, AllQuiet DEF Quiet
<1> QED BY Zenon, <1>3, <1>4 DEF StepOK, NameStep

LEMMA StopOK ==
  ASSUME TypeInv, PidInv, NEW c \in Client, NEW a \in ActorId, Stop(c, a)
  PROVE  StepOK
<1> DEFINE x == [Idle EXCEPT !.at = "stop_status", !.id = a, !.inst = current[a]]
<1>1. /\ Begin(c, x) /\ current[a] # 0
      /\ status' = [status EXCEPT ![a][current[a]] = "Stopping"]
      /\ UNCHANGED <<current, closed, loop, entry, actorPID, byName, byActor, overlap>>
  BY Zenon DEF Stop, Alive, names
<1>2. current[a] \in Instance
  BY <1>1, BoundsAssumption DEF TypeInv, ActorsType, Instance
<1>3. x \in CallRec /\ x.at = "stop_status"
  <2>1. current[a] \in 0 .. MaxInstance
    BY Zenon DEF TypeInv, ActorsType
  <2> QED BY Zenon, <2>1, IdleRec DEF CallRec, CallSteps
<1>4. CallOK(x)
  BY Zenon, <1>2 DEF CallOK, PidSteps, IssueSteps, StopSteps, NameSteps, Idle
<1> HIDE DEF x
<1>5. /\ CallsType' /\ \A d \in Client : d # c => call'[d] = call[d]
      /\ call[c].at = "idle" /\ call'[c].at = "stop_status"
  BY Zenon, <1>1, <1>3, <1>4, BeginKept DEF TypeInv
<1>6. ActorsType'
  BY Zenon, <1>1, <1>2 DEF TypeInv, ActorsType, Statuses
<1>7. TypeInv'
  BY Zenon, <1>1, <1>5, <1>6, CallStepType
<1>8. PidOK
  <2>1. call[c].at \notin ChangeSteps /\ call'[c].at \notin ChangeSteps
    BY Zenon, <1>5 DEF ChangeSteps, RemoveSteps, IssueSteps
  <2> QED BY Zenon, <1>1, <1>5, <2>1, CallStepPidOK, SameQuiet
<1> QED BY Zenon, <1>1, <1>7, <1>8 DEF StepOK, NameStep, names

LEMMA StopStatusOK ==
  ASSUME TypeInv, PidInv, NEW c \in Client, StopStatus(c)
  PROVE  StepOK
<1>1. /\ call[c].at = "stop_status" /\ Goto(c, "stop_load")
      /\ status' = [status EXCEPT ![call[c].id][call[c].inst] = "Stopped"]
      /\ UNCHANGED <<current, closed, loop, entry, actorPID, byName, byActor, overlap>>
  BY Zenon DEF StopStatus, names
<1>2. call[c] \in CallRec /\ call[c].id \in ActorId /\ call[c].inst \in Instance
  BY Zenon, <1>1 DEF TypeInv, CallsType, CallOK, StopSteps
<1>3. "stop_load" \in CallSteps /\ CallOK([call[c] EXCEPT !.at = "stop_load"])
  BY Zenon, <1>2 DEF CallOK, CallRec, CallSteps, PidSteps, IssueSteps, StopSteps, NameSteps
<1>4. /\ CallsType' /\ call'[c] = [call[c] EXCEPT !.at = "stop_load"]
      /\ \A d \in Client : d # c => call'[d] = call[d]
  BY Zenon, <1>1, <1>3, GotoKept DEF TypeInv
<1>5. ActorsType'
  BY Zenon, <1>1, <1>2 DEF TypeInv, ActorsType, Statuses
<1>6. TypeInv'
  BY Zenon, <1>1, <1>4, <1>5, CallStepType
<1>7. PidOK
  <2>1. call[c].at \notin ChangeSteps /\ call'[c].at \notin ChangeSteps
    BY Zenon, <1>1, <1>2, <1>4 DEF ChangeSteps, RemoveSteps, IssueSteps, CallRec
  <2> QED BY Zenon, <1>1, <1>4, <2>1, CallStepPidOK, SameQuiet
<1> QED BY Zenon, <1>1, <1>6, <1>7 DEF StepOK, NameStep, names

LEMMA StopLoadOK ==
  ASSUME TypeInv, PidInv, NEW c \in Client, StopLoad(c)
  PROVE  StepOK
<1> DEFINE pid == actorPID[call[c].id]
           x == [call[c] EXCEPT !.at = IF pid = NoPID THEN "stop_names" ELSE "stop_route", !.pid = pid]
<1>1. /\ call[c].at = "stop_load" /\ call' = [call EXCEPT ![c] = x]
      /\ UNCHANGED <<current, status, closed, loop, entry, actorPID, byName, byActor, overlap>>
  BY Zenon DEF StopLoad, names
<1>2. call[c] \in CallRec /\ call[c].id \in ActorId /\ call[c].inst \in Instance
  BY Zenon, <1>1 DEF TypeInv, CallsType, CallOK, StopSteps
<1>3. pid \in PID \cup {NoPID}
  BY Zenon, <1>2 DEF TypeInv, PidsType
<1>4. x \in CallRec /\ x.at \in {"stop_names", "stop_route"} /\ x.id \in ActorId /\ x.inst \in Instance
      /\ (x.at = "stop_route" => x.pid \in PID)
  BY Zenon, <1>2, <1>3 DEF CallRec, CallSteps
<1> HIDE DEF x
<1>5. CallOK(x)
  BY Zenon, <1>4 DEF CallOK, PidSteps, IssueSteps, StopSteps, NameSteps
<1>6. CallsType' /\ call'[c] = x /\ \A d \in Client : d # c => call'[d] = call[d]
  BY Zenon, <1>1, <1>4, <1>5, CallKept DEF TypeInv
<1>7. TypeInv'
  BY Zenon, <1>1, <1>6, CallStepType
<1>8. PidOK
  <2>1. call[c].at \notin ChangeSteps /\ call'[c].at \notin ChangeSteps
    BY Zenon, <1>1, <1>4, <1>6 DEF ChangeSteps, RemoveSteps, IssueSteps
  <2> QED BY Zenon, <1>1, <1>6, <2>1, CallStepPidOK, SameQuiet
<1> QED BY Zenon, <1>1, <1>7, <1>8 DEF StepOK, NameStep, names

\* SetState never takes an entry away, nor changes its generation.
LEMMA SetStateKeeps ==
  ASSUME TypeInv, NEW pid \in PID, NEW route \in Routes, SetState(pid, route)
  PROVE  /\ entry' \in [Namespace \X ActorId -> EntryRec]
         /\ \A a \in ActorId : EntryQuiet(a)
<1> DEFINE k == Key(pid)
           e == [gen |-> IF entry[k] = NoEntry THEN pid.gen ELSE entry[k].gen, route |-> route]
<1>1. entry \in [Namespace \X ActorId -> EntryRec] /\ entry' = [entry EXCEPT ![k] = e]
  BY Zenon DEF TypeInv, PidsType, SetState
<1>2. k \in Namespace \X ActorId /\ pid.gen \in Gen
  BY Zenon DEF Key, PID, Gen
<1>3. e \in EntryRec /\ e # NoEntry /\ (entry[k] # NoEntry => e.gen = entry[k].gen)
  <2>1. entry[k] \in EntryRec
    BY Zenon, <1>1, <1>2
  <2> QED BY Zenon, <1>2, <2>1 DEF EntryRec, NoEntry, Nobody, Routes
<1> HIDE DEF e, k
<1>4. \A j \in Namespace \X ActorId : entry'[j] = IF j = k THEN e ELSE entry[j]
  BY Zenon, <1>1, <1>2
<1> QED BY Zenon, <1>1, <1>2, <1>3, <1>4 DEF EntryQuiet

LEMMA StopRouteOK ==
  ASSUME TypeInv, PidInv, NEW c \in Client, StopRoute(c)
  PROVE  StepOK
<1>1. /\ call[c].at = "stop_route" /\ Goto(c, "stop_names") /\ SetState(call[c].pid, "stopped")
      /\ UNCHANGED <<current, status, closed, loop, actorPID, byName, byActor, overlap>>
  BY Zenon DEF StopRoute, names
<1>2. call[c] \in CallRec /\ call[c].id \in ActorId /\ call[c].inst \in Instance /\ call[c].pid \in PID
  BY Zenon, <1>1 DEF TypeInv, CallsType, CallOK, StopSteps
<1>3. "stop_names" \in CallSteps /\ CallOK([call[c] EXCEPT !.at = "stop_names"])
  BY Zenon, <1>2 DEF CallOK, CallRec, CallSteps, PidSteps, IssueSteps, StopSteps, NameSteps
<1>4. /\ CallsType' /\ call'[c] = [call[c] EXCEPT !.at = "stop_names"]
      /\ \A d \in Client : d # c => call'[d] = call[d]
  BY Zenon, <1>1, <1>3, GotoKept DEF TypeInv
<1>5. entry' \in [Namespace \X ActorId -> EntryRec] /\ \A a \in ActorId : EntryQuiet(a)
  BY Zenon, <1>1, <1>2, SetStateKeeps DEF Routes
<1>6. PidsType'
  BY Zenon, <1>1, <1>5 DEF TypeInv, PidsType
<1>7. TypeInv'
  BY Zenon, <1>1, <1>4, <1>6, CallStepType
<1>8. PidOK
  <2>1. call[c].at \notin ChangeSteps /\ call'[c].at \notin ChangeSteps
    BY Zenon, <1>1, <1>2, <1>4 DEF ChangeSteps, RemoveSteps, IssueSteps, CallRec
  <2> QED BY Zenon, <1>1, <1>4, <1>5, <2>1, CallStepPidOK
<1> QED BY Zenon, <1>1, <1>7, <1>8 DEF StepOK, NameStep, names

LEMMA CleanUpType ==
  ASSUME TypeInv, NEW a \in ActorId, unregisterByActor(a)
  PROVE  NamesType'
BY Zenon DEF TypeInv, NamesType, unregisterByActor

LEMMA StopNamesOK ==
  ASSUME TypeInv, PidInv, NEW c \in Client, StopNames(c)
  PROVE  StepOK
<1>1. /\ call[c].at = "stop_names" /\ Return(c) /\ unregisterByActor(call[c].id)
      /\ closed' = [closed EXCEPT ![call[c].id] = @ \cup {call[c].inst}]
      /\ UNCHANGED <<current, status, loop, entry, actorPID, overlap>>
  BY Zenon DEF StopNames
<1>2. call[c].id \in ActorId /\ call[c].inst \in Instance
  BY Zenon, <1>1 DEF TypeInv, CallsType, CallOK, StopSteps
<1>3. LoopsType' /\ call[c].inst \in closed'[call[c].id]
  BY Zenon, <1>1, <1>2 DEF TypeInv, LoopsType
<1>4. CallsType' /\ call'[c].at = "idle" /\ \A d \in Client : d # c => call'[d] = call[d]
  BY Zenon, <1>1, ReturnKept DEF TypeInv
<1>5. NamesType'
  BY Zenon, <1>1, <1>2, CleanUpType
<1>6. TypeInv'
  BY Zenon, <1>1, <1>3, <1>4, <1>5, CallStepType
<1>7. PidOK
  <2>1. call[c].at \notin ChangeSteps /\ call'[c].at \notin ChangeSteps
    BY Zenon, <1>1, <1>4 DEF ChangeSteps, RemoveSteps, IssueSteps
  <2> QED BY Zenon, <1>1, <1>4, <2>1, CallStepPidOK, SameQuiet
<1> QED BY Zenon, <1>1, <1>2, <1>3, <1>6, <1>7 DEF StepOK, NameStep
-----------------------------------------------------------------------------
(* The steps of a goroutine that leave every PID.                          *)

LEMMA GoLoopForm ==
  ASSUME TypeInv, NEW a \in ActorId, NEW i \in Instance, NEW step \in LoopSteps, GoLoop(a, i, step)
  PROVE  /\ loop' = [loop EXCEPT ![a][i] = [loop[a][i] EXCEPT !.at = step]]
         /\ [loop[a][i] EXCEPT !.at = step] \in LoopRec
         /\ [loop[a][i] EXCEPT !.at = step].at = step
         /\ [loop[a][i] EXCEPT !.at = step].pid = loop[a][i].pid
<1>1. loop \in [ActorId -> [Instance -> LoopRec]] /\ loop[a][i] \in LoopRec
  BY Zenon DEF TypeInv, LoopsType
<1> QED BY Zenon, <1>1 DEF GoLoop, LoopRec

\* The types of the goroutines after one of them goes on.
LEMMA LoopStepType ==
  ASSUME TypeInv, NEW a \in ActorId, NEW i \in Instance, NEW x \in LoopRec,
         loop' = [loop EXCEPT ![a][i] = x], LoopOK(a, x), x.at = "names" => i \in closed'[a],
         closed' = closed \/ closed' = [closed EXCEPT ![a] = @ \cup {i}]
  PROVE  /\ LoopsType'
         /\ \A b \in ActorId, j \in Instance : loop'[b][j] = IF b = a /\ j = i THEN x ELSE loop[b][j]
<1>1. /\ loop \in [ActorId -> [Instance -> LoopRec]] /\ closed \in [ActorId -> SUBSET Instance]
  BY Zenon DEF TypeInv, LoopsType
<1>2. /\ loop' \in [ActorId -> [Instance -> LoopRec]] /\ closed' \in [ActorId -> SUBSET Instance]
      /\ \A b \in ActorId : closed[b] \subseteq closed'[b]
  BY Zenon, <1>1
<1>3. \A b \in ActorId, j \in Instance : loop'[b][j] = IF b = a /\ j = i THEN x ELSE loop[b][j]
  BY Zenon, <1>1
<1> QED BY <1>2, <1>3 DEF TypeInv, LoopsType

LEMMA QuietLoopOK ==
  ASSUME TypeInv, PidInv, NEW a \in ActorId, NEW i \in Instance, NEW x \in LoopRec,
         loop' = [loop EXCEPT ![a][i] = x], loop[a][i].at \notin BusyAt, x.at \notin BusyAt,
         x.at = "names" => i \in closed'[a], closed' = closed \/ closed' = [closed EXCEPT ![a] = @ \cup {i}],
         status' = status \/ \E s \in Statuses : status' = [status EXCEPT ![a][i] = s],
         (byName' = byName /\ byActor' = byActor) \/ NamesType',
         UNCHANGED <<current, entry, actorPID, call, overlap>>, NameStep
  PROVE  StepOK
<1>1. LoopOK(a, x)
  BY Zenon DEF LoopOK, BusyAt
<1>2. LoopsType'
  BY Zenon, <1>1, LoopStepType
<1>3. ActorsType' /\ CallsType'
  <2>1. status \in [ActorId -> [Instance -> Statuses]] /\ current' \in [ActorId -> 0 .. MaxInstance]
    BY Zenon DEF TypeInv, ActorsType
  <2>2. ASSUME NEW s \in Statuses, status' = [status EXCEPT ![a][i] = s]
        PROVE  status' \in [ActorId -> [Instance -> Statuses]]
    BY Zenon, <2>1, <2>2
  <2> QED BY Zenon, <2>1, <2>2 DEF TypeInv, ActorsType, CallsType
<1>4. TypeInv'
  BY Zenon, <1>2, <1>3, CallStepType
<1>5. PidOK
  BY Zenon, LoopStepPidOK
<1> QED BY Zenon, <1>4, <1>5 DEF StepOK

LEMMA EndedRec == [at |-> Nobody, pid |-> NoPID] \in LoopRec
BY Zenon DEF LoopRec, LoopSteps

LEMMA RestartDoneOK ==
  ASSUME TypeInv, PidInv, NEW a \in ActorId, NEW i \in Instance, RestartDone(a, i)
  PROVE  StepOK
<1> DEFINE x == [at |-> Nobody, pid |-> NoPID]
<1>1. /\ loop[a][i].at = "hook" /\ loop' = [loop EXCEPT ![a][i] = x]
      /\ status' = [status EXCEPT ![a][i] = "Running"]
      /\ UNCHANGED <<current, closed, entry, actorPID, byName, byActor, call, overlap>>
  BY Zenon DEF RestartDone, names
<1>2. x \in LoopRec /\ x.at \notin BusyAt /\ x.at # "names" /\ loop[a][i].at \notin BusyAt
      /\ "Running" \in Statuses
  BY Zenon, <1>1, EndedRec DEF BusyAt, Nobody, Statuses
<1> HIDE DEF x
<1>3. NameStep
  BY Zenon, <1>1 DEF NameStep, names
<1> QED BY Zenon, <1>1, <1>2, <1>3, QuietLoopOK

LEMMA TerminateOK ==
  ASSUME TypeInv, PidInv, NEW a \in ActorId, NEW i \in Instance, Terminate(a, i)
  PROVE  StepOK
<1> DEFINE x == [loop[a][i] EXCEPT !.at = "names"]
<1>1. /\ loop[a][i].at \in {Nobody, "hook"} /\ GoLoop(a, i, "names")
      /\ status' = [status EXCEPT ![a][i] = "Stopped"] /\ closed' = [closed EXCEPT ![a] = @ \cup {i}]
      /\ UNCHANGED <<current, entry, actorPID, byName, byActor, call, overlap>>
  BY ZenonT(30) DEF Terminate, names
<1>2. x \in LoopRec /\ x.at = "names" /\ loop' = [loop EXCEPT ![a][i] = x]
  BY ZenonT(30), <1>1, GoLoopForm DEF LoopSteps
<1>3. loop[a][i].at \notin BusyAt /\ "names" \notin BusyAt /\ "Stopped" \in Statuses /\ i \in closed'[a]
  BY Zenon, <1>1 DEF BusyAt, Nobody, Statuses, TypeInv, LoopsType
<1> HIDE DEF x
<1>4. NameStep
  BY Zenon, <1>1 DEF NameStep, names
<1> QED BY ZenonT(30), <1>1, <1>2, <1>3, <1>4, QuietLoopOK

LEMMA TerminateNamesOK ==
  ASSUME TypeInv, PidInv, NEW a \in ActorId, NEW i \in Instance, TerminateNames(a, i)
  PROVE  StepOK
<1> DEFINE x == [loop[a][i] EXCEPT !.at = "ended"]
<1>1. /\ loop[a][i].at = "names" /\ GoLoop(a, i, "ended") /\ unregisterByActor(a)
      /\ UNCHANGED <<current, status, closed, entry, actorPID, call, overlap>>
  BY Zenon DEF TerminateNames
<1>2. x \in LoopRec /\ x.at = "ended" /\ loop' = [loop EXCEPT ![a][i] = x]
  BY ZenonT(30), <1>1, GoLoopForm DEF LoopSteps
<1>3. loop[a][i].at \notin BusyAt /\ "ended" \notin BusyAt /\ i \in closed'[a]
  BY Zenon, <1>1 DEF BusyAt, TypeInv, LoopsType
<1> HIDE DEF x
<1>4. NameStep /\ NamesType'
  BY Zenon, <1>1, <1>3, CleanUpType DEF NameStep
<1> QED BY Zenon, <1>1, <1>2, <1>3, <1>4, QuietLoopOK

LEMMA LoopExitOK ==
  ASSUME TypeInv, PidInv, NEW a \in ActorId, NEW i \in Instance, LoopExit(a, i)
  PROVE  StepOK
<1> DEFINE x == [loop[a][i] EXCEPT !.at = "ended"]
<1>1. /\ loop[a][i].at = Nobody /\ GoLoop(a, i, "ended")
      /\ status' = [status EXCEPT ![a][i] = "Stopped"]
      /\ UNCHANGED <<current, closed, entry, actorPID, byName, byActor, call, overlap>>
  BY Zenon DEF LoopExit, names
<1>2. x \in LoopRec /\ x.at = "ended" /\ loop' = [loop EXCEPT ![a][i] = x]
  BY ZenonT(30), <1>1, GoLoopForm DEF LoopSteps
<1>3. loop[a][i].at \notin BusyAt /\ "ended" \notin BusyAt /\ "Stopped" \in Statuses
  BY Zenon, <1>1 DEF BusyAt, Nobody, Statuses
<1> HIDE DEF x
<1>4. NameStep
  BY Zenon, <1>1 DEF NameStep, names
<1> QED BY Zenon, <1>1, <1>2, <1>3, <1>4, QuietLoopOK
-----------------------------------------------------------------------------
(* The calls that change the PID of an id.                                 *)

LEMMA OverlapGrows ==
  ASSUME TypeInv, NEW b \in ActorId, Overlap(b)
  PROVE  /\ overlap \subseteq overlap' /\ overlap' \subseteq ActorId
         /\ b \notin overlap' => /\ \A i \in Instance : loop[b][i].at \notin BusyAt
                                 /\ \A c \in Client : ~Edit(call[c], b)
BY Zenon DEF TypeInv, Overlap, Restarting, Changing, BusyAt, Edit

\* Client c begins to change the PID of id b.
BeginsEdit(c, b) ==
  /\ \A d \in Client : d # c => call'[d] = call[d]
  /\ call[c].at \notin ChangeSteps
  /\ call'[c].id = b /\ call'[c].at \in {"issue_key", "name_issue_key", "remove_id"}
  /\ UNCHANGED <<loop, entry, actorPID>>

LEMMA BeginsEditPidOK ==
  ASSUME TypeInv, PidInv, NEW c \in Client, NEW b \in ActorId, BeginsEdit(c, b), Overlap(b)
  PROVE  PidOK
<1>1. /\ overlap \subseteq overlap'
      /\ b \notin overlap' => /\ \A i \in Instance : loop[b][i].at \notin BusyAt
                              /\ \A d \in Client : ~Edit(call[d], b)
  BY Zenon, OverlapGrows
<1>2. ASSUME NEW a \in ActorId, a # b
      PROVE  Quiet(a)
  <2>1. CallQuiet(a)
    BY Zenon, <1>2 DEF BeginsEdit, CallQuiet, Edit, ChangeSteps
  <2>2. LoopQuiet(a) /\ EntryQuiet(a) /\ actorPID'[a] = actorPID[a]
    BY Zenon, SameQuiet DEF BeginsEdit
  <2> QED BY Zenon, <2>1, <2>2 DEF Quiet
<1>3. ASSUME b \notin overlap'
      PROVE  Alone(b, loop'[b], call') /\ Own(b, loop'[b], call', entry', actorPID'[b])
  <2>1. /\ \A i \in Instance : loop'[b][i].at \notin BusyAt
        /\ \A d \in Client : Edit(call'[d], b) => d = c
    BY Zenon, <1>1, <1>3 DEF BeginsEdit
  <2>2. Alone(b, loop'[b], call')
    BY Zenon, <2>1 DEF Alone
  <2>3. /\ \A i \in Instance : loop'[b][i].at \notin {"route", "bump", "store"}
        /\ \A d \in Client : ~(call'[d].id = b /\ call'[d].at \in StoreSteps \cup {"remove_key"})
    BY Zenon, <2>1 DEF BusyAt, Edit, StoreSteps, IssueSteps, RemoveSteps, BeginsEdit
  <2>4. \A d \in Client : ~(call[d].id = b /\ call[d].at \in StoreSteps)
    BY Zenon, <1>1, <1>3 DEF Edit, StoreSteps, IssueSteps
  <2>5. actorPID[b] = NoPID \/ Fresh(entry, actorPID[b])
    BY Zenon, <1>1, <1>3, <2>4 DEF PidInv, Own, BusyAt
  <2>6. entry' = entry /\ actorPID' = actorPID
    BY Zenon DEF BeginsEdit
  <2> QED BY Zenon, <2>2, <2>3, <2>5, <2>6 DEF Own
<1> QED BY Zenon, <1>1, <1>2, <1>3, OthersQuiet

\* Client c, which changes the PID of id b, goes on.
Edits(c, b) ==
  /\ Edit(call[c], b)
  /\ \A d \in Client : d # c => call'[d] = call[d]
  /\ call'[c].id = b \/ call'[c].at \notin ChangeSteps
  /\ UNCHANGED <<loop, overlap>>
  /\ \A a \in ActorId : a # b => actorPID'[a] = actorPID[a] /\ EntryQuiet(a)

\* And what it leaves is in the resolver.
Leaves(c, b) ==
  /\ \/ actorPID'[b] = NoPID \/ Fresh(entry', actorPID'[b])
     \/ call'[c].id = b /\ call'[c].at \in StoreSteps
  /\ call'[c].at \in StoreSteps => Fresh(entry', call'[c].pid)
  /\ call'[c].at = "remove_key" => actorPID'[b] = NoPID

LEMMA EditsPidOK ==
  ASSUME TypeInv, PidInv, NEW c \in Client, NEW b \in ActorId, Edits(c, b), b \notin overlap => Leaves(c, b)
  PROVE  PidOK
<1>1. overlap' = overlap
  BY Zenon DEF Edits
<1>2. ASSUME NEW a \in ActorId, a # b
      PROVE  Quiet(a)
  <2>1. CallQuiet(a)
    BY Zenon, <1>2 DEF Edits, CallQuiet, Edit, ChangeSteps
  <2>2. LoopQuiet(a) /\ EntryQuiet(a) /\ actorPID'[a] = actorPID[a]
    BY Zenon, <1>2, SameQuiet DEF Edits
  <2> QED BY Zenon, <2>1, <2>2 DEF Quiet
<1>3. ASSUME b \notin overlap'
      PROVE  Alone(b, loop'[b], call') /\ Own(b, loop'[b], call', entry', actorPID'[b])
  <2>1. /\ \A i \in Instance : loop'[b][i].at \notin BusyAt
        /\ \A d \in Client : Edit(call'[d], b) => d = c
    BY Zenon, <1>1, <1>3 DEF Edits, PidInv, Alone
  <2>2. Alone(b, loop'[b], call')
    BY Zenon, <2>1 DEF Alone
  <2>3. /\ \A i \in Instance : loop'[b][i].at \notin {"route", "bump", "store"}
        /\ \A d \in Client : call'[d].id = b /\ call'[d].at \in StoreSteps \cup {"remove_key"} => d = c
    BY Zenon, <2>1 DEF BusyAt, Edit, StoreSteps, IssueSteps, RemoveSteps
  <2> QED BY Zenon, <1>1, <1>3, <2>2, <2>3 DEF Own, Leaves
<1> QED BY Zenon, <1>1, <1>2, <1>3, OthersQuiet

LEMMA IssuePIDOK ==
  ASSUME TypeInv, PidInv, NEW c \in Client, NEW a \in ActorId, NEW ns \in Namespace, IssuePID(c, a, ns)
  PROVE  StepOK
<1> DEFINE pid == [ns |-> ns, id |-> a, gen |-> 1]
           x == [Idle EXCEPT !.at = "issue_key", !.id = a, !.pid = pid]
<1>1. Begin(c, x) /\ Overlap(a) /\ UNCHANGED <<current, status, closed, loop, entry, actorPID, byName, byActor>>
  BY Zenon DEF IssuePID, names
<1>2. pid \in PID /\ pid.id = a
  BY BoundsAssumption DEF PID
<1> HIDE DEF pid
<1>3. x \in CallRec /\ x.at = "issue_key" /\ x.id = a /\ x.pid = pid
  BY Zenon, <1>2, IdleRec DEF CallRec, CallSteps, IssueSteps
<1> HIDE DEF x
<1>4. CallOK(x)
  BY Zenon, <1>2, <1>3 DEF CallOK, StopSteps, NameSteps
<1>5. /\ CallsType' /\ \A d \in Client : d # c => call'[d] = call[d]
      /\ call[c].at = "idle" /\ call'[c].at = "issue_key" /\ call'[c].id = a
  BY Zenon, <1>1, <1>3, <1>4, BeginKept DEF TypeInv
<1>6. overlap' \subseteq ActorId
  BY Zenon, <1>1, OverlapGrows
<1>7. TypeInv'
  BY Zenon, <1>1, <1>5, <1>6, CallStepType
<1>8. BeginsEdit(c, a)
  BY Zenon, <1>1, <1>5 DEF BeginsEdit, ChangeSteps, RemoveSteps, IssueSteps
<1>9. PidOK
  BY Zenon, <1>1, <1>8, BeginsEditPidOK
<1> QED BY Zenon, <1>1, <1>7, <1>9 DEF StepOK, NameStep, names

LEMMA RemoveActorOK ==
  ASSUME TypeInv, PidInv, NEW c \in Client, NEW a \in ActorId, RemoveActor(c, a)
  PROVE  StepOK
<1> DEFINE x == [Idle EXCEPT !.at = "remove_id", !.id = a]
<1>1. Begin(c, x) /\ Overlap(a) /\ UNCHANGED <<current, status, closed, loop, entry, actorPID, byName, byActor>>
  BY Zenon DEF RemoveActor, names
<1>2. x \in CallRec /\ x.at = "remove_id" /\ x.id = a
  BY Zenon, IdleRec DEF CallRec, CallSteps, RemoveSteps
<1> HIDE DEF x
<1>3. CallOK(x)
  BY Zenon, <1>2 DEF CallOK, PidSteps, IssueSteps, StopSteps, NameSteps
<1>4. /\ CallsType' /\ \A d \in Client : d # c => call'[d] = call[d]
      /\ call[c].at = "idle" /\ call'[c].at = "remove_id" /\ call'[c].id = a
  BY Zenon, <1>1, <1>2, <1>3, BeginKept DEF TypeInv
<1>5. overlap' \subseteq ActorId
  BY Zenon, <1>1, OverlapGrows
<1>6. TypeInv'
  BY Zenon, <1>1, <1>4, <1>5, CallStepType
<1>7. BeginsEdit(c, a)
  BY Zenon, <1>1, <1>4 DEF BeginsEdit, ChangeSteps, RemoveSteps, IssueSteps
<1>8. PidOK
  BY Zenon, <1>1, <1>7, BeginsEditPidOK
<1> QED BY Zenon, <1>1, <1>6, <1>8 DEF StepOK, NameStep, names

LEMMA NamePidOK ==
  ASSUME TypeInv, PidInv, NEW c \in Client, NamePid(c)
  PROVE  StepOK
<1> DEFINE a == call[c].id
           ns == call[c].ns
           new == [ns |-> ns, id |-> a, gen |-> 1]
           x == [call[c] EXCEPT !.at = "name_register", !.pid = actorPID[a]]
           y == [call[c] EXCEPT !.at = "name_issue_key", !.pid = new]
<1>1. call[c].at = "name_pid" /\ UNCHANGED <<current, status, closed, loop, entry, actorPID, byName, byActor>>
  BY Zenon DEF NamePid, names
<1>2. call[c] \in CallRec /\ a \in ActorId /\ ns \in Namespace /\ call[c].name \in Name
  BY Zenon, <1>1 DEF TypeInv, CallsType, CallOK, NameSteps
<1>3. NameStep
  BY Zenon, <1>1 DEF NameStep, names
<1>4. call[c].at \notin ChangeSteps
  BY Zenon, <1>1 DEF ChangeSteps, RemoveSteps, IssueSteps
<1>5. CASE actorPID[a].ns = ns /\ call' = [call EXCEPT ![c] = x] /\ overlap' = overlap
  <2>1. actorPID[a] \in PID /\ actorPID[a].id = a
    BY Zenon, <1>2, <1>5, NoPIDFacts DEF TypeInv, PidsType
  <2>2. /\ x \in CallRec /\ x.at = "name_register" /\ x.id = a /\ x.pid \in PID /\ x.pid.id = a
        /\ x.name \in Name /\ x.ns \in Namespace
    BY Zenon, <1>2, <2>1 DEF CallRec, CallSteps
  <2> HIDE DEF x
  <2>3. CallOK(x)
    BY Zenon, <1>2, <2>2 DEF CallOK, StopSteps
  <2>4. CallsType' /\ call'[c] = x /\ \A d \in Client : d # c => call'[d] = call[d]
    BY Zenon, <1>5, <2>2, <2>3, CallKept DEF TypeInv
  <2>5. TypeInv'
    BY Zenon, <1>1, <1>5, <2>4, CallStepType
  <2>6. call'[c].at \notin ChangeSteps
    BY Zenon, <2>2, <2>4 DEF ChangeSteps, RemoveSteps, IssueSteps
  <2>7. PidOK
    BY Zenon, <1>1, <1>4, <1>5, <2>4, <2>6, CallStepPidOK, SameQuiet
  <2> QED BY Zenon, <1>3, <2>5, <2>7 DEF StepOK
<1>6. CASE call' = [call EXCEPT ![c] = y] /\ Overlap(a)
  <2>1. new \in PID /\ new.id = a
    BY <1>2, BoundsAssumption DEF PID
  <2> HIDE DEF new
  <2>2. /\ y \in CallRec /\ y.at = "name_issue_key" /\ y.id = a /\ y.pid = new
        /\ y.name \in Name /\ y.ns \in Namespace
    BY Zenon, <1>2, <2>1 DEF CallRec, CallSteps, IssueSteps
  <2> HIDE DEF y
  <2>3. CallOK(y)
    BY Zenon, <1>2, <2>1, <2>2 DEF CallOK, StopSteps
  <2>4. CallsType' /\ call'[c] = y /\ \A d \in Client : d # c => call'[d] = call[d]
    BY Zenon, <1>6, <2>2, <2>3, CallKept DEF TypeInv
  <2>5. overlap' \subseteq ActorId
    BY Zenon, <1>2, <1>6, OverlapGrows
  <2>6. TypeInv'
    BY Zenon, <1>1, <2>4, <2>5, CallStepType
  <2>7. BeginsEdit(c, a)
    BY Zenon, <1>1, <1>4, <2>2, <2>4 DEF BeginsEdit
  <2>8. PidOK
    BY Zenon, <1>2, <1>6, <2>7, BeginsEditPidOK
  <2> QED BY Zenon, <1>3, <2>6, <2>8 DEF StepOK
<1>7. CASE Return(c) /\ overlap' = overlap
  <2>1. CallsType' /\ call'[c].at = "idle" /\ \A d \in Client : d # c => call'[d] = call[d]
    BY Zenon, <1>7, ReturnKept DEF TypeInv
  <2>2. TypeInv'
    BY Zenon, <1>1, <1>7, <2>1, CallStepType
  <2>3. call'[c].at \notin ChangeSteps
    BY Zenon, <2>1 DEF ChangeSteps, RemoveSteps, IssueSteps
  <2>4. PidOK
    BY Zenon, <1>1, <1>4, <1>7, <2>1, <2>3, CallStepPidOK, SameQuiet
  <2> QED BY Zenon, <1>3, <2>2, <2>4 DEF StepOK
<1> QED BY Zenon, <1>5, <1>6, <1>7 DEF NamePid

LEMMA IssueKeyOK ==
  ASSUME TypeInv, PidInv, NEW c \in Client, NEW here \in {"issue_key", "name_issue_key"}, NEW step \in StoreSteps,
         here = "name_issue_key" <=> step = "name_issue_pid", IssueKey(c, here, step)
  PROVE  StepOK
<1> DEFINE a == call[c].id
           pid == call[c].pid
           e == [gen |-> pid.gen, route |-> "reachable"]
<1>1. /\ call[c].at = here /\ Goto(c, step) /\ entry' = [entry EXCEPT ![Key(pid)] = e]
      /\ UNCHANGED <<current, status, closed, loop, actorPID, byName, byActor, overlap>>
  BY Zenon DEF IssueKey, Register, names
<1>2. call[c] \in CallRec /\ a \in ActorId /\ pid \in PID /\ pid.id = a
  BY Zenon, <1>1 DEF TypeInv, CallsType, CallOK, PidSteps, IssueSteps
<1>3. step \in CallSteps /\ CallOK([call[c] EXCEPT !.at = step])
  <2>1. step = "name_issue_pid" => call[c].name \in Name /\ call[c].ns \in Namespace
    BY Zenon, <1>1 DEF TypeInv, CallsType, CallOK, NameSteps
  <2> QED BY Zenon, <1>2, <2>1 DEF CallOK, CallRec, CallSteps, PidSteps, IssueSteps, StopSteps, NameSteps, StoreSteps
<1>4. /\ CallsType' /\ call'[c] = [call[c] EXCEPT !.at = step]
      /\ \A d \in Client : d # c => call'[d] = call[d]
  BY Zenon, <1>1, <1>3, GotoKept DEF TypeInv
<1>5. call'[c].at = step /\ call'[c].id = a /\ call'[c].pid = pid
  BY Zenon, <1>2, <1>4 DEF CallRec
<1>6. Key(pid) \in Namespace \X ActorId /\ Key(pid)[2] = a /\ e \in EntryRec /\ e # NoEntry /\ e.gen = pid.gen
  BY Zenon, <1>2 DEF Key, PID, EntryRec, Gen, Routes, NoEntry, Nobody
<1> HIDE DEF e
<1>7. entry' \in [Namespace \X ActorId -> EntryRec] /\ \A j \in Namespace \X ActorId : entry'[j] = IF j = Key(pid) THEN e ELSE entry[j]
  BY Zenon, <1>1, <1>6 DEF TypeInv, PidsType
<1>8. TypeInv'
  <2>1. PidsType'
    BY Zenon, <1>1, <1>7 DEF TypeInv, PidsType
  <2> QED BY Zenon, <1>1, <1>4, <2>1, CallStepType
<1>9. Edits(c, a)
  <2>1. Edit(call[c], a)
    BY Zenon, <1>1 DEF Edit, IssueSteps
  <2>2. \A b \in ActorId : b # a => EntryQuiet(b)
    BY <1>6, <1>7 DEF EntryQuiet
  <2> QED BY Zenon, <1>1, <1>4, <1>5, <2>1, <2>2 DEF Edits
<1>10. Leaves(c, a)
  <2>1. Fresh(entry', pid)
    BY Zenon, <1>6, <1>7 DEF Fresh
  <2>2. step # "remove_key"
    BY Zenon DEF StoreSteps
  <2> QED BY Zenon, <1>5, <2>1, <2>2 DEF Leaves
<1>11. PidOK
  BY Zenon, <1>2, <1>9, <1>10, EditsPidOK
<1> QED BY Zenon, <1>1, <1>8, <1>11 DEF StepOK, NameStep, names

\* The PID that was put into the resolver is stored.
LEMMA StoreOK ==
  ASSUME TypeInv, PidInv, NEW c \in Client, call[c].at \in StoreSteps, StorePID(c), CallsType',
         \A d \in Client : d # c => call'[d] = call[d], call'[c].at \in {"idle", "name_register"},
         UNCHANGED <<current, status, closed, loop, entry, byName, byActor, overlap>>
  PROVE  StepOK
<1> DEFINE a == call[c].id
           pid == call[c].pid
<1>1. a \in ActorId /\ pid \in PID /\ pid.id = a /\ Edit(call[c], a)
  BY Zenon DEF TypeInv, CallsType, CallOK, PidSteps, IssueSteps, StoreSteps, Edit
<1>2. actorPID' \in [ActorId -> PID \cup {NoPID}] /\ \A b \in ActorId : actorPID'[b] = IF b = a THEN pid ELSE actorPID[b]
  BY Zenon, <1>1 DEF StorePID, TypeInv, PidsType
<1>3. PidsType'
  BY Zenon, <1>1, <1>2 DEF TypeInv, PidsType
<1>4. TypeInv'
  BY Zenon, <1>3, CallStepType
<1>5. call'[c].at \notin ChangeSteps /\ call'[c].at \notin StoreSteps \cup {"remove_key"}
  BY Zenon DEF ChangeSteps, RemoveSteps, IssueSteps, StoreSteps
<1>6. Edits(c, a)
  BY Zenon, <1>1, <1>2, <1>5, SameQuiet DEF Edits
<1>7. a \notin overlap => Leaves(c, a)
  <2>1. a \notin overlap => Fresh(entry, pid)
    BY Zenon, <1>1 DEF PidInv, Own
  <2> QED BY Zenon, <1>1, <1>2, <1>5, <2>1 DEF Leaves
<1>8. PidOK
  BY Zenon, <1>1, <1>6, <1>7, EditsPidOK
<1> QED BY Zenon, <1>4, <1>8 DEF StepOK, NameStep, names

LEMMA IssueStoreOK ==
  ASSUME TypeInv, PidInv, NEW c \in Client, IssueStore(c)
  PROVE  StepOK
<1>1. /\ call[c].at \in StoreSteps /\ StorePID(c) /\ Return(c)
      /\ UNCHANGED <<current, status, closed, loop, entry, byName, byActor, overlap>>
  BY Zenon DEF IssueStore, StoreSteps, names
<1>2. CallsType' /\ call'[c].at = "idle" /\ \A d \in Client : d # c => call'[d] = call[d]
  BY Zenon, <1>1, ReturnKept DEF TypeInv
<1> QED BY Zenon, <1>1, <1>2, StoreOK

LEMMA NameIssueStoreOK ==
  ASSUME TypeInv, PidInv, NEW c \in Client, NameIssueStore(c)
  PROVE  StepOK
<1>1. /\ call[c].at = "name_issue_pid" /\ StorePID(c) /\ Goto(c, "name_register")
      /\ UNCHANGED <<current, status, closed, loop, entry, byName, byActor, overlap>>
  BY Zenon DEF NameIssueStore, names
<1>2. call[c] \in CallRec /\ call[c].id \in ActorId /\ call[c].pid \in PID /\ call[c].pid.id = call[c].id
      /\ call[c].name \in Name /\ call[c].ns \in Namespace
  BY Zenon, <1>1 DEF TypeInv, CallsType, CallOK, PidSteps, IssueSteps, NameSteps
<1>3. "name_register" \in CallSteps /\ CallOK([call[c] EXCEPT !.at = "name_register"])
  BY Zenon, <1>2 DEF CallOK, CallRec, CallSteps, PidSteps, IssueSteps, StopSteps, NameSteps
<1>4. /\ CallsType' /\ call'[c] = [call[c] EXCEPT !.at = "name_register"]
      /\ \A d \in Client : d # c => call'[d] = call[d]
  BY Zenon, <1>1, <1>3, GotoKept DEF TypeInv
<1>5. call'[c].at = "name_register" /\ call[c].at \in StoreSteps
  BY Zenon, <1>1, <1>2, <1>4 DEF CallRec, StoreSteps
<1> QED BY Zenon, <1>1, <1>4, <1>5, StoreOK

LEMMA RemoveIdOK ==
  ASSUME TypeInv, PidInv, NEW c \in Client, RemoveId(c)
  PROVE  StepOK
<1> DEFINE a == call[c].id
<1>1. /\ call[c].at = "remove_id" /\ Goto(c, "remove_pid") /\ current' = [current EXCEPT ![a] = 0]
      /\ UNCHANGED <<status, closed, loop, entry, actorPID, byName, byActor, overlap>>
  BY Zenon DEF RemoveId, names
<1>2. call[c] \in CallRec /\ a \in ActorId
  BY Zenon, <1>1 DEF TypeInv, CallsType, CallOK
<1>3. "remove_pid" \in CallSteps /\ CallOK([call[c] EXCEPT !.at = "remove_pid"])
  BY Zenon, <1>2 DEF CallOK, CallRec, CallSteps, RemoveSteps, PidSteps, IssueSteps, StopSteps, NameSteps
<1>4. /\ CallsType' /\ call'[c] = [call[c] EXCEPT !.at = "remove_pid"]
      /\ \A d \in Client : d # c => call'[d] = call[d]
  BY Zenon, <1>1, <1>3, GotoKept DEF TypeInv
<1>5. call'[c].at = "remove_pid" /\ call'[c].id = a
  BY Zenon, <1>2, <1>4 DEF CallRec
<1>6. TypeInv'
  <2>1. ActorsType'
    BY <1>1, <1>2, BoundsAssumption DEF TypeInv, ActorsType
  <2> QED BY Zenon, <1>1, <1>4, <2>1, CallStepType
<1>7. Edit(call[c], a)
  BY Zenon, <1>1 DEF Edit, RemoveSteps
<1>8. Edits(c, a)
  BY Zenon, <1>1, <1>4, <1>5, <1>7, SameQuiet DEF Edits
<1>9. ASSUME a \notin overlap
      PROVE  Leaves(c, a)
  <2>1. /\ \A i \in Instance : loop[a][i].at # "store"
        /\ \A d \in Client : ~(call[d].id = a /\ call[d].at \in StoreSteps)
    BY Zenon, <1>1, <1>2, <1>7, <1>9 DEF PidInv, Alone, BusyAt, Edit, StoreSteps, IssueSteps, RemoveSteps
  <2>2. actorPID[a] = NoPID \/ Fresh(entry, actorPID[a])
    BY <1>2, <1>9, <2>1 DEF PidInv, Own
  <2> QED BY Zenon, <1>1, <1>5, <2>2 DEF Leaves, StoreSteps
<1>10. PidOK
  BY Zenon, <1>2, <1>8, <1>9, EditsPidOK
<1> QED BY Zenon, <1>1, <1>6, <1>10 DEF StepOK, NameStep, names

LEMMA RemovePidOK ==
  ASSUME TypeInv, PidInv, NEW c \in Client, RemovePid(c)
  PROVE  StepOK
<1> DEFINE a == call[c].id
           x == [call[c] EXCEPT !.at = "remove_key", !.pid = actorPID[a]]
<1>1. /\ call[c].at = "remove_pid" /\ actorPID' = [actorPID EXCEPT ![a] = NoPID]
      /\ Return(c) \/ (actorPID[a] # NoPID /\ call' = [call EXCEPT ![c] = x])
      /\ UNCHANGED <<current, status, closed, loop, entry, byName, byActor, overlap>>
  BY Zenon DEF RemovePid, names
<1>2. call[c] \in CallRec /\ a \in ActorId
  BY Zenon, <1>1 DEF TypeInv, CallsType, CallOK
<1>3. /\ CallsType' /\ \A d \in Client : d # c => call'[d] = call[d]
      /\ call'[c].at = "idle" \/ (call'[c].at = "remove_key" /\ call'[c].id = a)
  <2>1. CASE Return(c)
    BY Zenon, <2>1, ReturnKept DEF TypeInv
  <2>2. CASE actorPID[a] # NoPID /\ call' = [call EXCEPT ![c] = x]
    <3>1. actorPID[a] \in PID /\ actorPID[a].id = a
      BY Zenon, <1>2, <2>2 DEF TypeInv, PidsType
    <3>2. x \in CallRec /\ x.at = "remove_key" /\ x.id = a /\ x.pid \in PID /\ x.pid.id = a
      BY Zenon, <1>2, <3>1 DEF CallRec, CallSteps, RemoveSteps
    <3> HIDE DEF x
    <3>3. CallOK(x)
      BY Zenon, <1>2, <3>2 DEF CallOK, StopSteps, NameSteps
    <3>4. CallsType' /\ call'[c] = x /\ \A d \in Client : d # c => call'[d] = call[d]
      BY Zenon, <2>2, <3>2, <3>3, CallKept DEF TypeInv
    <3> QED BY Zenon, <3>2, <3>4
  <2> QED BY Zenon, <1>1, <2>1, <2>2
<1>4. PidsType' /\ actorPID'[a] = NoPID /\ \A b \in ActorId : b # a => actorPID'[b] = actorPID[b]
  BY Zenon, <1>1, <1>2 DEF TypeInv, PidsType
<1>5. TypeInv'
  BY Zenon, <1>1, <1>3, <1>4, CallStepType
<1>6. Edits(c, a)
  BY Zenon, <1>1, <1>3, <1>4, SameQuiet DEF Edits, Edit, ChangeSteps, RemoveSteps, IssueSteps
<1>7. Leaves(c, a)
  BY Zenon, <1>3, <1>4 DEF Leaves, StoreSteps
<1>8. PidOK
  BY Zenon, <1>2, <1>6, <1>7, EditsPidOK
<1> QED BY Zenon, <1>1, <1>5, <1>8 DEF StepOK, NameStep, names

LEMMA RemoveKeyOK ==
  ASSUME TypeInv, PidInv, NEW c \in Client, RemoveKey(c)
  PROVE  StepOK
<1> DEFINE a == call[c].id
           pid == call[c].pid
<1>1. /\ call[c].at = "remove_key" /\ Return(c) /\ entry' = [entry EXCEPT ![Key(pid)] = NoEntry]
      /\ UNCHANGED <<current, status, closed, loop, actorPID, byName, byActor, overlap>>
  BY Zenon DEF RemoveKey, Remove, names
<1>2. a \in ActorId /\ pid \in PID /\ pid.id = a
  BY Zenon, <1>1 DEF TypeInv, CallsType, CallOK, PidSteps
<1>3. CallsType' /\ call'[c].at = "idle" /\ \A d \in Client : d # c => call'[d] = call[d]
  BY Zenon, <1>1, ReturnKept DEF TypeInv
<1>4. Key(pid) \in Namespace \X ActorId /\ Key(pid)[2] = a /\ NoEntry \in EntryRec
  BY Zenon, <1>2 DEF Key, PID, EntryRec
<1>5. /\ entry' \in [Namespace \X ActorId -> EntryRec]
      /\ \A j \in Namespace \X ActorId : j # Key(pid) => entry'[j] = entry[j]
  BY Zenon, <1>1, <1>4 DEF TypeInv, PidsType
<1>6. TypeInv'
  <2>1. PidsType'
    BY Zenon, <1>1, <1>5 DEF TypeInv, PidsType
  <2> QED BY Zenon, <1>1, <1>3, <2>1, CallStepType
<1>7. Edits(c, a)
  <2>1. \A b \in ActorId : b # a => EntryQuiet(b)
    BY <1>4, <1>5 DEF EntryQuiet
  <2> QED BY Zenon, <1>1, <1>3, <2>1 DEF Edits, Edit, ChangeSteps, RemoveSteps, IssueSteps
<1>8. a \notin overlap => Leaves(c, a)
  <2>1. a \notin overlap => actorPID[a] = NoPID
    BY Zenon, <1>1, <1>2 DEF PidInv, Own
  <2> QED BY Zenon, <1>1, <1>3, <2>1 DEF Leaves, StoreSteps
<1>9. PidOK
  BY Zenon, <1>2, <1>7, <1>8, EditsPidOK
<1> QED BY Zenon, <1>1, <1>6, <1>9 DEF StepOK, NameStep, names
-----------------------------------------------------------------------------
(* The restart, which gives the PID a new generation.                      *)

\* The goroutine of instance i of id a, in a restart, goes on to x.
Restarts(a, i, x) ==
  /\ loop[a][i].at \in BusyAt
  /\ \A b \in ActorId, j \in Instance : loop'[b][j] = IF b = a /\ j = i THEN x ELSE loop[b][j]
  /\ UNCHANGED <<call, overlap>>
  /\ \A b \in ActorId : b # a => actorPID'[b] = actorPID[b] /\ EntryQuiet(b)

LoopLeaves(a, x) ==
  /\ actorPID'[a] = NoPID \/ Fresh(entry', actorPID'[a]) \/ x.at = "store"
  /\ x.at \in {"route", "bump"} => x.pid = actorPID'[a]
  /\ x.at = "store" => Fresh(entry', x.pid)

\* While it is alone, nobody else is in a step that touches the PID.
LEMMA RestartAlone ==
  ASSUME PidInv, NEW a \in ActorId \ overlap, NEW i \in Instance, loop[a][i].at \in BusyAt
  PROVE  /\ \A j \in Instance : j # i => loop[a][j].at \notin BusyAt
         /\ \A c \in Client : ~Edit(call[c], a)
         /\ loop[a][i].at # "store" => actorPID[a] = NoPID \/ Fresh(entry, actorPID[a])
<1>1. /\ \A j \in Instance : j # i => loop[a][j].at \notin BusyAt
      /\ \A c \in Client : ~Edit(call[c], a)
  BY Zenon DEF PidInv, Alone
<1>2. ASSUME loop[a][i].at # "store"
      PROVE  actorPID[a] = NoPID \/ Fresh(entry, actorPID[a])
  <2>1. /\ \A j \in Instance : loop[a][j].at # "store"
        /\ \A c \in Client : ~(call[c].id = a /\ call[c].at \in StoreSteps)
    BY Zenon, <1>1, <1>2 DEF BusyAt, Edit, StoreSteps, IssueSteps
  <2> QED BY Zenon, <2>1 DEF PidInv, Own
<1> QED BY Zenon, <1>1, <1>2

LEMMA RestartsPidOK ==
  ASSUME TypeInv, PidInv, NEW a \in ActorId, NEW i \in Instance, NEW x, Restarts(a, i, x),
         a \notin overlap => LoopLeaves(a, x)
  PROVE  PidOK
<1>1. overlap' = overlap
  BY Zenon DEF Restarts
<1>2. ASSUME NEW b \in ActorId, b # a
      PROVE  Quiet(b)
  <2>1. LoopQuiet(b)
    BY Zenon, <1>2 DEF Restarts, LoopQuiet
  <2>2. CallQuiet(b) /\ EntryQuiet(b) /\ actorPID'[b] = actorPID[b]
    BY Zenon, <1>2, SameQuiet DEF Restarts
  <2> QED BY Zenon, <2>1, <2>2 DEF Quiet
<1>3. ASSUME a \notin overlap'
      PROVE  Alone(a, loop'[a], call') /\ Own(a, loop'[a], call', entry', actorPID'[a])
  <2>1. /\ \A j \in Instance : j # i => loop[a][j].at \notin BusyAt
        /\ \A c \in Client : ~Edit(call[c], a)
    BY Zenon, <1>1, <1>3, RestartAlone DEF Restarts
  <2>2. /\ loop'[a][i] = x /\ \A j \in Instance : j # i => loop'[a][j].at \notin BusyAt
        /\ \A c \in Client : ~Edit(call'[c], a)
    BY Zenon, <2>1 DEF Restarts
  <2>3. Alone(a, loop'[a], call')
    BY Zenon, <2>2 DEF Alone
  <2>4. /\ \A j \in Instance : loop'[a][j].at \in {"route", "bump", "store"} => j = i
        /\ \A c \in Client : ~(call'[c].id = a /\ call'[c].at \in StoreSteps \cup {"remove_key"})
    BY Zenon, <2>2 DEF BusyAt, Edit, StoreSteps, IssueSteps, RemoveSteps
  <2> QED BY Zenon, <1>1, <1>3, <2>2, <2>3, <2>4 DEF Own, LoopLeaves
<1> QED BY Zenon, <1>1, <1>2, <1>3, OthersQuiet

LEMMA RestartBeginOK ==
  ASSUME TypeInv, PidInv, NEW a \in ActorId, NEW i \in Instance, RestartBegin(a, i)
  PROVE  StepOK
<1> DEFINE x == [loop[a][i] EXCEPT !.at = "load"]
<1>1. /\ loop[a][i].at = Nobody /\ GoLoop(a, i, "load") /\ Overlap(a)
      /\ status' = [status EXCEPT ![a][i] = "Restarting"]
      /\ UNCHANGED <<current, closed, entry, actorPID, byName, byActor, call>>
  BY ZenonT(30) DEF RestartBegin, names
<1>2. x \in LoopRec /\ x.at = "load" /\ loop' = [loop EXCEPT ![a][i] = x]
  BY ZenonT(30), <1>1, GoLoopForm DEF LoopSteps
<1> HIDE DEF x
<1>3. LoopOK(a, x) /\ x.at # "names"
  BY Zenon, <1>2 DEF LoopOK
<1>4. /\ LoopsType'
      /\ \A b \in ActorId, j \in Instance : loop'[b][j] = IF b = a /\ j = i THEN x ELSE loop[b][j]
  BY ZenonT(30), <1>1, <1>2, <1>3, LoopStepType
<1>5. TypeInv'
  <2>1. ActorsType' /\ CallsType'
    BY Zenon, <1>1 DEF TypeInv, ActorsType, CallsType, Statuses
  <2>2. overlap' \subseteq ActorId
    BY Zenon, <1>1, OverlapGrows
  <2> QED BY Zenon, <1>1, <1>4, <2>1, <2>2, CallStepType
<1>6. /\ overlap \subseteq overlap'
      /\ a \notin overlap' => /\ \A j \in Instance : loop[a][j].at \notin BusyAt
                              /\ \A c \in Client : ~Edit(call[c], a)
  BY Zenon, <1>1, OverlapGrows
<1>7. ASSUME NEW b \in ActorId, b # a
      PROVE  Quiet(b)
  <2>1. LoopQuiet(b)
    BY Zenon, <1>4, <1>7 DEF LoopQuiet
  <2> QED BY Zenon, <1>1, <2>1, SameQuiet DEF Quiet
<1>8. ASSUME a \notin overlap'
      PROVE  Alone(a, loop'[a], call') /\ Own(a, loop'[a], call', entry', actorPID'[a])
  <2>1. /\ loop'[a][i] = x /\ \A j \in Instance : j # i => loop'[a][j].at \notin BusyAt
        /\ \A c \in Client : ~Edit(call'[c], a)
    BY Zenon, <1>1, <1>4, <1>6, <1>8
  <2>2. Alone(a, loop'[a], call')
    BY Zenon, <2>1 DEF Alone
  <2>3. /\ \A j \in Instance : loop'[a][j].at \notin {"route", "bump", "store"}
        /\ \A c \in Client : ~(call'[c].id = a /\ call'[c].at \in StoreSteps \cup {"remove_key"})
    BY Zenon, <1>2, <2>1 DEF BusyAt, Edit, StoreSteps, IssueSteps, RemoveSteps
  <2>4. actorPID[a] = NoPID \/ Fresh(entry, actorPID[a])
    <3>1. /\ \A j \in Instance : loop[a][j].at # "store"
          /\ \A c \in Client : ~(call[c].id = a /\ call[c].at \in StoreSteps)
      BY Zenon, <1>6, <1>8 DEF BusyAt, Edit, StoreSteps, IssueSteps
    <3> QED BY Zenon, <1>6, <1>8, <3>1 DEF PidInv, Own
  <2> QED BY Zenon, <1>1, <2>2, <2>3, <2>4 DEF Own
<1>9. PidOK
  BY Zenon, <1>6, <1>7, <1>8, OthersQuiet
<1> QED BY Zenon, <1>1, <1>5, <1>9 DEF StepOK, NameStep, names

\* A restart's step, from its form, its types and what it leaves.
LEMMA RestartStepOK ==
  ASSUME TypeInv, PidInv, NEW a \in ActorId, NEW i \in Instance, NEW x \in LoopRec,
         loop' = [loop EXCEPT ![a][i] = x], loop[a][i].at \in BusyAt, LoopOK(a, x), x.at # "names",
         PidsType', \A b \in ActorId : b # a => actorPID'[b] = actorPID[b] /\ EntryQuiet(b),
         a \notin overlap => LoopLeaves(a, x),
         UNCHANGED <<current, status, closed, byName, byActor, call, overlap>>
  PROVE  StepOK
<1>1. /\ LoopsType'
      /\ \A b \in ActorId, j \in Instance : loop'[b][j] = IF b = a /\ j = i THEN x ELSE loop[b][j]
  BY ZenonT(30), LoopStepType
<1>2. CallsType'
  BY Zenon DEF TypeInv, CallsType
<1>3. TypeInv'
  BY Zenon, <1>1, <1>2, CallStepType
<1>4. Restarts(a, i, x)
  BY Zenon, <1>1 DEF Restarts
<1>5. PidOK
  BY Zenon, <1>4, RestartsPidOK
<1> QED BY Zenon, <1>3, <1>5 DEF StepOK, NameStep, names

LEMMA RestartLoadOK ==
  ASSUME TypeInv, PidInv, NEW a \in ActorId, NEW i \in Instance, RestartLoad(a, i)
  PROVE  StepOK
<1> DEFINE x == [at |-> IF actorPID[a] = NoPID THEN "hook" ELSE "route", pid |-> actorPID[a]]
<1>1. /\ loop[a][i].at = "load" /\ loop' = [loop EXCEPT ![a][i] = x]
      /\ UNCHANGED <<current, status, closed, entry, actorPID, byName, byActor, call, overlap>>
  BY Zenon DEF RestartLoad, names
<1>2. actorPID[a] \in PID \cup {NoPID} /\ (actorPID[a] # NoPID => actorPID[a].id = a)
  BY Zenon DEF TypeInv, PidsType
<1>3. x \in LoopRec /\ x.pid = actorPID[a] /\ x.at \in {"hook", "route"} /\ LoopOK(a, x)
  BY Zenon, <1>2 DEF LoopRec, LoopSteps, LoopOK
<1> HIDE DEF x
<1>4. loop[a][i].at \in BusyAt /\ loop[a][i].at # "store"
  BY Zenon, <1>1 DEF BusyAt
<1>5. PidsType' /\ \A b \in ActorId : b # a => actorPID'[b] = actorPID[b] /\ EntryQuiet(b)
  BY Zenon, <1>1, SameQuiet DEF TypeInv, PidsType
<1>6. ASSUME a \notin overlap
      PROVE  LoopLeaves(a, x)
  <2>1. actorPID[a] = NoPID \/ Fresh(entry, actorPID[a])
    BY Zenon, <1>4, <1>6, RestartAlone
  <2> QED BY Zenon, <1>1, <1>3, <2>1 DEF LoopLeaves
<1> QED BY Zenon, <1>1, <1>3, <1>4, <1>5, <1>6, RestartStepOK

LEMMA RestartRouteOK ==
  ASSUME TypeInv, PidInv, NEW a \in ActorId, NEW i \in Instance, RestartRoute(a, i)
  PROVE  StepOK
<1> DEFINE x == [loop[a][i] EXCEPT !.at = "bump"]
<1>1. /\ loop[a][i].at = "route" /\ GoLoop(a, i, "bump") /\ SetState(loop[a][i].pid, "restarting")
      /\ UNCHANGED <<current, status, closed, actorPID, byName, byActor, call, overlap>>
  BY Zenon DEF RestartRoute, names
<1>2. loop[a][i].pid \in PID /\ loop[a][i].pid.id = a
  BY ZenonT(30), <1>1 DEF TypeInv, LoopsType, LoopOK
<1>3. x \in LoopRec /\ x.at = "bump" /\ x.pid = loop[a][i].pid /\ loop' = [loop EXCEPT ![a][i] = x]
  BY ZenonT(30), <1>1, GoLoopForm DEF LoopSteps
<1> HIDE DEF x
<1>4. LoopOK(a, x) /\ loop[a][i].at \in BusyAt /\ loop[a][i].at # "store" /\ x.at # "names"
  BY Zenon, <1>1, <1>2, <1>3 DEF BusyAt, LoopOK
<1>5. entry' \in [Namespace \X ActorId -> EntryRec] /\ \A b \in ActorId : EntryQuiet(b)
  BY Zenon, <1>1, <1>2, SetStateKeeps DEF Routes
<1>6. PidsType' /\ \A b \in ActorId : b # a => actorPID'[b] = actorPID[b] /\ EntryQuiet(b)
  BY Zenon, <1>1, <1>5 DEF TypeInv, PidsType
<1>7. ASSUME a \notin overlap
      PROVE  LoopLeaves(a, x)
  <2>1. actorPID[a] = NoPID \/ Fresh(entry, actorPID[a])
    BY Zenon, <1>4, <1>7, RestartAlone
  <2>2. loop[a][i].pid = actorPID[a]
    BY Zenon, <1>1, <1>7 DEF PidInv, Own
  <2>3. actorPID[a] = NoPID \/ Fresh(entry', actorPID[a])
    BY Zenon, <1>2, <1>5, <2>1, <2>2, FreshKept
  <2> QED BY Zenon, <1>1, <1>3, <2>2, <2>3 DEF LoopLeaves
<1> QED BY Zenon, <1>1, <1>3, <1>4, <1>6, <1>7, RestartStepOK

LEMMA RestartBumpOK ==
  ASSUME TypeInv, PidInv, NEW a \in ActorId, NEW i \in Instance, RestartBump(a, i)
  PROVE  StepOK
<1> DEFINE pid == loop[a][i].pid
           k == Key(pid)
           e == entry[k]
           new == [pid EXCEPT !.gen = e.gen + 1]
<1>1. /\ loop[a][i].at = "bump" /\ e.gen < MaxGeneration
      /\ UNCHANGED <<current, status, closed, actorPID, byName, byActor, call, overlap>>
  BY Zenon DEF RestartBump, names
<1>2. pid \in PID /\ pid.id = a /\ k \in Namespace \X ActorId /\ k = <<pid.ns, a>>
  BY Zenon, <1>1 DEF TypeInv, LoopsType, LoopOK, Key, PID
<1>3. entry \in [Namespace \X ActorId -> EntryRec] /\ e \in EntryRec
  BY Zenon, <1>2 DEF TypeInv, PidsType
<1>4. loop[a][i].at \in BusyAt /\ loop[a][i].at # "store"
  BY Zenon, <1>1 DEF BusyAt
<1>5. CASE e = NoEntry /\ GoLoop(a, i, "hook") /\ entry' = entry
  <2> DEFINE x == [loop[a][i] EXCEPT !.at = "hook"]
  <2>1. x \in LoopRec /\ x.at = "hook" /\ loop' = [loop EXCEPT ![a][i] = x]
    BY ZenonT(30), <1>5, GoLoopForm DEF LoopSteps
  <2> HIDE DEF x
  <2>2. LoopOK(a, x) /\ x.at # "names"
    BY Zenon, <2>1 DEF LoopOK
  <2>3. PidsType' /\ \A b \in ActorId : b # a => actorPID'[b] = actorPID[b] /\ EntryQuiet(b)
    BY Zenon, <1>1, <1>5, SameQuiet DEF TypeInv, PidsType
  <2>4. ASSUME a \notin overlap
        PROVE  LoopLeaves(a, x)
    <3>1. actorPID[a] = NoPID \/ Fresh(entry, actorPID[a])
      BY Zenon, <1>4, <2>4, RestartAlone
    <3> QED BY Zenon, <1>1, <1>5, <2>1, <3>1 DEF LoopLeaves
  <2> QED BY Zenon, <1>1, <1>4, <2>1, <2>2, <2>3, <2>4, RestartStepOK
<1>6. CASE e # NoEntry /\ BumpGeneration(pid) /\ loop' = [loop EXCEPT ![a][i] = [at |-> "store", pid |-> new]]
  <2> DEFINE x == [at |-> "store", pid |-> new]
             f == [gen |-> e.gen + 1, route |-> "reachable"]
  <2>1. e.gen \in Gen /\ e.gen + 1 \in Gen
    BY <1>1, <1>3, <1>6, BoundsAssumption DEF EntryRec, Gen
  <2>2. new \in PID /\ new.id = a /\ new.gen = e.gen + 1 /\ Key(new) = k
    BY Zenon, <1>2, <2>1 DEF PID, Key, Gen
  <2>3. x \in LoopRec /\ x.at = "store" /\ x.pid = new /\ LoopOK(a, x)
    BY Zenon, <2>2 DEF LoopRec, LoopSteps, LoopOK
  <2>4. f \in EntryRec /\ f # NoEntry /\ f.gen = e.gen + 1
    BY Zenon, <2>1 DEF EntryRec, Routes, NoEntry, Nobody
  <2>5. entry' = [entry EXCEPT ![k] = f]
    BY Zenon, <1>6 DEF BumpGeneration
  <2> HIDE DEF x, f, new
  <2>6. entry' \in [Namespace \X ActorId -> EntryRec] /\ \A j \in Namespace \X ActorId : entry'[j] = IF j = k THEN f ELSE entry[j]
    BY Zenon, <1>2, <1>3, <2>4, <2>5
  <2>7. PidsType' /\ \A b \in ActorId : b # a => actorPID'[b] = actorPID[b] /\ EntryQuiet(b)
    BY <1>1, <1>2, <2>6 DEF TypeInv, PidsType, EntryQuiet
  <2>8. LoopLeaves(a, x)
    BY Zenon, <1>2, <2>2, <2>3, <2>4, <2>6 DEF LoopLeaves, Fresh
  <2>9. loop' = [loop EXCEPT ![a][i] = x]
    BY Zenon, <1>6 DEF x
  <2> QED BY Zenon, <1>1, <1>4, <2>3, <2>7, <2>8, <2>9, RestartStepOK
<1> QED BY Zenon, <1>5, <1>6 DEF RestartBump

LEMMA RestartStoreOK ==
  ASSUME TypeInv, PidInv, NEW a \in ActorId, NEW i \in Instance, RestartStore(a, i)
  PROVE  StepOK
<1> DEFINE pid == loop[a][i].pid
           x == [loop[a][i] EXCEPT !.at = "hook"]
<1>1. /\ loop[a][i].at = "store" /\ GoLoop(a, i, "hook") /\ actorPID' = [actorPID EXCEPT ![a] = pid]
      /\ UNCHANGED <<current, status, closed, entry, byName, byActor, call, overlap>>
  BY Zenon DEF RestartStore, names
<1>2. pid \in PID /\ pid.id = a
  BY ZenonT(30), <1>1 DEF TypeInv, LoopsType, LoopOK
<1>3. x \in LoopRec /\ x.at = "hook" /\ loop' = [loop EXCEPT ![a][i] = x]
  BY ZenonT(30), <1>1, GoLoopForm DEF LoopSteps
<1> HIDE DEF x
<1>4. LoopOK(a, x) /\ loop[a][i].at \in BusyAt /\ x.at # "names"
  BY Zenon, <1>1, <1>3 DEF LoopOK, BusyAt
<1>5. /\ PidsType' /\ actorPID'[a] = pid
      /\ \A b \in ActorId : b # a => actorPID'[b] = actorPID[b] /\ EntryQuiet(b)
  BY Zenon, <1>1, <1>2, SameQuiet DEF TypeInv, PidsType
<1>6. a \notin overlap => LoopLeaves(a, x)
  <2>1. a \notin overlap => Fresh(entry, pid)
    BY Zenon, <1>1 DEF PidInv, Own
  <2> QED BY Zenon, <1>1, <1>3, <1>5, <2>1 DEF LoopLeaves
<1> QED BY Zenon, <1>1, <1>3, <1>4, <1>5, <1>6, RestartStepOK
-----------------------------------------------------------------------------
(* The inductive invariant, and the theorems.                              *)

LEMMA NextOK ==
  ASSUME TypeInv, PidInv, Next
  PROVE  StepOK
<1>1. ASSUME NEW c \in Client, ClientStep(c)
      PROVE  StepOK
  <2>1. ASSUME IssueKey(c, "issue_key", "issue_pid") \/ IssueKey(c, "name_issue_key", "name_issue_pid")
        PROVE  StepOK
    <3>1. "issue_pid" \in StoreSteps /\ "name_issue_pid" \in StoreSteps
      BY Zenon DEF StoreSteps
    <3>2. CASE IssueKey(c, "issue_key", "issue_pid")
      BY Zenon, <3>1, <3>2, IssueKeyOK
    <3>3. CASE IssueKey(c, "name_issue_key", "name_issue_pid")
      BY Zenon, <3>1, <3>3, IssueKeyOK
    <3> QED BY Zenon, <2>1, <3>2, <3>3
  <2>2. ASSUME \/ \E a \in ActorId, ns \in Namespace : IssuePID(c, a, ns)
               \/ IssueStore(c) \/ NameIssueStore(c) \/ NamePid(c) \/ NameRegister(c)
               \/ \E a \in ActorId, ns \in Namespace, n \in Name : RegisterName(c, a, ns, n)
        PROVE  StepOK
    BY Zenon, <2>2, IssuePIDOK, IssueStoreOK, NameIssueStoreOK, NamePidOK, NameRegisterOK, RegisterNameOK
  <2>3. ASSUME \/ \E a \in ActorId : Stop(c, a) \/ RemoveActor(c, a)
               \/ StopStatus(c) \/ StopLoad(c) \/ StopRoute(c) \/ StopNames(c)
               \/ RemoveId(c) \/ RemovePid(c) \/ RemoveKey(c)
        PROVE  StepOK
    BY Zenon, <2>3, StopOK, RemoveActorOK, StopStatusOK, StopLoadOK, StopRouteOK, StopNamesOK,
       RemoveIdOK, RemovePidOK, RemoveKeyOK
  <2> QED BY Zenon, <1>1, <2>1, <2>2, <2>3 DEF ClientStep
<1>2. ASSUME NEW a \in ActorId, NEW i \in Instance, ActorStep(a, i)
      PROVE  StepOK
  BY Zenon, <1>2, CreateActorOK, RestartBeginOK, RestartLoadOK, RestartRouteOK, RestartBumpOK, RestartStoreOK,
     RestartDoneOK, TerminateOK, TerminateNamesOK, LoopExitOK DEF ActorStep
<1> QED BY Zenon, <1>1, <1>2, UnregisterNameOK DEF Next

LEMMA NamesKept ==
  ASSUME TypeInv, NamesAgree, NameStep
  PROVE  NamesAgree'
<1>1. byName \in [Name -> PID \cup {NoName}] /\ byActor \in [ActorId -> SUBSET Name]
      /\ NoName.id \notin ActorId
  BY Zenon, NoPIDFacts DEF TypeInv, NamesType, NoName
<1>2. CASE UNCHANGED names
  BY Zenon, <1>2 DEF names, NamesAgree
<1>3. ASSUME NEW n \in Name, NEW pid \in PID, byName[n] = NoName, registerName(n, pid)
      PROVE  NamesAgree'
  <2>1. pid.id \in ActorId
    BY Zenon DEF PID
  <2>2. \A a \in ActorId : n \notin byActor[a]
    BY Zenon, <1>1, <1>3 DEF NamesAgree
  <2> QED BY <1>1, <1>3, <2>1, <2>2 DEF NamesAgree, registerName
<1>4. ASSUME NEW n \in Name, UnregisterName(n)
      PROVE  NamesAgree'
  <2>1. byName[n].id \in ActorId
    BY Zenon, <1>1, <1>4 DEF UnregisterName, PID
  <2> QED BY <1>1, <1>4, <2>1 DEF NamesAgree, UnregisterName, unregister
<1>5. ASSUME NEW a \in ActorId, unregisterByActor(a)
      PROVE  NamesAgree'
  BY Zenon, <1>1, <1>5 DEF NamesAgree, unregisterByActor
<1> QED BY Zenon, <1>2, <1>3, <1>4, <1>5 DEF NameStep

IInv == TypeInv /\ PidInv /\ NamesAgree

LEMMA InitHolds == Init => IInv
<1> SUFFICES ASSUME Init
             PROVE  IInv
  OBVIOUS
<1>1. CallsType
  <2>1. CallOK(Idle)
    BY Zenon DEF CallOK, Idle, PidSteps, IssueSteps, StopSteps, NameSteps
  <2> QED BY Zenon, <2>1, IdleRec DEF Init, CallsType
<1>2. LoopsType
  <2>1. \A a \in ActorId : LoopOK(a, [at |-> Nobody, pid |-> NoPID])
    BY Zenon DEF LoopOK, Nobody
  <2> QED BY Zenon, <2>1, EndedRec DEF Init, LoopsType, Nobody
<1>3. ActorsType /\ NamesType /\ overlap \subseteq ActorId
  BY BoundsAssumption DEF Init, ActorsType, NamesType, Statuses
<1>4. PidsType
  BY Zenon DEF Init, PidsType, EntryRec
<1>5. PidInv
  <2>1. \A a \in ActorId, i \in Instance : loop[a][i].at = Nobody
    BY Zenon DEF Init
  <2>2. \A c \in Client : call[c].at = "idle"
    BY Zenon DEF Init, Idle
  <2>3. \A a \in ActorId : actorPID[a] = NoPID
    BY Zenon DEF Init
  <2> QED BY Zenon, <2>1, <2>2, <2>3 DEF PidInv, Alone, Own, BusyAt, StoreSteps, Edit, RemoveSteps, IssueSteps, Nobody
<1>6. NamesAgree
  BY Zenon, NoPIDFacts DEF Init, NamesAgree, NoName
<1> QED BY Zenon, <1>1, <1>2, <1>3, <1>4, <1>5, <1>6 DEF IInv, TypeInv

LEMMA NextKeeps == IInv /\ [Next]_vars => IInv'
<1>1. ASSUME IInv, Next
      PROVE  IInv'
  <2>1. TypeInv /\ PidInv /\ NamesAgree
    BY Zenon, <1>1 DEF IInv
  <2>2. TypeInv' /\ NameStep /\ PidOK
    BY Zenon, <1>1, <2>1, NextOK DEF StepOK
  <2>3. NamesAgree'
    BY Zenon, <2>1, <2>2, NamesKept
  <2>4. PidInv'
    BY Zenon, <2>2 DEF PidOK, PidInv
  <2> QED BY Zenon, <2>2, <2>3, <2>4 DEF IInv
<1>2. ASSUME IInv, UNCHANGED vars
      PROVE  IInv'
  <2>1. UNCHANGED <<current, status, closed, loop, entry, actorPID, byName, byActor, call, overlap>>
    BY Zenon, <1>2 DEF vars, names
  <2>2. TypeInv' /\ NamesAgree'
    BY Zenon, <1>2, <2>1 DEF IInv, TypeInv, CallsType, LoopsType, ActorsType, PidsType, NamesType, NamesAgree
  <2>3. PidInv'
    BY Zenon, <1>2, <2>1 DEF IInv, PidInv
  <2> QED BY Zenon, <2>2, <2>3 DEF IInv
<1> QED BY Zenon, <1>1, <1>2

\* IInv is an invariant of the directory, for any actors, names and clients.
LEMMA Invariance == Spec => []IInv
BY InitHolds, NextKeeps, PTL DEF Spec

\* The two maps of namedRegistry agree, in whatever order the accesses of
\* registrations, unregistrations, stops and ends of actors come.
THEOREM DirectoryNamesAgree == Spec => []NamesAgree
<1>1. IInv => NamesAgree
  BY Zenon DEF IInv
<1> QED BY <1>1, Invariance, PTL

\* Only UnregisterName or the end of an instance of its owner takes a name away.
THEOREM DirectoryRestartKeepsName == Spec => RestartKeepsName
<1> DEFINE Kept == \A n \in Name : byName[n] # NoName /\ byName'[n] # byName[n]
                     => \/ UnregisterName(n)
                        \/ \E i \in Instance : i \in closed'[byName[n].id]
<1>1. ASSUME IInv, Next
      PROVE  Kept
  <2>1. NameStep /\ NamesAgree /\ byName \in [Name -> PID \cup {NoName}]
    BY Zenon, <1>1, NextOK DEF IInv, StepOK, TypeInv, NamesType
  <2>2. CASE UNCHANGED names
    BY Zenon, <2>2 DEF names
  <2>3. ASSUME NEW n \in Name, NEW pid \in PID, byName[n] = NoName, registerName(n, pid)
        PROVE  Kept
    BY Zenon, <2>1, <2>3 DEF registerName
  <2>4. ASSUME NEW n \in Name, UnregisterName(n)
        PROVE  Kept
    <3>1. \A m \in Name : m # n => byName'[m] = byName[m]
      BY Zenon, <2>1, <2>4 DEF UnregisterName, unregister
    <3> QED BY Zenon, <2>4, <3>1
  <2>5. ASSUME NEW a \in ActorId, unregisterByActor(a), NEW i \in Instance, i \in closed'[a]
        PROVE  Kept
    BY Zenon, <2>1, <2>5 DEF unregisterByActor, NamesAgree
  <2> HIDE DEF Kept
  <2> QED BY Zenon, <2>1, <2>2, <2>3, <2>4, <2>5 DEF NameStep
<1>2. IInv /\ [Next]_vars => [Kept]_vars
  BY Zenon, <1>1
<1> QED BY <1>2, Invariance, PTL DEF Spec, RestartKeepsName

\* The PID of an actor is known to the resolver, at its generation, when no call
\* and no restart changes it and no two ever did at once.
THEOREM DirectoryPidCurrent == Spec => []PidCurrent
<1>1. ASSUME IInv
      PROVE  PidCurrent
  <2> SUFFICES ASSUME NEW a \in ActorId, a \notin overlap, ~Restarting(a), ~Changing(a), actorPID[a] # NoPID
               PROVE  SendPID(actorPID[a], FALSE) \in {"delivered", "rejected_stopped"}
    BY Zenon DEF PidCurrent
  <2>1. /\ \A i \in Instance : loop[a][i].at # "store"
        /\ \A c \in Client : ~(call[c].id = a /\ call[c].at \in StoreSteps)
    BY Zenon DEF Restarting, Changing, StoreSteps, IssueSteps
  <2>2. entry[Key(actorPID[a])] # NoEntry /\ entry[Key(actorPID[a])].gen = actorPID[a].gen
    BY <1>1, <2>1 DEF IInv, PidInv, Own, Fresh
  <2> QED BY Zenon, <2>2 DEF SendPID
<1> QED BY <1>1, Invariance, PTL
=============================================================================
