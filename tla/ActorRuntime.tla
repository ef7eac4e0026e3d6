---------------------------- MODULE ActorRuntime ----------------------------
(***************************************************************************)
(* The life of an actor in runtime.go.  CreateActor registers an instance  *)
(* and starts its goroutine, runActor: start hook, then a select over the  *)
(* instance's context and its mailbox, an inner loop that drains the       *)
(* mailbox (one message or a batch at a time), and the supervision of a    *)
(* failed handler (restart, stop or escalate).  Any number of client       *)
(* goroutines call Send, Stop, StopAndCapture, RemoveActor, Monitor,       *)
(* Demonitor, ConfigureBatching and DisableBatching meanwhile.  No lock    *)
(* spans one of those calls: each reads the registry and the instance's    *)
(* status, and acts on what it read later, so each is a sequence of steps. *)
(*                                                                         *)
(* An actor id may be reused after RemoveActor; an instance is one         *)
(* actorInstance, and the goroutine and the calls that hold it keep it     *)
(* after the id names another.                                             *)
(***************************************************************************)
EXTENDS Naturals, Sequences, FiniteSets, FifoMailbox

CONSTANTS
  ActorId, Instance, Client, Ref,
  NoInstance,     \* the nil *actorInstance
  Capacity,       \* the mailbox capacity of every actor
  MaxBatch,       \* BatchConfig.MaxSize where batching is enabled
  MaxRestarts,    \* DefaultSupervisor.MaxRestarts
  MaxSends, MaxStops, MaxCaptures, MaxRemoves   \* bounds: calls in a behaviour

ASSUME NoneIsNoId == "none" \notin ActorId
ASSUME NoInstanceAssumption == NoInstance \notin Instance
ASSUME CapacityAssumption == Capacity \in Nat \ {0}
ASSUME MaxBatchAssumption == MaxBatch \in Nat \ {0, 1}
ASSUME MaxRestartsAssumption == MaxRestarts \in Nat
ASSUME BoundsAssumption == {MaxSends, MaxStops, MaxCaptures, MaxRemoves} \subseteq Nat

VARIABLES
  registry,   \* actorRegistry.actors
  inst,       \* the fields of each actorInstance: id, status, ctxDone,
              \* restarts, state (how many messages it reflects), batch
  mailbox,    \* each instance's mailbox
  loop,       \* where each instance's goroutine is
  inflight,   \* the messages it has taken and not handled yet
  pc, target, msg,   \* where each client call is, the instance it holds, and
                     \* the message it sends
  monitor,    \* monitorManager: what each reference watches, and its status
  accepted, handled,   \* history: what each mailbox accepted, and handlers saw
  captured,   \* history: the states StopAndCapture read, per instance
  returned,   \* history: the instances some Stop returned StopStopped for
  calls       \* the calls made so far

vars == <<registry, inst, mailbox, loop, inflight, pc, target, msg, monitor,
          accepted, handled, captured, returned, calls>>

goroutine == <<loop, inflight, handled>>
client    == <<pc, target, msg, captured, returned>>
-----------------------------------------------------------------------------
Statuses == {"Starting", "Running", "Restarting", "Stopping", "Stopped"}

\* A slip: one restart too many.
Decide_OneMore(restarts) == IF restarts <= MaxRestarts THEN "Restart" ELSE "Stop"

\* DefaultSupervisor.Decide; Stop and Escalate end the actor alike.
Decide(restarts) == IF restarts < MaxRestarts THEN "Restart" ELSE "Stop"

\* The actorInstance of CreateActor; its fields before it exists are never read.
NewInstance(a, batch) == [id |-> a, status |-> "Starting", ctxDone |-> FALSE,
                          restarts |-> 0, state |-> 0, batch |-> batch]

SetStatus(i, s) == inst' = [inst EXCEPT ![i].status = s]

\* status.Store(Stopped), cancel and mailbox.Close, in the order of the call
\* site.  A send between two of them is one before all of them: the mailbox is
\* still open and the goroutine may already be leaving its select.
Terminate(i) ==
  /\ inst' = [inst EXCEPT ![i].status = "Stopped", ![i].ctxDone = TRUE]
  /\ mailbox' = [mailbox EXCEPT ![i] = Close(@)]

\* A slip: draining forgets the monitors instead of reporting them.
NotifyMonitors_Nobody(a) == UNCHANGED monitor

\* notifyMonitors: every monitor of the id is removed and its watcher told.
NotifyMonitors(a) ==
  monitor' = [r \in Ref |->
    IF monitor[r].status = "active" /\ monitor[r].id = a
    THEN [monitor[r] EXCEPT !.status = "down"] ELSE monitor[r]]
-----------------------------------------------------------------------------
Init ==
  /\ registry = [a \in ActorId |-> NoInstance]
  /\ inst = [i \in Instance |-> NewInstance("none", FALSE)]
  /\ mailbox = [i \in Instance |-> NewMailbox]
  /\ loop = [i \in Instance |-> "none"]
  /\ inflight = [i \in Instance |-> <<>>]
  /\ pc = [c \in Client |-> "idle"]
  /\ target = [c \in Client |-> NoInstance]
  /\ msg = [c \in Client |-> 0]
  /\ monitor = [r \in Ref |-> [status |-> "unused", id |-> "none", inst |-> NoInstance]]
  /\ accepted = [i \in Instance |-> <<>>]
  /\ handled = [i \in Instance |-> <<>>]
  /\ captured = [i \in Instance |-> {}]
  /\ returned = {}
  /\ calls = [send |-> 0, stop |-> 0, stopAndCapture |-> 0, remove |-> 0]

\* CreateActor of an id that is not registered; the goroutine is started.
CreateActor(a, i, batch) ==
  /\ registry[a] = NoInstance
  /\ loop[i] = "none"
  /\ registry' = [registry EXCEPT ![a] = i]
  /\ inst' = [inst EXCEPT ![i] = NewInstance(a, batch)]
  /\ loop' = [loop EXCEPT ![i] = "start"]
  /\ UNCHANGED <<mailbox, inflight, client, monitor, accepted, handled, calls>>
-----------------------------------------------------------------------------
(* The goroutine: runActor, processBatch, processMessage.                  *)

StartHookOk(i) ==
  /\ loop[i] = "start"
  /\ SetStatus(i, "Running")
  /\ loop' = [loop EXCEPT ![i] = "select"]
  /\ UNCHANGED <<registry, mailbox, inflight, client, monitor, accepted, handled, calls>>

\* A failed or panicking start hook ends the actor, without the clean-up.
StartHookFailed(i) ==
  /\ loop[i] = "start"
  /\ Terminate(i)
  /\ loop' = [loop EXCEPT ![i] = "failed"]
  /\ UNCHANGED <<registry, inflight, client, monitor, accepted, handled, calls>>

\* A slip: the goroutine leaves without storing the final status.
SelectDone_NoStatus(i) ==
  /\ loop[i] = "select"
  /\ inst[i].ctxDone
  /\ loop' = [loop EXCEPT ![i] = "done"]
  /\ UNCHANGED <<registry, inst, mailbox, inflight, client, monitor, accepted, handled, calls>>

SelectDone(i) ==
  /\ loop[i] = "select"
  /\ inst[i].ctxDone
  /\ SetStatus(i, "Stopped")
  /\ loop' = [loop EXCEPT ![i] = "done"]
  /\ UNCHANGED <<registry, mailbox, inflight, client, monitor, accepted, handled, calls>>

SelectNotify(i) ==
  /\ loop[i] = "select"
  /\ mailbox[i].notify
  /\ mailbox' = [mailbox EXCEPT ![i] = TakeNotify(@)]
  /\ loop' = [loop EXCEPT ![i] = "drain"]
  /\ UNCHANGED <<registry, inst, inflight, client, monitor, accepted, handled, calls>>

\* One turn of the inner loop: a batch or one message, or back to the select.
Drain(i) ==
  LET limit == IF inst[i].batch THEN MaxBatch ELSE 1
  IN  /\ loop[i] = "drain"
      /\ mailbox' = [mailbox EXCEPT ![i] = Dequeue(@, limit)]
      /\ inflight' = [inflight EXCEPT ![i] = Batch(mailbox[i], limit)]
      /\ loop' = [loop EXCEPT ![i] = IF mailbox[i].queue = <<>> THEN "select"
                                     ELSE IF inst[i].batch THEN "batch" ELSE "each"]
      /\ UNCHANGED <<registry, inst, client, monitor, accepted, handled, calls>>

\* processBatch reads the configuration again: batching may be off by now, or be
\* configured without a receiver, and then the messages are handled one by one.
ReadBatchConfig(i) ==
  /\ loop[i] = "batch"
  /\ \E place \in (IF inst[i].batch THEN {"whole", "each"} ELSE {"each"}) :
       loop' = [loop EXCEPT ![i] = place]
  /\ UNCHANGED <<registry, inst, mailbox, inflight, client, monitor, accepted, handled, calls>>

\* The messages one handler call covers, and those the goroutine holds after it.
Now(i)   == IF loop[i] = "whole" THEN inflight[i] ELSE SubSeq(inflight[i], 1, 1)
Later(i) == IF loop[i] = "whole" THEN <<>> ELSE Tail(inflight[i])

\* Where the goroutine goes when a message or a batch is done with.
Continue(rest) == IF rest = <<>> THEN "drain" ELSE "each"

Handle(i) ==
  /\ loop[i] \in {"each", "whole"}
  /\ handled' = [handled EXCEPT ![i] = @ \o Now(i)]
  /\ inflight' = [inflight EXCEPT ![i] = Later(i)]

HandlerOk(i) ==
  /\ Handle(i)
  /\ inst' = [inst EXCEPT ![i].state = @ + Len(Now(i))]
  /\ loop' = [loop EXCEPT ![i] = Continue(Later(i))]
  /\ UNCHANGED <<registry, mailbox, client, monitor, accepted, calls>>

\* The handler returned an error or panicked and the supervisor restarts the
\* actor: the state is the initial one again, the mailbox is kept, and the
\* start hook runs next.
HandlerFailedRestart(i) ==
  /\ Handle(i)
  /\ Decide(inst[i].restarts) = "Restart"
  /\ inst' = [inst EXCEPT ![i].status = "Restarting", ![i].restarts = @ + 1,
                          ![i].state = 0]
  /\ loop' = [loop EXCEPT ![i] = "restart"]
  /\ UNCHANGED <<registry, mailbox, client, monitor, accepted, calls>>

\* A slip: the rest of the batch is dropped with the actor.
HandlerFailedStop_DropRest(i) ==
  /\ loop[i] \in {"each", "whole"}
  /\ handled' = [handled EXCEPT ![i] = @ \o Now(i)]
  /\ inflight' = [inflight EXCEPT ![i] = <<>>]
  /\ Decide(inst[i].restarts) = "Stop"
  /\ Terminate(i)
  /\ loop' = [loop EXCEPT ![i] = "cleanup"]
  /\ UNCHANGED <<registry, client, monitor, accepted, calls>>

HandlerFailedStop(i) ==
  /\ Handle(i)
  /\ Decide(inst[i].restarts) = "Stop"
  /\ Terminate(i)
  /\ loop' = [loop EXCEPT ![i] = "cleanup"]
  /\ UNCHANGED <<registry, client, monitor, accepted, calls>>

\* A slip: after a restart the goroutine goes back to its select at once.
RestartHookOk_ToSelect(i) ==
  /\ loop[i] = "restart"
  /\ SetStatus(i, "Running")
  /\ loop' = [loop EXCEPT ![i] = "select"]
  /\ UNCHANGED <<registry, mailbox, inflight, client, monitor, accepted, handled, calls>>

RestartHookOk(i) ==
  /\ loop[i] = "restart"
  /\ SetStatus(i, "Running")
  /\ loop' = [loop EXCEPT ![i] = Continue(inflight[i])]
  /\ UNCHANGED <<registry, mailbox, inflight, client, monitor, accepted, handled, calls>>

RestartHookFailed(i) ==
  /\ loop[i] = "restart"
  /\ Terminate(i)
  /\ loop' = [loop EXCEPT ![i] = "cleanup"]
  /\ UNCHANGED <<registry, inflight, client, monitor, accepted, handled, calls>>

\* cleanupRegistryForActor; the goroutine then goes on with what it holds, and
\* with the mailbox, before its select sees the cancelled context.
Cleanup(i) ==
  /\ loop[i] = "cleanup"
  /\ NotifyMonitors(inst[i].id)
  /\ loop' = [loop EXCEPT ![i] = Continue(inflight[i])]
  /\ UNCHANGED <<registry, inst, mailbox, inflight, client, accepted, handled, calls>>
-----------------------------------------------------------------------------
(* The client calls.                                                       *)

Goto(c, l) == pc' = [pc EXCEPT ![c] = l]

Begin(c, l, i) == pc[c] = "idle" /\ Goto(c, l) /\ target' = [target EXCEPT ![c] = i]

Return(c) ==
  /\ Goto(c, "idle")
  /\ target' = [target EXCEPT ![c] = NoInstance]
  /\ msg' = [msg EXCEPT ![c] = 0]

\* Send: the registry is read and the message gets its number.
Send(c, a) ==
  /\ calls.send < MaxSends
  /\ registry[a] # NoInstance
  /\ calls' = [calls EXCEPT !.send = @ + 1]
  /\ Begin(c, "send", registry[a])
  /\ msg' = [msg EXCEPT ![c] = calls.send + 1]
  /\ UNCHANGED <<registry, inst, mailbox, goroutine, monitor, accepted, captured, returned>>

\* The status is read; a stopped actor, or the actor's routing rules, reject.
SendRejected(c) ==
  /\ pc[c] = "send"
  /\ Return(c)
  /\ UNCHANGED <<registry, inst, mailbox, goroutine, monitor, accepted, captured, returned, calls>>

SendRouted(c) ==
  /\ pc[c] = "send"
  /\ inst[target[c]].status # "Stopped"
  /\ Goto(c, "enqueue")
  /\ UNCHANGED <<registry, inst, mailbox, goroutine, target, msg, monitor, accepted,
                 captured, returned, calls>>

SendEnqueue(c) ==
  LET i == target[c]
  IN  /\ pc[c] = "enqueue"
      /\ mailbox' = [mailbox EXCEPT ![i] = Enqueue(@, Capacity, msg[c])]
      /\ accepted' = [accepted EXCEPT ![i] =
                        IF EnqueueResult(mailbox[i], Capacity) = "Accepted"
                        THEN Append(@, msg[c]) ELSE @]
      /\ Return(c)
      /\ UNCHANGED <<registry, inst, goroutine, monitor, captured, returned, calls>>

\* Stop and StopAndCapture: the instance is read from the registry, ...
Stop(c, a) ==
  /\ calls.stop < MaxStops
  /\ registry[a] # NoInstance
  /\ calls' = [calls EXCEPT !.stop = @ + 1]
  /\ Begin(c, "stop", registry[a])
  /\ UNCHANGED <<registry, inst, mailbox, goroutine, msg, monitor, accepted, captured, returned>>

StopAndCapture(c, a) ==
  /\ calls.stopAndCapture < MaxCaptures
  /\ registry[a] # NoInstance
  /\ calls' = [calls EXCEPT !.stopAndCapture = @ + 1]
  /\ Begin(c, "stopAndCapture", registry[a])
  /\ UNCHANGED <<registry, inst, mailbox, goroutine, msg, monitor, accepted, captured, returned>>

\* Status(actorID) reads the registry a second time.
StatusNow(a) == IF registry[a] = NoInstance THEN "Stopped" ELSE inst[registry[a]].status

\* ... the status of the id is read (a call on a stopped one returns) ...
StopAlready(c) ==
  /\ pc[c] \in {"stop", "stopAndCapture"}
  /\ StatusNow(inst[target[c]].id) = "Stopped"
  /\ Return(c)
  /\ UNCHANGED <<registry, inst, mailbox, goroutine, monitor, accepted, captured, returned, calls>>

StopProceeds(c) ==
  /\ pc[c] \in {"stop", "stopAndCapture"}
  /\ StatusNow(inst[target[c]].id) # "Stopped"
  /\ Goto(c, IF pc[c] = "stop" THEN "stopping" ELSE "stoppingToCapture")
  /\ UNCHANGED <<registry, inst, mailbox, goroutine, target, msg, monitor, accepted,
                 captured, returned, calls>>

\* ... Stopping is stored, ...
StopStoring(c) ==
  /\ pc[c] \in {"stopping", "stoppingToCapture"}
  /\ SetStatus(target[c], "Stopping")
  /\ Goto(c, IF pc[c] = "stopping" THEN "stopHook" ELSE "capture")
  /\ UNCHANGED <<registry, mailbox, goroutine, target, msg, monitor, accepted,
                 captured, returned, calls>>

\* ... StopAndCapture reads the state under the instance's mutex, ...
Capture(c) ==
  /\ pc[c] = "capture"
  /\ captured' = [captured EXCEPT ![target[c]] = @ \cup {inst[target[c]].state}]
  /\ Goto(c, "stopHook")
  /\ UNCHANGED <<registry, inst, mailbox, goroutine, target, msg, monitor, accepted,
                 returned, calls>>

\* ... the stop hook ends, fails or times out, and the actor is stopped: first
\* its status, ...
StopHookEnded(c) ==
  /\ pc[c] = "stopHook"
  /\ SetStatus(target[c], "Stopped")
  /\ Goto(c, "cancel")
  /\ UNCHANGED <<registry, mailbox, goroutine, target, msg, monitor, accepted,
                 captured, returned, calls>>

\* A slip: Stop relies on the status alone and leaves the mailbox open.
StopCancel_LeaveOpen(c) ==
  /\ pc[c] = "cancel"
  /\ inst' = [inst EXCEPT ![target[c]].ctxDone = TRUE]
  /\ Goto(c, "cleanup")
  /\ UNCHANGED <<registry, mailbox, goroutine, target, msg, monitor, accepted, captured,
                 returned, calls>>

\* ... then its context and its mailbox, ...
StopCancel(c) ==
  /\ pc[c] = "cancel"
  /\ inst' = [inst EXCEPT ![target[c]].ctxDone = TRUE]
  /\ mailbox' = [mailbox EXCEPT ![target[c]] = Close(@)]
  /\ Goto(c, "cleanup")
  /\ UNCHANGED <<registry, goroutine, target, msg, monitor, accepted, captured,
                 returned, calls>>

\* ... and cleanupRegistryForActor tells the monitors of the id.
StopCleanup(c) ==
  /\ pc[c] = "cleanup"
  /\ NotifyMonitors(inst[target[c]].id)
  /\ returned' = returned \cup {target[c]}
  /\ Return(c)
  /\ UNCHANGED <<registry, inst, mailbox, goroutine, accepted, captured, calls>>

\* RemoveActor of a stopped actor; the instance read is the one checked, the
\* id is what is removed.
RemoveActor(c, a) ==
  /\ calls.remove < MaxRemoves
  /\ registry[a] # NoInstance
  /\ inst[registry[a]].status = "Stopped"
  /\ calls' = [calls EXCEPT !.remove = @ + 1]
  /\ Begin(c, "remove", registry[a])
  /\ UNCHANGED <<registry, inst, mailbox, goroutine, msg, monitor, accepted, captured, returned>>

RemoveFromRegistry(c) ==
  /\ pc[c] = "remove"
  /\ registry' = [registry EXCEPT ![inst[target[c]].id] = NoInstance]
  /\ Return(c)
  /\ UNCHANGED <<inst, mailbox, goroutine, monitor, accepted, captured, returned, calls>>

\* ConfigureBatching and DisableBatching.
ConfigureBatching(a, on) ==
  /\ registry[a] # NoInstance
  /\ inst' = [inst EXCEPT ![registry[a]].batch = on]
  /\ UNCHANGED <<registry, mailbox, goroutine, client, monitor, accepted, calls>>

\* Monitor takes a new reference; the model notes the live instance the id named.
Monitor(r, a) ==
  /\ monitor[r].status = "unused"
  /\ monitor' = [monitor EXCEPT ![r] =
       [status |-> "active", id |-> a,
        inst |-> IF registry[a] # NoInstance /\ ~inst[registry[a]].ctxDone
                 THEN registry[a] ELSE NoInstance]]
  /\ UNCHANGED <<registry, inst, mailbox, goroutine, client, accepted, calls>>

Demonitor(r) ==
  /\ monitor[r].status = "active"
  /\ monitor' = [monitor EXCEPT ![r].status = "removed"]
  /\ UNCHANGED <<registry, inst, mailbox, goroutine, client, accepted, calls>>
-----------------------------------------------------------------------------
RunActor(i) ==
  \/ StartHookOk(i) \/ StartHookFailed(i)
  \/ SelectDone(i) \/ SelectNotify(i)
  \/ Drain(i) \/ ReadBatchConfig(i)
  \/ HandlerOk(i) \/ HandlerFailedRestart(i) \/ HandlerFailedStop(i)
  \/ RestartHookOk(i) \/ RestartHookFailed(i) \/ Cleanup(i)

Proceed(c) ==
  \/ SendRejected(c) \/ SendRouted(c) \/ SendEnqueue(c)
  \/ StopAlready(c) \/ StopProceeds(c) \/ StopStoring(c) \/ Capture(c)
  \/ StopHookEnded(c) \/ StopCancel(c) \/ StopCleanup(c)
  \/ RemoveFromRegistry(c)

Next ==
  \/ \E i \in Instance : RunActor(i)
  \/ \E c \in Client : Proceed(c)
  \/ \E a \in ActorId, i \in Instance, b \in BOOLEAN : CreateActor(a, i, b)
  \/ \E c \in Client, a \in ActorId : Send(c, a)
  \/ \E c \in Client, a \in ActorId : Stop(c, a)
  \/ \E c \in Client, a \in ActorId : StopAndCapture(c, a)
  \/ \E c \in Client, a \in ActorId : RemoveActor(c, a)
  \/ \E a \in ActorId, b \in BOOLEAN : ConfigureBatching(a, b)
  \/ \E r \in Ref, a \in ActorId : Monitor(r, a)
  \/ \E r \in Ref : Demonitor(r)

Spec == Init /\ [][Next]_vars

\* The Go scheduler runs every goroutine that can run, and handlers, hooks and
\* routing calls return: the fairness of one step of a goroutine, or of a call.
Fairness ==
  /\ \A i \in Instance : WF_vars(RunActor(i))
  /\ \A c \in Client : WF_vars(Proceed(c))

FairSpec == Spec /\ Fairness
-----------------------------------------------------------------------------
InstanceFields ==
  [id : ActorId \cup {"none"}, status : Statuses, ctxDone : BOOLEAN,
   restarts : 0..MaxRestarts, state : Nat, batch : BOOLEAN]

GoroutinePlaces == {"none", "start", "failed", "select", "drain", "batch", "each",
                    "whole", "restart", "cleanup", "done"}

CallPlaces == {"idle", "send", "enqueue", "stop", "stopAndCapture", "stopping",
               "stoppingToCapture", "capture", "stopHook", "cancel", "cleanup", "remove"}

InstancesOK ==
  /\ registry \in [ActorId -> Instance \cup {NoInstance}]
  /\ inst \in [Instance -> InstanceFields]
  /\ \A a \in ActorId : registry[a] # NoInstance => inst[registry[a]].id = a
  /\ \A i \in Instance : inst[i].id = "none" <=> loop[i] = "none"

GoroutinesOK ==
  /\ mailbox \in [Instance -> [queue : Seq(Nat), notify : BOOLEAN, closed : BOOLEAN]]
  /\ loop \in [Instance -> GoroutinePlaces]
  /\ inflight \in [Instance -> Seq(Nat)]
  /\ accepted \in [Instance -> Seq(Nat)]
  /\ handled \in [Instance -> Seq(Nat)]

CallsOK ==
  /\ pc \in [Client -> CallPlaces]
  /\ target \in [Client -> Instance \cup {NoInstance}]
  /\ msg \in [Client -> Nat]
  /\ captured \in [Instance -> SUBSET Nat]
  /\ returned \subseteq Instance
  /\ calls \in [send : Nat, stop : Nat, stopAndCapture : Nat, remove : Nat]
  /\ \A c \in Client : target[c] = NoInstance <=> pc[c] = "idle"

MonitorsOK ==
  monitor \in [Ref -> [status : {"unused", "active", "down", "removed"},
                       id : ActorId \cup {"none"}, inst : Instance \cup {NoInstance}]]

\* The types; an actor is never restarted more often than the policy allows, a
\* call in progress holds an instance, and a registered instance has that id.
TypeOK == InstancesOK /\ GoroutinesOK /\ CallsOK /\ MonitorsOK

\* No accepted message is lost, repeated or overtaken: what an instance accepted
\* is what its handlers saw, then what the goroutine holds, then what waits, in
\* that order, across failures, restarts, batches, changes of the batch
\* configuration, and stops.
AcceptanceOrder ==
  \A i \in Instance : accepted[i] = handled[i] \o inflight[i] \o mailbox[i].queue

\* The goroutine's own writes of the status cannot leave a finished actor with
\* another status than Stopped, unless a Stop is at its stop hook: Stop writes
\* the status without a lock, and may do so after the goroutine is gone.
TerminalStatus ==
  \A i \in Instance :
    /\ loop[i] \in {"done", "failed"}
    /\ \A c \in Client : target[c] = i => pc[c] \notin {"capture", "stopHook"}
    => inst[i].status = "Stopped"

\* A monitor placed on an instance before its context is cancelled has fired (or
\* was removed) when the goroutine is gone and no Stop of it is still running.
MonitorsReported ==
  \A i \in Instance, r \in Ref :
    /\ loop[i] = "done"
    /\ \A c \in Client : target[c] = i => pc[c] # "cleanup"
    => ~(monitor[r].status = "active" /\ monitor[r].inst = i)

\* After a Stop of an instance returned StopStopped, it accepts nothing more,
\* although a Send that read its status before may be about to enqueue, and a
\* restart in progress may still write Running.
StopIsFinal == [][\A i \in returned : accepted'[i] = accepted[i]]_vars

\* An actor whose context is cancelled comes to rest: its goroutine ends and its
\* status is Stopped for good.
CancelledEnds ==
  \A i \in Instance :
    inst[i].ctxDone ~> [](loop[i] \in {"done", "failed"} /\ inst[i].status = "Stopped")

\* Every accepted message is handled, unless the actor is cancelled.
AcceptedHandled ==
  \A i \in Instance, n \in 1..MaxSends :
    (\E k \in DOMAIN accepted[i] : accepted[i][k] = n)
      ~> (inst[i].ctxDone \/ \E k \in DOMAIN handled[i] : handled[i][k] = n)

\* The doc of StopAndCapture: the captured state is the final one, "no message
\* can interleave between capture and stop".
CapturedIsFinal == \A i \in Instance : captured[i] \subseteq {inst[i].state}

\* The doc of notifyMonitors: it is called "when an actor stops for any reason",
\* so a monitor of an instance whose goroutine is gone has fired.
AnyStopReported ==
  \A i \in Instance, r \in Ref :
    /\ loop[i] \in {"done", "failed"}
    /\ \A c \in Client : target[c] # i
    => ~(monitor[r].status = "active" /\ monitor[r].inst = i)
=============================================================================
