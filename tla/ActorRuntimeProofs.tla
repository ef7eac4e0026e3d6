------------------------- MODULE ActorRuntimeProofs -------------------------
(***************************************************************************)
(* Proofs, for every number of actors, instances, clients, monitors and    *)
(* calls, and every capacity, batch size and restart limit, of the safety  *)
(* properties of module ActorRuntime.  The inductive invariant IInv adds   *)
(* three things to them: when the goroutine holds messages (InflightShape),*)
(* which mailboxes are closed (ClosedShape), and who still has to tell the *)
(* monitors of a cancelled instance (MonitorShape).                        *)
(***************************************************************************)
EXTENDS ActorRuntime, SequenceTheorems, TLAPS

InflightShape ==
  \A i \in Instance :
    /\ loop[i] \in {"none", "start", "failed", "select", "drain", "done"} => inflight[i] = <<>>
    /\ loop[i] \in {"batch", "each", "whole"} => inflight[i] # <<>>

ClosedShape ==
  /\ \A i \in returned : mailbox[i].closed
  /\ \A c \in Client : pc[c] = "cleanup" => mailbox[target[c]].closed

MonitorShape ==
  /\ \A i \in Instance : loop[i] = "done" => inst[i].ctxDone
  /\ \A r \in Ref : monitor[r].status = "active" /\ monitor[r].inst # NoInstance
       => /\ inst[monitor[r].inst].id = monitor[r].id /\ monitor[r].id \in ActorId
          /\ inst[monitor[r].inst].ctxDone =>
               \/ loop[monitor[r].inst] \in {"cleanup", "failed"}
               \/ \E c \in Client : pc[c] = "cleanup" /\ target[c] = monitor[r].inst
-----------------------------------------------------------------------------
\* Taking a batch splits the queue in two, and so does taking the first message.
LEMMA SplitQueue ==
  ASSUME NEW q \in Seq(Nat), NEW k \in 0..Len(q)
  PROVE  /\ SubSeq(q, 1, k) \in Seq(Nat)
         /\ SubSeq(q, k + 1, Len(q)) \in Seq(Nat)
         /\ SubSeq(q, 1, k) \o SubSeq(q, k + 1, Len(q)) = q
         /\ k > 0 => SubSeq(q, 1, k) # <<>>
         /\ k = 0 => SubSeq(q, 1, k) = <<>>
  <1> DEFINE front == SubSeq(q, 1, k)
             back  == SubSeq(q, k + 1, Len(q))
  <1>1. front \in Seq(Nat) /\ Len(front) = k /\ \A j \in 1..k : front[j] = q[j]
    BY SubSeqProperties, ElementOfSeq
  <1>2. back \in Seq(Nat) /\ Len(back) = Len(q) - k
        /\ \A j \in 1..(Len(q) - k) : back[j] = q[k + j]
    BY SubSeqProperties, ElementOfSeq
  <1> HIDE DEF front, back
  <1>3. front \o back \in Seq(Nat) /\ Len(front \o back) = Len(q)
        /\ \A j \in 1..Len(q) : (front \o back)[j] = IF j <= k THEN front[j] ELSE back[j - k]
    <2>1. /\ front \o back \in Seq(Nat) /\ Len(front \o back) = Len(front) + Len(back)
          /\ \A j \in 1..Len(front) + Len(back) :
               (front \o back)[j] = IF j <= Len(front) THEN front[j] ELSE back[j - Len(front)]
      BY Zenon, <1>1, <1>2, ConcatProperties
    <2>2. Len(front) + Len(back) = Len(q)
      BY <1>1, <1>2
    <2> QED BY Zenon, <1>1, <2>1, <2>2
  <1>4. \A j \in 1..Len(q) : (front \o back)[j] = q[j]
    BY SMTT(30), <1>1, <1>2, <1>3
  <1>5. front \o back = q
    BY Zenon, <1>3, <1>4, SeqEqual
  <1>6. k > 0 => front # <<>>
    BY <1>1, EmptySeq
  <1>7. k = 0 => front = <<>>
    BY Zenon, <1>1, EmptySeq
  <1> QED BY Zenon, <1>1, <1>2, <1>5, <1>6, <1>7 DEF front, back

LEMMA SplitFirst ==
  ASSUME NEW q \in Seq(Nat), q # <<>>
  PROVE  /\ SubSeq(q, 1, 1) \in Seq(Nat)
         /\ Tail(q) \in Seq(Nat)
         /\ SubSeq(q, 1, 1) \o Tail(q) = q
  <1>1. Len(q) \in Nat /\ Len(q) > 0
    BY EmptySeq, LenProperties
  <1>2. Tail(q) = SubSeq(q, 2, Len(q))
    BY Zenon, TailIsSubSeq
  <1>3. 1 \in 0..Len(q)
    BY <1>1
  <1> QED BY <1>2, <1>3, SplitQueue

\* Concatenation of message sequences is associative.
LEMMA Associative ==
  \A s, t, u \in Seq(Nat) : (s \o t) \o u = s \o (t \o u)
BY SMTT(30), ConcatAssociative

\* The type of a mailbox.
Boxes == [queue : Seq(Nat), notify : BOOLEAN, closed : BOOLEAN]

LEMMA DequeueFacts ==
  ASSUME NEW m \in Boxes, NEW limit \in Nat \ {0}
  PROVE  /\ Dequeue(m, limit) \in Boxes
         /\ Dequeue(m, limit).closed = m.closed
         /\ Batch(m, limit) \in Seq(Nat)
         /\ Batch(m, limit) \o Dequeue(m, limit).queue = m.queue
         /\ Batch(m, limit) = <<>> <=> m.queue = <<>>
  <1> DEFINE k == Taken(m, limit)
  <1>1. m.queue \in Seq(Nat) /\ Len(m.queue) \in Nat
        /\ (Len(m.queue) = 0 <=> m.queue = <<>>)
    BY Zenon, EmptySeq, LenProperties DEF Boxes
  <1>2. k \in 0..Len(m.queue) /\ (k = 0 <=> m.queue = <<>>)
    BY <1>1 DEF Taken
  <1> HIDE DEF k
  <1>3. k \in Nat /\ (k > 0 \/ k = 0)
    BY <1>1, <1>2
  <1> DEFINE front == SubSeq(m.queue, 1, k)
             back  == SubSeq(m.queue, k + 1, Len(m.queue))
  <1>4. /\ front \in Seq(Nat) /\ back \in Seq(Nat) /\ front \o back = m.queue
        /\ k > 0 => front # <<>>
        /\ k = 0 => front = <<>>
    BY Zenon, <1>1, <1>2, SplitQueue
  <1>5. Batch(m, limit) = front
    BY Zenon DEF Batch, k
  <1>6. Dequeue(m, limit) = [queue |-> back, notify |-> m.notify \/ back # <<>>,
                             closed |-> m.closed]
    BY Zenon DEF Dequeue, k
  <1> HIDE DEF front, back
  <1>7. m.notify \in BOOLEAN /\ m.closed \in BOOLEAN
    BY Zenon DEF Boxes
  <1>8. Dequeue(m, limit) \in Boxes /\ Dequeue(m, limit).closed = m.closed
        /\ Dequeue(m, limit).queue = back
    BY <1>4, <1>6, <1>7 DEF Boxes
  <1>9. front = <<>> <=> m.queue = <<>>
    BY Zenon, <1>2, <1>3, <1>4
  <1> QED BY Zenon, <1>4, <1>5, <1>8, <1>9

LEMMA EnqueueFacts ==
  ASSUME NEW m \in Boxes, NEW x \in Nat
  PROVE  /\ Enqueue(m, Capacity, x) \in Boxes
         /\ Enqueue(m, Capacity, x).closed = m.closed
         /\ Enqueue(m, Capacity, x).queue =
              IF EnqueueResult(m, Capacity) = "Accepted" THEN Append(m.queue, x) ELSE m.queue
         /\ m.closed => EnqueueResult(m, Capacity) # "Accepted"
  <1>1. CASE EnqueueResult(m, Capacity) # "Accepted"
    BY Zenon, <1>1 DEF Enqueue
  <1>2. CASE EnqueueResult(m, Capacity) = "Accepted"
    <2>1. ~m.closed
      BY Zenon, <1>2 DEF EnqueueResult
    <2>2. Append(m.queue, x) \in Seq(Nat) /\ m.notify \in BOOLEAN /\ m.closed \in BOOLEAN
      BY DEF Boxes
    <2>3. Enqueue(m, Capacity, x) =
            [queue |-> Append(m.queue, x), notify |-> m.notify \/ m.queue = <<>>,
             closed |-> m.closed]
      BY Zenon, <1>2 DEF Enqueue
    <2> QED BY <1>2, <2>1, <2>2, <2>3 DEF Boxes
  <1> QED BY Zenon, <1>1, <1>2

LEMMA CloseFacts ==
  ASSUME NEW m \in Boxes
  PROVE  /\ Close(m) \in Boxes /\ Close(m).closed /\ Close(m).queue = m.queue
         /\ TakeNotify(m) \in Boxes /\ TakeNotify(m).queue = m.queue
         /\ TakeNotify(m).closed = m.closed
BY Zenon DEF Boxes, Close, TakeNotify

LEMMA HandleFacts ==
  ASSUME TypeOK, InflightShape, NEW i \in Instance, loop[i] \in {"each", "whole"}
  PROVE  /\ Now(i) \in Seq(Nat) /\ Later(i) \in Seq(Nat)
         /\ Now(i) \o Later(i) = inflight[i]
  <1>1. inflight[i] \in Seq(Nat) /\ inflight[i] # <<>>
    BY Zenon DEF TypeOK, GoroutinesOK, InflightShape
  <1>2. CASE loop[i] = "whole"
    <2>1. Now(i) = inflight[i] /\ Later(i) = <<>>
      BY Zenon, <1>2 DEF Now, Later
    <2> QED BY Zenon, <1>1, <2>1, ConcatEmptySeq, EmptySeq
  <1>3. CASE loop[i] # "whole"
    <2>1. Now(i) = SubSeq(inflight[i], 1, 1) /\ Later(i) = Tail(inflight[i])
      BY Zenon, <1>3 DEF Now, Later
    <2> QED BY Zenon, <1>1, <2>1, SplitFirst
  <1> QED BY Zenon, <1>2, <1>3
-----------------------------------------------------------------------------
\* What the assignments to the fields of an instance change, and what they keep.
LEMMA StatusUpdate ==
  ASSUME inst \in [Instance -> InstanceFields], NEW i \in Instance, NEW s \in Statuses,
         inst' = [inst EXCEPT ![i].status = s]
  PROVE  /\ inst' \in [Instance -> InstanceFields]
         /\ \A j \in Instance : /\ inst'[j].id = inst[j].id
                                /\ inst'[j].ctxDone = inst[j].ctxDone
                                /\ j # i => inst'[j].status = inst[j].status
         /\ inst'[i].status = s
BY DEF InstanceFields

LEMMA TerminateUpdate ==
  ASSUME inst \in [Instance -> InstanceFields], NEW i \in Instance,
         inst' = [inst EXCEPT ![i].status = "Stopped", ![i].ctxDone = TRUE]
  PROVE  /\ inst' \in [Instance -> InstanceFields]
         /\ \A j \in Instance : /\ inst'[j].id = inst[j].id
                                /\ j # i => inst'[j].status = inst[j].status
                                /\ j # i => inst'[j].ctxDone = inst[j].ctxDone
         /\ inst'[i].status = "Stopped" /\ inst'[i].ctxDone
BY ZenonT(30) DEF InstanceFields, Statuses

LEMMA RestartUpdate ==
  ASSUME inst \in [Instance -> InstanceFields], NEW i \in Instance,
         inst[i].restarts < MaxRestarts,
         inst' = [inst EXCEPT ![i].status = "Restarting",
                              ![i].restarts = inst[i].restarts + 1, ![i].state = 0]
  PROVE  /\ inst' \in [Instance -> InstanceFields]
         /\ \A j \in Instance : /\ inst'[j].id = inst[j].id
                                /\ inst'[j].ctxDone = inst[j].ctxDone
                                /\ j # i => inst'[j].status = inst[j].status
BY MaxRestartsAssumption DEF InstanceFields, Statuses

\* An update of the fields no property here reads.
LEMMA OtherUpdate ==
  ASSUME inst \in [Instance -> InstanceFields], NEW i \in Instance,
         NEW n \in Nat, NEW b \in BOOLEAN,
         \/ inst' = [inst EXCEPT ![i].state = inst[i].state + n]
         \/ inst' = [inst EXCEPT ![i].batch = b]
  PROVE  /\ inst' \in [Instance -> InstanceFields]
         /\ \A j \in Instance : /\ inst'[j].id = inst[j].id
                                /\ inst'[j].ctxDone = inst[j].ctxDone
                                /\ inst'[j].status = inst[j].status
BY DEF InstanceFields

LEMMA CancelUpdate ==
  ASSUME inst \in [Instance -> InstanceFields], NEW i \in Instance,
         inst' = [inst EXCEPT ![i].ctxDone = TRUE]
  PROVE  /\ inst' \in [Instance -> InstanceFields]
         /\ \A j \in Instance : /\ inst'[j].id = inst[j].id
                                /\ j # i => inst'[j].ctxDone = inst[j].ctxDone
                                /\ inst'[j].status = inst[j].status
         /\ inst'[i].ctxDone
BY ZenonT(30) DEF InstanceFields
-----------------------------------------------------------------------------
\* The steps that touch a mailbox, a goroutine or the accepted messages: all the
\* other steps of the clients leave them alone.
LEMMA GoroutineFrame ==
  ASSUME [Next]_vars
  PROVE  \/ UNCHANGED <<mailbox, goroutine, accepted>>
         \/ \E a \in ActorId, i \in Instance, b \in BOOLEAN : CreateActor(a, i, b)
         \/ \E i \in Instance : RunActor(i)
         \/ \E c \in Client : SendEnqueue(c)
         \/ \E c \in Client : StopCancel(c)
  <1>1. ASSUME NEW c \in Client, Proceed(c), ~SendEnqueue(c), ~StopCancel(c)
        PROVE  UNCHANGED <<mailbox, goroutine, accepted>>
    BY Zenon, <1>1 DEF Proceed, SendRejected, SendRouted, StopAlready, StopProceeds, StopStoring,
       Capture, StopHookEnded, StopCleanup, RemoveFromRegistry
  <1>2. ASSUME NEW c \in Client, NEW a \in ActorId,
               Send(c, a) \/ Stop(c, a) \/ StopAndCapture(c, a) \/ RemoveActor(c, a)
        PROVE  UNCHANGED <<mailbox, goroutine, accepted>>
    BY Zenon, <1>2 DEF Send, Stop, StopAndCapture, RemoveActor
  <1>3. ASSUME NEW a \in ActorId, NEW b \in BOOLEAN, ConfigureBatching(a, b)
        PROVE  UNCHANGED <<mailbox, goroutine, accepted>>
    BY Zenon, <1>3 DEF ConfigureBatching
  <1>4. ASSUME NEW r \in Ref, Demonitor(r) \/ \E a \in ActorId : Monitor(r, a)
        PROVE  UNCHANGED <<mailbox, goroutine, accepted>>
    BY Zenon, <1>4 DEF Monitor, Demonitor
  <1>5. UNCHANGED vars => UNCHANGED <<mailbox, goroutine, accepted>>
    BY Zenon DEF vars, goroutine
  <1> QED BY Zenon, <1>1, <1>2, <1>3, <1>4, <1>5 DEF Next

\* Type correctness is inductive with the shape of what the goroutine holds;
\* each of its four parts is shown to be preserved by itself.
LEMMA GoroutinesStep ==
  ASSUME TypeOK, InflightShape, [Next]_vars
  PROVE  GoroutinesOK'
  <1> USE DEF GoroutinesOK, GoroutinePlaces, Boxes
  <1>1. CASE UNCHANGED <<mailbox, goroutine, accepted>>
    BY Zenon, <1>1 DEF TypeOK, goroutine
  <1>2. ASSUME NEW a \in ActorId, NEW i \in Instance, NEW b \in BOOLEAN, CreateActor(a, i, b)
        PROVE  GoroutinesOK'
    BY Zenon, <1>2 DEF TypeOK, CreateActor
  <1>3. ASSUME NEW i \in Instance, \/ StartHookOk(i) \/ SelectDone(i) \/ ReadBatchConfig(i)
                                   \/ RestartHookOk(i) \/ Cleanup(i)
        PROVE  GoroutinesOK'
    <2>1. UNCHANGED <<mailbox, inflight, accepted, handled>>
      BY Zenon, <1>3 DEF StartHookOk, SelectDone, ReadBatchConfig, RestartHookOk, Cleanup
    <2>2. \E place \in GoroutinePlaces : loop' = [loop EXCEPT ![i] = place]
      BY Zenon, <1>3 DEF StartHookOk, SelectDone, ReadBatchConfig, RestartHookOk, Cleanup, Continue
    <2> QED BY Zenon, <2>1, <2>2 DEF TypeOK
  <1>4. ASSUME NEW i \in Instance, StartHookFailed(i) \/ RestartHookFailed(i)
        PROVE  GoroutinesOK'
    <2>1. Close(mailbox[i]) \in Boxes
      BY CloseFacts DEF TypeOK
    <2>2. mailbox' = [mailbox EXCEPT ![i] = Close(mailbox[i])]
          /\ UNCHANGED <<inflight, accepted, handled>>
      BY Zenon, <1>4 DEF StartHookFailed, RestartHookFailed, Terminate
    <2>3. loop' = [loop EXCEPT ![i] = "failed"] \/ loop' = [loop EXCEPT ![i] = "cleanup"]
      BY Zenon, <1>4 DEF StartHookFailed, RestartHookFailed
    <2> QED BY Zenon, <2>1, <2>2, <2>3 DEF TypeOK
  <1>5. ASSUME NEW i \in Instance, SelectNotify(i) PROVE GoroutinesOK'
    <2>1. TakeNotify(mailbox[i]) \in Boxes
      BY CloseFacts DEF TypeOK
    <2>2. mailbox' = [mailbox EXCEPT ![i] = TakeNotify(mailbox[i])]
          /\ loop' = [loop EXCEPT ![i] = "drain"] /\ UNCHANGED <<inflight, accepted, handled>>
      BY Zenon, <1>5 DEF SelectNotify
    <2> QED BY Zenon, <2>1, <2>2 DEF TypeOK
  <1>6. ASSUME NEW i \in Instance, Drain(i) PROVE GoroutinesOK'
    <2> DEFINE limit == IF inst[i].batch THEN MaxBatch ELSE 1
    <2>1. limit \in Nat \ {0}
      BY MaxBatchAssumption
    <2>2. mailbox' = [mailbox EXCEPT ![i] = Dequeue(mailbox[i], limit)]
          /\ inflight' = [inflight EXCEPT ![i] = Batch(mailbox[i], limit)]
          /\ UNCHANGED <<accepted, handled>>
      BY Zenon, <1>6 DEF Drain
    <2>3. loop' \in [Instance -> GoroutinePlaces]
      BY Zenon, <1>6 DEF Drain, TypeOK
    <2> HIDE DEF limit
    <2>4. Dequeue(mailbox[i], limit) \in Boxes /\ Batch(mailbox[i], limit) \in Seq(Nat)
      BY Zenon, <2>1, DequeueFacts DEF TypeOK
    <2> QED BY Zenon, <2>2, <2>3, <2>4 DEF TypeOK
  <1>7. ASSUME NEW i \in Instance, \/ HandlerOk(i) \/ HandlerFailedRestart(i)
                                   \/ HandlerFailedStop(i)
        PROVE  GoroutinesOK'
    <2>1. Handle(i) /\ UNCHANGED accepted
      BY Zenon, <1>7 DEF HandlerOk, HandlerFailedRestart, HandlerFailedStop
    <2>2. Now(i) \in Seq(Nat) /\ Later(i) \in Seq(Nat)
      BY Zenon, <2>1, HandleFacts DEF Handle
    <2>3. handled[i] \o Now(i) \in Seq(Nat)
      BY Zenon, <2>2, ConcatProperties DEF TypeOK
    <2>4. handled' \in [Instance -> Seq(Nat)] /\ inflight' \in [Instance -> Seq(Nat)]
      BY Zenon, <2>1, <2>2, <2>3 DEF Handle, TypeOK
    <2>5. mailbox' \in [Instance -> Boxes]
      BY <1>7, CloseFacts DEF HandlerOk, HandlerFailedRestart, HandlerFailedStop, Terminate, TypeOK
    <2>6. loop' \in [Instance -> GoroutinePlaces]
      BY Zenon, <1>7 DEF HandlerOk, HandlerFailedRestart, HandlerFailedStop, Continue, TypeOK
    <2> QED BY Zenon, <2>1, <2>4, <2>5, <2>6 DEF TypeOK
  <1>8. ASSUME NEW c \in Client, SendEnqueue(c) PROVE GoroutinesOK'
    <2>1. target[c] \in Instance /\ msg[c] \in Nat
      BY Zenon, <1>8 DEF SendEnqueue, TypeOK, CallsOK
    <2>2. Enqueue(mailbox[target[c]], Capacity, msg[c]) \in Boxes
      BY Zenon, <2>1, EnqueueFacts DEF TypeOK
    <2>3. Append(accepted[target[c]], msg[c]) \in Seq(Nat)
      BY <2>1 DEF TypeOK
    <2> QED BY Zenon, <1>8, <2>1, <2>2, <2>3 DEF SendEnqueue, TypeOK, goroutine
  <1>9. ASSUME NEW c \in Client, StopCancel(c) PROVE GoroutinesOK'
    <2>1. target[c] \in Instance
      BY Zenon, <1>9 DEF StopCancel, TypeOK, CallsOK
    <2> QED BY <1>9, <2>1, CloseFacts DEF StopCancel, TypeOK, goroutine
  <1> HIDE DEF GoroutinesOK, GoroutinePlaces, Boxes
  <1> QED
    BY Zenon, <1>1, <1>2, <1>3, <1>4, <1>5, <1>6, <1>7, <1>8, <1>9, GoroutineFrame DEF RunActor

\* The steps of the goroutines, CreateActor, ConfigureBatching, Monitor and
\* Demonitor leave the calls in progress alone.
LEMMA ClientFrame ==
  ASSUME [Next]_vars
  PROVE  \/ UNCHANGED <<client, calls>>
         \/ \E c \in Client : Proceed(c)
         \/ \E c \in Client, a \in ActorId : \/ Send(c, a) \/ Stop(c, a)
                                             \/ StopAndCapture(c, a) \/ RemoveActor(c, a)
  <1>1. ASSUME NEW i \in Instance, RunActor(i) PROVE UNCHANGED <<client, calls>>
    BY Zenon, <1>1 DEF RunActor, StartHookOk, StartHookFailed, SelectDone, SelectNotify, Drain,
       ReadBatchConfig, HandlerOk, HandlerFailedRestart, HandlerFailedStop, RestartHookOk,
       RestartHookFailed, Cleanup
  <1>2. ASSUME NEW a \in ActorId, NEW b \in BOOLEAN,
               ConfigureBatching(a, b) \/ \E i \in Instance : CreateActor(a, i, b)
        PROVE  UNCHANGED <<client, calls>>
    BY Zenon, <1>2 DEF CreateActor, ConfigureBatching
  <1>3. ASSUME NEW r \in Ref, Demonitor(r) \/ \E a \in ActorId : Monitor(r, a)
        PROVE  UNCHANGED <<client, calls>>
    BY Zenon, <1>3 DEF Monitor, Demonitor
  <1>4. UNCHANGED vars => UNCHANGED <<client, calls>>
    BY Zenon DEF vars, client
  <1> QED BY Zenon, <1>1, <1>2, <1>3, <1>4 DEF Next

LEMMA CallsStep ==
  ASSUME TypeOK, [Next]_vars
  PROVE  CallsOK'
  <1> USE NoInstanceAssumption DEF CallsOK, CallPlaces
  <1>1. CASE UNCHANGED <<client, calls>>
    BY Zenon, <1>1 DEF TypeOK, client
  <1>2. ASSUME NEW c \in Client, NEW a \in ActorId, Send(c, a)
        PROVE  CallsOK'
    BY <1>2 DEF TypeOK, InstancesOK, Send, Begin, Goto
  <1>3. ASSUME NEW c \in Client, NEW a \in ActorId,
               Stop(c, a) \/ StopAndCapture(c, a) \/ RemoveActor(c, a)
        PROVE  CallsOK'
    <2>1. UNCHANGED <<msg, captured, returned>> /\ registry[a] # NoInstance
      BY Zenon, <1>3 DEF Stop, StopAndCapture, RemoveActor
    <2>2. Begin(c, "stop", registry[a]) \/ Begin(c, "stopAndCapture", registry[a])
          \/ Begin(c, "remove", registry[a])
      BY Zenon, <1>3 DEF Stop, StopAndCapture, RemoveActor
    <2>3. calls' \in [send : Nat, stop : Nat, stopAndCapture : Nat, remove : Nat]
      BY <1>3 DEF TypeOK, Stop, StopAndCapture, RemoveActor
    <2>4. registry[a] \in Instance
      BY <2>1 DEF TypeOK, InstancesOK
    <2> QED BY <2>1, <2>2, <2>3, <2>4 DEF TypeOK, Begin, Goto
  <1>4. ASSUME NEW c \in Client, \/ SendRejected(c) \/ SendEnqueue(c) \/ StopAlready(c)
                                 \/ RemoveFromRegistry(c)
        PROVE  CallsOK'
    <2>1. Return(c) /\ UNCHANGED <<captured, returned, calls>>
      BY Zenon, <1>4 DEF SendRejected, SendEnqueue, StopAlready, RemoveFromRegistry
    <2> QED BY Zenon, <2>1 DEF TypeOK, Return, Goto
  <1>5. ASSUME NEW c \in Client, \/ SendRouted(c) \/ StopProceeds(c) \/ StopStoring(c)
                                 \/ StopHookEnded(c) \/ StopCancel(c)
        PROVE  CallsOK'
    <2>1. UNCHANGED <<target, msg, captured, returned, calls>> /\ pc[c] # "idle"
      BY Zenon, <1>5 DEF SendRouted, StopProceeds, StopStoring, StopHookEnded, StopCancel
    <2>2. \E place \in CallPlaces \ {"idle"} : Goto(c, place)
      BY Zenon, <1>5 DEF SendRouted, StopProceeds, StopStoring, StopHookEnded, StopCancel
    <2> QED BY <2>1, <2>2 DEF TypeOK, Goto
  <1>6. ASSUME NEW c \in Client, Capture(c) PROVE CallsOK'
    <2>1. target[c] \in Instance
      BY Zenon, <1>6 DEF Capture, TypeOK
    <2>2. inst[target[c]].state \in Nat
      BY Zenon, <2>1 DEF TypeOK, InstancesOK, InstanceFields
    <2> QED BY Zenon, <1>6, <2>1, <2>2 DEF TypeOK, Capture, Goto
  <1>7. ASSUME NEW c \in Client, StopCleanup(c) PROVE CallsOK'
    BY Zenon, <1>7 DEF TypeOK, StopCleanup, Return, Goto
  <1> HIDE DEF CallsOK, CallPlaces
  <1> QED
    BY Zenon, <1>1, <1>2, <1>3, <1>4, <1>5, <1>6, <1>7, ClientFrame DEF Proceed

LEMMA MonitorsStep ==
  ASSUME TypeOK, [Next]_vars
  PROVE  MonitorsOK'
  <1> USE DEF MonitorsOK
  <1>1. CASE UNCHANGED monitor
    BY Zenon, <1>1 DEF TypeOK
  <1>2. ASSUME NEW a, NotifyMonitors(a) PROVE MonitorsOK'
    BY <1>2 DEF TypeOK, NotifyMonitors
  <1>3. ASSUME NEW r \in Ref, NEW a \in ActorId, Monitor(r, a) PROVE MonitorsOK'
    BY Zenon, <1>3 DEF TypeOK, Monitor, InstancesOK
  <1>4. ASSUME NEW r \in Ref, Demonitor(r) PROVE MonitorsOK'
    BY Zenon, <1>4 DEF TypeOK, Demonitor
  <1> HIDE DEF MonitorsOK
  <1>5. ASSUME NEW i \in Instance, RunActor(i) PROVE MonitorsOK'
    BY Zenon, <1>1, <1>2, <1>5 DEF RunActor, StartHookOk, StartHookFailed, SelectDone, SelectNotify,
       Drain, ReadBatchConfig, HandlerOk, HandlerFailedRestart, HandlerFailedStop,
       RestartHookOk, RestartHookFailed, Cleanup
  <1>6. ASSUME NEW c \in Client, Proceed(c) PROVE MonitorsOK'
    BY Zenon, <1>1, <1>2, <1>6 DEF Proceed, SendRejected, SendRouted, SendEnqueue, StopAlready,
       StopProceeds, StopStoring, Capture, StopHookEnded, StopCancel, StopCleanup,
       RemoveFromRegistry
  <1>7. ASSUME NEW c \in Client, NEW a \in ActorId,
               Send(c, a) \/ Stop(c, a) \/ StopAndCapture(c, a) \/ RemoveActor(c, a)
        PROVE  UNCHANGED monitor
    BY Zenon, <1>7 DEF Send, Stop, StopAndCapture, RemoveActor
  <1>8. ASSUME NEW a \in ActorId, NEW b \in BOOLEAN,
               ConfigureBatching(a, b) \/ \E i \in Instance : CreateActor(a, i, b)
        PROVE  UNCHANGED monitor
    BY Zenon, <1>8 DEF CreateActor, ConfigureBatching
  <1>9. UNCHANGED vars => UNCHANGED monitor
    BY Zenon DEF vars
  <1> QED BY Zenon, <1>1, <1>3, <1>4, <1>5, <1>6, <1>7, <1>8, <1>9 DEF Next

\* The instances of a step: CreateActor makes one, and every other step keeps the
\* id of every instance and the place "none" of every unused one.
LEMMA InstancesStep ==
  ASSUME TypeOK, InflightShape, [Next]_vars
  PROVE  InstancesOK'
  <1> DEFINE Kept == /\ inst' \in [Instance -> InstanceFields]
                     /\ \A j \in Instance : inst'[j].id = inst[j].id
                     /\ \A j \in Instance : loop'[j] = "none" <=> loop[j] = "none"
  <1>0. /\ inst \in [Instance -> InstanceFields] /\ loop \in [Instance -> GoroutinePlaces]
        /\ inflight \in [Instance -> Seq(Nat)]
    BY Zenon DEF TypeOK, InstancesOK, GoroutinesOK
  <1>1. ASSUME Kept, UNCHANGED registry PROVE InstancesOK'
    BY Zenon, <1>1 DEF TypeOK, InstancesOK
  <1>2. ASSUME NEW a \in ActorId, NEW i \in Instance, NEW b \in BOOLEAN, CreateActor(a, i, b)
        PROVE  InstancesOK'
    <2>1. inst' \in [Instance -> InstanceFields] /\ inst'[i].id = a
          /\ \A j \in Instance \ {i} : inst'[j] = inst[j]
      BY <1>0, <1>2, MaxRestartsAssumption DEF CreateActor, NewInstance, InstanceFields, Statuses
    <2>2. registry' = [registry EXCEPT ![a] = i] /\ loop' = [loop EXCEPT ![i] = "start"]
          /\ loop[i] = "none"
      BY Zenon, <1>2 DEF CreateActor
    <2>3. \A e \in ActorId : registry[e] # NoInstance => registry[e] # i
      BY Zenon, <2>2, NoneIsNoId DEF TypeOK, InstancesOK
    <2>4. a # "none"
      BY Zenon, NoneIsNoId
    <2> QED BY Zenon, <1>0, <2>1, <2>2, <2>3, <2>4 DEF TypeOK, InstancesOK
  <1>3. ASSUME NEW i \in Instance, StartHookOk(i) \/ SelectDone(i) \/ RestartHookOk(i)
        PROVE  InstancesOK'
    <2>1. \E s \in Statuses : inst' = [inst EXCEPT ![i].status = s]
      BY Zenon, <1>3 DEF StartHookOk, SelectDone, RestartHookOk, SetStatus, Statuses
    <2>2. loop[i] # "none" /\ loop'[i] # "none" /\ UNCHANGED registry
          /\ \A j \in Instance \ {i} : loop'[j] = loop[j]
      BY Zenon, <1>0, <1>3 DEF StartHookOk, SelectDone, RestartHookOk, Continue
    <2>3. PICK s \in Statuses : inst' = [inst EXCEPT ![i].status = s]
      BY Zenon, <2>1
    <2>4. Kept
      BY Zenon, <1>0, <2>2, <2>3, StatusUpdate
    <2> QED BY Zenon, <1>1, <2>2, <2>4
  <1>4. ASSUME NEW i \in Instance, Terminate(i), UNCHANGED registry, loop[i] # "none",
               loop' = [loop EXCEPT ![i] = "failed"] \/ loop' = [loop EXCEPT ![i] = "cleanup"]
        PROVE  InstancesOK'
    <2>1. inst' = [inst EXCEPT ![i].status = "Stopped", ![i].ctxDone = TRUE]
      BY Zenon, <1>4 DEF Terminate
    <2>2. inst' \in [Instance -> InstanceFields] /\ \A j \in Instance : inst'[j].id = inst[j].id
      BY Zenon, <1>0, <2>1, TerminateUpdate
    <2> QED BY Zenon, <1>0, <1>1, <1>4, <2>2
  <1>5. ASSUME NEW i \in Instance,
               SelectNotify(i) \/ Drain(i) \/ ReadBatchConfig(i) \/ Cleanup(i)
        PROVE  InstancesOK'
    <2>1. UNCHANGED <<inst, registry>> /\ loop[i] # "none" /\ loop'[i] # "none"
          /\ \A j \in Instance \ {i} : loop'[j] = loop[j]
      BY Zenon, <1>0, <1>5 DEF SelectNotify, Drain, ReadBatchConfig, Cleanup, Continue
    <2> QED BY Zenon, <1>0, <1>1, <2>1
  <1>6. ASSUME NEW i \in Instance, HandlerOk(i) PROVE InstancesOK'
    <2>1. Len(Now(i)) \in Nat
      BY Zenon, <1>6, HandleFacts, LenProperties DEF HandlerOk, Handle
    <2>2. inst' = [inst EXCEPT ![i].state = inst[i].state + Len(Now(i))]
      BY Zenon, <1>6 DEF HandlerOk
    <2>3. loop[i] # "none" /\ loop'[i] # "none" /\ UNCHANGED registry
          /\ \A j \in Instance \ {i} : loop'[j] = loop[j]
      BY Zenon, <1>0, <1>6 DEF HandlerOk, Handle, Continue
    <2>4. inst' \in [Instance -> InstanceFields] /\ \A j \in Instance : inst'[j].id = inst[j].id
      BY Zenon, <1>0, <2>1, <2>2, OtherUpdate
    <2> QED BY Zenon, <1>1, <2>3, <2>4
  <1>7. ASSUME NEW i \in Instance, HandlerFailedRestart(i) PROVE InstancesOK'
    <2>1. inst[i].restarts < MaxRestarts
      BY Zenon, <1>7 DEF HandlerFailedRestart, Decide
    <2>2. inst' = [inst EXCEPT ![i].status = "Restarting",
                               ![i].restarts = inst[i].restarts + 1, ![i].state = 0]
      BY Zenon, <1>7 DEF HandlerFailedRestart
    <2>3. loop[i] # "none" /\ loop'[i] # "none" /\ UNCHANGED registry
          /\ \A j \in Instance \ {i} : loop'[j] = loop[j]
      BY Zenon, <1>0, <1>7 DEF HandlerFailedRestart, Handle
    <2>4. inst' \in [Instance -> InstanceFields] /\ \A j \in Instance : inst'[j].id = inst[j].id
      BY Zenon, <1>0, <2>1, <2>2, RestartUpdate
    <2> QED BY Zenon, <1>1, <2>3, <2>4
  <1>8. ASSUME NEW i \in Instance,
               StartHookFailed(i) \/ HandlerFailedStop(i) \/ RestartHookFailed(i)
        PROVE  InstancesOK'
    BY Zenon, <1>4, <1>8 DEF StartHookFailed, HandlerFailedStop, RestartHookFailed, Handle
  <1>9. ASSUME NEW c \in Client, StopStoring(c) \/ StopHookEnded(c) \/ StopCancel(c)
        PROVE  InstancesOK'
    <2>1. target[c] \in Instance
      BY Zenon, <1>9 DEF StopStoring, StopHookEnded, StopCancel, TypeOK, CallsOK
    <2>2. \/ inst' = [inst EXCEPT ![target[c]].ctxDone = TRUE]
          \/ \E s \in Statuses : inst' = [inst EXCEPT ![target[c]].status = s]
      BY Zenon, <1>9 DEF StopStoring, StopHookEnded, StopCancel, SetStatus, Statuses
    <2>3. UNCHANGED <<registry, loop>>
      BY Zenon, <1>9 DEF StopStoring, StopHookEnded, StopCancel, goroutine
    <2>4. inst' \in [Instance -> InstanceFields] /\ \A j \in Instance : inst'[j].id = inst[j].id
      BY Zenon, <1>0, <2>1, <2>2, StatusUpdate, CancelUpdate
    <2> QED BY Zenon, <1>1, <2>3, <2>4
  <1>10. ASSUME NEW c \in Client, RemoveFromRegistry(c) PROVE InstancesOK'
    <2>1. UNCHANGED <<inst, loop>> /\ registry' \in [ActorId -> Instance \cup {NoInstance}]
          /\ \A e \in ActorId : registry'[e] \in {registry[e], NoInstance}
      BY Zenon, <1>10 DEF RemoveFromRegistry, goroutine, TypeOK, InstancesOK
    <2> QED BY Zenon, <2>1 DEF TypeOK, InstancesOK
  <1>11. ASSUME NEW a \in ActorId, NEW b \in BOOLEAN, ConfigureBatching(a, b) PROVE InstancesOK'
    <2>1. registry[a] \in Instance /\ UNCHANGED <<registry, loop>>
          /\ inst' = [inst EXCEPT ![registry[a]].batch = b]
      BY Zenon, <1>11 DEF ConfigureBatching, goroutine, TypeOK, InstancesOK
    <2>2. inst' \in [Instance -> InstanceFields] /\ \A j \in Instance : inst'[j].id = inst[j].id
      BY Zenon, <1>0, <2>1, OtherUpdate
    <2> QED BY Zenon, <1>1, <2>1, <2>2
  <1>12. ASSUME UNCHANGED <<registry, inst, loop>> PROVE InstancesOK'
    BY Zenon, <1>12 DEF TypeOK, InstancesOK
  <1>13. ASSUME NEW c \in Client, \/ SendRejected(c) \/ SendRouted(c) \/ SendEnqueue(c)
                                  \/ StopAlready(c) \/ StopProceeds(c) \/ Capture(c)
                                  \/ StopCleanup(c)
         PROVE  UNCHANGED <<registry, inst, loop>>
    BY Zenon, <1>13 DEF SendRejected, SendRouted, SendEnqueue, StopAlready, StopProceeds, Capture,
       StopCleanup, goroutine
  <1>14. ASSUME NEW c \in Client, NEW a \in ActorId,
                Send(c, a) \/ Stop(c, a) \/ StopAndCapture(c, a) \/ RemoveActor(c, a)
         PROVE  UNCHANGED <<registry, inst, loop>>
    BY Zenon, <1>14 DEF Send, Stop, StopAndCapture, RemoveActor, goroutine
  <1>15. ASSUME NEW r \in Ref, Demonitor(r) \/ \E a \in ActorId : Monitor(r, a)
         PROVE  UNCHANGED <<registry, inst, loop>>
    BY Zenon, <1>15 DEF Monitor, Demonitor, goroutine
  <1>16. UNCHANGED vars => UNCHANGED <<registry, inst, loop>>
    BY Zenon DEF vars
  <1> HIDE DEF Kept
  <1> QED
    BY Zenon, <1>2, <1>3, <1>5, <1>6, <1>7, <1>8, <1>9, <1>10, <1>11, <1>12, <1>13, <1>14, <1>15, <1>16
       DEF Next, RunActor, Proceed

LEMMA TypeStep ==
  ASSUME TypeOK, InflightShape, [Next]_vars
  PROVE  TypeOK'
BY Zenon, InstancesStep, GoroutinesStep, CallsStep, MonitorsStep DEF TypeOK
-----------------------------------------------------------------------------
LEMMA InflightStep ==
  ASSUME TypeOK, InflightShape, [Next]_vars
  PROVE  InflightShape'
  <1>0. loop \in [Instance -> GoroutinePlaces] /\ inflight \in [Instance -> Seq(Nat)]
        /\ mailbox \in [Instance -> Boxes]
    BY Zenon DEF TypeOK, GoroutinesOK, Boxes
  <1>1. CASE UNCHANGED <<mailbox, goroutine, accepted>>
    BY Zenon, <1>1 DEF InflightShape, goroutine
  <1>2. ASSUME NEW a \in ActorId, NEW i \in Instance, NEW b \in BOOLEAN, CreateActor(a, i, b)
        PROVE  InflightShape'
    BY Zenon, <1>0, <1>2 DEF InflightShape, CreateActor
  <1>3. ASSUME NEW i \in Instance, \/ StartHookOk(i) \/ StartHookFailed(i) \/ SelectDone(i)
                                   \/ SelectNotify(i) \/ ReadBatchConfig(i) \/ RestartHookOk(i)
                                   \/ RestartHookFailed(i) \/ Cleanup(i)
        PROVE  InflightShape'
    <2>1. UNCHANGED inflight
      BY Zenon, <1>3 DEF StartHookOk, StartHookFailed, SelectDone, SelectNotify, ReadBatchConfig,
         RestartHookOk, RestartHookFailed, Cleanup
    <2>2. /\ loop' = [loop EXCEPT ![i] = loop'[i]]
          /\ \/ loop[i] \in {"start", "select"} /\ loop'[i] \in {"select", "failed", "done", "drain"}
             \/ loop[i] = "batch" /\ loop'[i] \in {"each", "whole"}
             \/ loop'[i] = "cleanup"
             \/ loop'[i] = Continue(inflight[i])
      BY Zenon, <1>0, <1>3 DEF StartHookOk, StartHookFailed, SelectDone, SelectNotify, ReadBatchConfig,
         RestartHookOk, RestartHookFailed, Cleanup
    <2> QED BY Zenon, <1>0, <2>1, <2>2 DEF InflightShape, Continue
  <1>4. ASSUME NEW i \in Instance, Drain(i) PROVE InflightShape'
    <2> DEFINE limit == IF inst[i].batch THEN MaxBatch ELSE 1
    <2>1. limit \in Nat \ {0}
      BY MaxBatchAssumption
    <2>2. /\ inflight' = [inflight EXCEPT ![i] = Batch(mailbox[i], limit)]
          /\ loop' = [loop EXCEPT ![i] = loop'[i]]
          /\ loop'[i] = "select" <=> mailbox[i].queue = <<>>
          /\ loop'[i] \in {"select", "batch", "each"}
      BY Zenon, <1>0, <1>4 DEF Drain
    <2> HIDE DEF limit
    <2>3. Batch(mailbox[i], limit) = <<>> <=> mailbox[i].queue = <<>>
      BY Zenon, <1>0, <2>1, DequeueFacts
    <2> QED BY Zenon, <1>0, <2>2, <2>3 DEF InflightShape
  <1>5. ASSUME NEW i \in Instance, \/ HandlerOk(i) \/ HandlerFailedRestart(i)
                                   \/ HandlerFailedStop(i)
        PROVE  InflightShape'
    <2>1. inflight' = [inflight EXCEPT ![i] = Later(i)]
      BY Zenon, <1>5 DEF HandlerOk, HandlerFailedRestart, HandlerFailedStop, Handle
    <2>2. /\ loop' = [loop EXCEPT ![i] = loop'[i]]
          /\ loop'[i] \in {"restart", "cleanup", Continue(Later(i))}
      BY Zenon, <1>0, <1>5 DEF HandlerOk, HandlerFailedRestart, HandlerFailedStop
    <2> QED BY Zenon, <1>0, <2>1, <2>2 DEF InflightShape, Continue
  <1>6. ASSUME NEW c \in Client, SendEnqueue(c) \/ StopCancel(c) PROVE InflightShape'
    BY Zenon, <1>6 DEF InflightShape, SendEnqueue, StopCancel, goroutine
  <1> QED BY Zenon, <1>1, <1>2, <1>3, <1>4, <1>5, <1>6, GoroutineFrame DEF RunActor

\* Handling, taking and enqueueing keep the three parts of the accepted messages
\* in their order.
LEMMA OrderStep ==
  ASSUME TypeOK, InflightShape, AcceptanceOrder, [Next]_vars
  PROVE  AcceptanceOrder'
  <1>0. /\ inflight \in [Instance -> Seq(Nat)] /\ handled \in [Instance -> Seq(Nat)]
        /\ mailbox \in [Instance -> Boxes] /\ accepted \in [Instance -> Seq(Nat)]
    BY Zenon DEF TypeOK, GoroutinesOK, Boxes
  <1>1. \A i \in Instance : mailbox[i].queue \in Seq(Nat)
    BY Zenon, <1>0 DEF Boxes
  <1>2. CASE /\ UNCHANGED <<accepted, handled, inflight>>
             /\ \A j \in Instance : mailbox'[j].queue = mailbox[j].queue
    BY Zenon, <1>2 DEF AcceptanceOrder
  <1>3. ASSUME NEW a \in ActorId, NEW i \in Instance, NEW b \in BOOLEAN, CreateActor(a, i, b)
        PROVE  AcceptanceOrder'
    BY Zenon, <1>3 DEF AcceptanceOrder, CreateActor
  <1>4. ASSUME NEW i \in Instance, \/ StartHookOk(i) \/ SelectDone(i) \/ ReadBatchConfig(i)
                                   \/ RestartHookOk(i) \/ Cleanup(i)
        PROVE  AcceptanceOrder'
    BY Zenon, <1>2, <1>4 DEF StartHookOk, SelectDone, ReadBatchConfig, RestartHookOk, Cleanup
  <1>5. ASSUME NEW i \in Instance, StartHookFailed(i) \/ RestartHookFailed(i) \/ SelectNotify(i)
        PROVE  AcceptanceOrder'
    <2>1. \/ mailbox' = [mailbox EXCEPT ![i] = Close(mailbox[i])]
          \/ mailbox' = [mailbox EXCEPT ![i] = TakeNotify(mailbox[i])]
      BY Zenon, <1>5 DEF StartHookFailed, RestartHookFailed, SelectNotify, Terminate
    <2>2. \A j \in Instance : mailbox'[j].queue = mailbox[j].queue
      <3>1. Close(mailbox[i]).queue = mailbox[i].queue
            /\ TakeNotify(mailbox[i]).queue = mailbox[i].queue
        BY Zenon, <1>0, CloseFacts
      <3> QED BY Zenon, <1>0, <2>1, <3>1
    <2> QED BY Zenon, <1>2, <1>5, <2>2 DEF StartHookFailed, RestartHookFailed, SelectNotify
  <1>6. ASSUME NEW i \in Instance, Drain(i) PROVE AcceptanceOrder'
    <2> DEFINE limit == IF inst[i].batch THEN MaxBatch ELSE 1
    <2>1. limit \in Nat \ {0}
      BY MaxBatchAssumption
    <2>2. /\ mailbox' = [mailbox EXCEPT ![i] = Dequeue(mailbox[i], limit)]
          /\ inflight' = [inflight EXCEPT ![i] = Batch(mailbox[i], limit)]
          /\ UNCHANGED <<accepted, handled>> /\ loop[i] = "drain"
      BY Zenon, <1>6 DEF Drain
    <2> HIDE DEF limit
    <2>3. /\ Batch(mailbox[i], limit) \o Dequeue(mailbox[i], limit).queue = mailbox[i].queue
          /\ Batch(mailbox[i], limit) \in Seq(Nat) /\ Dequeue(mailbox[i], limit).queue \in Seq(Nat)
      BY Zenon, <1>0, <2>1, DequeueFacts DEF Boxes
    <2>4. inflight[i] = <<>>
      BY Zenon, <2>2 DEF InflightShape
    <2>5. accepted[i] = handled[i] \o mailbox[i].queue
      BY Zenon, <1>0, <2>4, ConcatEmptySeq DEF AcceptanceOrder
    <2>6. (handled[i] \o Batch(mailbox[i], limit)) \o Dequeue(mailbox[i], limit).queue
            = accepted[i]
      <3>1. handled[i] \in Seq(Nat)
        BY Zenon, <1>0
      <3>2. (handled[i] \o Batch(mailbox[i], limit)) \o Dequeue(mailbox[i], limit).queue
              = handled[i] \o (Batch(mailbox[i], limit) \o Dequeue(mailbox[i], limit).queue)
        BY Zenon, <2>3, <3>1, Associative, Zenon
      <3> QED BY Zenon, <2>3, <2>5, <3>2
    <2> QED BY Zenon, <1>0, <2>2, <2>6 DEF AcceptanceOrder
  <1>7. ASSUME NEW i \in Instance, \/ HandlerOk(i) \/ HandlerFailedRestart(i)
                                   \/ HandlerFailedStop(i)
        PROVE  AcceptanceOrder'
    <2>1. Handle(i) /\ UNCHANGED accepted
      BY Zenon, <1>7 DEF HandlerOk, HandlerFailedRestart, HandlerFailedStop
    <2>2. \A j \in Instance : mailbox'[j].queue = mailbox[j].queue
      BY <1>0, <1>7, CloseFacts DEF HandlerOk, HandlerFailedRestart, HandlerFailedStop, Terminate
    <2>3. Now(i) \in Seq(Nat) /\ Later(i) \in Seq(Nat) /\ Now(i) \o Later(i) = inflight[i]
      BY Zenon, <2>1, HandleFacts DEF Handle
    <2>4. (handled[i] \o Now(i)) \o Later(i) = handled[i] \o inflight[i]
      <3>1. handled[i] \in Seq(Nat)
        BY Zenon, <1>0
      <3>2. (handled[i] \o Now(i)) \o Later(i) = handled[i] \o (Now(i) \o Later(i))
        BY Zenon, <2>3, <3>1, Associative, Zenon
      <3> QED BY Zenon, <2>3, <3>2
    <2>5. handled'[i] \o inflight'[i] = handled[i] \o inflight[i]
      BY Zenon, <1>0, <2>1, <2>4 DEF Handle
    <2>6. \A j \in Instance \ {i} : handled'[j] = handled[j] /\ inflight'[j] = inflight[j]
      BY Zenon, <1>0, <2>1 DEF Handle
    <2> QED BY Zenon, <2>1, <2>2, <2>5, <2>6 DEF AcceptanceOrder
  <1>8. ASSUME NEW c \in Client, SendEnqueue(c) PROVE AcceptanceOrder'
    <2> DEFINE i == target[c]
               ok == EnqueueResult(mailbox[i], Capacity) = "Accepted"
    <2>1. i \in Instance /\ msg[c] \in Nat
      BY Zenon, <1>8, NoInstanceAssumption DEF SendEnqueue, TypeOK, CallsOK
    <2>2. /\ mailbox' = [mailbox EXCEPT ![i] = Enqueue(mailbox[i], Capacity, msg[c])]
          /\ accepted' = [accepted EXCEPT ![i] = IF ok THEN Append(accepted[i], msg[c])
                                                 ELSE accepted[i]]
          /\ UNCHANGED <<handled, inflight>>
      BY Zenon, <1>8 DEF SendEnqueue, goroutine
    <2>3. Enqueue(mailbox[i], Capacity, msg[c]).queue =
            IF ok THEN Append(mailbox[i].queue, msg[c]) ELSE mailbox[i].queue
      BY Zenon, <1>0, <2>1, EnqueueFacts
    <2> HIDE DEF i, ok
    <2>4. handled[i] \o inflight[i] \in Seq(Nat)
      BY Zenon, <1>0, <2>1, ConcatProperties
    <2>5. (handled[i] \o inflight[i]) \o (mailbox[i].queue \o <<msg[c]>>)
            = ((handled[i] \o inflight[i]) \o mailbox[i].queue) \o <<msg[c]>>
      <3>1. mailbox[i].queue \in Seq(Nat) /\ <<msg[c]>> \in Seq(Nat)
        BY <1>1, <2>1
      <3> QED BY Zenon, <2>4, <3>1, Associative, Zenon
    <2>6. Append(mailbox[i].queue, msg[c]) = mailbox[i].queue \o <<msg[c]>>
          /\ Append(accepted[i], msg[c]) = accepted[i] \o <<msg[c]>>
      BY Zenon, <1>0, <1>1, <2>1, AppendIsConcat
    <2>7. accepted[i] = (handled[i] \o inflight[i]) \o mailbox[i].queue
      BY Zenon, <2>1 DEF AcceptanceOrder
    <2>8. accepted'[i] = (handled[i] \o inflight[i]) \o mailbox'[i].queue
      BY Zenon, <1>0, <2>1, <2>2, <2>3, <2>5, <2>6, <2>7
    <2>9. \A j \in Instance \ {i} : accepted'[j] = accepted[j] /\ mailbox'[j] = mailbox[j]
      BY Zenon, <1>0, <2>2
    <2> QED BY Zenon, <2>1, <2>2, <2>8, <2>9 DEF AcceptanceOrder
  <1>9. ASSUME NEW c \in Client, StopCancel(c) PROVE AcceptanceOrder'
    <2>1. \A j \in Instance : mailbox'[j].queue = mailbox[j].queue
      BY Zenon, <1>0, <1>9, CloseFacts DEF StopCancel
    <2> QED BY Zenon, <1>2, <1>9, <2>1 DEF StopCancel, goroutine
  <1>10. UNCHANGED <<mailbox, goroutine, accepted>> => AcceptanceOrder'
    BY Zenon, <1>2 DEF goroutine
  <1> QED
    BY Zenon, <1>3, <1>4, <1>5, <1>6, <1>7, <1>8, <1>9, <1>10, GoroutineFrame DEF RunActor
-----------------------------------------------------------------------------
\* No step opens a closed mailbox.
LEMMA ClosedForGood ==
  ASSUME TypeOK, [Next]_vars
  PROVE  \A j \in Instance : mailbox[j].closed => mailbox'[j].closed
  <1>0. mailbox \in [Instance -> Boxes]
    BY Zenon DEF TypeOK, GoroutinesOK, Boxes
  <1>1. ASSUME NEW i \in Instance, NEW m, mailbox' = [mailbox EXCEPT ![i] = m],
               mailbox[i].closed => m.closed
        PROVE  \A j \in Instance : mailbox[j].closed => mailbox'[j].closed
    BY Zenon, <1>0, <1>1
  <1>2. ASSUME NEW i \in Instance, RunActor(i)
        PROVE  \A j \in Instance : mailbox[j].closed => mailbox'[j].closed
    <2>1. CASE UNCHANGED mailbox
      BY Zenon, <2>1
    <2>2. CASE mailbox' = [mailbox EXCEPT ![i] = Close(mailbox[i])]
      BY Zenon, <1>0, <1>1, <2>2, CloseFacts
    <2>3. CASE mailbox' = [mailbox EXCEPT ![i] = TakeNotify(mailbox[i])]
      BY Zenon, <1>0, <1>1, <2>3, CloseFacts
    <2>4. ASSUME NEW limit \in Nat \ {0}, mailbox' = [mailbox EXCEPT ![i] = Dequeue(mailbox[i], limit)]
          PROVE  \A j \in Instance : mailbox[j].closed => mailbox'[j].closed
      BY Zenon, <1>0, <1>1, <2>4, DequeueFacts
    <2>5. CASE Drain(i)
      <3> DEFINE limit == IF inst[i].batch THEN MaxBatch ELSE 1
      <3>1. limit \in Nat \ {0}
        BY MaxBatchAssumption
      <3>2. mailbox' = [mailbox EXCEPT ![i] = Dequeue(mailbox[i], limit)]
        BY Zenon, <2>5 DEF Drain
      <3> QED BY Zenon, <2>4, <3>1, <3>2
    <2> QED BY Zenon, <1>2, <2>1, <2>2, <2>3, <2>5 DEF RunActor, StartHookOk, StartHookFailed,
            SelectDone, SelectNotify, ReadBatchConfig, HandlerOk, HandlerFailedRestart,
            HandlerFailedStop, RestartHookOk, RestartHookFailed, Cleanup, Terminate
  <1>3. ASSUME NEW c \in Client, SendEnqueue(c) \/ StopCancel(c)
        PROVE  \A j \in Instance : mailbox[j].closed => mailbox'[j].closed
    <2>1. target[c] \in Instance /\ msg[c] \in Nat
      BY Zenon, <1>3, NoInstanceAssumption DEF SendEnqueue, StopCancel, TypeOK, CallsOK
    <2>2. \/ mailbox' = [mailbox EXCEPT ![target[c]] = Close(mailbox[target[c]])]
          \/ mailbox' = [mailbox EXCEPT ![target[c]] = Enqueue(mailbox[target[c]], Capacity, msg[c])]
      BY Zenon, <1>3 DEF SendEnqueue, StopCancel
    <2> QED BY <1>0, <1>1, <2>1, <2>2, CloseFacts, EnqueueFacts
  <1>4. ASSUME NEW a \in ActorId, NEW i \in Instance, NEW b \in BOOLEAN, CreateActor(a, i, b)
        PROVE  UNCHANGED mailbox
    BY Zenon, <1>4 DEF CreateActor
  <1> QED BY Zenon, <1>2, <1>3, <1>4, GoroutineFrame

LEMMA ClosedStep ==
  ASSUME TypeOK, ClosedShape, [Next]_vars
  PROVE  ClosedShape'
  <1>0. /\ pc \in [Client -> CallPlaces] /\ target \in [Client -> Instance \cup {NoInstance}]
        /\ returned \subseteq Instance
        /\ \A c \in Client : pc[c] # "idle" => target[c] \in Instance
    BY Zenon DEF TypeOK, CallsOK
  <1>1. ASSUME UNCHANGED returned, \A c \in Client : pc'[c] = "cleanup" =>
                                     pc[c] = "cleanup" /\ target'[c] = target[c]
        PROVE  ClosedShape'
    BY Zenon, <1>0, <1>1, ClosedForGood DEF ClosedShape
  <1>2. ASSUME NEW c \in Client, StopCancel(c) PROVE ClosedShape'
    <2>1. target[c] \in Instance /\ UNCHANGED <<returned, target>>
          /\ pc' = [pc EXCEPT ![c] = "cleanup"]
      BY Zenon, <1>0, <1>2 DEF StopCancel, Goto
    <2>2. mailbox'[target[c]].closed
      BY <1>2, <2>1, CloseFacts DEF StopCancel, TypeOK, GoroutinesOK, Boxes
    <2> QED BY Zenon, <1>0, <2>1, <2>2, ClosedForGood DEF ClosedShape
  <1>3. ASSUME NEW c \in Client, StopCleanup(c) PROVE ClosedShape'
    <2>1. pc[c] = "cleanup" /\ target[c] \in Instance /\ UNCHANGED mailbox
          /\ returned' = returned \cup {target[c]}
          /\ pc' = [pc EXCEPT ![c] = "idle"] /\ target' = [target EXCEPT ![c] = NoInstance]
      BY Zenon, <1>0, <1>3 DEF StopCleanup, Return, Goto
    <2> QED BY Zenon, <1>0, <2>1 DEF ClosedShape
  <1>4. ASSUME NEW c \in Client, Proceed(c), ~StopCancel(c), ~StopCleanup(c)
        PROVE  ClosedShape'
    <2>1. UNCHANGED returned /\ \E place \in CallPlaces \ {"cleanup"} : Goto(c, place)
      BY Zenon, <1>4 DEF Proceed, SendRejected, SendRouted, SendEnqueue, StopAlready, StopProceeds,
         StopStoring, Capture, StopHookEnded, RemoveFromRegistry, Return, CallPlaces
    <2>2. \A e \in Client \ {c} : target'[e] = target[e]
      BY Zenon, <1>0, <1>4 DEF Proceed, SendRejected, SendRouted, SendEnqueue, StopAlready, StopProceeds,
         StopStoring, Capture, StopHookEnded, RemoveFromRegistry, Return
    <2> QED BY Zenon, <1>0, <1>1, <2>1, <2>2 DEF Goto
  <1>5. ASSUME NEW c \in Client, NEW a \in ActorId,
               Send(c, a) \/ Stop(c, a) \/ StopAndCapture(c, a) \/ RemoveActor(c, a)
        PROVE  ClosedShape'
    <2>1. UNCHANGED returned /\ \A e \in Client \ {c} : target'[e] = target[e] /\ pc'[e] = pc[e]
      BY Zenon, <1>0, <1>5 DEF Send, Stop, StopAndCapture, RemoveActor, Begin, Goto
    <2>2. pc'[c] # "cleanup"
      BY Zenon, <1>0, <1>5 DEF Send, Stop, StopAndCapture, RemoveActor, Begin, Goto
    <2> QED BY Zenon, <1>1, <2>1, <2>2
  <1>6. CASE UNCHANGED <<client, calls>>
    BY Zenon, <1>1, <1>6 DEF client
  <1> QED BY Zenon, <1>2, <1>3, <1>4, <1>5, <1>6, ClientFrame
-----------------------------------------------------------------------------
\* What a step does to the instances, as the status and the monitors see it: the
\* step of a goroutine, of a call, and CreateActor.
LEMMA GoroutineEffect ==
  ASSUME TypeOK, InflightShape, NEW i \in Instance, RunActor(i)
  PROVE  /\ \A j \in Instance \ {i} : /\ loop'[j] = loop[j]
                                      /\ inst'[j].status = inst[j].status
                                      /\ inst'[j].ctxDone = inst[j].ctxDone
         /\ \A j \in Instance : inst'[j].id = inst[j].id
         /\ inst[i].ctxDone => inst'[i].ctxDone
         /\ ~inst[i].ctxDone /\ inst'[i].ctxDone => loop'[i] \in {"cleanup", "failed"}
         /\ loop'[i] \in {"done", "failed"} => inst'[i].status = "Stopped"
         /\ loop'[i] = "done" => inst[i].ctxDone
         /\ loop[i] \notin {"failed", "done", "none"}
         /\ loop[i] = "cleanup" => NotifyMonitors(inst[i].id)
         /\ loop[i] # "cleanup" => UNCHANGED monitor
  <1>0. inst \in [Instance -> InstanceFields] /\ loop \in [Instance -> GoroutinePlaces]
    BY Zenon DEF TypeOK, InstancesOK, GoroutinesOK
  <1>1. CASE StartHookOk(i)
    BY ZenonT(30), <1>0, <1>1, StatusUpdate DEF StartHookOk, SetStatus, Statuses
  <1>2. CASE StartHookFailed(i)
    BY ZenonT(30), <1>0, <1>2, TerminateUpdate DEF StartHookFailed, Terminate
  <1>3. CASE SelectDone(i)
    BY <1>0, <1>3, StatusUpdate DEF SelectDone, SetStatus, Statuses
  <1>4. CASE SelectNotify(i)
    BY Zenon, <1>0, <1>4 DEF SelectNotify
  <1>5. CASE Drain(i)
    BY Zenon, <1>0, <1>5 DEF Drain
  <1>6. CASE ReadBatchConfig(i)
    BY Zenon, <1>0, <1>6 DEF ReadBatchConfig
  <1>7. CASE HandlerOk(i)
    <2>1. Len(Now(i)) \in Nat
      BY Zenon, <1>7, HandleFacts, LenProperties DEF HandlerOk, Handle
    <2>2. inst' = [inst EXCEPT ![i].state = inst[i].state + Len(Now(i))]
      BY Zenon, <1>7 DEF HandlerOk
    <2>3. \A j \in Instance : inst'[j].id = inst[j].id /\ inst'[j].ctxDone = inst[j].ctxDone
                              /\ inst'[j].status = inst[j].status
      BY ZenonT(30), <1>0, <2>1, <2>2, OtherUpdate
    <2> QED BY Zenon, <1>0, <1>7, <2>3 DEF HandlerOk, Handle, Continue
  <1>8. CASE HandlerFailedRestart(i)
    BY ZenonT(30), <1>0, <1>8, RestartUpdate DEF HandlerFailedRestart, Handle, Decide
  <1>9. CASE HandlerFailedStop(i)
    BY ZenonT(30), <1>0, <1>9, TerminateUpdate DEF HandlerFailedStop, Handle, Terminate
  <1>10. CASE RestartHookOk(i)
    BY <1>0, <1>10, StatusUpdate DEF RestartHookOk, SetStatus, Statuses, Continue
  <1>11. CASE RestartHookFailed(i)
    BY ZenonT(30), <1>0, <1>11, TerminateUpdate DEF RestartHookFailed, Terminate
  <1>12. CASE Cleanup(i)
    BY Zenon, <1>0, <1>12 DEF Cleanup, Continue
  <1> QED
    BY Zenon, <1>1, <1>2, <1>3, <1>4, <1>5, <1>6, <1>7, <1>8, <1>9, <1>10, <1>11, <1>12 DEF RunActor

LEMMA CreateEffect ==
  ASSUME TypeOK, NEW a \in ActorId, NEW i \in Instance, NEW b \in BOOLEAN, CreateActor(a, i, b)
  PROVE  /\ \A j \in Instance \ {i} : loop'[j] = loop[j] /\ inst'[j] = inst[j]
         /\ loop[i] = "none" /\ loop'[i] = "start" /\ inst[i].id = "none"
         /\ UNCHANGED <<monitor, client>>
BY Zenon DEF CreateActor, TypeOK, InstancesOK, GoroutinesOK

LEMMA CallEffect ==
  ASSUME TypeOK, NEW c \in Client, Proceed(c)
  PROVE  /\ UNCHANGED loop
         /\ \A e \in Client \ {c} : pc'[e] = pc[e] /\ target'[e] = target[e]
         /\ target[c] \in Instance
         /\ \A j \in Instance : /\ inst'[j].id = inst[j].id
                                /\ inst[j].ctxDone => inst'[j].ctxDone
                                /\ ~inst[j].ctxDone /\ inst'[j].ctxDone =>
                                     target[c] = j /\ target'[c] = j /\ pc'[c] = "cleanup"
                                /\ target[c] # j => inst'[j].status = inst[j].status
         /\ \/ pc'[c] \in {"capture", "stopHook"} /\ target'[c] = target[c]
            \/ pc[c] \in {"capture", "stopHook"} /\ inst'[target[c]].status = "Stopped"
            \/ pc[c] \notin {"capture", "stopHook"}
               /\ inst'[target[c]].status = inst[target[c]].status
         /\ pc[c] = "cleanup" => NotifyMonitors(inst[target[c]].id)
         /\ pc[c] # "cleanup" => UNCHANGED monitor
  <1>0. /\ inst \in [Instance -> InstanceFields]
        /\ pc \in [Client -> CallPlaces] /\ target \in [Client -> Instance \cup {NoInstance}]
    BY Zenon DEF TypeOK, InstancesOK, CallsOK
  <1>1. pc[c] # "idle"
    BY Zenon DEF Proceed, SendRejected, SendRouted, SendEnqueue, StopAlready, StopProceeds, StopStoring,
       Capture, StopHookEnded, StopCancel, StopCleanup, RemoveFromRegistry
  <1>2. target[c] \in Instance
    BY Zenon, <1>0, <1>1 DEF TypeOK, CallsOK
  <1>3. CASE \/ SendRejected(c) \/ SendEnqueue(c) \/ StopAlready(c) \/ RemoveFromRegistry(c)
    <2>1. Return(c) /\ UNCHANGED <<inst, loop, monitor>>
          /\ pc[c] \notin {"capture", "stopHook", "cleanup"}
      BY Zenon, <1>3 DEF SendRejected, SendEnqueue, StopAlready, RemoveFromRegistry, goroutine
    <2> QED BY Zenon, <1>0, <1>2, <2>1 DEF Return, Goto
  <1>4. CASE SendRouted(c) \/ StopProceeds(c)
    <2>1. UNCHANGED <<inst, loop, monitor, target>> /\ pc' = [pc EXCEPT ![c] = pc'[c]]
          /\ pc[c] \notin {"capture", "stopHook", "cleanup"}
      BY Zenon, <1>0, <1>4 DEF SendRouted, StopProceeds, goroutine, Goto
    <2> QED BY Zenon, <1>0, <1>2, <2>1
  <1>5. CASE StopStoring(c)
    <2>1. /\ UNCHANGED <<loop, monitor, target>> /\ pc' = [pc EXCEPT ![c] = pc'[c]]
          /\ pc'[c] \in {"capture", "stopHook"} /\ pc[c] # "cleanup"
          /\ inst' = [inst EXCEPT ![target[c]].status = "Stopping"]
      BY Zenon, <1>0, <1>5 DEF StopStoring, SetStatus, goroutine, Goto
    <2>2. \A j \in Instance : /\ inst'[j].id = inst[j].id /\ inst'[j].ctxDone = inst[j].ctxDone
                              /\ target[c] # j => inst'[j].status = inst[j].status
      BY Zenon, <1>0, <1>2, <2>1, StatusUpdate DEF Statuses
    <2> QED BY Zenon, <1>0, <1>2, <2>1, <2>2
  <1>6. CASE Capture(c)
    BY Zenon, <1>0, <1>2, <1>6 DEF Capture, goroutine, Goto
  <1>7. CASE StopHookEnded(c)
    <2>1. /\ UNCHANGED <<loop, monitor, target>> /\ pc' = [pc EXCEPT ![c] = "cancel"]
          /\ pc[c] = "stopHook" /\ inst' = [inst EXCEPT ![target[c]].status = "Stopped"]
      BY Zenon, <1>7 DEF StopHookEnded, SetStatus, goroutine, Goto
    <2>2. /\ inst'[target[c]].status = "Stopped"
          /\ \A j \in Instance : /\ inst'[j].id = inst[j].id /\ inst'[j].ctxDone = inst[j].ctxDone
                                 /\ target[c] # j => inst'[j].status = inst[j].status
      BY Zenon, <1>0, <1>2, <2>1, StatusUpdate DEF Statuses
    <2> QED BY Zenon, <1>0, <1>2, <2>1, <2>2
  <1>8. CASE StopCancel(c)
    <2>1. /\ UNCHANGED <<loop, monitor, target>> /\ pc' = [pc EXCEPT ![c] = "cleanup"]
          /\ pc[c] = "cancel" /\ inst' = [inst EXCEPT ![target[c]].ctxDone = TRUE]
      BY Zenon, <1>8 DEF StopCancel, goroutine, Goto
    <2>2. /\ inst'[target[c]].ctxDone
          /\ \A j \in Instance : /\ inst'[j].id = inst[j].id /\ inst'[j].status = inst[j].status
                                 /\ target[c] # j => inst'[j].ctxDone = inst[j].ctxDone
      BY Zenon, <1>0, <1>2, <2>1, CancelUpdate
    <2> QED BY Zenon, <1>0, <1>2, <2>1, <2>2
  <1>9. CASE StopCleanup(c)
    BY Zenon, <1>0, <1>2, <1>9 DEF StopCleanup, goroutine, Return, Goto
  <1> QED BY Zenon, <1>3, <1>4, <1>5, <1>6, <1>7, <1>8, <1>9 DEF Proceed

LEMMA BeginEffect ==
  ASSUME TypeOK, NEW c \in Client, NEW a \in ActorId,
         Send(c, a) \/ Stop(c, a) \/ StopAndCapture(c, a) \/ RemoveActor(c, a)
  PROVE  /\ UNCHANGED <<inst, loop, monitor>>
         /\ \A e \in Client \ {c} : pc'[e] = pc[e] /\ target'[e] = target[e]
         /\ pc[c] = "idle" /\ pc'[c] \in {"send", "stop", "stopAndCapture", "remove"}
  <1>1. UNCHANGED <<inst, loop, monitor>>
    BY Zenon DEF Send, Stop, StopAndCapture, RemoveActor, goroutine
  <1>2. \E place \in {"send", "stop", "stopAndCapture", "remove"} : Begin(c, place, registry[a])
    BY Zenon DEF Send, Stop, StopAndCapture, RemoveActor
  <1> QED BY Zenon, <1>1, <1>2 DEF TypeOK, CallsOK, Begin, Goto

LEMMA BatchEffect ==
  ASSUME TypeOK, NEW a \in ActorId, NEW b \in BOOLEAN, ConfigureBatching(a, b)
  PROVE  /\ UNCHANGED <<loop, pc, target, monitor>>
         /\ \A j \in Instance : /\ inst'[j].id = inst[j].id /\ inst'[j].status = inst[j].status
                                /\ inst'[j].ctxDone = inst[j].ctxDone
  <1>1. /\ registry[a] \in Instance /\ inst \in [Instance -> InstanceFields]
        /\ inst' = [inst EXCEPT ![registry[a]].batch = b]
    BY Zenon DEF ConfigureBatching, TypeOK, InstancesOK
  <1>2. UNCHANGED <<loop, pc, target, monitor>>
    BY Zenon DEF ConfigureBatching, goroutine, client
  <1> QED BY Zenon, <1>1, <1>2, OtherUpdate

LEMMA TerminalStep ==
  ASSUME TypeOK, InflightShape, TerminalStatus, [Next]_vars
  PROVE  TerminalStatus'
  <1>1. ASSUME NEW i \in Instance, RunActor(i) PROVE TerminalStatus'
    <2>1. UNCHANGED <<pc, target>>
      BY Zenon, <1>1 DEF client, RunActor, StartHookOk, StartHookFailed, SelectDone, SelectNotify, Drain,
         ReadBatchConfig, HandlerOk, HandlerFailedRestart, HandlerFailedStop, RestartHookOk,
         RestartHookFailed, Cleanup
    <2> QED BY <1>1, <2>1, GoroutineEffect DEF TerminalStatus
  <1>2. ASSUME NEW c \in Client, Proceed(c) PROVE TerminalStatus'
    BY <1>2, CallEffect DEF TerminalStatus
  <1>3. ASSUME NEW a \in ActorId, NEW i \in Instance, NEW b \in BOOLEAN, CreateActor(a, i, b)
        PROVE  TerminalStatus'
    BY <1>3, CreateEffect DEF TerminalStatus, client
  <1>4. ASSUME NEW c \in Client, NEW a \in ActorId,
               Send(c, a) \/ Stop(c, a) \/ StopAndCapture(c, a) \/ RemoveActor(c, a)
        PROVE  TerminalStatus'
    BY <1>4, BeginEffect DEF TerminalStatus
  <1>5. ASSUME NEW a \in ActorId, NEW b \in BOOLEAN, ConfigureBatching(a, b)
        PROVE  TerminalStatus'
    BY Zenon, <1>5, BatchEffect DEF TerminalStatus
  <1>6. ASSUME NEW r \in Ref, Demonitor(r) \/ \E a \in ActorId : Monitor(r, a)
        PROVE  TerminalStatus'
    BY <1>6 DEF Monitor, Demonitor, goroutine, client, TerminalStatus
  <1>7. CASE UNCHANGED vars
    BY Zenon, <1>7 DEF vars, TerminalStatus
  <1> QED BY Zenon, <1>1, <1>2, <1>3, <1>4, <1>5, <1>6, <1>7 DEF Next

LEMMA MonitorStep ==
  ASSUME TypeOK, InflightShape, MonitorShape, [Next]_vars
  PROVE  MonitorShape'
  <1>0. monitor \in [Ref -> [status : {"unused", "active", "down", "removed"},
                             id : ActorId \cup {"none"}, inst : Instance \cup {NoInstance}]]
    BY Zenon DEF TypeOK, MonitorsOK
  <1>1. ASSUME NEW i \in Instance, RunActor(i) PROVE MonitorShape'
    <2>1. UNCHANGED <<pc, target>>
      BY Zenon, <1>1 DEF client, RunActor, StartHookOk, StartHookFailed, SelectDone, SelectNotify, Drain,
         ReadBatchConfig, HandlerOk, HandlerFailedRestart, HandlerFailedStop, RestartHookOk,
         RestartHookFailed, Cleanup
    <2>2. CASE loop[i] = "cleanup"
      <3>1. NotifyMonitors(inst[i].id)
        BY Zenon, <1>1, <2>2, GoroutineEffect
      <3>2. \A r \in Ref : monitor'[r].status = "active" =>
              monitor'[r] = monitor[r] /\ monitor[r].id # inst[i].id
        BY Zenon, <1>0, <3>1 DEF NotifyMonitors
      <3> QED BY <1>0, <1>1, <2>1, <3>2, GoroutineEffect DEF MonitorShape
    <2>3. CASE loop[i] # "cleanup"
      <3>1. UNCHANGED monitor
        BY Zenon, <1>1, <2>3, GoroutineEffect
      <3> QED BY <1>0, <1>1, <2>1, <2>3, <3>1, GoroutineEffect DEF MonitorShape
    <2> QED BY Zenon, <2>2, <2>3
  <1>2. ASSUME NEW c \in Client, Proceed(c) PROVE MonitorShape'
    <2>1. CASE pc[c] = "cleanup"
      <3>1. NotifyMonitors(inst[target[c]].id)
        BY Zenon, <1>2, <2>1, CallEffect
      <3>2. \A r \in Ref : monitor'[r].status = "active" =>
              monitor'[r] = monitor[r] /\ monitor[r].id # inst[target[c]].id
        BY Zenon, <1>0, <3>1 DEF NotifyMonitors
      <3> QED BY <1>0, <1>2, <3>2, CallEffect DEF MonitorShape
    <2>2. CASE pc[c] # "cleanup"
      <3>1. UNCHANGED monitor
        BY Zenon, <1>2, <2>2, CallEffect
      <3> QED BY <1>0, <1>2, <2>2, <3>1, CallEffect DEF MonitorShape
    <2> QED BY Zenon, <2>1, <2>2
  <1>3. ASSUME NEW a \in ActorId, NEW i \in Instance, NEW b \in BOOLEAN, CreateActor(a, i, b)
        PROVE  MonitorShape'
    <2>1. \A r \in Ref : monitor[r].status = "active" /\ monitor[r].inst # NoInstance
            => monitor[r].inst # i
      BY <1>0, <1>3, CreateEffect, NoneIsNoId DEF MonitorShape
    <2> QED BY <1>0, <1>3, <2>1, CreateEffect DEF MonitorShape, client
  <1>4. ASSUME NEW c \in Client, NEW a \in ActorId,
               Send(c, a) \/ Stop(c, a) \/ StopAndCapture(c, a) \/ RemoveActor(c, a)
        PROVE  MonitorShape'
    BY <1>0, <1>4, BeginEffect DEF MonitorShape
  <1>5. ASSUME NEW a \in ActorId, NEW b \in BOOLEAN, ConfigureBatching(a, b)
        PROVE  MonitorShape'
    BY <1>0, <1>5, BatchEffect DEF MonitorShape
  <1>6. ASSUME NEW r \in Ref, NEW a \in ActorId, Monitor(r, a) PROVE MonitorShape'
    <2>1. UNCHANGED <<inst, loop, pc, target>>
      BY Zenon, <1>6 DEF Monitor, goroutine, client
    <2>2. /\ \A e \in Ref \ {r} : monitor'[e] = monitor[e]
          /\ monitor'[r].id = a
          /\ \/ monitor'[r].inst = NoInstance
             \/ monitor'[r].inst = registry[a] /\ registry[a] # NoInstance
                /\ ~inst[registry[a]].ctxDone
      BY Zenon, <1>0, <1>6 DEF Monitor
    <2>3. registry[a] # NoInstance => inst[registry[a]].id = a
      BY Zenon DEF TypeOK, InstancesOK
    <2> QED BY <2>1, <2>2, <2>3 DEF MonitorShape
  <1>7. ASSUME NEW r \in Ref, Demonitor(r) PROVE MonitorShape'
    <2>1. UNCHANGED <<inst, loop, pc, target>>
      BY Zenon, <1>7 DEF Demonitor, goroutine, client
    <2>2. \A e \in Ref : monitor'[e].status = "active" => monitor'[e] = monitor[e]
      BY Zenon, <1>0, <1>7 DEF Demonitor
    <2> QED BY <2>1, <2>2 DEF MonitorShape
  <1>8. CASE UNCHANGED vars
    BY Zenon, <1>8 DEF vars, MonitorShape
  <1> QED BY Zenon, <1>1, <1>2, <1>3, <1>4, <1>5, <1>6, <1>7, <1>8 DEF Next
-----------------------------------------------------------------------------
IInv ==
  /\ TypeOK /\ InflightShape /\ AcceptanceOrder /\ ClosedShape
  /\ TerminalStatus /\ MonitorShape

LEMMA InitIInv == Init => IInv
  <1> SUFFICES ASSUME Init PROVE IInv
    OBVIOUS
  <1>1. InstancesOK
    BY NoInstanceAssumption, MaxRestartsAssumption
       DEF Init, InstancesOK, InstanceFields, NewInstance, Statuses
  <1>2. GoroutinesOK
    BY Zenon, EmptySeq DEF Init, GoroutinesOK, NewMailbox, GoroutinePlaces
  <1>3. CallsOK /\ MonitorsOK
    BY Zenon DEF Init, CallsOK, CallPlaces, MonitorsOK
  <1>4. InflightShape /\ ClosedShape /\ TerminalStatus /\ MonitorShape
    BY Zenon DEF Init, InflightShape, ClosedShape, TerminalStatus, MonitorShape
  <1>5. AcceptanceOrder
    BY Zenon, EmptySeq, ConcatEmptySeq DEF Init, AcceptanceOrder, NewMailbox
  <1> QED BY Zenon, <1>1, <1>2, <1>3, <1>4, <1>5 DEF IInv, TypeOK

LEMMA NextIInv == IInv /\ [Next]_vars => IInv'
BY Zenon, TypeStep, InflightStep, OrderStep, ClosedStep, TerminalStep, MonitorStep DEF IInv

LEMMA IInvMonitors == IInv => MonitorsReported
  <1> SUFFICES ASSUME IInv, NEW i \in Instance, NEW r \in Ref, loop[i] = "done",
                      monitor[r].status = "active", monitor[r].inst = i,
                      \A c \in Client : target[c] = i => pc[c] # "cleanup"
               PROVE  FALSE
    BY Zenon DEF MonitorsReported
  <1>1. inst[i].ctxDone
    BY Zenon DEF IInv, MonitorShape
  <1>2. i # NoInstance
    BY Zenon, NoInstanceAssumption
  <1> QED BY Zenon, <1>1, <1>2 DEF IInv, MonitorShape

\* For any number of actors and callers: no accepted message is lost, repeated or
\* overtaken, whatever restarts, batches and stops come between; a finished actor
\* ends with the status Stopped; and the monitors of an instance whose goroutine
\* ended after running have all been told.
THEOREM ActorSafety ==
  Spec => [](TypeOK /\ AcceptanceOrder /\ TerminalStatus /\ MonitorsReported)
  <1>1. IInv => TypeOK /\ AcceptanceOrder /\ TerminalStatus /\ MonitorsReported
    BY Zenon, IInvMonitors DEF IInv
  <1> QED BY <1>1, InitIInv, NextIInv, PTL DEF Spec

LEMMA ReturnedAcceptsNothing ==
  ASSUME IInv, [Next]_vars
  PROVE  \A i \in returned : accepted'[i] = accepted[i]
  <1>1. ASSUME NEW c \in Client, SendEnqueue(c), NEW i \in returned
        PROVE  accepted'[i] = accepted[i]
    <2>1. target[c] \in Instance /\ msg[c] \in Nat /\ i \in Instance
      BY Zenon, <1>1, NoInstanceAssumption DEF SendEnqueue, IInv, TypeOK, CallsOK
    <2>2. mailbox[i] \in Boxes /\ mailbox[i].closed
      BY Zenon, <2>1 DEF IInv, TypeOK, GoroutinesOK, Boxes, ClosedShape
    <2>3. EnqueueResult(mailbox[i], Capacity) # "Accepted"
      BY Zenon, <2>1, <2>2, EnqueueFacts
    <2>4. accepted \in [Instance -> Seq(Nat)]
      BY Zenon DEF IInv, TypeOK, GoroutinesOK
    <2> QED BY Zenon, <1>1, <2>1, <2>3, <2>4 DEF SendEnqueue
  <1>2. ASSUME NEW i \in Instance, RunActor(i) PROVE UNCHANGED accepted
    BY Zenon, <1>2 DEF RunActor, StartHookOk, StartHookFailed, SelectDone, SelectNotify, Drain,
       ReadBatchConfig, HandlerOk, HandlerFailedRestart, HandlerFailedStop, RestartHookOk,
       RestartHookFailed, Cleanup
  <1>3. ASSUME NEW c \in Client, StopCancel(c) PROVE UNCHANGED accepted
    BY Zenon, <1>3 DEF StopCancel
  <1>4. ASSUME NEW a \in ActorId, NEW i \in Instance, NEW b \in BOOLEAN, CreateActor(a, i, b)
        PROVE  UNCHANGED accepted
    BY Zenon, <1>4 DEF CreateActor
  <1> QED BY Zenon, <1>1, <1>2, <1>3, <1>4, GoroutineFrame

\* For any number of actors and callers: once a Stop of an instance has returned
\* StopStopped, no Send is accepted by it any more.
THEOREM ActorStopIsFinal == Spec => StopIsFinal
  <1>1. IInv /\ [Next]_vars => [\A i \in returned : accepted'[i] = accepted[i]]_vars
    BY Zenon, ReturnedAcceptsNothing
  <1> QED BY <1>1, InitIInv, NextIInv, PTL DEF Spec, StopIsFinal

\* The registry, the goroutines, the mailboxes and the calls keep their types, the
\* count of restarts within the limit of the supervisor included.
THEOREM ActorTypes == Spec => []TypeOK
  BY ActorSafety, PTL

\* Whatever Stop, restarts and the end of the goroutine write over each other, an
\* instance whose goroutine is gone is Stopped, unless a Stop is at its stop hook.
THEOREM ActorTerminalStatus == Spec => []TerminalStatus
  BY ActorSafety, PTL

\* No monitor of an instance that ended is left behind by the drain of
\* notifyMonitors.
THEOREM ActorMonitorsReported == Spec => []MonitorsReported
  BY ActorSafety, PTL
=============================================================================
