------------------------------ MODULE Mailbox ------------------------------
(***************************************************************************)
(* The mailbox of mailbox.go as it is represented: a slice, the index of   *)
(* its first live element, and a wake-up channel of capacity one.  Taken   *)
(* slots are zeroed; the slice is reset when it empties and compacted when *)
(* the dead prefix is long.  Producers call Enqueue from any goroutine;    *)
(* one consumer, the loop of runActor, waits for the token and then drains *)
(* the mailbox until it is empty.  Every method holds the mutex, so each   *)
(* call is one step.                                                       *)
(***************************************************************************)
EXTENDS Integers, Sequences

CONSTANTS
  Message,      \* the messages senders may submit, each at most once
  Zero,         \* the zero Message{} a taken slot is overwritten with
  Configured,   \* the capacity passed to NewMailbox
  CompactAt,    \* the dead prefix below which the slice is not compacted (64)
  BatchSizes    \* the batch limits the consumer's configuration may hold

ASSUME MessageAssumption == Zero \notin Message
ASSUME ConfiguredAssumption == Configured \in Int
ASSUME CompactAtAssumption == CompactAt \in Nat
ASSUME BatchSizesAssumption == BatchSizes \subseteq Nat

VARIABLES
  mb,         \* the Mailbox struct
  loop,       \* where the consumer is: at the select, or draining
  sent,       \* the messages submitted so far (bounds the model)
  answer,     \* what the last Enqueue returned
  received    \* what the last Dequeue or DequeueBatch returned

vars == <<mb, loop, sent, answer, received>>
-----------------------------------------------------------------------------
\* NewMailbox replaces a capacity that is not positive by 16.
Capacity == IF Configured <= 0 THEN 16 ELSE Configured

Live(m) == Len(m.queue) - m.head

EnqueueResult(m) ==
  IF m.closed THEN "RejectedStop"
  ELSE IF Live(m) >= Capacity THEN "RejectedFull"
  ELSE "Accepted"

\* A slip: the token is left when the mailbox was not empty.
EnqueueMsg_NoToken(m, msg) ==
  IF EnqueueResult(m) # "Accepted" THEN m
  ELSE [m EXCEPT !.queue = Append(m.queue, msg),
                 !.notify = m.notify \/ Live(m) > 0]

EnqueueMsg(m, msg) ==
  IF EnqueueResult(m) # "Accepted" THEN m
  ELSE [m EXCEPT !.queue = Append(m.queue, msg),
                 !.notify = m.notify \/ Live(m) = 0]

\* How many messages a call that asks for limit takes.
Take(m, limit) ==
  LET atLeastOne == IF limit <= 0 THEN 1 ELSE limit
  IN  IF atLeastOne > Live(m) THEN Live(m) ELSE atLeastOne

\* A slip: the slice is cut to the live length before the live part is copied.
Compacted_NoCopy(q, head) ==
  IF head >= Len(q) THEN [queue |-> <<>>, head |-> 0]
  ELSE IF head > CompactAt /\ head * 2 >= Len(q)
       THEN [queue |-> SubSeq(q, 1, Len(q) - head), head |-> 0]
       ELSE [queue |-> q, head |-> head]

\* A slip: the slice is only reset when it empties.
Compacted_Never(q, head) ==
  IF head >= Len(q) THEN [queue |-> <<>>, head |-> 0] ELSE [queue |-> q, head |-> head]

\* The slice and head after head was advanced: reset when nothing is live,
\* compacted when the dead prefix is long and at least half of the slice.
Compacted(q, head) ==
  IF head >= Len(q) THEN [queue |-> <<>>, head |-> 0]
  ELSE IF head > CompactAt /\ head * 2 >= Len(q)
       THEN [queue |-> [i \in 1..(Len(q) - head) |-> q[head + i]], head |-> 0]
       ELSE [queue |-> q, head |-> head]

DequeuedMsgs(m, limit) == [i \in 1..Take(m, limit) |-> m.queue[m.head + i]]

\* A slip: the taken slots keep their messages.
DequeueMsgs_NoZero(m, limit) ==
  LET slice == Compacted(m.queue, m.head + Take(m, limit))
  IN  IF Live(m) = 0 THEN m
      ELSE [queue |-> slice.queue, head |-> slice.head,
            notify |-> m.notify \/ Len(slice.queue) - slice.head > 0,
            closed |-> m.closed]

\* An empty mailbox is left alone; otherwise the taken slots are zeroed, head
\* advances, and a token is left when live messages remain.
DequeueMsgs(m, limit) ==
  LET taken  == Take(m, limit)
      zeroed == [i \in 1..Len(m.queue) |->
                   IF i \in (m.head + 1)..(m.head + taken) THEN Zero ELSE m.queue[i]]
      slice  == Compacted(zeroed, m.head + taken)
  IN  IF Live(m) = 0 THEN m
      ELSE [queue |-> slice.queue, head |-> slice.head,
            notify |-> m.notify \/ Len(slice.queue) - slice.head > 0,
            closed |-> m.closed]
-----------------------------------------------------------------------------
Init ==
  /\ mb = [queue |-> <<>>, head |-> 0, notify |-> FALSE, closed |-> FALSE]
  /\ loop = "select"
  /\ sent = {}
  /\ answer = "Accepted"
  /\ received = <<>>

\* A sender's call of Enqueue.
Submit(msg) ==
  /\ msg \notin sent
  /\ sent' = sent \cup {msg}
  /\ answer' = EnqueueResult(mb)
  /\ mb' = EnqueueMsg(mb, msg)
  /\ UNCHANGED <<loop, received>>

\* The consumer's select receives the token and the inner loop begins.
WakeUp ==
  /\ loop = "select"
  /\ mb.notify
  /\ mb' = [mb EXCEPT !.notify = FALSE]
  /\ loop' = "drain"
  /\ UNCHANGED <<sent, answer, received>>

\* A slip: the inner loop takes one message (or batch) and goes back to the
\* select, and the token it took is gone.
Drain_Once(limit) ==
  /\ loop = "drain"
  /\ received' = DequeuedMsgs(mb, limit)
  /\ mb' = [DequeueMsgs(mb, limit) EXCEPT !.notify = mb.notify]
  /\ loop' = "select"
  /\ UNCHANGED <<sent, answer>>

\* One turn of the inner loop: Dequeue (limit 1) or DequeueBatch; back to the
\* select when there was nothing to take.
Drain(limit) ==
  /\ loop = "drain"
  /\ received' = DequeuedMsgs(mb, limit)
  /\ mb' = DequeueMsgs(mb, limit)
  /\ loop' = IF Live(mb) = 0 THEN "select" ELSE "drain"
  /\ UNCHANGED <<sent, answer>>

Shutdown ==
  /\ mb' = [mb EXCEPT !.closed = TRUE]
  /\ UNCHANGED <<loop, sent, answer, received>>

Next ==
  \/ \E msg \in Message : Submit(msg)
  \/ WakeUp
  \/ \E limit \in BatchSizes : Drain(limit)
  \/ Shutdown

Spec == Init /\ [][Next]_vars

\* The consumer is a goroutine the scheduler keeps running: its select fires
\* when the token is there, and its inner loop goes on.
Fairness ==
  /\ WF_vars(WakeUp)
  /\ WF_vars(\E limit \in BatchSizes : Drain(limit))

FairSpec == Spec /\ Fairness
-----------------------------------------------------------------------------
\* What the mailbox looks like to its callers.
Contents(m) == [i \in 1..Live(m) |-> m.queue[m.head + i]]

Abstract(m) == [queue |-> Contents(m), notify |-> m.notify, closed |-> m.closed]

\* The shape of the struct: head is inside the slice (at its end only when the
\* slice is empty), every slot before head has been zeroed, so that a handled
\* message is not retained, and every slot from head on holds a message.
TypeOK ==
  /\ mb \in [queue : Seq(Message \cup {Zero}), head : Nat,
             notify : BOOLEAN, closed : BOOLEAN]
  /\ mb.head < Len(mb.queue) \/ (mb.head = 0 /\ mb.queue = <<>>)
  /\ \A i \in 1..Len(mb.queue) : mb.queue[i] = Zero <=> i <= mb.head
  /\ loop \in {"select", "drain"}
  /\ sent \subseteq Message
  /\ answer \in {"Accepted", "RejectedFull", "RejectedStop"}
  /\ received \in Seq(Message)

\* A mailbox that is never emptied still occupies bounded memory: whatever the
\* interleaving of Enqueue, Dequeue and DequeueBatch, the slice is at most twice
\* the capacity, or the capacity plus the prefix compaction tolerates.
SliceBounded ==
  /\ Live(mb) <= Capacity
  /\ Len(mb.queue) < 2 * Capacity \/ Len(mb.queue) <= Capacity + CompactAt

\* No lost wake-up: the run loop never blocks in its select while a message
\* waits, although Enqueue signals only a mailbox that was empty and drops the
\* signal when a token is already in the channel.
NoLostWakeup == loop = "select" /\ Live(mb) > 0 => mb.notify

Contract == INSTANCE MailboxContract WITH box <- Abstract(mb)

\* The slice with its head index, zeroing and compaction behaves, call by call,
\* as the bounded first-in first-out queue of the abstract specification.
FifoContract == Contract!Spec

\* Every message the mailbox accepts is taken by the run loop, also when Close
\* comes before it is taken.
EveryMessageTaken ==
  \A msg \in Message :
    (\E i \in DOMAIN Contents(mb) : Contents(mb)[i] = msg)
      ~> (\A i \in DOMAIN Contents(mb) : Contents(mb)[i] # msg)
=============================================================================
