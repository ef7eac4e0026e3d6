---------------------------- MODULE FifoMailbox ----------------------------
(***************************************************************************)
(* What an actor's mailbox promises its users: a bounded first-in          *)
(* first-out queue that can be closed, with a wake-up channel of capacity  *)
(* one.  A mailbox is a record                                             *)
(*    queue   the messages that wait, oldest first                         *)
(*    notify  TRUE iff the wake-up channel holds its one token             *)
(*    closed  TRUE after Close                                             *)
(* The operators below are the methods of mailbox.go seen from outside;    *)
(* every method holds the mailbox's mutex, so each is one atomic step.     *)
(* The slice-and-head representation of the code is module Mailbox.        *)
(***************************************************************************)
EXTENDS Naturals, Sequences

NewMailbox == [queue |-> <<>>, notify |-> FALSE, closed |-> FALSE]

Results == {"Accepted", "RejectedFull", "RejectedStop"}

\* What Enqueue answers: a closed mailbox rejects before a full one does.
EnqueueResult(m, capacity) ==
  IF m.closed THEN "RejectedStop"
  ELSE IF Len(m.queue) >= capacity THEN "RejectedFull"
  ELSE "Accepted"

\* Enqueue leaves a token only when the mailbox was empty.
Enqueue(m, capacity, msg) ==
  IF EnqueueResult(m, capacity) # "Accepted" THEN m
  ELSE [queue |-> Append(m.queue, msg), notify |-> m.notify \/ m.queue = <<>>,
        closed |-> m.closed]

\* How many messages DequeueBatch(limit) takes; Dequeue is limit 1.
Taken(m, limit) ==
  LET atLeastOne == IF limit = 0 THEN 1 ELSE limit
  IN  IF atLeastOne > Len(m.queue) THEN Len(m.queue) ELSE atLeastOne

\* The messages a Dequeue or DequeueBatch returns (none when it is empty).
Batch(m, limit) == SubSeq(m.queue, 1, Taken(m, limit))

\* What it leaves, with a token when messages remain.
Dequeue(m, limit) ==
  LET rest == SubSeq(m.queue, Taken(m, limit) + 1, Len(m.queue))
  IN  [queue |-> rest, notify |-> m.notify \/ rest # <<>>, closed |-> m.closed]

\* The run loop receives the token.
TakeNotify(m) == [queue |-> m.queue, notify |-> FALSE, closed |-> m.closed]

Close(m) == [queue |-> m.queue, notify |-> m.notify, closed |-> TRUE]
=============================================================================
