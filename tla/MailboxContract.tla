-------------------------- MODULE MailboxContract --------------------------
(***************************************************************************)
(* The abstract specification of a mailbox: any caller may enqueue,        *)
(* dequeue, take the wake-up token or close, in any order, and every call  *)
(* answers as a bounded first-in first-out queue does.  answer is what the *)
(* last Enqueue returned, received what the last Dequeue or DequeueBatch   *)
(* returned.  Module Mailbox implements this specification.                *)
(***************************************************************************)
EXTENDS FifoMailbox

CONSTANTS Message, Capacity, BatchSizes

VARIABLES box, answer, received

vars == <<box, answer, received>>

Init ==
  /\ box = NewMailbox
  /\ answer = "Accepted"
  /\ received = <<>>

Send(msg) ==
  /\ answer' = EnqueueResult(box, Capacity)
  /\ box' = Enqueue(box, Capacity, msg)
  /\ UNCHANGED received

Receive(limit) ==
  /\ received' = Batch(box, limit)
  /\ box' = Dequeue(box, limit)
  /\ UNCHANGED answer

Wake ==
  /\ box.notify
  /\ box' = TakeNotify(box)
  /\ UNCHANGED <<answer, received>>

Shut ==
  /\ box' = Close(box)
  /\ UNCHANGED <<answer, received>>

Next ==
  \/ \E msg \in Message : Send(msg)
  \/ \E limit \in BatchSizes : Receive(limit)
  \/ Wake
  \/ Shut

Spec == Init /\ [][Next]_vars
=============================================================================
