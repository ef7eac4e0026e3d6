--------------------------- MODULE MailboxProofs ---------------------------
(***************************************************************************)
(* Proofs about the mailbox, for every set of messages, every capacity and *)
(* every compaction threshold.                                             *)
(***************************************************************************)
EXTENDS Mailbox, TLAPS

Slot == Message \cup {Zero}

\* The dead prefix is short, or less than half of the slice.
PrefixShort(q, head) == head <= CompactAt \/ head * 2 < Len(q)

\* The slice part of TypeOK.
Shape(q, head) ==
  /\ q \in Seq(Slot)
  /\ head \in Nat
  /\ head < Len(q) \/ (head = 0 /\ q = <<>>)
  /\ \A i \in 1..Len(q) : q[i] = Zero <=> i <= head

Inv ==
  /\ TypeOK
  /\ NoLostWakeup
  /\ Live(mb) <= Capacity
  /\ PrefixShort(mb.queue, mb.head)

\* NewMailbox never yields a capacity below one.
LEMMA CapacityPositive == Capacity \in Nat \ {0}
  BY ConfiguredAssumption DEF Capacity

\* A function on 1..n is a sequence of length n.
LEMMA FunctionIsSeq ==
  ASSUME NEW S, NEW n \in Nat, NEW f \in [1..n -> S]
  PROVE  f \in Seq(S) /\ Len(f) = n
  OBVIOUS

\* A slot past the dead prefix holds a message.
LEMMA LiveSlot ==
  ASSUME NEW q \in Seq(Slot), NEW head \in Nat,
         \A j \in 1..Len(q) : q[j] = Zero <=> j <= head,
         NEW i \in 1..Len(q), i > head
  PROVE  q[i] \in Message
  <1>1. q[i] \in Slot
    OBVIOUS
  <1> QED
    BY <1>1 DEF Slot

\* Cutting the dead prefix off leaves a well-shaped slice with the same number
\* of live elements and a short dead prefix.
LEMMA CompactedShape ==
  ASSUME NEW q \in Seq(Slot), NEW head \in Nat, head <= Len(q),
         \A i \in 1..Len(q) : q[i] = Zero <=> i <= head
  PROVE  LET s == Compacted(q, head)
         IN  /\ Shape(s.queue, s.head)
             /\ Len(s.queue) - s.head = Len(q) - head
             /\ PrefixShort(s.queue, s.head)
             /\ \A i \in 1..(Len(q) - head) : s.queue[s.head + i] = q[head + i]
  <1>1. CASE head >= Len(q)
    BY <1>1, CompactAtAssumption DEF Compacted, Shape, PrefixShort
  <1>2. CASE head < Len(q) /\ head > CompactAt /\ head * 2 >= Len(q)
    <2> DEFINE r == [i \in 1..(Len(q) - head) |-> q[head + i]]
    <2>1. r \in Seq(Slot) /\ Len(r) = Len(q) - head
      BY <1>2
    <2>2. Compacted(q, head) = [queue |-> r, head |-> 0]
      BY <1>2 DEF Compacted
    <2>3. \A i \in 1..Len(r) : r[i] # Zero
      BY <1>2, <2>1
    <2> QED
      BY <1>2, <2>1, <2>2, <2>3, CompactAtAssumption DEF Shape, PrefixShort
  <1>3. CASE head < Len(q) /\ ~(head > CompactAt /\ head * 2 >= Len(q))
    BY <1>3, CompactAtAssumption DEF Compacted, Shape, PrefixShort
  <1> QED
    BY <1>1, <1>2, <1>3

\* DequeueMsgs takes at most what is live, hands out only messages, and leaves
\* a well-shaped slice whose live part is what was not taken.
LEMMA DequeueShape ==
  ASSUME TypeOK, NEW limit \in Nat, Live(mb) > 0
  PROVE  LET k == Take(mb, limit)
             m == DequeueMsgs(mb, limit)
         IN  /\ k \in 1..Live(mb)
             /\ DequeuedMsgs(mb, limit) \in Seq(Message)
             /\ m \in [queue : Seq(Slot), head : Nat, notify : BOOLEAN, closed : BOOLEAN]
             /\ Shape(m.queue, m.head)
             /\ Live(m) = Live(mb) - k
             /\ PrefixShort(m.queue, m.head)
             /\ m.notify = (mb.notify \/ Live(m) > 0)
             /\ m.closed = mb.closed
             /\ \A i \in 1..Live(m) : m.queue[m.head + i] = mb.queue[mb.head + k + i]
  <1> DEFINE k == Take(mb, limit)
             zeroed == [i \in 1..Len(mb.queue) |->
                          IF i \in (mb.head + 1)..(mb.head + k) THEN Zero ELSE mb.queue[i]]
             s == Compacted(zeroed, mb.head + k)
             m == DequeueMsgs(mb, limit)
  <1>1. /\ mb.queue \in Seq(Slot) /\ mb.head \in Nat /\ Len(mb.queue) \in Nat
        /\ mb.head < Len(mb.queue)
        /\ \A i \in 1..Len(mb.queue) : mb.queue[i] = Zero <=> i <= mb.head
        /\ mb.notify \in BOOLEAN /\ mb.closed \in BOOLEAN
    BY DEF TypeOK, Live, Slot
  <1>2. Live(mb) \in Nat /\ Live(mb) = Len(mb.queue) - mb.head
    BY <1>1 DEF Live
  <1>3. k \in 1..Live(mb)
    BY <1>2 DEF Take
  <1>4. DequeuedMsgs(mb, limit) \in Seq(Message)
    <2>1. DequeuedMsgs(mb, limit) = [i \in 1..k |-> mb.queue[mb.head + i]]
      BY Zenon DEF DequeuedMsgs
    <2> HIDE DEF k
    <2>2. \A i \in 1..k : mb.queue[mb.head + i] \in Message
      <3> TAKE i \in 1..k
      <3>1. mb.head + i \in 1..Len(mb.queue) /\ mb.head + i > mb.head
        BY <1>1, <1>2, <1>3
      <3> QED BY Zenon, <1>1, <3>1, LiveSlot
    <2> QED
      BY <1>2, <1>3, <2>1, <2>2, FunctionIsSeq
  <1>5. /\ zeroed \in Seq(Slot) /\ Len(zeroed) = Len(mb.queue)
        /\ \A i \in 1..Len(zeroed) : zeroed[i] = Zero <=> i <= mb.head + k
    <2> HIDE DEF k
    <2>1. \A i \in 1..Len(mb.queue) : zeroed[i] \in Slot
      BY <1>1, <1>3 DEF Slot
    <2>2. zeroed \in Seq(Slot) /\ Len(zeroed) = Len(mb.queue)
      <3>1. zeroed \in [1..Len(mb.queue) -> Slot]
        BY Zenon, <2>1
      <3> HIDE DEF zeroed
      <3> QED BY Zenon, <1>1, <3>1, FunctionIsSeq
    <2> QED
      BY <1>1, <1>2, <1>3, <2>2
  <1>6. /\ Shape(s.queue, s.head)
        /\ Len(s.queue) - s.head = Len(zeroed) - (mb.head + k)
        /\ PrefixShort(s.queue, s.head)
        /\ \A i \in 1..(Len(zeroed) - (mb.head + k)) :
              s.queue[s.head + i] = zeroed[mb.head + k + i]
    <2> HIDE DEF k, zeroed
    <2>1. mb.head + k \in Nat /\ mb.head + k <= Len(zeroed)
      BY <1>1, <1>2, <1>3, <1>5
    <2> QED
      BY Zenon, <1>5, <2>1, CompactedShape
  <1>7. /\ m = [queue |-> s.queue, head |-> s.head,
                notify |-> mb.notify \/ Len(s.queue) - s.head > 0,
                closed |-> mb.closed]
    BY <1>2 DEF DequeueMsgs
  <1>8. Live(m) = Live(mb) - k
    <2> HIDE DEF k, zeroed, s, m
    <2> QED
      BY <1>2, <1>3, <1>5, <1>6, <1>7, <1>1 DEF Live
  <1>9. \A i \in 1..Live(m) : m.queue[m.head + i] = mb.queue[mb.head + k + i]
    <2>1. \A i \in 1..(Live(mb) - k) : zeroed[mb.head + k + i] = mb.queue[mb.head + k + i]
      <3> HIDE DEF k
      <3> QED BY <1>1, <1>2, <1>3
    <2> HIDE DEF k, zeroed, s, m
    <2> QED
      BY <1>1, <1>2, <1>3, <1>5, <1>6, <1>7, <1>8, <2>1
  <1>10. /\ Shape(m.queue, m.head) /\ PrefixShort(m.queue, m.head)
         /\ m.notify = (mb.notify \/ Live(m) > 0)
         /\ m.closed = mb.closed
    <2> HIDE DEF k, zeroed, s, m
    <2> QED BY Zenon, <1>6, <1>7 DEF Live
  <1>11. m \in [queue : Seq(Slot), head : Nat, notify : BOOLEAN, closed : BOOLEAN]
    <2> HIDE DEF k, zeroed, s, m
    <2> QED BY Zenon, <1>1, <1>6, <1>7 DEF Shape
  <1> QED
    <2> HIDE DEF k, zeroed, s, m
    <2> QED BY Zenon, <1>3, <1>4, <1>8, <1>9, <1>10, <1>11 DEF k, m
-----------------------------------------------------------------------------
\* EnqueueMsg keeps the shape of the slice, adds at most one live element and
\* leaves a token when it adds the first.
LEMMA EnqueueShape ==
  ASSUME TypeOK, NEW msg \in Message
  PROVE  LET m == EnqueueMsg(mb, msg)
         IN  /\ m \in [queue : Seq(Slot), head : Nat, notify : BOOLEAN, closed : BOOLEAN]
             /\ Shape(m.queue, m.head)
             /\ m.head = mb.head
             /\ Live(m) > 0 /\ Live(mb) = 0 => m.notify
             /\ mb.notify => m.notify
             /\ Live(mb) <= Capacity => Live(m) <= Capacity
             /\ Len(m.queue) >= Len(mb.queue)
  <1>1. /\ mb \in [queue : Seq(Slot), head : Nat, notify : BOOLEAN, closed : BOOLEAN]
        /\ Shape(mb.queue, mb.head)
    BY Zenon DEF TypeOK, Slot, Shape
  <1>2. CASE EnqueueResult(mb) # "Accepted"
    BY <1>1, <1>2 DEF EnqueueMsg, Shape
  <1>3. CASE EnqueueResult(mb) = "Accepted"
    <2> DEFINE q == Append(mb.queue, msg)
    <2>1. Live(mb) < Capacity
      BY <1>1, <1>3, CapacityPositive DEF EnqueueResult, Live
    <2>2. EnqueueMsg(mb, msg) = [mb EXCEPT !.queue = q, !.notify = mb.notify \/ Live(mb) = 0]
      BY Zenon, <1>3 DEF EnqueueMsg
    <2>3. q \in Seq(Slot) /\ Len(q) = Len(mb.queue) + 1
      BY <1>1 DEF Slot
    <2>4. \A i \in 1..Len(q) : q[i] = IF i <= Len(mb.queue) THEN mb.queue[i] ELSE msg
      BY <1>1 DEF Slot
    <2>5. Shape(q, mb.head)
      <3> HIDE DEF q
      <3> QED BY <1>1, <2>3, <2>4, MessageAssumption DEF Shape
    <2> QED
      <3> DEFINE m == EnqueueMsg(mb, msg)
      <3>1. /\ m.queue = q /\ m.head = mb.head
            /\ m.notify = (mb.notify \/ Live(mb) = 0)
            /\ m \in [queue : Seq(Slot), head : Nat, notify : BOOLEAN, closed : BOOLEAN]
        <4> HIDE DEF q
        <4> QED BY Zenon, <1>1, <2>2, <2>3
      <3>2. Live(m) = Live(mb) + 1 /\ Live(mb) \in Nat
        <4> HIDE DEF q, m
        <4> QED BY <1>1, <2>3, <3>1 DEF Live, Shape
      <3> HIDE DEF q, m
      <3>3. Live(m) <= Capacity
        BY <2>1, <3>2, CapacityPositive
      <3>4. Len(m.queue) >= Len(mb.queue)
        BY <1>1, <2>3, <3>1
      <3> QED BY Zenon, <2>5, <3>1, <3>2, <3>3, <3>4 DEF m
  <1> QED
    BY Zenon, <1>2, <1>3

\* The inductive invariant holds initially.
LEMMA InitInv == Init => Inv
  <1> SUFFICES ASSUME Init PROVE Inv
    OBVIOUS
  <1>1. /\ mb.queue = <<>> /\ mb.head = 0 /\ mb.notify = FALSE /\ mb.closed = FALSE
        /\ mb \in [queue : Seq(Message \cup {Zero}), head : Nat, notify : BOOLEAN, closed : BOOLEAN]
    BY DEF Init
  <1> QED
    BY <1>1, CapacityPositive, CompactAtAssumption
       DEF Init, Inv, TypeOK, NoLostWakeup, Live, PrefixShort

\* Every call, and every turn of the run loop, preserves it.
LEMMA NextInv == Inv /\ [Next]_vars => Inv'
  <1> SUFFICES ASSUME Inv, [Next]_vars PROVE Inv'
    OBVIOUS
  <1>1. /\ TypeOK
        /\ mb \in [queue : Seq(Slot), head : Nat, notify : BOOLEAN, closed : BOOLEAN]
        /\ Shape(mb.queue, mb.head)
        /\ Live(mb) \in Nat
    BY DEF Inv, TypeOK, Shape, Slot, Live
  <1>2. ASSUME NEW msg \in Message, Submit(msg) PROVE Inv'
    <2> DEFINE m == EnqueueMsg(mb, msg)
    <2>1. /\ m \in [queue : Seq(Slot), head : Nat, notify : BOOLEAN, closed : BOOLEAN]
          /\ Shape(m.queue, m.head)
          /\ m.head = mb.head
          /\ Live(m) > 0 /\ Live(mb) = 0 => m.notify
          /\ mb.notify => m.notify
          /\ Live(mb) <= Capacity => Live(m) <= Capacity
          /\ Len(m.queue) >= Len(mb.queue)
      BY Zenon, <1>1, EnqueueShape
    <2>2. mb' = m
      BY Zenon, <1>2 DEF Submit
    <2> HIDE DEF m
    <2>3. TypeOK'
      BY Zenon, <1>1, <1>2, <2>1, <2>2 DEF Submit, TypeOK, Shape, Slot, EnqueueResult
    <2>4. NoLostWakeup'
      BY <1>1, <1>2, <2>1, <2>2 DEF Submit, Inv, NoLostWakeup
    <2>5. (Live(mb) <= Capacity)'
      BY Zenon, <2>1, <2>2, CapacityPositive DEF Inv
    <2>6. PrefixShort(mb.queue, mb.head)'
      BY <1>1, <2>1, <2>2, CompactAtAssumption DEF Inv, PrefixShort, Shape
    <2> QED
      BY Zenon, <2>3, <2>4, <2>5, <2>6 DEF Inv
  <1>3. CASE WakeUp
    <2>1. /\ mb'.queue = mb.queue /\ mb'.head = mb.head
          /\ mb' \in [queue : Seq(Slot), head : Nat, notify : BOOLEAN, closed : BOOLEAN]
          /\ loop' = "drain" /\ UNCHANGED <<sent, answer, received>>
      BY Zenon, <1>1, <1>3 DEF WakeUp
    <2> QED
      BY Zenon, <1>1, <2>1 DEF Inv, TypeOK, NoLostWakeup, Live, PrefixShort, Slot
  <1>4. ASSUME NEW limit \in BatchSizes, Drain(limit) PROVE Inv'
    <2>0. limit \in Nat
      BY Zenon, BatchSizesAssumption
    <2>1. CASE Live(mb) = 0
      <3>1. mb' = mb /\ loop' = "select" /\ UNCHANGED <<sent, answer>>
        BY Zenon, <1>4, <2>1 DEF Drain, DequeueMsgs
      <3>2. received' \in Seq(Message)
        <4>1. Take(mb, limit) = 0
          BY <2>0, <2>1 DEF Take
        <4>2. received' = [i \in 1..0 |-> mb.queue[mb.head + i]]
          BY Zenon, <1>4, <4>1 DEF Drain, DequeuedMsgs
        <4> QED BY <4>2
      <3> QED
        BY <1>1, <2>1, <3>1, <3>2 DEF Inv, TypeOK, NoLostWakeup
    <2>2. CASE Live(mb) > 0
      <3> DEFINE m == DequeueMsgs(mb, limit)
      <3>1. /\ Take(mb, limit) \in 1..Live(mb)
            /\ DequeuedMsgs(mb, limit) \in Seq(Message)
            /\ m \in [queue : Seq(Slot), head : Nat, notify : BOOLEAN, closed : BOOLEAN]
            /\ Shape(m.queue, m.head)
            /\ Live(m) = Live(mb) - Take(mb, limit)
            /\ PrefixShort(m.queue, m.head)
        BY Zenon, <1>1, <2>0, <2>2, DequeueShape
      <3>2. /\ mb' = m /\ loop' = "drain" /\ UNCHANGED <<sent, answer>>
            /\ received' = DequeuedMsgs(mb, limit)
        BY <1>4, <1>1, <2>2 DEF Drain
      <3> HIDE DEF m
      <3>3. TypeOK'
        BY Zenon, <1>1, <3>1, <3>2 DEF TypeOK, Shape, Slot
      <3>4. (Live(mb) <= Capacity)'
        BY <1>1, <3>1, <3>2, CapacityPositive DEF Inv
      <3> QED
        BY Zenon, <3>1, <3>2, <3>3, <3>4 DEF Inv, NoLostWakeup
    <2> QED
      BY <1>1, <2>1, <2>2
  <1>5. CASE Shutdown
    <2>1. /\ mb'.queue = mb.queue /\ mb'.head = mb.head /\ mb'.notify = mb.notify
          /\ mb' \in [queue : Seq(Slot), head : Nat, notify : BOOLEAN, closed : BOOLEAN]
          /\ UNCHANGED <<loop, sent, answer, received>>
      BY Zenon, <1>1, <1>5 DEF Shutdown
    <2> QED
      BY Zenon, <1>1, <2>1 DEF Inv, TypeOK, NoLostWakeup, Live, PrefixShort, Slot
  <1>6. CASE UNCHANGED vars
    BY Zenon, <1>6 DEF vars, Inv, TypeOK, NoLostWakeup, Live, PrefixShort
  <1> QED
    BY Zenon, <1>2, <1>3, <1>4, <1>5, <1>6 DEF Next

\* Along every behaviour of the mailbox the struct keeps its shape, a waiting
\* message always has the run loop awake or a token to wake it, and the slice
\* stays within its bound, for every capacity and compaction threshold.
THEOREM MailboxSafety == Spec => [](TypeOK /\ NoLostWakeup /\ SliceBounded)
  <1>1. Inv => TypeOK /\ NoLostWakeup /\ SliceBounded
    <2> SUFFICES ASSUME Inv PROVE SliceBounded
      BY Zenon DEF Inv
    <2>1. mb.head \in Nat /\ Len(mb.queue) \in Nat /\ Live(mb) = Len(mb.queue) - mb.head
      BY DEF Inv, TypeOK, Live
    <2> QED
      BY <2>1, CapacityPositive, CompactAtAssumption DEF Inv, PrefixShort, SliceBounded
  <1> QED
    BY <1>1, InitInv, NextInv, PTL DEF Spec
-----------------------------------------------------------------------------
\* What callers see of a well-shaped mailbox is a sequence of messages, as long
\* as the live part of the slice.
LEMMA ContentsSeq ==
  ASSUME NEW m, Shape(m.queue, m.head)
  PROVE  /\ Live(m) \in Nat
         /\ Contents(m) \in Seq(Message)
         /\ Len(Contents(m)) = Live(m)
         /\ \A i \in 1..Live(m) : Contents(m)[i] = m.queue[m.head + i]
         /\ Contents(m) = <<>> <=> Live(m) = 0
  <1>1. Live(m) \in Nat /\ Live(m) = Len(m.queue) - m.head
    BY DEF Shape, Live
  <1>2. \A i \in 1..Live(m) : m.queue[m.head + i] \in Message
    <2> TAKE i \in 1..Live(m)
    <2>1. /\ m.queue \in Seq(Slot) /\ m.head \in Nat
          /\ \A j \in 1..Len(m.queue) : m.queue[j] = Zero <=> j <= m.head
      BY Zenon DEF Shape
    <2>2. m.head + i \in 1..Len(m.queue) /\ m.head + i > m.head
      BY <1>1, <2>1
    <2> QED
      BY Zenon, <2>1, <2>2, LiveSlot
  <1>3. Contents(m) \in [1..Live(m) -> Message]
    BY Zenon, <1>2 DEF Contents
  <1>4. Contents(m) \in Seq(Message) /\ Len(Contents(m)) = Live(m)
    BY Zenon, <1>1, <1>3, FunctionIsSeq
  <1>5. \A i \in 1..Live(m) : Contents(m)[i] = m.queue[m.head + i]
    BY Zenon DEF Contents
  <1> QED
    BY <1>1, <1>4, <1>5

\* Two sequences of the same length with the same elements are equal.
LEMMA SeqEqual ==
  ASSUME NEW S, NEW s \in Seq(S), NEW t \in Seq(S), Len(s) = Len(t),
         \A i \in 1..Len(s) : s[i] = t[i]
  PROVE  s = t
  OBVIOUS

\* Enqueue on the slice is Enqueue on what callers see of it.
LEMMA EnqueueRefines ==
  ASSUME Inv, NEW msg \in Message
  PROVE  /\ EnqueueResult(mb) = Contract!EnqueueResult(Abstract(mb), Capacity)
         /\ Abstract(EnqueueMsg(mb, msg)) = Contract!Enqueue(Abstract(mb), Capacity, msg)
  <1>1. /\ mb \in [queue : Seq(Slot), head : Nat, notify : BOOLEAN, closed : BOOLEAN]
        /\ Shape(mb.queue, mb.head)
    BY Zenon DEF Inv, TypeOK, Slot, Shape
  <1>2. /\ Live(mb) \in Nat
        /\ Contents(mb) \in Seq(Message)
        /\ Len(Contents(mb)) = Live(mb)
        /\ \A i \in 1..Live(mb) : Contents(mb)[i] = mb.queue[mb.head + i]
        /\ Contents(mb) = <<>> <=> Live(mb) = 0
    BY Zenon, <1>1, ContentsSeq
  <1>3. EnqueueResult(mb) = Contract!EnqueueResult(Abstract(mb), Capacity)
    BY Zenon, <1>2 DEF EnqueueResult, Contract!EnqueueResult, Abstract
  <1>4. CASE EnqueueResult(mb) # "Accepted"
    BY Zenon, <1>3, <1>4 DEF EnqueueMsg, Contract!Enqueue
  <1>5. CASE EnqueueResult(mb) = "Accepted"
    <2> DEFINE m == EnqueueMsg(mb, msg)
    <2>1. /\ m.queue = Append(mb.queue, msg) /\ m.head = mb.head
          /\ m.notify = (mb.notify \/ Live(mb) = 0) /\ m.closed = mb.closed
      BY Zenon, <1>1, <1>5 DEF EnqueueMsg
    <2>2. Shape(m.queue, m.head)
      BY Zenon, EnqueueShape DEF Inv
    <2>3. Live(m) = Live(mb) + 1
      <3> HIDE DEF m
      <3> QED BY <1>1, <2>1 DEF Live, Shape
    <2>4. Contents(m) = Append(Contents(mb), msg)
      <3> HIDE DEF m
      <3>1. /\ Contents(m) \in Seq(Message) /\ Len(Contents(m)) = Live(m)
            /\ \A i \in 1..Live(m) : Contents(m)[i] = m.queue[m.head + i]
        BY Zenon, <2>2, ContentsSeq
      <3>2. /\ Append(Contents(mb), msg) \in Seq(Message)
            /\ Len(Append(Contents(mb), msg)) = Live(m)
        BY <1>2, <2>3
      <3>3. ASSUME NEW i \in 1..Live(m) PROVE Contents(m)[i] = Append(Contents(mb), msg)[i]
        <4>1. Contents(m)[i] = Append(mb.queue, msg)[mb.head + i]
          BY Zenon, <2>1, <3>1
        <4>2. CASE i <= Live(mb)
          <5>1. mb.head + i \in 1..Len(mb.queue)
            BY <1>1, <1>2, <4>2 DEF Live
          <5>2. Append(mb.queue, msg)[mb.head + i] = mb.queue[mb.head + i]
            BY <1>1, <5>1
          <5>3. Append(Contents(mb), msg)[i] = Contents(mb)[i]
            BY <1>2, <4>2
          <5> QED
            BY <1>2, <4>1, <4>2, <5>2, <5>3
        <4>3. CASE i = Live(mb) + 1
          <5>1. mb.head + i = Len(mb.queue) + 1 /\ Len(mb.queue) \in Nat
            BY <1>1, <1>2, <4>3 DEF Live
          <5>2. Append(mb.queue, msg)[Len(mb.queue) + 1] = msg
            BY <1>1
          <5>3. Append(Contents(mb), msg)[Live(mb) + 1] = msg
            BY <1>2
          <5> QED
            BY Zenon, <4>1, <4>3, <5>1, <5>2, <5>3
        <4> QED
          BY <1>2, <2>3, <4>2, <4>3
      <3> QED
        BY Zenon, <3>1, <3>2, <3>3, SeqEqual
    <2>5. Abstract(m) = [queue |-> Append(Contents(mb), msg),
                         notify |-> mb.notify \/ Contents(mb) = <<>>, closed |-> mb.closed]
      <3> HIDE DEF m
      <3> QED BY Zenon, <1>2, <2>1, <2>4 DEF Abstract
    <2>6. Contract!Enqueue(Abstract(mb), Capacity, msg)
            = [queue |-> Append(Contents(mb), msg),
               notify |-> mb.notify \/ Contents(mb) = <<>>, closed |-> mb.closed]
      BY Zenon, <1>3, <1>5 DEF Contract!Enqueue, Abstract
    <2> QED
      BY Zenon, <1>3, <2>5, <2>6 DEF Abstract
  <1> QED
    BY Zenon, <1>3, <1>4, <1>5

\* Dequeue and DequeueBatch on the slice return and leave what they do on what
\* callers see of it, also when the slice is reset or compacted.
LEMMA DequeueRefines ==
  ASSUME Inv, NEW limit \in Nat
  PROVE  /\ DequeuedMsgs(mb, limit) = Contract!Batch(Abstract(mb), limit)
         /\ Abstract(DequeueMsgs(mb, limit)) = Contract!Dequeue(Abstract(mb), limit)
  <1> DEFINE c == Contents(mb)
             k == Take(mb, limit)
             m == DequeueMsgs(mb, limit)
  <1>1. /\ mb \in [queue : Seq(Slot), head : Nat, notify : BOOLEAN, closed : BOOLEAN]
        /\ Shape(mb.queue, mb.head)
    BY Zenon DEF Inv, TypeOK, Slot, Shape
  <1>2. /\ Live(mb) \in Nat
        /\ c \in Seq(Message)
        /\ Len(c) = Live(mb)
        /\ \A i \in 1..Live(mb) : c[i] = mb.queue[mb.head + i]
        /\ c = <<>> <=> Live(mb) = 0
    BY Zenon, <1>1, ContentsSeq
  <1>3. k \in 0..Live(mb) /\ (Live(mb) > 0 => k > 0)
    BY <1>2 DEF Take
  <1>4. Contract!Taken(Abstract(mb), limit) = k
    <2>1. Abstract(mb).queue = c
      BY Zenon DEF Abstract
    <2> HIDE DEF c
    <2> QED
      BY <1>2, <2>1 DEF Contract!Taken, Take
  <1>5. Contract!Batch(Abstract(mb), limit) = SubSeq(c, 1, k)
    BY Zenon, <1>4 DEF Contract!Batch, Abstract
  <1>6. Contract!Dequeue(Abstract(mb), limit)
          = [queue |-> SubSeq(c, k + 1, Len(c)),
             notify |-> mb.notify \/ SubSeq(c, k + 1, Len(c)) # <<>>,
             closed |-> mb.closed]
    <2>1. Abstract(mb) = [queue |-> c, notify |-> mb.notify, closed |-> mb.closed]
      BY Zenon DEF Abstract
    <2> DEFINE a == Abstract(mb)
               rest == SubSeq(c, k + 1, Len(c))
    <2>2. Contract!Dequeue(a, limit)
            = [queue |-> rest, notify |-> a.notify \/ rest # <<>>, closed |-> a.closed]
      BY <1>4, <2>1 DEF Contract!Dequeue
    <2> HIDE DEF c, k, a, rest
    <2> QED
      BY <2>1, <2>2 DEF rest, a
  <1>7. DequeuedMsgs(mb, limit) = SubSeq(c, 1, k)
    <2>1. DequeuedMsgs(mb, limit) = [i \in 1..k |-> mb.queue[mb.head + i]]
      BY Zenon DEF DequeuedMsgs
    <2> HIDE DEF c, k
    <2>2. \A i \in 1..k : mb.queue[mb.head + i] = c[i]
      BY <1>2, <1>3
    <2>3. SubSeq(c, 1, k) = [i \in 1..k |-> c[i]]
      BY <1>2, <1>3
    <2> QED
      BY Zenon, <2>1, <2>2, <2>3
  <1>8. CASE Live(mb) = 0
    <2>1. m = mb
      BY Zenon, <1>8 DEF DequeueMsgs
    <2>2. SubSeq(c, k + 1, Len(c)) = <<>> /\ c = <<>>
      <3> HIDE DEF c, k
      <3> QED BY <1>2, <1>3, <1>8
    <2>3. Abstract(mb) = [queue |-> <<>>, notify |-> mb.notify, closed |-> mb.closed]
      BY Zenon, <2>2 DEF Abstract
    <2> HIDE DEF c, k, m
    <2>4. mb.notify \in BOOLEAN
      BY Zenon, <1>1
    <2> QED
      BY Zenon, <1>5, <1>6, <1>7, <2>1, <2>2, <2>3, <2>4 DEF m
  <1>9. CASE Live(mb) > 0
    <2>1. /\ m \in [queue : Seq(Slot), head : Nat, notify : BOOLEAN, closed : BOOLEAN]
          /\ Shape(m.queue, m.head)
          /\ Live(m) = Live(mb) - k
          /\ m.notify = (mb.notify \/ Live(m) > 0)
          /\ m.closed = mb.closed
          /\ \A i \in 1..Live(m) : m.queue[m.head + i] = mb.queue[mb.head + k + i]
      BY Zenon, <1>9, DequeueShape DEF Inv
    <2> HIDE DEF c, k, m
    <2>2. /\ Contents(m) \in Seq(Message) /\ Len(Contents(m)) = Live(m) /\ Live(m) \in Nat
          /\ \A i \in 1..Live(m) : Contents(m)[i] = m.queue[m.head + i]
          /\ Contents(m) = <<>> <=> Live(m) = 0
      BY Zenon, <2>1, ContentsSeq
    <2>3. Contents(m) = SubSeq(c, k + 1, Len(c))
      <3>1. /\ SubSeq(c, k + 1, Len(c)) \in Seq(Message)
            /\ Len(SubSeq(c, k + 1, Len(c))) = Live(m)
        BY <1>2, <1>3, <2>1
      <3>2. \A i \in 1..Live(m) : SubSeq(c, k + 1, Len(c))[i] = c[k + i]
        BY <1>2, <1>3, <2>1
      <3>3. \A i \in 1..Live(m) : Contents(m)[i] = c[k + i]
        <4> TAKE i \in 1..Live(m)
        <4>1. k + i \in 1..Live(mb) /\ mb.head + (k + i) = mb.head + k + i
          BY <1>1, <1>2, <1>3, <2>1
        <4>2. c[k + i] = mb.queue[mb.head + k + i]
          BY Zenon, <1>2, <4>1
        <4> QED
          BY Zenon, <2>1, <2>2, <4>2
      <3> QED
        BY Zenon, <2>2, <3>1, <3>2, <3>3, SeqEqual
    <2>4. Abstract(m) = [queue |-> Contents(m), notify |-> mb.notify \/ Contents(m) # <<>>,
                         closed |-> mb.closed]
      BY <2>1, <2>2 DEF Abstract
    <2> QED
      BY Zenon, <1>5, <1>6, <1>7, <2>3, <2>4 DEF m
  <1> QED
    BY <1>2, <1>8, <1>9

\* The mailbox of the code implements the bounded first-in first-out queue of
\* its abstract specification: every step of the struct is a step of the
\* contract, or changes nothing a caller can see.
THEOREM MailboxImplementsContract == Spec => FifoContract
  <1>1. Init => Contract!Init
    <2> SUFFICES ASSUME Init PROVE Contract!Init
      OBVIOUS
    <2>1. Live(mb) = 0
      BY DEF Init, Live
    <2>2. Contents(mb) = <<>>
      BY <2>1 DEF Contents
    <2> QED
      BY Zenon, <2>2 DEF Init, Contract!Init, Contract!NewMailbox, Abstract
  <1>2. Inv /\ [Next]_vars => [Contract!Next]_(Contract!vars)
    <2> SUFFICES ASSUME Inv, [Next]_vars PROVE [Contract!Next]_(Contract!vars)
      OBVIOUS
    <2>1. ASSUME NEW msg \in Message, Submit(msg) PROVE Contract!Send(msg)
      BY Zenon, <2>1, EnqueueRefines DEF Submit, Contract!Send
    <2>2. ASSUME WakeUp PROVE Contract!Wake
      <3>1. /\ mb'.queue = mb.queue /\ mb'.head = mb.head
            /\ mb'.notify = FALSE /\ mb'.closed = mb.closed /\ mb.notify
            /\ UNCHANGED <<answer, received>>
        BY Zenon, <2>2 DEF WakeUp, Inv, TypeOK
      <3>2. Contents(mb)' = Contents(mb)
        BY Zenon, <3>1 DEF Contents, Live
      <3> QED
        BY Zenon, <3>1, <3>2 DEF Contract!Wake, Contract!TakeNotify, Abstract
    <2>3. ASSUME NEW limit \in BatchSizes, Drain(limit) PROVE Contract!Receive(limit)
      BY Zenon, <2>3, DequeueRefines, BatchSizesAssumption DEF Drain, Contract!Receive
    <2>4. ASSUME Shutdown PROVE Contract!Shut
      <3>1. /\ mb'.queue = mb.queue /\ mb'.head = mb.head
            /\ mb'.notify = mb.notify /\ mb'.closed = TRUE
            /\ UNCHANGED <<answer, received>>
        BY Zenon, <2>4 DEF Shutdown, Inv, TypeOK
      <3>2. Contents(mb)' = Contents(mb)
        BY Zenon, <3>1 DEF Contents, Live
      <3> QED
        BY Zenon, <3>1, <3>2 DEF Contract!Shut, Contract!Close, Abstract
    <2>5. CASE UNCHANGED vars
      BY Zenon, <2>5 DEF vars, Contract!vars, Abstract, Contents, Live
    <2> QED
      BY Zenon, <2>1, <2>2, <2>3, <2>4, <2>5 DEF Next, Contract!Next
  <1> QED
    BY <1>1, <1>2, InitInv, NextInv, PTL DEF Spec, FifoContract, Contract!Spec

\* The struct keeps its shape, head inside the slice and exactly the taken slots
\* zeroed, along every sequence of Enqueue, Dequeue, DequeueBatch and Close.
THEOREM MailboxTypes == Spec => []TypeOK
  BY MailboxSafety, PTL

\* The memory of a mailbox that is never empty stays within twice its capacity, or its
\* capacity and the threshold of compaction.
THEOREM MailboxSliceBounded == Spec => []SliceBounded
  BY MailboxSafety, PTL
=============================================================================
