--------------------------- MODULE AskReplyProofs ---------------------------
(***************************************************************************)
(* What module AskReply promises, for any number of requests and replies.  *)
(* That a request admits one reply only is not inductive: it rests on the  *)
(* order in which an Ask goes through its life.  A request enters askReply *)
(* before any responder has it, so before any reply is addressed to it,    *)
(* and leaves it with the first reply routed; the invariant says so.       *)
(***************************************************************************)
EXTENDS AskReply, FiniteSetTheorems, TLAPS

\* A request is known to a responder only after its call began, a reply is
\* addressed only to a request a responder knows, and has an answer only at the
\* end of its routing.
LifeOfRequest ==
  /\ \A q \in requests : caller[q] # "idle"
  /\ \A p \in Reply : reply[p].at # "unsent" => reply[p].to \in requests
  /\ \A p \in Reply : reply[p].at = "unsent" => reply[p].to = NoId
  /\ \A p \in Reply : reply[p].at # "answered" => reply[p].ack = "none"

\* While a request is in the table, no reply to it has been admitted.
AdmitsNobodyYet == \A q \in askReply : Admitted(q) = {}

\* A reply that may be returned to the caller of q.
RightReply(p, q) ==
  /\ p \in Reply
  /\ reply[p].at = "answered"
  /\ reply[p].to = q
  /\ reply[p].env \in {NoId, q}
  /\ reply[p].ack = "Delivered"

\* What is in a channel, or has been taken from it, is a reply to its request.
RightReplies ==
  /\ \A q \in Ask : waitCh[q] # NoId => RightReply(waitCh[q], q)
  /\ \A q \in Ask : result[q].outcome = "success" => RightReply(result[q].reply, q)

IInv ==
  /\ TypeOK
  /\ LifeOfRequest
  /\ AdmitsNobodyYet
  /\ OneReplyAdmitted
  /\ RightReplies
  /\ NothingLeftBehind

\* The initial state satisfies the invariant.
LEMMA InitInvariant == Init => IInv
  BY NoIdAssumption
  DEF Init, IInv, TypeOK, LifeOfRequest, AdmitsNobodyYet, OneReplyAdmitted, Admitted,
      RightReplies, RightReply, NothingLeftBehind

\* Every step keeps the types.
LEMMA TypeStep == TypeOK /\ [Next]_vars => TypeOK'
<1> SUFFICES ASSUME TypeOK, [Next]_vars PROVE TypeOK'
  OBVIOUS
<1> USE DEF TypeOK
<1>1. CASE UNCHANGED vars
  BY Zenon, <1>1 DEF vars
<1>2. ASSUME NEW q \in Ask, NewAskRequest(q) PROVE TypeOK'
  BY Zenon, <1>2 DEF NewAskRequest
<1>3. ASSUME NEW q \in Ask, Deliver(q) PROVE TypeOK'
  BY Zenon, <1>3 DEF Deliver
<1>4. ASSUME NEW q \in Ask, SendAccepted(q) PROVE TypeOK'
  BY Zenon, <1>4 DEF SendAccepted
<1>5. ASSUME NEW q \in Ask, SendRejected(q) PROVE TypeOK'
  BY Zenon, <1>5 DEF SendRejected, Ends
<1>6. ASSUME NEW q \in Ask, ReceiveReply(q) PROVE TypeOK'
  BY Zenon, <1>6 DEF ReceiveReply, Ends
<1>7. ASSUME NEW q \in Ask, Timeout(q) PROVE TypeOK'
  BY Zenon, <1>7 DEF Timeout, Ends
<1>8. ASSUME NEW q \in Ask, Cancel(q) PROVE TypeOK'
  BY Zenon, <1>8 DEF Cancel, Ends
<1>9. ASSUME NEW q \in Ask, CompleteAskRequest(q) PROVE TypeOK'
  <2>1. askClosed' \subseteq Ask
    BY <1>9 DEF CompleteAskRequest, Remembered
  <2> QED
    BY Zenon, <1>9, <2>1 DEF CompleteAskRequest, Forgets
<1>10. ASSUME NEW p \in Reply, NEW q \in Ask, NEW env \in Ask \cup {NoId},
              SendReply(p, q, env)
       PROVE  TypeOK'
  BY Zenon, <1>10 DEF SendReply
<1>11. ASSUME NEW p \in Reply, RouteMiss(p) PROVE TypeOK'
  BY Zenon, <1>11 DEF RouteMiss, Answer
<1>12. ASSUME NEW p \in Reply, RouteTake(p) PROVE TypeOK'
  BY <1>12 DEF RouteTake
<1>13. ASSUME NEW p \in Reply, RoutePush(p) PROVE TypeOK'
  <2>1. PICK ack \in {"Delivered", "RejectedStopped", "RejectedNotFound"} : Answer(p, ack)
    BY Zenon, <1>13 DEF RoutePush
  <2>2. waitCh' = waitCh \/ waitCh' = [waitCh EXCEPT ![reply[p].to] = p]
    BY Zenon, <1>13 DEF RoutePush
  <2>3. UNCHANGED <<caller, result, requests, askWait, askReply, askClosed, forgotten>>
    BY Zenon, <1>13 DEF RoutePush
  <2> QED
    BY <2>1, <2>2, <2>3 DEF Answer
<1> QED
  BY Zenon, <1>1, <1>2, <1>3, <1>4, <1>5, <1>6, <1>7, <1>8, <1>9, <1>10, <1>11, <1>12, <1>13
  DEF Next, CallerStep, RouteStep

\* Every step keeps the rest of the invariant; one step per action.
LEMMA InvariantStep == IInv /\ [Next]_vars => IInv'
<1> SUFFICES ASSUME IInv, [Next]_vars PROVE IInv'
  OBVIOUS
<1>0. TypeOK /\ TypeOK'
  BY Zenon, TypeStep DEF IInv
<1> DEFINE Rest == LifeOfRequest /\ AdmitsNobodyYet /\ OneReplyAdmitted
                     /\ RightReplies /\ NothingLeftBehind
<1> SUFFICES Rest'
  BY Zenon, <1>0 DEF IInv
<1>a. Rest
  BY Zenon DEF IInv
<1>1. CASE UNCHANGED vars
  BY <1>1, <1>a DEF vars, LifeOfRequest, AdmitsNobodyYet, OneReplyAdmitted, Admitted,
                    RightReplies, RightReply, NothingLeftBehind
<1>2. ASSUME NEW q \in Ask, NewAskRequest(q) PROVE Rest'
  BY <1>2, <1>0, <1>a, NoIdAssumption
  DEF NewAskRequest, TypeOK, LifeOfRequest, AdmitsNobodyYet, OneReplyAdmitted, Admitted,
      RightReplies, RightReply, NothingLeftBehind
<1>3. ASSUME NEW q \in Ask, Deliver(q) PROVE Rest'
  BY <1>3, <1>0, <1>a
  DEF Deliver, TypeOK, LifeOfRequest, AdmitsNobodyYet, OneReplyAdmitted, Admitted,
      RightReplies, RightReply, NothingLeftBehind
<1>4. ASSUME NEW q \in Ask, SendAccepted(q) PROVE Rest'
  BY <1>4, <1>0, <1>a
  DEF SendAccepted, TypeOK, LifeOfRequest, AdmitsNobodyYet, OneReplyAdmitted, Admitted,
      RightReplies, RightReply, NothingLeftBehind
<1>5. ASSUME NEW q \in Ask, SendRejected(q) \/ Timeout(q) \/ Cancel(q) PROVE Rest'
  BY <1>5, <1>0, <1>a
  DEF SendRejected, Timeout, Cancel, Ends, TypeOK, LifeOfRequest, AdmitsNobodyYet,
      OneReplyAdmitted, Admitted, RightReplies, RightReply, NothingLeftBehind
<1>6. ASSUME NEW q \in Ask, ReceiveReply(q) PROVE Rest'
  BY <1>6, <1>0, <1>a
  DEF ReceiveReply, Ends, TypeOK, LifeOfRequest, AdmitsNobodyYet, OneReplyAdmitted,
      Admitted, RightReplies, RightReply, NothingLeftBehind
<1>7. ASSUME NEW q \in Ask, CompleteAskRequest(q) PROVE Rest'
  BY <1>7, <1>0, <1>a
  DEF CompleteAskRequest, TypeOK, LifeOfRequest, AdmitsNobodyYet, OneReplyAdmitted,
      Admitted, RightReplies, RightReply, NothingLeftBehind
<1>8. ASSUME NEW p \in Reply, NEW q \in Ask, NEW env \in Ask \cup {NoId},
             SendReply(p, q, env)
      PROVE  Rest'
  BY <1>8, <1>0, <1>a
  DEF SendReply, TypeOK, LifeOfRequest, AdmitsNobodyYet, OneReplyAdmitted, Admitted,
      RightReplies, RightReply, NothingLeftBehind
<1>9. ASSUME NEW p \in Reply, RouteMiss(p) PROVE Rest'
  BY <1>9, <1>0, <1>a
  DEF RouteMiss, Answer, TypeOK, LifeOfRequest, AdmitsNobodyYet, OneReplyAdmitted,
      Admitted, RightReplies, RightReply, NothingLeftBehind
<1>10. ASSUME NEW p \in Reply, RouteTake(p) PROVE Rest'
  BY <1>10, <1>0, <1>a
  DEF RouteTake, TypeOK, LifeOfRequest, AdmitsNobodyYet, OneReplyAdmitted, Admitted,
      RightReplies, RightReply, NothingLeftBehind
<1>11. ASSUME NEW p \in Reply, RoutePush(p) PROVE Rest'
  <2> DEFINE q == reply[p].to
  <2>1. /\ q \in Ask
        /\ p \in Admitted(q)
        /\ q \notin askReply
    BY Zenon, <1>11, <1>0, <1>a
    DEF RoutePush, TypeOK, LifeOfRequest, AdmitsNobodyYet, Admitted
  <2>2. PICK ack : /\ ack \in {"Delivered", "RejectedStopped", "RejectedNotFound"}
                   /\ Answer(p, ack)
                   /\ waitCh' = IF ack = "Delivered" THEN [waitCh EXCEPT ![q] = p] ELSE waitCh
                   /\ ack = "Delivered" => reply[p].env \in {NoId, q}
    BY Zenon, <1>11 DEF RoutePush
  <2>3. UNCHANGED <<caller, result, requests, askWait, askReply, askClosed>>
    BY Zenon, <1>11 DEF RoutePush
  <2>4. /\ reply'[p] = [at |-> "answered", to |-> q, env |-> reply[p].env, ack |-> ack]
        /\ \A r \in Reply \ {p} : reply'[r] = reply[r]
    BY Zenon, <2>2, <1>0 DEF Answer, TypeOK
  <2>5. LifeOfRequest' /\ NothingLeftBehind'
    BY <2>3, <2>4, <1>11, <1>a DEF LifeOfRequest, NothingLeftBehind, RoutePush
  <2>6. \A t \in Ask : Admitted(t)' \subseteq Admitted(t)
    BY <2>1, <2>4 DEF Admitted
  <2>7. AdmitsNobodyYet' /\ OneReplyAdmitted'
    BY Zenon, <2>3, <2>6, <1>0, <1>a DEF AdmitsNobodyYet, OneReplyAdmitted, TypeOK
  <2>8. ASSUME NEW t \in Ask, waitCh'[t] # NoId PROVE RightReply(waitCh[t], t)'
    <3>1. CASE waitCh'[t] = waitCh[t]
      BY <3>1, <2>4, <2>8, <1>11, <1>0, <1>a DEF RightReplies, RightReply, RoutePush, TypeOK
    <3>2. CASE waitCh'[t] # waitCh[t]
      BY <3>2, <2>1, <2>2, <2>4, <1>0 DEF RightReply, TypeOK
    <3> QED
      BY Zenon, <3>1, <3>2
  <2>9. ASSUME NEW t \in Ask, result'[t].outcome = "success"
        PROVE  RightReply(result[t].reply, t)'
    BY <2>3, <2>4, <2>9, <1>11, <1>a DEF RightReplies, RightReply, RoutePush
  <2>10. RightReplies'
    BY Zenon, <2>8, <2>9 DEF RightReplies
  <2> QED
    BY Zenon, <2>5, <2>7, <2>10
<1> QED
  BY Zenon, <1>1, <1>2, <1>3, <1>4, <1>5, <1>6, <1>7, <1>8, <1>9, <1>10, <1>11
  DEF Next, CallerStep, RouteStep

\* The invariant holds throughout.
LEMMA Invariance == Spec => []IInv
<1>1. Init => IInv
  BY Zenon, InitInvariant
<1>2. IInv /\ [Next]_vars => IInv'
  BY Zenon, InvariantStep
<1> QED
  BY <1>1, <1>2, PTL DEF Spec

\* However calls, timers, cancellations and replies interleave: a request admits
\* at most one reply, a successful call returns a reply to its own request, and
\* a call that returned has left nothing in the tables of newAskRequest.
THEOREM AskSafety ==
  Spec => [](TypeOK /\ OneReplyAdmitted /\ NoCrossWiring /\ NothingLeftBehind)
<1>1. IInv => TypeOK /\ OneReplyAdmitted /\ NoCrossWiring /\ NothingLeftBehind
  BY NoIdAssumption DEF IInv, RightReplies, RightReply, NoCrossWiring
<1> QED
  BY <1>1, Invariance, PTL

\* A reply routed after its call returned is not delivered, and the call's
\* outcome stays what it was.
THEOREM AskLateReplyHarmless == Spec => LateReplyHarmless
<1> DEFINE Harmless ==
      \A q \in Ask : caller[q] = "returned" =>
        /\ result'[q] = result[q]
        /\ \A p \in Reply : reply[p].to = q /\ reply[p].at = "routing"
                              => reply'[p].at # "taken" /\ reply'[p].ack # "Delivered"
<1>1. IInv /\ [Next]_vars => [Harmless]_vars
  <2> SUFFICES ASSUME IInv, Next, NEW q \in Ask, caller[q] = "returned"
               PROVE  /\ result'[q] = result[q]
                      /\ \A p \in Reply : reply[p].to = q /\ reply[p].at = "routing"
                           => reply'[p].at # "taken" /\ reply'[p].ack # "Delivered"
    OBVIOUS
  <2>1. q \notin askReply
    BY Zenon DEF IInv, NothingLeftBehind
  <2>2. result'[q] = result[q]
    BY DEF IInv, TypeOK, Next, CallerStep, RouteStep, NewAskRequest, Deliver, SendAccepted,
           SendRejected, ReceiveReply, Timeout, Cancel, Ends, CompleteAskRequest, SendReply,
           RouteMiss, RouteTake, RoutePush
  <2>3. ASSUME NEW p \in Reply, reply[p].to = q, reply[p].at = "routing"
        PROVE  reply'[p].at # "taken" /\ reply'[p].ack # "Delivered"
    <3>1. reply[p].ack = "none"
      BY Zenon, <2>3 DEF IInv, LifeOfRequest
    <3>2. CASE UNCHANGED reply
      BY Zenon, <3>1, <3>2, <2>3
    <3>3. ASSUME NEW r \in Reply, NEW t \in Ask, NEW env \in Ask \cup {NoId},
                 SendReply(r, t, env)
          PROVE  reply'[p] = reply[p]
      BY Zenon, <3>3, <2>3 DEF IInv, TypeOK, SendReply
    <3>4. ASSUME NEW r \in Reply, RouteMiss(r)
          PROVE  reply'[p].at # "taken" /\ reply'[p].ack # "Delivered"
      BY Zenon, <3>1, <3>4, <2>3 DEF IInv, TypeOK, RouteMiss, Answer
    <3>5. ASSUME NEW r \in Reply, RouteTake(r) \/ RoutePush(r)
          PROVE  reply'[p] = reply[p]
      BY Zenon, <3>5, <2>1, <2>3 DEF IInv, TypeOK, RouteTake, RoutePush, Answer
    <3> QED
      BY Zenon, <3>1, <3>2, <3>3, <3>4, <3>5, <2>3
      DEF Next, CallerStep, RouteStep, NewAskRequest, Deliver, SendAccepted, SendRejected,
          ReceiveReply, Timeout, Cancel, CompleteAskRequest
  <2> QED
    BY Zenon, <2>2, <2>3
<1> QED
  BY <1>1, Invariance, PTL DEF Spec, LateReplyHarmless

\* The tables of requests, the channels and the calls keep their types.
THEOREM AskTypes == Spec => []TypeOK
<1> QED
  BY AskSafety, PTL

\* A call that succeeds returns a reply to its own request, with its own RequestID
\* (newAskRequest, routeAskReply).
THEOREM AskNoCrossWiring == Spec => []NoCrossWiring
<1> QED
  BY AskSafety, PTL

\* A call that returned, for whatever reason, has left nothing in askWait and
\* askReply (completeAskRequest).
THEOREM AskNothingLeftBehind == Spec => []NothingLeftBehind
<1> QED
  BY AskSafety, PTL
-----------------------------------------------------------------------------
\* The requests askClosed remembers and whose calls have returned, and the others.
Finished == {q \in askClosed : caller[q] = "returned"}
Closing == {q \in askClosed : caller[q] # "returned"}

\* The bound is one on the finished requests.  A request is forgotten once: what a
\* reply closed is not in askReply any more, so only its own call adds it again.
ClosedInv ==
  /\ TypeOK
  /\ IsFiniteSet(askClosed) /\ IsFiniteSet(forgotten)
  /\ \A q \in askClosed \cup forgotten : q \notin askReply /\ caller[q] # "idle"
  /\ Closing \cap forgotten = {}
  /\ Cardinality(Finished) <= ClosedLimit + Cardinality(forgotten)

LEMMA ClosedStep == IInv /\ ClosedInv /\ [Next]_vars => ClosedInv'
<1> SUFFICES ASSUME IInv, ClosedInv, [Next]_vars PROVE ClosedInv'
  OBVIOUS
<1>0. TypeOK /\ TypeOK'
  BY Zenon, TypeStep DEF IInv
<1>1. /\ Finished \subseteq askClosed /\ IsFiniteSet(Finished)
      /\ Cardinality(Finished) \in Nat /\ Cardinality(forgotten) \in Nat
  BY Zenon, FS_Subset, FS_CardinalityType DEF ClosedInv, Finished
<1>2. ASSUME UNCHANGED <<askClosed, forgotten>>, askReply' \subseteq askReply,
             \A q \in Ask : caller'[q] = "returned" <=> caller[q] = "returned",
             \A q \in Ask : caller'[q] = "idle" => caller[q] = "idle"
      PROVE  ClosedInv'
  <2>1. Finished' = Finished /\ Closing' = Closing
    BY Zenon, <1>2, <1>0 DEF Finished, Closing, TypeOK
  <2> QED BY Zenon, <1>2, <2>1, <1>0 DEF ClosedInv, TypeOK
<1>3. ASSUME NEW q \in Ask, NewAskRequest(q) PROVE ClosedInv'
  <2>1. /\ q \notin askClosed \cup forgotten /\ askReply' = askReply \cup {q}
        /\ caller' = [caller EXCEPT ![q] = "sending"] /\ UNCHANGED <<askClosed, forgotten>>
    BY Zenon, <1>3 DEF NewAskRequest, ClosedInv
  <2>2. Finished' = Finished /\ Closing' = Closing
    BY <2>1, <1>0 DEF Finished, Closing, TypeOK
  <2> QED BY Zenon, <2>1, <2>2, <1>0 DEF ClosedInv, TypeOK
<1>4. ASSUME NEW q \in Ask, Deliver(q) \/ SendAccepted(q) \/ SendRejected(q) \/ ReceiveReply(q) \/ Timeout(q) \/ Cancel(q)
      PROVE  ClosedInv'
  BY Zenon, <1>4, <1>2, <1>0 DEF Deliver, SendAccepted, SendRejected, ReceiveReply, Timeout, Cancel, Ends, TypeOK
<1>5. ASSUME NEW p \in Reply, RouteMiss(p) \/ RoutePush(p) PROVE ClosedInv'
  BY Zenon, <1>5, <1>2 DEF RouteMiss, RoutePush
<1>6. ASSUME NEW p \in Reply, NEW q \in Ask, NEW env \in Ask \cup {NoId}, SendReply(p, q, env)
      PROVE  ClosedInv'
  BY Zenon, <1>6, <1>2 DEF SendReply
<1>7. ASSUME NEW p \in Reply, RouteTake(p) PROVE ClosedInv'
  <2> DEFINE q == reply[p].to
  <2>1. /\ q \in askReply /\ caller[q] \notin {"idle", "returned"} /\ q \notin forgotten
        /\ askReply' = askReply \ {q} /\ askClosed' = askClosed \cup {q}
        /\ UNCHANGED <<caller, forgotten>>
    BY Zenon, <1>7 DEF RouteTake, ClosedInv, IInv, NothingLeftBehind
  <2>2. Finished' = Finished /\ Closing' \subseteq Closing \cup {q}
    BY Zenon, <2>1 DEF Finished, Closing
  <2>3. IsFiniteSet(askClosed')
    BY Zenon, <2>1, FS_AddElement DEF ClosedInv
  <2> QED BY Zenon, <2>1, <2>2, <2>3, <1>0 DEF ClosedInv
<1>8. ASSUME NEW q \in Ask, CompleteAskRequest(q) PROVE ClosedInv'
  <2> DEFINE all == askClosed \cup {q}
  <2>1. /\ caller[q] = "completing" /\ caller' = [caller EXCEPT ![q] = "returned"]
        /\ askReply' = askReply \ {q}
        /\ forgotten' = forgotten \cup {k \in askClosed \ askClosed' : k # q /\ caller[k] # "returned"}
        /\ \/ askClosed' = all /\ Cardinality(all) <= ClosedLimit
           \/ \E k \in all : askClosed' = all \ {k}
    <3>1. IsFiniteSet(all) /\ Cardinality(all) \in Nat
      BY Zenon, FS_AddElement, FS_CardinalityType DEF ClosedInv
    <3> QED BY <1>8, <3>1, ClosedLimitAssumption DEF CompleteAskRequest, Remembered, Forgets
  <2>2. IsFiniteSet(all) /\ Cardinality(all) \in Nat
    BY Zenon, FS_AddElement, FS_CardinalityType DEF ClosedInv
  <2>3. IsFiniteSet(askClosed') /\ askClosed' \subseteq all
    BY Zenon, <2>1, <2>2, FS_Subset
  <2>4. q \notin Finished /\ IsFiniteSet(Finished \cup {q})
        /\ Cardinality(Finished \cup {q}) = Cardinality(Finished) + 1
    BY Zenon, <1>1, <2>1, FS_AddElement DEF Finished
  <2>5. Finished' = askClosed' \cap (Finished \cup {q}) /\ Closing' = (Closing \cap askClosed') \ {q}
    BY Zenon, <2>1, <2>3, <1>0 DEF Finished, Closing, TypeOK
  <2>6. Closing' \cap forgotten' = {}
    BY Zenon, <2>1, <2>5 DEF ClosedInv, Closing
  <2>7. \A x \in askClosed' \cup forgotten' : x \notin askReply' /\ caller'[x] # "idle"
    BY Zenon, <2>1, <2>3, <1>0 DEF ClosedInv, TypeOK
  <2>8. IsFiniteSet(forgotten') /\ Cardinality(Finished') <= ClosedLimit + Cardinality(forgotten')
    <3>1. CASE askClosed' = all /\ Cardinality(all) <= ClosedLimit
      <4>1. forgotten' = forgotten
        BY Zenon, <3>1, <2>1
      <4>2. Cardinality(Finished') <= Cardinality(all) /\ Cardinality(Finished') \in Nat
        BY Zenon, <2>2, <2>5, <3>1, FS_Subset, FS_CardinalityType
      <4> QED BY <4>1, <4>2, <3>1, <2>2, <1>1, ClosedLimitAssumption DEF ClosedInv
    <3>2. ASSUME NEW k \in Finished \cup {q}, askClosed' = all \ {k}
          PROVE  IsFiniteSet(forgotten') /\ Cardinality(Finished') <= ClosedLimit + Cardinality(forgotten')
      <4>1. forgotten' = forgotten
        BY Zenon, <3>2, <2>1 DEF Finished
      <4>2. Finished' = (Finished \cup {q}) \ {k}
        BY Zenon, <3>2, <2>5, <1>1
      <4>3. Cardinality(Finished') = Cardinality(Finished)
        <5>1. Cardinality(Finished') = Cardinality(Finished \cup {q}) - 1
          BY Zenon, <4>2, <3>2, <2>4, FS_RemoveElement
        <5> QED BY <5>1, <2>4, <1>1
      <4> QED BY Zenon, <4>1, <4>3 DEF ClosedInv
    <3>3. ASSUME NEW k \in all, k \notin Finished \cup {q}, askClosed' = all \ {k}
          PROVE  IsFiniteSet(forgotten') /\ Cardinality(Finished') <= ClosedLimit + Cardinality(forgotten')
      <4>1. k \in Closing /\ k \notin forgotten /\ forgotten' = forgotten \cup {k}
        BY Zenon, <3>3, <2>1 DEF Finished, Closing, ClosedInv
      <4>2. IsFiniteSet(forgotten') /\ Cardinality(forgotten') = Cardinality(forgotten) + 1
        BY Zenon, <4>1, FS_AddElement DEF ClosedInv
      <4>3. Finished' = Finished \cup {q}
        BY Zenon, <3>3, <2>5, <1>1
      <4> QED BY <4>2, <4>3, <2>4, <1>1, ClosedLimitAssumption DEF ClosedInv
    <3> QED BY Zenon, <2>1, <3>1, <3>2, <3>3
  <2> QED BY Zenon, <1>0, <2>3, <2>6, <2>7, <2>8 DEF ClosedInv
<1>9. CASE UNCHANGED vars
  BY Zenon, <1>9, <1>2 DEF vars
<1> QED
  BY Zenon, <1>3, <1>4, <1>5, <1>6, <1>7, <1>8, <1>9 DEF Next, CallerStep, RouteStep

\* The memory of finished requests: what it holds beyond ClosedLimit are calls that
\* have not returned, and one request for each that was forgotten before its call
\* returned (completeAskRequest drops one entry and routeAskReply none).
THEOREM AskClosedBounded == Spec => []ClosedBounded
<1>1. Init => ClosedInv
  <2> SUFFICES ASSUME Init PROVE ClosedInv
    OBVIOUS
  <2>1. TypeOK
    BY Zenon, InitInvariant DEF IInv
  <2>2. Finished = {} /\ Closing = {} /\ askClosed = {} /\ forgotten = {} /\ IsFiniteSet({}) /\ Cardinality({}) = 0
    BY Zenon, FS_EmptySet DEF Init, Finished, Closing
  <2> QED BY <2>1, <2>2, ClosedLimitAssumption DEF ClosedInv
<1>2. ClosedInv => ClosedBounded
  <2> SUFFICES ASSUME ClosedInv PROVE ClosedBounded
    OBVIOUS
  <2>1. IsFiniteSet(Finished) /\ IsFiniteSet(Closing)
    BY Zenon, FS_Subset DEF ClosedInv, Finished, Closing
  <2>2. askClosed = Finished \cup Closing /\ Finished \cap Closing = {}
    BY Zenon DEF Finished, Closing
  <2>3. Cardinality(askClosed) = Cardinality(Finished) + Cardinality(Closing)
    <3>1. Cardinality(askClosed) = Cardinality(Finished) + Cardinality(Closing) - Cardinality(Finished \cap Closing)
      BY Zenon, <2>1, <2>2, FS_Union
    <3>2. Cardinality(Finished \cap Closing) = 0
      BY Zenon, <2>2, FS_EmptySet
    <3>3. Cardinality(Finished) \in Nat /\ Cardinality(Closing) \in Nat
      BY Zenon, <2>1, FS_CardinalityType
    <3> QED BY <3>1, <3>2, <3>3
  <2>4. Cardinality(Finished) \in Nat /\ Cardinality(Closing) \in Nat /\ Cardinality(forgotten) \in Nat
    BY Zenon, <2>1, FS_CardinalityType DEF ClosedInv
  <2> HIDE DEF Finished
  <2> QED BY <2>3, <2>4, ClosedLimitAssumption DEF ClosedInv, ClosedBounded, Closing
<1> QED
  BY <1>1, <1>2, ClosedStep, Invariance, PTL DEF Spec
=============================================================================
