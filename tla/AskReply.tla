------------------------------ MODULE AskReply ------------------------------
(***************************************************************************)
(* Request and reply: Ask and AskPID of runtime.go, and the routing of a   *)
(* reply, routeAskReply, which every SendPID to a ReplyTo address reaches. *)
(* A caller registers its request in two tables under askMu, sends the     *)
(* message with the reply context, and waits in a select for the reply,    *)
(* its timer or its context.  Responders reply whenever they like, more    *)
(* than once, after the caller is gone, or before the caller knows that    *)
(* its message was accepted; a reply is routed in two steps, one under the *)
(* lock and one on the caller's channel, so it races the caller's timer.   *)
(***************************************************************************)
EXTENDS Naturals, FiniteSets

CONSTANTS
  Ask,           \* the requests, named by their RequestID
  Reply,         \* the calls of SendPID that carry a reply
  NoId,          \* the empty RequestID of an envelope, and the absent reply
  ClosedLimit    \* how many finished requests are remembered (4096)

ASSUME NoIdAssumption == NoId \notin Ask /\ NoId \notin Reply
ASSUME ClosedLimitAssumption == ClosedLimit \in Nat \ {0}

VARIABLES
  caller,      \* where each Ask is
  result,      \* what it returns, and the reply it returns
  requests,    \* the requests a responder has received
  askWait, askReply, askClosed,   \* the three tables of the runtime
  waitCh,      \* each request's channel, of capacity one
  reply,       \* each reply: where its routing is, what it is addressed to, the
               \* RequestID in its envelope, and what SendPID answered
  forgotten    \* history: the requests that left askClosed before their call returned

vars == <<caller, result, requests, askWait, askReply, askClosed, waitCh, reply, forgotten>>
-----------------------------------------------------------------------------
Init ==
  /\ caller = [q \in Ask |-> "idle"]
  /\ result = [q \in Ask |-> [outcome |-> "none", reply |-> NoId]]
  /\ requests = {}
  /\ askWait = {}
  /\ askReply = {}
  /\ askClosed = {}
  /\ waitCh = [q \in Ask |-> NoId]
  /\ reply = [p \in Reply |-> [at |-> "unsent", to |-> NoId, env |-> NoId, ack |-> "none"]]
  /\ forgotten = {}

\* newAskRequest: both tables get the request before the message is sent.
NewAskRequest(q) ==
  /\ caller[q] = "idle"
  /\ caller' = [caller EXCEPT ![q] = "sending"]
  /\ askWait' = askWait \cup {q}
  /\ askReply' = askReply \cup {q}
  /\ UNCHANGED <<result, requests, askClosed, waitCh, reply, forgotten>>

\* The message and its reply context reach the responder, while the caller is
\* still in sendWithAskContext, or in remoteAsk.
Deliver(q) ==
  /\ caller[q] = "sending"
  /\ requests' = requests \cup {q}
  /\ UNCHANGED <<caller, result, askWait, askReply, askClosed, waitCh, reply, forgotten>>

SendAccepted(q) ==
  /\ caller[q] = "sending"
  /\ q \in requests
  /\ caller' = [caller EXCEPT ![q] = "waiting"]
  /\ UNCHANGED <<result, requests, askWait, askReply, askClosed, waitCh, reply, forgotten>>

Ends(q, outcome, p) ==
  /\ caller' = [caller EXCEPT ![q] = "completing"]
  /\ result' = [result EXCEPT ![q] = [outcome |-> outcome, reply |-> p]]

\* The send is rejected; a remote one may also fail after it was delivered.
SendRejected(q) ==
  /\ caller[q] = "sending"
  /\ Ends(q, "invalid", NoId)
  /\ UNCHANGED <<requests, askWait, askReply, askClosed, waitCh, reply, forgotten>>

\* The three cases of the select.
ReceiveReply(q) ==
  /\ caller[q] = "waiting"
  /\ waitCh[q] # NoId
  /\ waitCh' = [waitCh EXCEPT ![q] = NoId]
  /\ Ends(q, "success", waitCh[q])
  /\ UNCHANGED <<requests, askWait, askReply, askClosed, reply, forgotten>>

\* A slip: the timer serves only requests that no reply has taken.
Timeout_OnlyPending(q) ==
  /\ caller[q] = "waiting"
  /\ q \in askWait
  /\ Ends(q, "timeout", NoId)
  /\ UNCHANGED <<requests, askWait, askReply, askClosed, waitCh, reply, forgotten>>

Timeout(q) ==
  /\ caller[q] = "waiting"
  /\ Ends(q, "timeout", NoId)
  /\ UNCHANGED <<requests, askWait, askReply, askClosed, waitCh, reply, forgotten>>

Cancel(q) ==
  /\ caller[q] = "waiting"
  /\ Ends(q, "canceled", NoId)
  /\ UNCHANGED <<requests, askWait, askReply, askClosed, waitCh, reply, forgotten>>

\* A slip: the table of finished requests is never cut back.
Remembered_Uncapped(q) == {askClosed \cup {q}}

\* The finished requests after q is added and, past the limit, one entry of
\* the map (any one: Go's map order) is dropped.
Remembered(q) ==
  LET all == askClosed \cup {q}
  IN  IF Cardinality(all) > ClosedLimit THEN {all \ {k} : k \in all} ELSE {all}

\* The entry that is dropped may be of a call that a reply has closed and that has
\* not returned yet: it will be added once more.
Forgets(q) == forgotten \cup {k \in askClosed \ askClosed' : k # q /\ caller[k] # "returned"}

\* A slip: only the table of waits is cleared.
CompleteAskRequest_KeepReply(q) ==
  /\ caller[q] = "completing"
  /\ askWait' = askWait \ {q}
  /\ askClosed' \in Remembered(q)
  /\ forgotten' = Forgets(q)
  /\ caller' = [caller EXCEPT ![q] = "returned"]
  /\ UNCHANGED <<result, requests, askReply, waitCh, reply>>

\* completeAskRequest, on every path, under askMu; then the call returns.
CompleteAskRequest(q) ==
  /\ caller[q] = "completing"
  /\ askWait' = askWait \ {q}
  /\ askReply' = askReply \ {q}
  /\ askClosed' \in Remembered(q)
  /\ forgotten' = Forgets(q)
  /\ caller' = [caller EXCEPT ![q] = "returned"]
  /\ UNCHANGED <<result, requests, waitCh, reply>>
-----------------------------------------------------------------------------
(* A responder's SendPID to the ReplyTo of q, with a bare payload (env NoId)*)
(* or an envelope that names a request.                                    *)

SendReply(p, q, env) ==
  /\ reply[p].at = "unsent"
  /\ q \in requests
  /\ reply' = [reply EXCEPT ![p] = [at |-> "routing", to |-> q, env |-> env, ack |-> "none"]]
  /\ UNCHANGED <<caller, result, requests, askWait, askReply, askClosed, waitCh, forgotten>>

Answer(p, ack) ==
  reply' = [reply EXCEPT ![p] = [at |-> "answered", to |-> reply[p].to,
                                 env |-> reply[p].env, ack |-> ack]]

\* A slip: the sender is given an outcome of the caller's vocabulary.
RouteMiss_AskOutcome(p) ==
  /\ reply[p].at = "routing"
  /\ reply[p].to \notin askReply
  /\ Answer(p, "ask_late_reply_dropped")
  /\ UNCHANGED <<caller, result, requests, askWait, askReply, askClosed, waitCh, forgotten>>

\* The address is not in askReply: late, or unknown once it is forgotten.
RouteMiss(p) ==
  /\ reply[p].at = "routing"
  /\ reply[p].to \notin askReply
  /\ Answer(p, IF reply[p].to \in askClosed THEN "RejectedStopped" ELSE "RejectedNotFound")
  /\ UNCHANGED <<caller, result, requests, askWait, askReply, askClosed, waitCh, forgotten>>

\* A slip: the request is looked up and left in the tables.
RouteTake_NoDelete(p) ==
  /\ reply[p].at = "routing"
  /\ reply[p].to \in askReply
  /\ reply' = [reply EXCEPT ![p].at = "taken"]
  /\ UNCHANGED <<caller, result, requests, askWait, askReply, askClosed, waitCh, forgotten>>

\* Under askMu the first reply takes the request out of both tables.
RouteTake(p) ==
  LET q == reply[p].to
  IN  /\ reply[p].at = "routing"
      /\ q \in askReply
      /\ askWait' = askWait \ {q}
      /\ askReply' = askReply \ {q}
      /\ askClosed' = askClosed \cup {q}
      /\ reply' = [reply EXCEPT ![p].at = "taken"]
      /\ UNCHANGED <<caller, result, requests, waitCh, forgotten>>

\* A slip: the envelope's RequestID is not compared.
RoutePush_NoCompare(p) ==
  LET q == reply[p].to
  IN  /\ reply[p].at = "taken"
      /\ waitCh' = [waitCh EXCEPT ![q] = p]
      /\ Answer(p, "Delivered")
      /\ UNCHANGED <<caller, result, requests, askWait, askReply, askClosed, forgotten>>

\* Without the lock: an envelope for another request is refused, and a channel
\* that is full drops the reply.
RoutePush(p) ==
  LET q == reply[p].to
  IN  /\ reply[p].at = "taken"
      /\ IF reply[p].env \notin {NoId, q}
         THEN Answer(p, "RejectedNotFound") /\ UNCHANGED waitCh
         ELSE IF waitCh[q] # NoId
         THEN Answer(p, "RejectedStopped") /\ UNCHANGED waitCh
         ELSE Answer(p, "Delivered") /\ waitCh' = [waitCh EXCEPT ![q] = p]
      /\ UNCHANGED <<caller, result, requests, askWait, askReply, askClosed, forgotten>>
-----------------------------------------------------------------------------
CallerStep(q) ==
  \/ SendAccepted(q) \/ SendRejected(q)
  \/ ReceiveReply(q) \/ Timeout(q)
  \/ CompleteAskRequest(q)

RouteStep(p) == RouteMiss(p) \/ RouteTake(p) \/ RoutePush(p)

Next ==
  \/ \E q \in Ask : NewAskRequest(q) \/ Deliver(q) \/ CallerStep(q) \/ Cancel(q)
  \/ \E p \in Reply, q \in Ask, env \in Ask \cup {NoId} : SendReply(p, q, env)
  \/ \E p \in Reply : RouteStep(p)

Spec == Init /\ [][Next]_vars

\* A send returns, a timer fires, and the goroutines that can run do.  Nobody is
\* obliged to cancel, to deliver a request or to reply.
Fairness ==
  /\ \A q \in Ask : WF_vars(CallerStep(q))
  /\ \A p \in Reply : WF_vars(RouteStep(p))

FairSpec == Spec /\ Fairness
-----------------------------------------------------------------------------
TypeOK ==
  /\ caller \in [Ask -> {"idle", "sending", "waiting", "completing", "returned"}]
  /\ result \in [Ask -> [outcome : {"none", "success", "timeout", "canceled", "invalid"},
                         reply : Reply \cup {NoId}]]
  /\ requests \subseteq Ask
  /\ askWait \subseteq Ask
  /\ askReply \subseteq Ask
  /\ askClosed \subseteq Ask
  /\ forgotten \subseteq Ask
  /\ waitCh \in [Ask -> Reply \cup {NoId}]
  /\ reply \in [Reply -> [at : {"unsent", "routing", "taken", "answered"},
                          to : Ask \cup {NoId}, env : Ask \cup {NoId},
                          ack : {"none", "Delivered", "RejectedStopped", "RejectedNotFound"}]]

\* The replies that got past the lock for a request.
Admitted(q) == {p \in Reply : /\ reply[p].to = q
                              /\ \/ reply[p].at = "taken"
                                 \/ reply[p].ack = "Delivered"}

\* At most one reply completes a request: two replies of which both found the
\* request under askMu would both be told Delivered, and one would be lost.
OneReplyAdmitted ==
  \A q \in Ask : \A p1, p2 \in Admitted(q) : p1 = p2

\* A caller that succeeds returns a reply that was sent to its own address and
\* whose envelope names no other request, and whose sender was told Delivered:
\* concurrent requests do not cross-wire.
NoCrossWiring ==
  \A q \in Ask : result[q].outcome = "success" =>
    LET p == result[q].reply
    IN  p # NoId /\ reply[p].to = q /\ reply[p].env \in {NoId, q} /\ reply[p].ack = "Delivered"

\* The two tables hold the same requests, each of a call still in progress: a
\* call that returned, whichever of reply, timeout, cancellation and rejection
\* came first, leaves nothing behind.
NothingLeftBehind ==
  /\ askWait = askReply
  /\ \A q \in askReply : caller[q] \in {"sending", "waiting", "completing"}

\* The table of finished requests exceeds its limit at most by the calls that a
\* reply has closed and that have not completed yet, and by those it forgot before
\* they completed: routeAskReply adds to it without enforcing the limit, and
\* completeAskRequest drops one entry, whatever the excess and whosever it is.
ClosedBounded ==
  Cardinality(askClosed)
    <= ClosedLimit + Cardinality({q \in askClosed : caller[q] # "returned"}) + Cardinality(forgotten)

\* A reply routed after its call returned is not delivered, and the outcome of a
\* call that returned does not change.
LateReplyHarmless ==
  [][\A q \in Ask : caller[q] = "returned" =>
       /\ result'[q] = result[q]
       /\ \A p \in Reply : reply[p].to = q /\ reply[p].at = "routing"
                             => reply'[p].at # "taken" /\ reply'[p].ack # "Delivered"]_vars

\* Every call returns, and every reply is answered: nobody waits for ever on a
\* responder that is silent, or on a caller that is gone.
EveryoneReturns ==
  /\ \A q \in Ask : caller[q] = "sending" ~> caller[q] = "returned"
  /\ \A p \in Reply : reply[p].at = "routing" ~> reply[p].at = "answered"

\* The ask-reply contract: "Late replies MUST be rejected or ignored": a reply
\* whose call ended by a timeout or a cancellation is not told Delivered.
LateReplyRejected ==
  \A p \in Reply : reply[p].ack = "Delivered" =>
    result[reply[p].to].outcome \notin {"timeout", "canceled"}
=============================================================================
