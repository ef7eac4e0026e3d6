------------------------------- MODULE Timers -------------------------------
(***************************************************************************)
(* One-shot and interval timers (timers.go): a goroutine per timer that    *)
(* waits for its time or for its context, and a table of the timers that   *)
(* have one.  SendAfter and SendAfterName differ in how the target is      *)
(* resolved when the timer fires, and are one operation here, like         *)
(* SendInterval and SendIntervalName.                                      *)
(***************************************************************************)
EXTENDS Naturals

CONSTANT MaxTimers   \* bound: timers ever made

VARIABLES timer, table

timerVars == <<timer, table>>

TimerId == 1 .. MaxTimers

TimersInit ==
  /\ timer = [i \in TimerId |-> [st |-> "none", interval |-> FALSE, cancelled |-> FALSE, sent |-> 0]]
  /\ table = {}

\* The next id.
IsNext(i) == timer[i].st = "none" /\ \A k \in 1 .. i - 1 : timer[k].st # "none"

\* The table, and the goroutine.
SendAfter(i) ==
  /\ IsNext(i)
  /\ timer' = [timer EXCEPT ![i].st = "waiting"]
  /\ table' = table \cup {i}

SendInterval(i) ==
  /\ IsNext(i)
  /\ timer' = [timer EXCEPT ![i].st = "waiting", ![i].interval = TRUE]
  /\ table' = table \cup {i}

\* TimerRef.Cancel; a second call does nothing.
Cancel(i) ==
  /\ timer[i].st # "none" /\ ~timer[i].cancelled
  /\ timer' = [timer EXCEPT ![i].cancelled = TRUE]
  /\ UNCHANGED table

\* A slip: the one-shot timer loops like the interval timer.
Fire_Loops(i) ==
  /\ timer[i].st = "waiting" /\ timer[i].sent < 2
  /\ timer' = [timer EXCEPT ![i].sent = @ + 1]
  /\ UNCHANGED table

\* The time has come, and the select takes that branch, also when the context is
\* done as well.  A one-shot timer leaves the table as its goroutine returns.
Fire(i) ==
  /\ timer[i].st = "waiting" /\ timer[i].sent < 2
  /\ timer' = [timer EXCEPT ![i].sent = @ + 1, ![i].st = IF timer[i].interval THEN @ ELSE "ended"]
  /\ table' = IF timer[i].interval THEN table ELSE table \ {i}

\* The select takes the context's branch.
Done(i) ==
  /\ timer[i].st = "waiting" /\ timer[i].cancelled
  /\ timer' = [timer EXCEPT ![i].st = "ended"]
  /\ table' = table \ {i}

TimersCommand == \E i \in TimerId : SendAfter(i) \/ SendInterval(i) \/ Cancel(i)
TimersStep == \E i \in TimerId : Fire(i) \/ Done(i)

\* A timer is in the table exactly while its goroutine runs, so that one which can
\* still send can be found there, and a one-shot timer sends once at most, whatever
\* the order of firing and cancelling (add, remove and the select).
TimersTracked ==
  \A i \in TimerId :
    /\ i \in table <=> timer[i].st = "waiting"
    /\ timer[i].st = "waiting" /\ ~timer[i].interval => timer[i].sent = 0
=============================================================================
