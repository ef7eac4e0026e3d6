----------------------------- MODULE CronBroker -----------------------------
(***************************************************************************)
(* The cron actor (cron_broker.go) on each node, made on first use, by the *)
(* daemon set, or as a cluster singleton whose state is handed over when   *)
(* the leader changes.  It handles one command at a time; every            *)
(* subscription has a goroutine of its own (a job) that sends the ticks,   *)
(* and a monitor on the subscriber, whose stop sends the actor a Down.     *)
(* The hand-off protocol itself is in Singleton.                           *)
(***************************************************************************)
EXTENDS Subscribers

CONSTANTS MaxJobs,      \* bound: jobs ever started
          MaxHandoffs,  \* bound: moves of the singleton
          MaxDowns      \* bound: Down messages in a mailbox

ASSUME CronAssumption == MaxJobs \in Nat /\ MaxHandoffs \in Nat /\ MaxDowns \in Nat

VARIABLES
  mode,       \* how the cron actor comes to run: lazy, daemon, singleton
  pointer,    \* the codec brings a *CronHandoffState back as a pointer
  cronActor,  \* the nodes that have a running cron actor
  svc,        \* cronBrokerService of each node
  job,        \* the goroutines of runSchedule, with their monitors
  downs,      \* DownMessages in the mailbox of each cron actor
  left,       \* history: the nodes the singleton has left
  moves       \* counts hand-offs

cronVars == <<mode, pointer, cronActor, svc, job, downs, left, moves>>

Job == 1 .. MaxJobs
Ref == 1 .. MaxJobs      \* "cron-<id>-<seq>": the seq
NoJob == [st |-> "none", node |-> "none", ref |-> 0, sub |-> "none", cancelled |-> FALSE,
          monitored |-> FALSE, late |-> 0]

\* A CronHandoffState: the actor id of the entry of each ref.
NoEntries == [r \in Ref |-> "none"]

\* newCronBrokerService, and the actor around it.  state: what the actor was created
\* with, when it is a pointer; fresh: the actor has not handled a message yet.
NewService == [subs |-> [r \in Ref |-> 0], by |-> [s \in Subscriber |-> {}], seq |-> 0,
               restored |-> FALSE, state |-> NoEntries, fresh |-> TRUE, inherited |-> FALSE]

CronInit ==
  /\ mode \in {"lazy", "daemon", "singleton"}
  /\ pointer \in BOOLEAN
  /\ CASE mode = "lazy" -> cronActor = {}
       [] mode = "daemon" -> cronActor = Node
       [] mode = "singleton" -> \E host \in Node : cronActor = {host}
  /\ svc = [n \in Node |-> NewService]
  /\ job = [j \in Job |-> NoJob]
  /\ downs = [n \in Node |-> [s \in Subscriber |-> 0]]
  /\ left = {}
  /\ moves = 0

\* EnsureCronActor, the first thing of every call.  Under the daemon set and the
\* singleton the service is known from the start, and the call reaches nobody where
\* the actor does not run.
EnsureCronActor(n) ==
  /\ mode = "lazy" \/ n \in cronActor
  /\ cronActor' = cronActor \cup {n}

\* A job for each of rs among the ones not started yet; which one is only a name.
Starts(rs) == Injection(rs, {j \in Job : job[j].st = "none"})

\* A slip: the subscriber is not monitored.
NewJob_Unwatched(n, r, s) ==
  [st |-> "waiting", node |-> n, ref |-> r, sub |-> s, cancelled |-> FALSE,
   monitored |-> FALSE, late |-> 0]

\* What handleSubscribe and restoreFromHandoff start for a subscription: a monitor
\* on the subscriber and the goroutine.
NewJob(n, r, s) ==
  [st |-> "waiting", node |-> n, ref |-> r, sub |-> s, cancelled |-> FALSE,
   monitored |-> TRUE, late |-> 0]

\* What the first message restores: a service does it once.
Entries(n) == IF svc[n].restored THEN NoEntries ELSE svc[n].state
Refs(n) == {r \in Ref : Entries(n)[r] # "none"}

\* restoreFromHandoff, for the entries one by one, by the jobs start gives them: the
\* service, and the jobs.
Restored(n, start) ==
  [svc[n] EXCEPT !.restored = TRUE, !.state = NoEntries, !.fresh = FALSE,
                 !.inherited = @ \/ Refs(n) # {},
                 !.subs = [r \in Ref |-> IF r \in Refs(n) THEN start[r] ELSE svc[n].subs[r]],
                 !.by = [s \in Subscriber |-> svc[n].by[s] \cup {r \in Ref : Entries(n)[r] = s}]]

JobsRestored(n, start) ==
  [j \in Job |->
     LET rs == {r \in Refs(n) : start[r] = j} IN
     IF rs = {} THEN job[j] ELSE LET r == CHOOSE x \in rs : TRUE IN NewJob(n, r, Entries(n)[r])]

\* The jobs of gone are cancelled, and demonitored where the code does so.
Cancelled(jobs, gone, demonitor) ==
  [j \in Job |-> IF j \in gone THEN [jobs[j] EXCEPT !.cancelled = TRUE, !.monitored = @ /\ ~demonitor]
                 ELSE jobs[j]]

\* The handler starts the jobs of what it restores and of more.
Handling(n, more) == EnsureCronActor(n) /\ Starts(Refs(n) \cup more) # {}
Start(n, more) == CHOOSE f \in Starts(Refs(n) \cup more) : TRUE

\* handleSubscribe of a valid schedule: what the ref had before is overwritten.
cronSubscribe(n, s) ==
  LET start == Start(n, {0})
      v == Restored(n, start)
      r == v.seq + 1
  IN
  /\ Handling(n, {0}) /\ svc[n].seq < MaxJobs
  /\ Home[s] = n
  /\ svc' = [svc EXCEPT ![n] = [v EXCEPT !.seq = r, !.subs[r] = start[0], !.by[s] = @ \cup {r}]]
  /\ job' = [JobsRestored(n, start) EXCEPT ![start[0]] = NewJob(n, r, s)]
  /\ UNCHANGED <<mode, pointer, downs, left, moves, life>>

Without(subs, rs) == [r \in Ref |-> IF r \in rs THEN 0 ELSE subs[r]]

\* handleUnsubscribe and handleUnsubscribeAll, for the refs of the command that exist;
\* removeLocked: cancel, Demonitor, out of subs and out of the refs of the actor id.
Removal(n, v, jobs, refs) ==
  LET found == {r \in refs : v.subs[r] # 0} IN
  /\ Handling(n, {})
  /\ found # {} \/ svc[n].fresh
  /\ svc' = [svc EXCEPT ![n] = [v EXCEPT
       !.subs = Without(v.subs, found),
       !.by = [s \in Subscriber |-> v.by[s] \ {r \in found : jobs[v.subs[r]].sub = s}]]]
  /\ job' = Cancelled(jobs, {v.subs[r] : r \in found}, TRUE)
  /\ UNCHANGED <<mode, pointer, downs, left, moves, life>>

cronUnsubscribe(n, r) ==
  LET start == Start(n, {}) IN Removal(n, Restored(n, start), JobsRestored(n, start), {r})
cronUnsubscribeAll(n, s) ==
  LET start == Start(n, {})
      v == Restored(n, start)
  IN  Home[s] = n /\ Removal(n, v, JobsRestored(n, start), v.by[s])

\* A slip: a Down takes the subscriptions out and leaves their jobs running.
cronDown_NoCancel(n, s) ==
  LET start == Start(n, {})
      v == Restored(n, start)
  IN
  /\ Handling(n, {}) /\ downs[n][s] > 0
  /\ downs' = [downs EXCEPT ![n][s] = @ - 1]
  /\ svc' = [svc EXCEPT ![n] = [v EXCEPT !.subs = Without(v.subs, v.by[s]), !.by[s] = {}]]
  /\ job' = JobsRestored(n, start)
  /\ UNCHANGED <<mode, pointer, left, moves, life>>

\* handleDown: every subscription of the actor id goes, whichever incarnation of
\* the actor made it; the monitors of the others stay.
cronDown(n, s) ==
  LET start == Start(n, {})
      v == Restored(n, start)
  IN
  /\ Handling(n, {}) /\ downs[n][s] > 0
  /\ downs' = [downs EXCEPT ![n][s] = @ - 1]
  /\ svc' = [svc EXCEPT ![n] = [v EXCEPT !.subs = Without(v.subs, v.by[s]), !.by[s] = {}]]
  /\ job' = Cancelled(JobsRestored(n, start), {v.subs[r] : r \in v.by[s]}, FALSE)
  /\ UNCHANGED <<mode, pointer, left, moves, life>>
-----------------------------------------------------------------------------
(* The jobs.                                                               *)

OnlyJob(j, new) ==
  /\ job' = [job EXCEPT ![j] = new]
  /\ UNCHANGED <<mode, pointer, cronActor, svc, downs, left, moves, life>>

\* A slip: the context is not looked at again once the time has come.
TickDue_NoCheck(j) ==
  job[j].st = "waiting" /\ OnlyJob(j, [job[j] EXCEPT !.st = "firing"])

\* runSchedule: the time has come, and the context is not cancelled.
TickDue(j) ==
  job[j].st = "waiting" /\ ~job[j].cancelled /\ OnlyJob(j, [job[j] EXCEPT !.st = "firing"])

\* Send by actor id, and the next turn of the loop.  late: ticks sent by a
\* cancelled job.
TickSend(j) ==
  /\ job[j].st = "firing"
  /\ OnlyJob(j, [job[j] EXCEPT !.st = "waiting", !.late = IF job[j].cancelled THEN @ + 1 ELSE @])

\* The context is done, or the schedule has no further time.
JobEnds(j) ==
  job[j].st = "waiting" /\ OnlyJob(j, [job[j] EXCEPT !.st = "ended"])
-----------------------------------------------------------------------------
(* The subscribers and the leadership.                                     *)

\* A subscriber stops: notifyMonitors drains its monitors and sends each watcher a
\* Down.  A cron actor made on first use has no PID, so its Downs reach nobody.
CronSubscriberStops(s) ==
  LET n == Home[s]
      watched == {j \in Job : job[j].monitored /\ job[j].node = n /\ job[j].sub = s}
      sent == IF mode # "lazy" /\ n \in cronActor THEN Cardinality(watched) ELSE 0
  IN
  /\ up[s]
  /\ up' = [up EXCEPT ![s] = FALSE]
  /\ downs[n][s] + sent <= MaxDowns
  /\ downs' = [downs EXCEPT ![n][s] = @ + sent]
  /\ job' = [j \in Job |-> IF j \in watched THEN [job[j] EXCEPT !.monitored = FALSE] ELSE job[j]]
  /\ UNCHANGED <<mode, pointer, cronActor, svc, left, moves, gen>>

\* An actor with the id of a stopped one is created; its PID starts anew.
SubscriberReturns(s) ==
  /\ ~up[s]
  /\ up' = [up EXCEPT ![s] = TRUE] /\ gen' = [gen EXCEPT ![s] = 1]
  /\ UNCHANGED cronVars

\* The state of the actor: what it was created with, and after a message what
\* captureState makes of the subscriptions.
captureState(n) == [r \in Ref |-> IF svc[n].subs[r] = 0 THEN "none" ELSE job[svc[n].subs[r]].sub]
ActorState(n) == IF svc[n].fresh THEN svc[n].state ELSE captureState(n)

\* The singleton moves: the actor on one node is stopped, its mailbox with it, and
\* the one on the other is created with the state the codec brings, or with none.
\* The service of a node is one object for the life of its process, and the jobs
\* of the old one go on.
HandOff(from, to, lost) ==
  /\ mode = "singleton" /\ moves < MaxHandoffs
  /\ from \in cronActor /\ to \notin cronActor
  /\ cronActor' = (cronActor \ {from}) \cup {to}
  /\ svc' = [svc EXCEPT ![to].state = IF lost \/ ~pointer THEN NoEntries ELSE ActorState(from), ![to].fresh = TRUE]
  /\ downs' = [downs EXCEPT ![from] = [s \in Subscriber |-> 0]]
  /\ left' = left \cup {from}
  /\ moves' = moves + 1
  /\ UNCHANGED <<mode, pointer, job, life>>

CronCommand ==
  \/ \E n \in Node, s \in Subscriber : cronSubscribe(n, s)
  \/ \E n \in Node, r \in Ref : cronUnsubscribe(n, r)
  \/ \E n \in Node, s \in Subscriber : cronUnsubscribeAll(n, s)
  \/ \E from, to \in Node, lost \in BOOLEAN : HandOff(from, to, lost)

CronStep ==
  \/ \E n \in Node, s \in Subscriber : cronDown(n, s)
  \/ \E j \in Job : TickDue(j) \/ TickSend(j) \/ JobEnds(j)
-----------------------------------------------------------------------------
(* Properties.                                                             *)

Live(j) == job[j].st \in {"waiting", "firing"} /\ ~job[j].cancelled

\* A service that has not inherited subscriptions can stop each of its jobs: the
\* ref leads to the job and the actor id to the ref, so neither an unsubscribe nor
\* a Down leaves one running that nothing refers to.
JobsIndexed ==
  \A j \in Job : Live(j) /\ ~svc[job[j].node].inherited =>
    /\ svc[job[j].node].subs[job[j].ref] = j
    /\ job[j].ref \in svc[job[j].node].by[job[j].sub]

\* Where the cron actor has a PID and has not moved away, a job still running is
\* one whose subscriber is watched, or whose Down is in the mailbox: no order of
\* subscribing, stopping and coming back makes a job outlive the stop of a
\* subscriber it was watching (handleSubscribe, notifyMonitors, handleDown).
JobsWatched ==
  mode # "lazy" =>
    \A j \in Job : LET n == job[j].node IN
      Live(j) /\ n \notin left => job[j].monitored \/ downs[n][job[j].sub] > 0

\* Once a subscription is cancelled, at most the tick under way is still sent
\* (the second look at the context in runSchedule).
OneLateTick == \A j \in Job : job[j].late <= 1
=============================================================================
