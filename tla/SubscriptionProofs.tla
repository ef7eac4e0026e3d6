------------------------- MODULE SubscriptionProofs -------------------------
(***************************************************************************)
(* Publish-subscribe and cron, each by itself: what holds at the start of  *)
(* each, what every step of it keeps, and that this implies its            *)
(* properties.  Module BrokerProofs puts the parts together.               *)
(*                                                                         *)
(* The walk of the trie is a recursive function.  That it has the          *)
(* equations of its definition is derived here from the definition itself  *)
(* (Recursion and WalkUnique); what it finds follows by induction on the   *)
(* segments to go (WalkFinds).                                             *)
(***************************************************************************)
EXTENDS PubSubBroker, CronBroker, WellFoundedInduction, TLAPS
-----------------------------------------------------------------------------
(* Cron *)

Stored == Subscriber \cup {"none"}
ServiceType == [subs : [Ref -> 0 .. MaxJobs], by : [Subscriber -> SUBSET Ref], seq : 0 .. MaxJobs,
                restored : BOOLEAN, state : [Ref -> Stored], fresh : BOOLEAN, inherited : BOOLEAN]
JobType == [st : {"none", "waiting", "firing", "ended"}, node : Node \cup {"none"}, ref : 0 .. MaxJobs,
            sub : Stored, cancelled : BOOLEAN, monitored : BOOLEAN, late : 0 .. 1]

Runs(x) == x.st \in {"waiting", "firing"} /\ ~x.cancelled

\* What holds of a job x that was started, with name j and service v, when the mode is
\* md, the cron actors run on actors, the Downs in the mailboxes are dn and the nodes
\* the singleton has left lf.
JobInv(md, j, x, v, actors, dn, lf) ==
  /\ x.node \in Node /\ x.ref \in Ref /\ x.sub \in Subscriber
  /\ v.restored
  /\ md # "lazy" => x.node \in actors \cup lf
  /\ ~v.inherited \/ (x.node \notin lf /\ Home[x.sub] = x.node) =>
       x.ref <= v.seq /\ (Runs(x) => v.subs[x.ref] = j /\ x.ref \in v.by[x.sub])
  /\ md # "lazy" /\ Runs(x) /\ x.node \notin lf => x.monitored \/ dn[x.node][x.sub] > 0
  /\ x.late = 1 => x.cancelled /\ x.st # "firing"

\* A subscriber whose node never had a cron actor has no subscription anywhere.
Unknown(s, sv, jb) ==
  /\ \A j \in Job : jb[j].sub # s
  /\ \A n \in Node : \A r \in Ref : sv[n].state[r] # s

CronOK(md, actors, sv, jb, dn, lf) ==
  /\ actors \subseteq Node /\ lf \subseteq Node
  /\ sv \in [Node -> ServiceType] /\ jb \in [Job -> JobType]
  /\ dn \in [Node -> [Subscriber -> Nat]]
  /\ \A n \in Node : \A s \in Subscriber : dn[n][s] > 0 => Home[s] = n
  /\ \A n \in Node : n \notin lf /\ ~sv[n].restored =>
       \A r \in Ref : sv[n].state[r] # "none" => Home[sv[n].state[r]] # n
  /\ md # "lazy" => \A s \in Subscriber : Home[s] \in actors \cup lf \/ Unknown(s, sv, jb)
  /\ \A j \in Job : jb[j].st # "none" => JobInv(md, j, jb[j], sv[jb[j].node], actors, dn, lf)

CronInv == CronOK(mode, cronActor, svc, job, downs, left)

IsCancelled(jb, jb2, subs, gone) ==
  \E demonitor \in BOOLEAN : jb2 = Cancelled(jb, {subs[r] : r \in gone}, demonitor)

\* The Downs still due after those of the subscribers whose refs are gone were handled.
StillDue(dn, dn2, n, by, gone) ==
  \A m \in Node : \A t \in Subscriber :
    /\ dn2[m][t] > 0 => dn[m][t] > 0
    /\ dn[m][t] > 0 => dn2[m][t] > 0 \/ (m = n /\ by[t] \subseteq gone)

\* The jobs a handler starts have names that are free.
LEMMA StartFree ==
  ASSUME NEW n, NEW more, Handling(n, more)
  PROVE  Start(n, more) \in [Refs(n) \cup more -> {j \in Job : job[j].st = "none"}]
BY Zenon DEF Handling, Start, Starts, Injection, IsInjective

\* What the first message restores is on nobody's own node, and comes first.
LEMMA RestoreKeeps ==
  ASSUME CronInv, NEW n \in Node, NEW more, mode = "lazy" \/ n \in cronActor,
         NEW start \in [Refs(n) \cup more -> {j \in Job : job[j].st = "none"}]
  PROVE  CronOK(mode, cronActor \cup {n}, [svc EXCEPT ![n] = Restored(n, start)], JobsRestored(n, start), downs, left)
<1> DEFINE v == Restored(n, start)
           jb == JobsRestored(n, start)
           sv == [svc EXCEPT ![n] = v]
           e == Entries(n)
           rs == Refs(n)
<1>1. /\ svc \in [Node -> ServiceType] /\ svc[n] \in ServiceType /\ job \in [Job -> JobType]
      /\ cronActor \subseteq Node /\ left \subseteq Node /\ downs \in [Node -> [Subscriber -> Nat]]
      /\ \A m \in Node : \A s \in Subscriber : downs[m][s] > 0 => Home[s] = m
  BY Zenon DEF CronInv, CronOK
<1>2. NoEntries \in [Ref -> Stored] /\ \A r \in Ref : NoEntries[r] = "none"
  BY Zenon DEF NoEntries, Stored
<1>3. e \in [Ref -> Stored] /\ rs \subseteq Ref /\ \A r \in Ref : r \in rs <=> e[r] # "none"
  BY Zenon, <1>1, <1>2 DEF ServiceType, Entries, Refs
<1>4. rs # {} => ~svc[n].restored /\ e = svc[n].state
  BY Zenon, <1>2 DEF Entries, Refs
<1>5. \A r \in rs : start[r] \in Job /\ job[start[r]].st = "none"
  OBVIOUS
<1>6. v \in ServiceType
  <2>1. [r \in Ref |-> IF r \in rs THEN start[r] ELSE svc[n].subs[r]] \in [Ref -> 0 .. MaxJobs]
    BY <1>1, <1>5 DEF ServiceType, Job
  <2>2. [s \in Subscriber |-> svc[n].by[s] \cup {r \in Ref : e[r] = s}] \in [Subscriber -> SUBSET Ref]
    BY Zenon, <1>1 DEF ServiceType
  <2>3. (svc[n].inherited \/ rs # {}) \in BOOLEAN
    OBVIOUS
  <2> HIDE DEF e, rs
  <2>4. v = [svc[n] EXCEPT !.restored = TRUE, !.state = NoEntries, !.fresh = FALSE,
                           !.inherited = svc[n].inherited \/ rs # {},
                           !.subs = [r \in Ref |-> IF r \in rs THEN start[r] ELSE svc[n].subs[r]],
                           !.by = [s \in Subscriber |-> svc[n].by[s] \cup {r \in Ref : e[r] = s}]]
    BY Zenon, <1>1 DEF Restored, e, rs
  <2> HIDE DEF v
  <2> QED BY Zenon, <1>1, <1>2, <2>1, <2>2, <2>3, <2>4 DEF ServiceType
<1>7. /\ v.restored /\ v.state = NoEntries /\ v.seq = svc[n].seq
      /\ v.inherited = (svc[n].inherited \/ rs # {})
      /\ \A r \in Ref : r \notin rs => v.subs[r] = svc[n].subs[r]
      /\ \A s \in Subscriber : svc[n].by[s] \subseteq v.by[s]
  BY Zenon, <1>1 DEF Restored, ServiceType
<1>8. ASSUME NEW j \in Job
      PROVE  jb[j] = job[j] \/ \E r \in rs : jb[j] = NewJob(n, r, e[r])
  BY Zenon DEF JobsRestored
<1>9. ASSUME NEW r \in rs
      PROVE  NewJob(n, r, e[r]) \in JobType /\ e[r] \in Subscriber
  BY <1>3 DEF NewJob, JobType, Stored, Ref
<1>10. jb \in [Job -> JobType]
  <2>1. \A j \in Job : jb[j] \in JobType
    BY Zenon, <1>1, <1>8, <1>9
  <2>2. jb = [j \in Job |-> jb[j]]
    BY DEF JobsRestored
  <2> HIDE DEF jb
  <2> QED BY Zenon, <2>1, <2>2
<1>11. sv \in [Node -> ServiceType] /\ sv[n] = v /\ \A m \in Node : m # n => sv[m] = svc[m]
  BY Zenon, <1>1, <1>6
<1> HIDE DEF v, jb, sv, e, rs
<1>12. ASSUME NEW m \in Node, m \notin left, ~sv[m].restored, NEW r \in Ref, sv[m].state[r] # "none"
       PROVE  Home[sv[m].state[r]] # m
  BY <1>7, <1>11, <1>12 DEF CronInv, CronOK
<1>13. ASSUME mode # "lazy", NEW s \in Subscriber, Home[s] \notin (cronActor \cup {n}) \cup left
       PROVE  Unknown(s, sv, jb)
  <2>1. Unknown(s, svc, job)
    BY Zenon, <1>13 DEF CronInv, CronOK
  <2>2. ASSUME NEW m \in Node, NEW r \in Ref PROVE sv[m].state[r] # s
    BY <1>2, <1>7, <1>11, <2>1, SubscriberAssumption DEF Unknown
  <2>3. ASSUME NEW j \in Job PROVE jb[j].sub # s
    <3>1. ASSUME NEW r \in rs, jb[j] = NewJob(n, r, e[r]) PROVE jb[j].sub # s
      <4>1. e[r] = svc[n].state[r] /\ r \in Ref
        BY Zenon, <1>3, <1>4
      <4>2. e[r] # s
        BY Zenon, <2>1, <4>1 DEF Unknown
      <4> QED BY <3>1, <4>2 DEF NewJob
    <3> QED BY Zenon, <1>8, <2>1, <3>1 DEF Unknown
  <2> QED BY Zenon, <2>2, <2>3 DEF Unknown
<1>14. ASSUME NEW j \in Job, jb[j].st # "none"
       PROVE  JobInv(mode, j, jb[j], sv[jb[j].node], cronActor \cup {n}, downs, left)
  <2>1. CASE jb[j] = job[j]
    <3>1. JobInv(mode, j, job[j], svc[job[j].node], cronActor, downs, left)
      BY Zenon, <1>14, <2>1 DEF CronInv, CronOK
    <3>2. CASE job[j].node # n
      BY Zenon, <1>11, <2>1, <3>1, <3>2 DEF JobInv
    <3>3. CASE job[j].node = n
      <4>1. rs = {}
        BY Zenon, <1>4, <3>1, <3>3 DEF JobInv
      <4>2. v.inherited = svc[n].inherited /\ v.subs[job[j].ref] = svc[n].subs[job[j].ref]
        BY Zenon, <1>1, <1>7, <3>1, <4>1 DEF JobInv, ServiceType
      <4> QED BY <1>7, <1>11, <2>1, <3>1, <3>3, <4>2 DEF JobInv
    <3> QED BY Zenon, <3>2, <3>3
  <2>2. ASSUME NEW r \in rs, jb[j] = NewJob(n, r, e[r])
        PROVE  JobInv(mode, j, jb[j], sv[jb[j].node], cronActor \cup {n}, downs, left)
    <3>1. /\ jb[j].node = n /\ jb[j].ref = r /\ jb[j].sub = e[r] /\ jb[j].monitored /\ jb[j].late = 0
          /\ r \in Ref /\ e[r] \in Subscriber
      BY <1>3, <1>9, <2>2 DEF NewJob
    <3>2. v.inherited /\ v.restored
      BY Zenon, <1>7
    <3>3. n \notin left => Home[e[r]] # n
      BY <1>3, <1>4, <3>1 DEF CronInv, CronOK
    <3> QED BY <1>11, <3>1, <3>2, <3>3 DEF JobInv
  <2> QED BY Zenon, <1>8, <2>1, <2>2
<1> QED BY Zenon, <1>1, <1>10, <1>11, <1>12, <1>13, <1>14 DEF CronOK, v, jb, sv

\* Subscriptions that go take their jobs with them: of every job that runs, its own
\* refs still lead to it.
LEMMA CancelKeeps ==
  ASSUME NEW actors, NEW sv, NEW jb, NEW dn, NEW lf, CronOK(mode, actors, sv, jb, dn, lf),
         NEW n \in Node, NEW gone \in SUBSET Ref,
         NEW v \in ServiceType, sv[n] = v, NEW w \in ServiceType,
         w.restored = v.restored, w.seq = v.seq, w.inherited = v.inherited, w.state = v.state,
         w.subs = Without(v.subs, gone),
         \A t \in Subscriber : \A r \in v.by[t] : r \in gone \/ r \in w.by[t],
         NEW dn2 \in [Node -> [Subscriber -> Nat]],
         StillDue(dn, dn2, n, v.by, gone),
         NEW jb2, IsCancelled(jb, jb2, v.subs, gone)
  PROVE  CronOK(mode, actors, [sv EXCEPT ![n] = w], jb2, dn2, lf)
<1> DEFINE sv2 == [sv EXCEPT ![n] = w]
           js == {v.subs[r] : r \in gone}
<1>0. PICK demonitor \in BOOLEAN : jb2 = Cancelled(jb, js, demonitor)
  BY Zenon DEF IsCancelled
<1>1. /\ actors \subseteq Node /\ lf \subseteq Node /\ sv \in [Node -> ServiceType] /\ jb \in [Job -> JobType]
      /\ \A m \in Node : \A t \in Subscriber : dn2[m][t] > 0 => Home[t] = m
  BY Zenon DEF CronOK, StillDue
<1>2. sv2 \in [Node -> ServiceType] /\ sv2[n] = w /\ \A m \in Node : m # n => sv2[m] = sv[m]
  BY Zenon, <1>1
<1>3. ASSUME NEW j \in Job
      PROVE  /\ jb2[j] \in JobType /\ jb2[j].st = jb[j].st /\ jb2[j].node = jb[j].node
             /\ jb2[j].ref = jb[j].ref /\ jb2[j].sub = jb[j].sub /\ jb2[j].late = jb[j].late
             /\ jb[j].cancelled => jb2[j].cancelled
             /\ ~jb2[j].cancelled => j \notin js /\ jb2[j] = jb[j]
  <2>1. jb[j] \in JobType
    BY Zenon, <1>1
  <2>2. CASE j \notin js
    BY Zenon, <1>0, <2>1, <2>2 DEF Cancelled
  <2>3. CASE j \in js
    <3>1. jb2[j] = [jb[j] EXCEPT !.cancelled = TRUE, !.monitored = jb[j].monitored /\ ~demonitor]
      BY Zenon, <1>0, <2>1, <2>3 DEF Cancelled
    <3> QED BY Zenon, <2>1, <3>1 DEF JobType
  <2> QED BY Zenon, <2>2, <2>3
<1>4. jb2 \in [Job -> JobType]
  <2>1. jb2 = [j \in Job |-> jb2[j]]
    BY Zenon, <1>0 DEF Cancelled
  <2> QED BY Zenon, <1>3, <2>1
<1> HIDE DEF sv2
<1>5. \A m \in Node : sv2[m].restored = sv[m].restored /\ sv2[m].state = sv[m].state
  BY Zenon, <1>2
<1>6. \A s \in Subscriber : Unknown(s, sv, jb) => Unknown(s, sv2, jb2)
  BY <1>3, <1>5 DEF Unknown
<1>7. ASSUME NEW j \in Job, jb2[j].st # "none"
      PROVE  JobInv(mode, j, jb2[j], sv2[jb2[j].node], actors, dn2, lf)
  <2> DEFINE x == jb[j]
             y == jb2[j]
             m == jb[j].node
  <2>1. JobInv(mode, j, x, sv[m], actors, dn, lf)
    BY Zenon, <1>3, <1>7 DEF CronOK
  <2>2. /\ x.node = m /\ y.node = m /\ y.ref = x.ref /\ y.sub = x.sub /\ y.late = x.late /\ y.st = x.st
        /\ x.cancelled => y.cancelled
        /\ Runs(y) => j \notin js /\ y = x /\ Runs(x)
    BY Zenon, <1>3 DEF Runs
  <2>3. x \in JobType /\ y \in JobType /\ x.ref \in Ref /\ x.sub \in Subscriber /\ m \in Node
    BY Zenon, <1>1, <1>3, <2>1 DEF JobInv
  <2> HIDE DEF x, y, m
  <2>4. /\ sv2[m].restored = sv[m].restored /\ sv2[m].inherited = sv[m].inherited /\ sv2[m].seq = sv[m].seq
    BY Zenon, <1>2, <2>3
  <2>5. ASSUME Runs(y), sv[m].subs[x.ref] = j, x.ref \in sv[m].by[x.sub]
        PROVE  /\ sv2[m].subs[x.ref] = j /\ x.ref \in sv2[m].by[x.sub]
               /\ m = n => x.ref \notin gone
    <3>1. CASE m # n
      BY Zenon, <1>2, <2>3, <2>5, <3>1
    <3>2. CASE m = n
      <4>1. x.ref \notin gone
        BY Zenon, <2>2, <2>5, <3>2
      <4> QED BY Zenon, <1>2, <2>3, <2>5, <3>2, <4>1 DEF Without
    <3> QED BY Zenon, <3>1, <3>2
  <2>6. ASSUME mode # "lazy", Runs(y), m \notin lf PROVE y.monitored \/ dn2[m][x.sub] > 0
    <3>1. x.monitored \/ dn[m][x.sub] > 0
      BY Zenon, <2>1, <2>2, <2>6 DEF JobInv, m
    <3>2. CASE x.monitored
      BY Zenon, <2>2, <2>6, <3>2
    <3>3. CASE dn[m][x.sub] > 0 /\ ~(dn2[m][x.sub] > 0)
      <4>1. m = n /\ sv[n].by[x.sub] \subseteq gone /\ Home[x.sub] = m
        BY Zenon, <2>3, <3>3 DEF CronOK, StillDue
      <4>2. sv[m].subs[x.ref] = j /\ x.ref \in sv[m].by[x.sub]
        BY Zenon, <2>1, <2>2, <2>6, <4>1 DEF JobInv, m
      <4> QED BY Zenon, <2>5, <2>6, <4>1, <4>2
    <3> QED BY Zenon, <3>1, <3>2, <3>3
  <2>7. JobInv(mode, j, y, sv2[m], actors, dn2, lf)
    BY Zenon, <2>1, <2>2, <2>4, <2>5, <2>6 DEF JobInv
  <2> QED BY Zenon, <2>2, <2>7 DEF y
<1>8. CronOK(mode, actors, sv2, jb2, dn2, lf)
  <2>1. \A m \in Node : m \notin lf /\ ~sv2[m].restored =>
          \A r \in Ref : sv2[m].state[r] # "none" => Home[sv2[m].state[r]] # m
    BY Zenon, <1>5 DEF CronOK
  <2>2. mode # "lazy" => \A s \in Subscriber : Home[s] \in actors \cup lf \/ Unknown(s, sv2, jb2)
    BY Zenon, <1>6 DEF CronOK
  <2> QED BY Zenon, <1>1, <1>2, <1>4, <1>7, <2>1, <2>2 DEF CronOK
<1> QED BY Zenon, <1>8 DEF sv2

\* A subscription gets a ref that no job of its node has.
LEMMA SubscribeKeeps ==
  ASSUME NEW actors, NEW sv, NEW jb, CronOK(mode, actors, sv, jb, downs, left),
         NEW n \in actors, NEW s \in Subscriber, Home[s] = n, sv[n].seq < MaxJobs, sv[n].restored,
         NEW i \in Job
  PROVE  LET r == sv[n].seq + 1
             w == [sv[n] EXCEPT !.seq = r, !.subs[r] = i, !.by[s] = @ \cup {r}]
         IN  CronOK(mode, actors, [sv EXCEPT ![n] = w], [jb EXCEPT ![i] = NewJob(n, r, s)], downs, left)
<1> DEFINE r == sv[n].seq + 1
           w == [sv[n] EXCEPT !.seq = r, !.subs[r] = i, !.by[s] = @ \cup {r}]
           sv2 == [sv EXCEPT ![n] = w]
           new == NewJob(n, r, s)
           jb2 == [jb EXCEPT ![i] = new]
<1>1. /\ actors \subseteq Node /\ left \subseteq Node /\ sv \in [Node -> ServiceType] /\ jb \in [Job -> JobType]
      /\ n \in Node /\ sv[n] \in ServiceType
  BY Zenon DEF CronOK
<1>2. sv[n].seq \in 0 .. MaxJobs /\ r \in Ref /\ r \in 0 .. MaxJobs /\ i \in 0 .. MaxJobs
  BY <1>1, CronAssumption DEF ServiceType, Ref, Job
<1> HIDE DEF r
<1>3. new \in JobType
  BY <1>1, <1>2 DEF NewJob, JobType, Stored
<1>4. /\ w \in ServiceType /\ w.seq = r /\ w.restored = sv[n].restored /\ w.state = sv[n].state
      /\ w.inherited = sv[n].inherited
      /\ w.subs = [sv[n].subs EXCEPT ![r] = i] /\ w.by = [sv[n].by EXCEPT ![s] = @ \cup {r}]
  <2> DEFINE subs2 == [sv[n].subs EXCEPT ![r] = i]
             by2 == [sv[n].by EXCEPT ![s] = @ \cup {r}]
  <2>1. subs2 \in [Ref -> 0 .. MaxJobs] /\ by2 \in [Subscriber -> SUBSET Ref]
    BY <1>1, <1>2 DEF ServiceType
  <2>2. w = [sv[n] EXCEPT !.seq = r, !.subs = subs2, !.by = by2]
    BY Zenon, <1>1 DEF ServiceType
  <2> HIDE DEF w, subs2, by2
  <2>3. /\ w \in ServiceType /\ w.seq = r /\ w.restored = sv[n].restored /\ w.state = sv[n].state
        /\ w.inherited = sv[n].inherited /\ w.subs = subs2 /\ w.by = by2
    BY Zenon, <1>1, <1>2, <2>1, <2>2 DEF ServiceType
  <2> QED BY Zenon, <2>3 DEF subs2, by2
<1> HIDE DEF w, new
<1>5. sv2 \in [Node -> ServiceType] /\ sv2[n] = w /\ \A m \in Node : m # n => sv2[m] = sv[m]
  BY Zenon, <1>1, <1>4
<1>6. jb2 \in [Job -> JobType] /\ jb2[i] = new /\ \A j \in Job : j # i => jb2[j] = jb[j]
  BY Zenon, <1>1, <1>3
<1> HIDE DEF sv2, jb2
<1>7. \A m \in Node : sv2[m].restored = sv[m].restored /\ sv2[m].state = sv[m].state
  BY Zenon, <1>4, <1>5
<1>8. new.sub = s /\ new.node = n /\ new.ref = r /\ new.monitored /\ new.late = 0
  BY Zenon DEF NewJob, new
<1>9. \A t \in Subscriber : Unknown(t, sv, jb) /\ t # s => Unknown(t, sv2, jb2)
  BY Zenon, <1>6, <1>7, <1>8 DEF Unknown
<1>10. ASSUME NEW j \in Job, jb2[j].st # "none"
       PROVE  JobInv(mode, j, jb2[j], sv2[jb2[j].node], actors, downs, left)
  <2>1. CASE j = i
    <3>1. r <= w.seq /\ w.subs[r] = i /\ r \in w.by[s]
      BY <1>1, <1>2, <1>4 DEF ServiceType
    <3>2. JobInv(mode, i, new, w, actors, downs, left)
      BY <1>1, <1>2, <1>4, <1>8, <3>1 DEF JobInv
    <3> QED BY Zenon, <1>5, <1>6, <1>8, <2>1, <3>2
  <2>2. CASE j # i
    <3> DEFINE x == jb[j]
    <3>1. jb2[j] = x /\ x \in JobType /\ JobInv(mode, j, x, sv[x.node], actors, downs, left)
      BY Zenon, <1>1, <1>6, <1>10, <2>2 DEF CronOK
    <3>2. CASE x.node # n
      BY Zenon, <1>5, <3>1, <3>2 DEF JobInv
    <3>3. CASE x.node = n
      <4>1. x.ref \in Ref /\ x.sub \in Subscriber
        BY Zenon, <3>1 DEF JobInv
      <4>2. x.ref <= sv[n].seq => x.ref <= w.seq /\ x.ref # r
        BY <1>2, <1>4, <4>1 DEF r, Ref
      <4>3. x.ref # r => w.subs[x.ref] = sv[n].subs[x.ref]
        BY Zenon, <1>1, <1>4, <4>1 DEF ServiceType
      <4>4. sv[n].by[x.sub] \subseteq w.by[x.sub]
        BY <1>1, <1>4, <4>1 DEF ServiceType
      <4>5. JobInv(mode, j, x, sv[n], actors, downs, left)
        BY Zenon, <3>1, <3>3
      <4> HIDE DEF x
      <4>6. JobInv(mode, j, x, w, actors, downs, left)
        BY Zenon, <1>4, <3>3, <4>2, <4>3, <4>4, <4>5 DEF JobInv
      <4> QED BY Zenon, <1>5, <3>1, <3>3, <4>6
    <3> QED BY Zenon, <3>2, <3>3
  <2> QED BY Zenon, <2>1, <2>2
<1>11. CronOK(mode, actors, sv2, jb2, downs, left)
  BY <1>1, <1>5, <1>6, <1>7, <1>9, <1>10 DEF CronOK
<1> QED BY Zenon, <1>11 DEF sv2, jb2, w, new, r

LEMMA CommandsKeep ==
  ASSUME CronInv, NEW n \in Node,
         \/ \E s \in Subscriber : cronSubscribe(n, s) \/ cronUnsubscribeAll(n, s) \/ cronDown(n, s)
         \/ \E r \in Ref : cronUnsubscribe(n, r)
  PROVE  CronInv'
<1>1. ASSUME NEW more, Handling(n, more)
      PROVE  LET start == Start(n, more)
                 sv == [svc EXCEPT ![n] = Restored(n, start)]
             IN  /\ CronOK(mode, cronActor', sv, JobsRestored(n, start), downs, left)
                 /\ cronActor' = cronActor \cup {n}
                 /\ sv[n] = Restored(n, start) /\ sv[n] \in ServiceType /\ sv[n].restored
                 /\ sv[n].seq = svc[n].seq
                 /\ \A w : [svc EXCEPT ![n] = w] = [sv EXCEPT ![n] = w]
  <2> DEFINE start == Start(n, more)
             v == Restored(n, start)
             sv == [svc EXCEPT ![n] = v]
  <2>1. start \in [Refs(n) \cup more -> {j \in Job : job[j].st = "none"}]
    BY Zenon, <1>1, StartFree
  <2>2. cronActor' = cronActor \cup {n} /\ (mode = "lazy" \/ n \in cronActor)
    BY Zenon, <1>1 DEF Handling, EnsureCronActor
  <2>3. svc \in [Node -> ServiceType] /\ svc[n] \in ServiceType
    BY Zenon DEF CronInv, CronOK
  <2>4. v.restored /\ v.seq = svc[n].seq
    BY Zenon, <2>3 DEF Restored, ServiceType
  <2> HIDE DEF start
  <2>5. CronOK(mode, cronActor', sv, JobsRestored(n, start), downs, left)
    BY Zenon, <2>1, <2>2, RestoreKeeps
  <2> HIDE DEF v
  <2>6. sv[n] = v /\ \A w : [svc EXCEPT ![n] = w] = [sv EXCEPT ![n] = w]
    BY Zenon, <2>3
  <2> HIDE DEF sv
  <2>7. sv[n] \in ServiceType
    BY Zenon, <2>5 DEF CronOK
  <2> QED BY Zenon, <2>2, <2>4, <2>5, <2>6, <2>7 DEF start, v, sv
<1>2. ASSUME NEW s \in Subscriber, cronSubscribe(n, s) PROVE CronInv'
  <2> DEFINE start == Start(n, {0})
             v == Restored(n, start)
             jb == JobsRestored(n, start)
             sv == [svc EXCEPT ![n] = v]
             r == v.seq + 1
             w == [v EXCEPT !.seq = r, !.subs[r] = start[0], !.by[s] = @ \cup {r}]
  <2>1. /\ Handling(n, {0}) /\ svc[n].seq < MaxJobs /\ Home[s] = n
        /\ svc' = [svc EXCEPT ![n] = w] /\ job' = [jb EXCEPT ![start[0]] = NewJob(n, r, s)]
        /\ UNCHANGED <<mode, downs, left>>
    BY Zenon, <1>2 DEF cronSubscribe
  <2>2. start \in [Refs(n) \cup {0} -> {j \in Job : job[j].st = "none"}]
    BY Zenon, <2>1, StartFree
  <2>3. start[0] \in Job
    BY Zenon, <2>2
  <2> HIDE DEF start, jb
  <2>4. /\ CronOK(mode, cronActor', sv, jb, downs, left) /\ n \in cronActor' /\ sv[n] = v /\ sv[n].restored
        /\ sv[n].seq = svc[n].seq /\ \A x : [svc EXCEPT ![n] = x] = [sv EXCEPT ![n] = x]
    BY Zenon, <1>1, <2>1 DEF start, jb
  <2> HIDE DEF sv, v
  <2>5. CronOK(mode, cronActor', [sv EXCEPT ![n] = w], [jb EXCEPT ![start[0]] = NewJob(n, r, s)], downs, left)
    BY Zenon, <2>1, <2>3, <2>4, SubscribeKeeps
  <2> HIDE DEF w
  <2>6. CronOK(mode, cronActor', svc', job', downs, left)
    BY Zenon, <2>1, <2>4, <2>5
  <2> QED BY Zenon, <2>1, <2>6 DEF CronInv
<1>3. ASSUME NEW start, start = Start(n, {}), NEW refs \in SUBSET Ref,
             Removal(n, Restored(n, start), JobsRestored(n, start), refs)
      PROVE  CronInv'
  <2> DEFINE v == Restored(n, start)
             jb == JobsRestored(n, start)
             sv == [svc EXCEPT ![n] = v]
             found == {r \in refs : v.subs[r] # 0}
             by2 == [t \in Subscriber |-> v.by[t] \ {r \in found : jb[v.subs[r]].sub = t}]
             w == [v EXCEPT !.subs = Without(v.subs, found), !.by = by2]
  <2>1. /\ Handling(n, {}) /\ svc' = [svc EXCEPT ![n] = w]
        /\ job' = Cancelled(jb, {v.subs[r] : r \in found}, TRUE)
        /\ UNCHANGED <<mode, downs, left>>
    BY Zenon, <1>3 DEF Removal
  <2>2. /\ CronOK(mode, cronActor', sv, jb, downs, left) /\ sv[n] = v /\ v \in ServiceType
        /\ \A x : [svc EXCEPT ![n] = x] = [sv EXCEPT ![n] = x]
    BY Zenon, <1>1, <1>3, <2>1
  <2> HIDE DEF v, jb
  <2>3. /\ Without(v.subs, found) \in [Ref -> 0 .. MaxJobs] /\ by2 \in [Subscriber -> SUBSET Ref]
        /\ \A t \in Subscriber : \A r \in v.by[t] : r \in found \/ r \in by2[t]
    BY <2>2, CronAssumption DEF ServiceType, Without
  <2>4. found \in SUBSET Ref
    OBVIOUS
  <2> HIDE DEF found, by2
  <2>5. /\ w \in ServiceType /\ w.restored = v.restored /\ w.seq = v.seq /\ w.inherited = v.inherited
        /\ w.state = v.state /\ w.subs = Without(v.subs, found) /\ w.by = by2
    BY Zenon, <2>2, <2>3 DEF ServiceType
  <2> HIDE DEF w, sv
  <2>6. downs \in [Node -> [Subscriber -> Nat]] /\ StillDue(downs, downs, n, v.by, found)
    BY Zenon DEF CronInv, CronOK, StillDue
  <2>7. IsCancelled(jb, job', v.subs, found)
    BY Zenon, <2>1, Zenon DEF IsCancelled
  <2>8. CronOK(mode, cronActor', [sv EXCEPT ![n] = w], job', downs, left)
    BY Zenon, <2>2, <2>3, <2>4, <2>5, <2>6, <2>7, CancelKeeps
  <2>9. CronOK(mode, cronActor', svc', job', downs, left)
    BY Zenon, <2>1, <2>2, <2>8
  <2> QED BY Zenon, <2>1, <2>9 DEF CronInv
<1>4. ASSUME NEW r \in Ref, cronUnsubscribe(n, r) PROVE CronInv'
  BY Zenon, <1>3, <1>4 DEF cronUnsubscribe
<1>5. ASSUME NEW s \in Subscriber, cronUnsubscribeAll(n, s) PROVE CronInv'
  <2> DEFINE start == Start(n, {})
             v == Restored(n, start)
  <2>1. Removal(n, v, JobsRestored(n, start), v.by[s])
    BY Zenon, <1>5 DEF cronUnsubscribeAll
  <2>2. Handling(n, {})
    BY Zenon, <2>1 DEF Removal
  <2>3. v \in ServiceType
    BY Zenon, <1>1, <2>2
  <2> HIDE DEF v
  <2>4. v.by[s] \in SUBSET Ref
    BY Zenon, <2>3 DEF ServiceType
  <2> QED BY Zenon, <1>3, <2>1, <2>4 DEF v
<1>6. ASSUME NEW s \in Subscriber, cronDown(n, s) PROVE CronInv'
  <2> DEFINE start == Start(n, {})
             v == Restored(n, start)
             jb == JobsRestored(n, start)
             sv == [svc EXCEPT ![n] = v]
             gone == v.by[s]
             by2 == [v.by EXCEPT ![s] = {}]
             w == [v EXCEPT !.subs = Without(v.subs, gone), !.by[s] = {}]
             dn2 == [downs EXCEPT ![n][s] = @ - 1]
  <2>1. /\ Handling(n, {}) /\ svc' = [svc EXCEPT ![n] = w] /\ downs[n][s] > 0 /\ downs' = dn2
        /\ job' = Cancelled(jb, {v.subs[r] : r \in gone}, FALSE)
        /\ UNCHANGED <<mode, left>>
    BY Zenon, <1>6 DEF cronDown
  <2>2. /\ CronOK(mode, cronActor', sv, jb, downs, left) /\ sv[n] = v /\ v \in ServiceType
        /\ \A x : [svc EXCEPT ![n] = x] = [sv EXCEPT ![n] = x]
    BY Zenon, <1>1, <2>1
  <2> HIDE DEF v, jb
  <2>3. /\ Without(v.subs, gone) \in [Ref -> 0 .. MaxJobs] /\ by2 \in [Subscriber -> SUBSET Ref]
        /\ \A t \in Subscriber : \A r \in v.by[t] : r \in gone \/ r \in by2[t]
    BY <2>2, CronAssumption DEF ServiceType, Without
  <2>4. gone \in SUBSET Ref /\ w = [v EXCEPT !.subs = Without(v.subs, gone), !.by = by2]
    BY Zenon, <2>2 DEF ServiceType
  <2>5. \A t \in Subscriber : t = s => v.by[t] \subseteq gone
    OBVIOUS
  <2> HIDE DEF gone, by2, w
  <2>6. /\ w \in ServiceType /\ w.restored = v.restored /\ w.seq = v.seq /\ w.inherited = v.inherited
        /\ w.state = v.state /\ w.subs = Without(v.subs, gone) /\ w.by = by2
    BY Zenon, <2>2, <2>3, <2>4 DEF ServiceType
  <2> HIDE DEF sv
  <2>7. downs \in [Node -> [Subscriber -> Nat]]
    BY Zenon DEF CronInv, CronOK
  <2>8. /\ dn2 \in [Node -> [Subscriber -> Nat]]
        /\ \A m \in Node : \A t \in Subscriber : dn2[m][t] = IF m = n /\ t = s THEN downs[n][s] - 1 ELSE downs[m][t]
    BY <2>1, <2>7
  <2> HIDE DEF dn2
  <2>9. StillDue(downs, dn2, n, v.by, gone)
    BY <2>2, <2>5, <2>7, <2>8 DEF StillDue
  <2>10. IsCancelled(jb, job', v.subs, gone)
    BY Zenon, <2>1, Zenon DEF IsCancelled
  <2>11. \A t \in Subscriber : \A r \in v.by[t] : r \in gone \/ r \in w.by[t]
    BY Zenon, <2>3, <2>6
  <2>12. gone \in SUBSET Ref /\ dn2 \in [Node -> [Subscriber -> Nat]]
    BY Zenon, <2>4, <2>8
  <2>13. CronOK(mode, cronActor', [sv EXCEPT ![n] = w], job', dn2, left)
    BY Zenon, <2>2, <2>6, <2>9, <2>10, <2>11, <2>12, CancelKeeps
  <2>14. CronOK(mode, cronActor', svc', job', downs', left)
    BY Zenon, <2>1, <2>2, <2>13
  <2> QED BY Zenon, <2>1, <2>14 DEF CronInv
<1> QED BY Zenon, <1>2, <1>4, <1>5, <1>6

LEMMA TicksKeep ==
  ASSUME CronInv, NEW j \in Job, TickDue(j) \/ TickSend(j) \/ JobEnds(j)
  PROVE  CronInv'
<1> DEFINE x == job[j]
           y == job'[j]
<1>1. /\ job \in [Job -> JobType] /\ x \in JobType /\ x.st # "none"
      /\ JobInv(mode, j, x, svc[x.node], cronActor, downs, left)
  BY Zenon DEF CronInv, CronOK, TickDue, TickSend, JobEnds
<1>2. job' = [job EXCEPT ![j] = y] /\ UNCHANGED <<mode, cronActor, svc, downs, left>>
  BY Zenon, <1>1 DEF TickDue, TickSend, JobEnds, OnlyJob
<1>3. /\ y \in JobType /\ y.st \in {"waiting", "firing", "ended"}
      /\ y.node = x.node /\ y.ref = x.ref /\ y.sub = x.sub /\ y.cancelled = x.cancelled
      /\ y.monitored = x.monitored /\ (Runs(y) => Runs(x))
      /\ y.late = 1 => y.cancelled /\ y.st # "firing"
  <2>1. CASE TickDue(j)
    <3>1. y = [x EXCEPT !.st = "firing"] /\ x.st = "waiting" /\ ~x.cancelled
      BY Zenon, <1>1, <2>1 DEF TickDue, OnlyJob
    <3> HIDE DEF y, x
    <3> QED BY Zenon, <1>1, <3>1 DEF JobType, Runs, JobInv
  <2>2. CASE TickSend(j)
    <3>1. x.st = "firing" /\ y = [x EXCEPT !.st = "waiting", !.late = IF x.cancelled THEN x.late + 1 ELSE x.late]
      BY Zenon, <1>1, <2>2 DEF TickSend, OnlyJob
    <3> HIDE DEF y, x
    <3>2. x.late = 0
      BY <1>1, <3>1 DEF JobType, JobInv
    <3> DEFINE late == IF x.cancelled THEN 1 ELSE 0
    <3>3. y = [x EXCEPT !.st = "waiting", !.late = late] /\ late \in 0 .. 1 /\ (late = 1 => x.cancelled)
      BY <3>1, <3>2
    <3> HIDE DEF late
    <3> QED BY Zenon, <1>1, <3>1, <3>3 DEF JobType, Runs
  <2>3. CASE JobEnds(j)
    <3>1. y = [x EXCEPT !.st = "ended"] /\ x.st = "waiting"
      BY Zenon, <1>1, <2>3 DEF JobEnds, OnlyJob
    <3> HIDE DEF y, x
    <3> QED BY Zenon, <1>1, <3>1 DEF JobType, Runs, JobInv
  <2> QED BY Zenon, <2>1, <2>2, <2>3
<1> HIDE DEF y
<1>4. job' \in [Job -> JobType] /\ job'[j] = y /\ \A k \in Job : k # j => job'[k] = job[k]
  BY Zenon, <1>1, <1>2, <1>3
<1>5. ASSUME NEW k \in Job, job'[k].st # "none"
      PROVE  JobInv(mode, k, job'[k], svc[job'[k].node], cronActor, downs, left)
  <2>1. CASE k # j
    BY Zenon, <1>4, <1>5, <2>1 DEF CronInv, CronOK
  <2>2. CASE k = j
    <3> HIDE DEF x
    <3>1. JobInv(mode, j, y, svc[x.node], cronActor, downs, left)
      BY Zenon, <1>1, <1>3 DEF JobInv
    <3> QED BY Zenon, <1>3, <1>4, <2>2, <3>1
  <2> QED BY Zenon, <2>1, <2>2
<1>6. \A s \in Subscriber : Unknown(s, svc, job) => Unknown(s, svc, job')
  BY Zenon, <1>3, <1>4 DEF Unknown
<1>7. CronOK(mode, cronActor, svc, job', downs, left)
  BY Zenon, <1>4, <1>5, <1>6 DEF CronInv, CronOK
<1> QED BY Zenon, <1>2, <1>7 DEF CronInv

\* The sets of jobs are finite.
JobsCounted == \A D \in SUBSET Job : Cardinality(D) \in Nat /\ (D # {} => Cardinality(D) > 0)

\* A subscriber that stops sends a Down for every job that watches it.
LEMMA StopsKeep ==
  ASSUME JobsCounted, CronInv, NEW s \in Subscriber, CronSubscriberStops(s)
  PROVE  CronInv'
<1> DEFINE n == Home[s]
           watched == {j \in Job : job[j].monitored /\ job[j].node = n /\ job[j].sub = s}
           sent == IF mode # "lazy" /\ n \in cronActor THEN Cardinality(watched) ELSE 0
<1>1. /\ job \in [Job -> JobType] /\ downs \in [Node -> [Subscriber -> Nat]] /\ n \in Node
      /\ \A m \in Node : \A t \in Subscriber : downs[m][t] > 0 => Home[t] = m
  BY Zenon, SubscriberAssumption DEF CronInv, CronOK
<1>2. /\ downs' = [downs EXCEPT ![n][s] = @ + sent]
      /\ job' = [j \in Job |-> IF j \in watched THEN [job[j] EXCEPT !.monitored = FALSE] ELSE job[j]]
      /\ UNCHANGED <<mode, cronActor, svc, left>>
  BY Zenon DEF CronSubscriberStops
<1>3. Cardinality(watched) \in Nat /\ (watched # {} => Cardinality(watched) > 0)
  <2>1. watched \in SUBSET Job
    OBVIOUS
  <2> HIDE DEF watched
  <2> QED BY Zenon, <2>1 DEF JobsCounted
<1>4. sent \in Nat
  BY Zenon, <1>3
<1>5. /\ downs' \in [Node -> [Subscriber -> Nat]]
      /\ \A m \in Node : \A t \in Subscriber : downs'[m][t] = IF m = n /\ t = s THEN downs[n][s] + sent ELSE downs[m][t]
  <2> HIDE DEF sent
  <2> QED BY <1>1, <1>2, <1>4
<1>6. ASSUME NEW j \in Job
      PROVE  /\ job'[j] \in JobType /\ job'[j].st = job[j].st /\ job'[j].node = job[j].node
             /\ job'[j].ref = job[j].ref /\ job'[j].sub = job[j].sub /\ job'[j].late = job[j].late
             /\ job'[j].cancelled = job[j].cancelled
             /\ job'[j].monitored = (job[j].monitored /\ j \notin watched)
  <2>1. job[j] \in JobType /\ job'[j] = IF j \in watched THEN [job[j] EXCEPT !.monitored = FALSE] ELSE job[j]
    BY Zenon, <1>1, <1>2
  <2> HIDE DEF watched
  <2>2. CASE j \in watched
    <3>1. job'[j] = [job[j] EXCEPT !.monitored = FALSE]
      BY Zenon, <2>1, <2>2
    <3> QED BY Zenon, <2>1, <2>2, <3>1 DEF JobType
  <2>3. CASE j \notin watched
    BY Zenon, <2>1, <2>3 DEF JobType
  <2> QED BY Zenon, <2>2, <2>3
<1>7. job' \in [Job -> JobType]
  <2>1. job' = [j \in Job |-> job'[j]]
    BY Zenon, <1>2
  <2> QED BY Zenon, <1>6, <2>1
<1>8. ASSUME NEW j \in Job, job'[j].st # "none"
      PROVE  JobInv(mode, j, job'[j], svc[job'[j].node], cronActor, downs', left)
  <2> DEFINE x == job[j]
             y == job'[j]
  <2>1. /\ JobInv(mode, j, x, svc[x.node], cronActor, downs, left)
        /\ y.st = x.st /\ y.node = x.node /\ y.ref = x.ref /\ y.sub = x.sub /\ y.late = x.late
        /\ y.cancelled = x.cancelled /\ y.monitored = (x.monitored /\ j \notin watched)
    BY Zenon, <1>6, <1>8 DEF CronInv, CronOK
  <2>2. ASSUME mode # "lazy", Runs(x), x.node \notin left
        PROVE  y.monitored \/ downs'[x.node][x.sub] > 0
    <3>1. /\ x.monitored \/ downs[x.node][x.sub] > 0
          /\ x.node \in Node /\ x.sub \in Subscriber /\ x.node \in cronActor
      BY Zenon, <2>1, <2>2 DEF JobInv
    <3>2. CASE downs[x.node][x.sub] > 0
      <4> HIDE DEF sent, x
      <4> QED BY <1>1, <1>4, <1>5, <3>1, <3>2
    <3>3. CASE x.monitored /\ j \notin watched
      BY Zenon, <2>1, <3>3
    <3>4. CASE j \in watched
      <4>1. x.node = n /\ x.sub = s /\ sent > 0
        BY Zenon, <1>3, <2>2, <3>1, <3>4
      <4> HIDE DEF sent, x
      <4> QED BY <1>1, <1>4, <1>5, <4>1
    <3> QED BY Zenon, <3>1, <3>2, <3>3, <3>4
  <2>3. Runs(y) <=> Runs(x)
    BY Zenon, <2>1 DEF Runs
  <2> HIDE DEF x, y
  <2>4. JobInv(mode, j, y, svc[x.node], cronActor, downs', left)
    BY Zenon, <2>1, <2>2, <2>3 DEF JobInv
  <2> QED BY Zenon, <2>1, <2>4 DEF y
<1>9. \A t \in Subscriber : Unknown(t, svc, job) => Unknown(t, svc, job')
  BY <1>6 DEF Unknown
<1>10. \A m \in Node : \A t \in Subscriber : downs'[m][t] > 0 => Home[t] = m
  <2> HIDE DEF sent
  <2> QED BY Zenon, <1>1, <1>5
<1>11. CronOK(mode, cronActor, svc, job', downs', left)
  BY Zenon, <1>5, <1>7, <1>8, <1>9, <1>10 DEF CronInv, CronOK
<1> QED BY Zenon, <1>2, <1>11 DEF CronInv

\* The state that is handed over names nobody whose node has not had the actor.
LEMMA HandOffKeeps ==
  ASSUME CronInv, NEW from \in Node, NEW to \in Node, NEW lost \in BOOLEAN, HandOff(from, to, lost)
  PROVE  CronInv'
<1> DEFINE st == IF lost \/ ~pointer THEN NoEntries ELSE ActorState(from)
           w == [svc[to] EXCEPT !.state = st, !.fresh = TRUE]
<1>1. /\ mode = "singleton" /\ from \in cronActor /\ to \notin cronActor
      /\ cronActor' = (cronActor \ {from}) \cup {to} /\ left' = left \cup {from}
      /\ downs' = [downs EXCEPT ![from] = [s \in Subscriber |-> 0]]
      /\ UNCHANGED <<mode, job>>
  BY Zenon DEF HandOff
<1>2. /\ svc \in [Node -> ServiceType] /\ job \in [Job -> JobType] /\ downs \in [Node -> [Subscriber -> Nat]]
      /\ cronActor \subseteq Node /\ left \subseteq Node /\ svc[to] \in ServiceType /\ svc[from] \in ServiceType
  BY Zenon DEF CronInv, CronOK
<1>3. svc' = [svc EXCEPT ![to] = w]
  BY Zenon, <1>2 DEF HandOff
<1>4. ASSUME NEW r \in Ref
      PROVE  /\ st[r] \in Stored
             /\ \/ st[r] = "none"
                \/ st[r] = svc[from].state[r]
                \/ \E j \in Job : st[r] = job[j].sub
  <2>1. st[r] = NoEntries[r] \/ st[r] = svc[from].state[r] \/ st[r] = captureState(from)[r]
    BY Zenon DEF ActorState
  <2>2. NoEntries[r] = "none" /\ "none" \in Stored /\ svc[from].state[r] \in Stored
    BY Zenon, <1>2 DEF NoEntries, Stored, ServiceType
  <2>3. captureState(from)[r] = "none" \/ \E j \in Job : captureState(from)[r] = job[j].sub
    <3>1. svc[from].subs[r] \in 0 .. MaxJobs
      BY Zenon, <1>2 DEF ServiceType
    <3>2. svc[from].subs[r] # 0 => svc[from].subs[r] \in Job
      BY <3>1, CronAssumption DEF Job
    <3> QED BY Zenon, <3>2 DEF captureState
  <2>4. \A j \in Job : job[j].sub \in Stored
    BY Zenon, <1>2 DEF JobType
  <2> QED BY Zenon, <2>1, <2>2, <2>3, <2>4
<1>5. st \in [Ref -> Stored]
  <2>1. st = [r \in Ref |-> st[r]]
    BY Zenon, <1>2 DEF NoEntries, ActorState, captureState, ServiceType
  <2> HIDE DEF st
  <2> QED BY Zenon, <1>4, <2>1
<1> HIDE DEF st
<1>6. /\ w \in ServiceType /\ w.state = st /\ w.restored = svc[to].restored /\ w.inherited = svc[to].inherited
      /\ w.seq = svc[to].seq /\ w.subs = svc[to].subs /\ w.by = svc[to].by
  BY Zenon, <1>2, <1>5 DEF ServiceType
<1> HIDE DEF w
<1>7. svc' \in [Node -> ServiceType] /\ svc'[to] = w /\ \A m \in Node : m # to => svc'[m] = svc[m]
  BY Zenon, <1>2, <1>3, <1>6
<1>8. /\ downs' \in [Node -> [Subscriber -> Nat]]
      /\ \A m \in Node : \A t \in Subscriber : downs'[m][t] = IF m = from THEN 0 ELSE downs[m][t]
  BY Zenon, <1>1, <1>2
<1>9. \A m \in Node : \A t \in Subscriber : downs'[m][t] > 0 => Home[t] = m
  BY <1>8 DEF CronInv, CronOK
<1>10. ASSUME NEW t \in Subscriber, Unknown(t, svc, job) PROVE Unknown(t, svc', job)
  BY <1>4, <1>6, <1>7, <1>10, SubscriberAssumption DEF Unknown
<1>11. \A t \in Subscriber : Home[t] \in cronActor' \cup left' \/ Unknown(t, svc', job)
  <2>1. \A t \in Subscriber : Home[t] \in cronActor \cup left \/ Unknown(t, svc, job)
    BY Zenon, <1>1 DEF CronInv, CronOK
  <2> QED BY Zenon, <1>1, <1>10, <2>1
<1>12. ASSUME NEW m \in Node, m \notin left', ~svc'[m].restored, NEW r \in Ref, svc'[m].state[r] # "none"
       PROVE  Home[svc'[m].state[r]] # m
  <2>1. m \notin left
    BY Zenon, <1>1, <1>12
  <2>2. CASE m # to
    BY Zenon, <1>7, <1>12, <2>1, <2>2 DEF CronInv, CronOK
  <2>3. CASE m = to
    <3>1. svc'[m].state[r] = st[r] /\ st[r] \in Subscriber
      BY Zenon, <1>4, <1>6, <1>7, <1>12, <2>3 DEF Stored
    <3>2. ASSUME Home[st[r]] = to PROVE FALSE
      <4>1. Unknown(st[r], svc, job)
        BY Zenon, <1>1, <2>1, <2>3, <3>1, <3>2 DEF CronInv, CronOK
      <4> QED BY Zenon, <1>4, <3>1, <4>1, SubscriberAssumption DEF Unknown
    <3> QED BY Zenon, <2>3, <3>1, <3>2
  <2> QED BY Zenon, <2>2, <2>3
<1>13. ASSUME NEW j \in Job, job[j].st # "none"
       PROVE  JobInv(mode, j, job[j], svc'[job[j].node], cronActor', downs', left')
  <2> DEFINE x == job[j]
  <2>1. JobInv(mode, j, x, svc[x.node], cronActor, downs, left)
    BY Zenon, <1>13 DEF CronInv, CronOK
  <2>2. x.node \in Node /\ x.sub \in Subscriber
    BY Zenon, <2>1 DEF JobInv
  <2> HIDE DEF x
  <2>3. /\ svc'[x.node].restored = svc[x.node].restored /\ svc'[x.node].inherited = svc[x.node].inherited
        /\ svc'[x.node].seq = svc[x.node].seq /\ svc'[x.node].subs = svc[x.node].subs
        /\ svc'[x.node].by = svc[x.node].by
    BY Zenon, <1>6, <1>7, <2>2
  <2>4. x.node \notin left' => x.node \notin left /\ downs'[x.node][x.sub] = downs[x.node][x.sub]
    BY Zenon, <1>1, <1>8, <2>2
  <2>5. x.node \in cronActor \cup left => x.node \in cronActor' \cup left'
    BY Zenon, <1>1
  <2> QED BY Zenon, <2>1, <2>3, <2>4, <2>5 DEF JobInv, x
<1>14. cronActor' \subseteq Node /\ left' \subseteq Node
  BY Zenon, <1>1, <1>2
<1>15. CronOK(mode, cronActor', svc', job, downs', left')
  BY Zenon, <1>2, <1>7, <1>8, <1>9, <1>11, <1>12, <1>13, <1>14 DEF CronOK
<1> QED BY Zenon, <1>1, <1>15 DEF CronInv

LEMMA CronInitially ==
  ASSUME CronInit
  PROVE  CronInv
<1>1. NewService \in ServiceType /\ NewService.state = NoEntries
  BY CronAssumption DEF NewService, ServiceType, NoEntries, Stored
<1>2. NoJob \in JobType /\ NoJob.st = "none" /\ NoJob.sub = "none"
  BY CronAssumption DEF NoJob, JobType, Stored
<1>3. svc = [n \in Node |-> NewService] /\ job = [j \in Job |-> NoJob] /\ left = {}
      /\ downs = [n \in Node |-> [s \in Subscriber |-> 0]]
  BY Zenon DEF CronInit
<1>4. cronActor \subseteq Node
  BY Zenon DEF CronInit
<1>5. \A r \in Ref : NoEntries[r] = "none"
  BY Zenon DEF NoEntries
<1>6. \A s \in Subscriber : Unknown(s, svc, job)
  BY Zenon, <1>1, <1>2, <1>3, <1>5, SubscriberAssumption DEF Unknown
<1>7. svc \in [Node -> ServiceType] /\ job \in [Job -> JobType] /\ downs \in [Node -> [Subscriber -> Nat]]
  BY Zenon, <1>1, <1>2, <1>3
<1>8. \A n \in Node : \A s \in Subscriber : ~(downs[n][s] > 0)
  BY <1>3
<1>9. \A n \in Node : \A r \in Ref : svc[n].state[r] = "none"
  BY Zenon, <1>1, <1>3, <1>5
<1>10. \A j \in Job : job[j].st = "none"
  BY Zenon, <1>2, <1>3
<1> QED BY Zenon, <1>3, <1>4, <1>6, <1>7, <1>8, <1>9, <1>10 DEF CronInv, CronOK

LEMMA CronKeeps ==
  ASSUME JobsCounted, CronInv,
         UNCHANGED cronVars \/ CronCommand \/ CronStep \/ \E s \in Subscriber : CronSubscriberStops(s)
  PROVE  CronInv'
<1>1. CASE UNCHANGED cronVars
  BY Zenon, <1>1 DEF cronVars, CronInv
<1>2. CASE CronCommand
  BY Zenon, <1>2, CommandsKeep, HandOffKeeps DEF CronCommand
<1>3. CASE CronStep
  BY Zenon, <1>3, CommandsKeep, TicksKeep DEF CronStep
<1> QED BY Zenon, <1>1, <1>2, <1>3, StopsKeep

LEMMA CronMeans ==
  ASSUME CronInv
  PROVE  JobsIndexed /\ JobsWatched /\ OneLateTick
<1>1. JobsIndexed
  BY Zenon DEF CronInv, CronOK, JobInv, JobsIndexed, Live, Runs
<1>2. JobsWatched
  BY Zenon DEF CronInv, CronOK, JobInv, JobsWatched, Live, Runs
<1>3. OneLateTick
  BY DEF CronInv, CronOK, JobType, OneLateTick
<1> QED BY Zenon, <1>1, <1>2, <1>3
-----------------------------------------------------------------------------

\* A set of naturals that has zero and, with a number, the next one, has them all.
\* The least number it had not would have a predecessor in it.
LEMMA Induction ==
  ASSUME NEW S \in SUBSET Nat, 0 \in S, \A i \in S : i + 1 \in S
  PROVE  S = Nat
<1> DEFINE T == Nat \ S
<1> SUFFICES ASSUME T # {} PROVE FALSE
  BY Zenon
<1> DEFINE R == OpToRel(<, Nat)
<1>1. PICK x \in T : \A y \in T : ~(<<y, x>> \in R)
  <2>1. IsWellFoundedOn(R, Nat)
    BY Zenon, NatLessThanWellFounded
  <2> QED BY Zenon, <2>1, WFMin
<1>2. x - 1 \in Nat /\ x - 1 < x
  OBVIOUS
<1>3. <<x - 1, x>> \in R
  BY Zenon, <1>2 DEF OpToRel
<1>4. x - 1 \in S
  BY Zenon, <1>1, <1>2, <1>3
<1>5. (x - 1) + 1 \in S
  BY Zenon, <1>4
<1> QED BY <1>5
-----------------------------------------------------------------------------
(* The walk of the trie *)

\* A function on the naturals is given by its value at zero and the step.
Unrolls(V, a, G) == \E f \in [Nat -> V] : f[0] = a /\ \A i \in Nat : f[i + 1] = G[<<i, f[i]>>]

LEMMA Recursion ==
  ASSUME NEW V, NEW a \in V, NEW G \in [Nat \X V -> V]
  PROVE  Unrolls(V, a, G)
<1> DEFINE Upto(n, f) == f \in [Nat -> V] /\ f[0] = a /\ \A i \in Nat : i < n => f[i + 1] = G[<<i, f[i]>>]
           S == {n \in Nat : \E f \in [Nat -> V] : Upto(n, f)}
<1>1. S = Nat
  <2>1. 0 \in S
    <3> DEFINE f == [i \in Nat |-> a]
    <3>1. f \in [Nat -> V] /\ Upto(0, f)
      OBVIOUS
    <3> QED BY Zenon, <3>1
  <2>2. ASSUME NEW n \in S PROVE n + 1 \in S
    <3>1. PICK f \in [Nat -> V] : Upto(n, f)
      OBVIOUS
    <3> DEFINE g == [f EXCEPT ![n + 1] = G[<<n, f[n]>>]]
    <3>2. G[<<n, f[n]>>] \in V
      OBVIOUS
    <3>3. g \in [Nat -> V] /\ Upto(n + 1, g)
      BY <3>1, <3>2
    <3>4. n + 1 \in Nat
      OBVIOUS
    <3> HIDE DEF g, Upto
    <3> QED BY Zenon, <3>3, <3>4
  <2> HIDE DEF S
  <2>3. S \in SUBSET Nat
    BY Zenon DEF S
  <2> QED BY Zenon, <2>1, <2>2, <2>3, Induction
<1> DEFINE h == [n \in Nat |-> CHOOSE f \in [Nat -> V] : Upto(n, f)]
<1>2. ASSUME NEW n \in Nat PROVE h[n] \in [Nat -> V] /\ Upto(n, h[n])
  <2>1. \E f \in [Nat -> V] : Upto(n, f)
    BY Zenon, <1>1
  <2> HIDE DEF Upto
  <2> QED BY Zenon, <2>1
<1> HIDE DEF h
<1>3. ASSUME NEW m \in Nat, NEW n \in Nat, m <= n PROVE h[m][m] = h[n][m]
  <2> DEFINE T == {i \in Nat : i <= m => h[m][i] = h[n][i]}
  <2>1. 0 \in T
    BY Zenon, <1>2
  <2>2. ASSUME NEW i \in T PROVE i + 1 \in T
    <3>1. ASSUME i + 1 <= m PROVE h[m][i + 1] = h[n][i + 1]
      <4>1. i < m /\ i < n /\ i \in Nat /\ h[m][i] = h[n][i]
        BY <1>3, <3>1
      <4>2. h[m][i + 1] = G[<<i, h[m][i]>>]
        BY Zenon, <1>2, <4>1
      <4>3. h[n][i + 1] = G[<<i, h[n][i]>>]
        BY Zenon, <1>2, <4>1
      <4> QED BY Zenon, <4>1, <4>2, <4>3
    <3> QED BY <3>1
  <2>3. T \in SUBSET Nat
    OBVIOUS
  <2> HIDE DEF T
  <2>4. T = Nat
    BY Zenon, <2>1, <2>2, <2>3, Induction
  <2> QED BY <2>4 DEF T
<1> DEFINE f == [n \in Nat |-> h[n][n]]
<1>4. f \in [Nat -> V]
  BY Zenon, <1>2
<1>5. f[0] = a
  BY Zenon, <1>2
<1>6. ASSUME NEW i \in Nat PROVE f[i + 1] = G[<<i, f[i]>>]
  <2>1. i + 1 \in Nat /\ i < i + 1 /\ i <= i + 1
    OBVIOUS
  <2>2. h[i + 1][i + 1] = G[<<i, h[i + 1][i]>>]
    BY Zenon, <1>2, <2>1
  <2>3. h[i][i] = h[i + 1][i]
    BY Zenon, <1>3, <2>1
  <2> QED BY Zenon, <2>1, <2>2, <2>3
<1> QED BY Zenon, <1>4, <1>5, <1>6 DEF Unrolls
-----------------------------------------------------------------------------
(* The trie *)

Results == [Subscriber -> Nat]
At(tr, node, kind) == {e \in tr : e.path = node /\ e.kind = kind}

\* The level of the walk with k segments to go, from the one below it.
Level(tr, topic, k, below) ==
  [node \in Seq(Segment) |-> [results \in Results |->
     LET withTail == Found(results, At(tr, node, "tail"))
         child == below[Append(node, topic[Len(topic) + 1 - k])]
         star == below[Append(node, "+")]
     IN  IF k = 0 THEN Found(withTail, At(tr, node, "exact")) ELSE star[child[withTail]]]]

\* Above the end of the topic a walk goes on to the child of the topic's segment, and
\* then to that of +.
GoesOn(tr, topic, k, below, node, results) ==
  Level(tr, topic, k, below)[node][results] =
    below[Append(node, "+")][below[Append(node, topic[Len(topic) + 1 - k])][Found(results, At(tr, node, "tail"))]]

LEMMA LevelAbove ==
  ASSUME NEW tr, NEW topic, NEW k, k # 0, NEW below, NEW node \in Seq(Segment), NEW results \in Results
  PROVE  GoesOn(tr, topic, k, below, node, results)
BY DEF Level, GoesOn

LEMMA LongerPath ==
  ASSUME NEW p \in Seq(Segment), NEW x \in Segment
  PROVE  Append(p, x) \in Seq(Segment) /\ Len(Append(p, x)) = Len(p) + 1
OBVIOUS

\* A node i + 1 segments above the end of a topic of n, at depth m.
OneFurther(n, i, m) ==
  /\ i \in 0 .. n /\ i + 1 \in 0 .. n /\ (i + 1) - 1 = i /\ i <= n
  /\ n + 1 - (i + 1) = m + 1 /\ m + 1 \in 1 .. n /\ m < n

LEMMA PathLength ==
  ASSUME NEW n \in Nat, NEW i \in Nat, i + 1 <= n, NEW m, m = n - (i + 1)
  PROVE  OneFurther(n, i, m)
BY DEF OneFurther

IsWalk(tr, topic, level) == level = [k \in 0 .. Len(topic) |-> Level(tr, topic, k, level[k - 1])]

LEMMA WalkUnique ==
  ASSUME NEW tr, NEW topic, NEW f, IsWalk(tr, topic, f)
  PROVE  IsWalk(tr, topic, walk(tr, topic))
<1>1. walk(tr, topic) = CHOOSE level : IsWalk(tr, topic, level)
  BY Zenon DEF walk, IsWalk, Level, At, Results
<1> QED BY Zenon, <1>1

EntryType == [path : Seq(Segment), kind : {"tail", "exact"}, sub : Subscriber, gen : Nat \ {0}]
Walks == [Seq(Segment) -> [Results -> Results]]

LEMMA FoundOnly ==
  ASSUME NEW tr \in SUBSET EntryType, NEW entries \in SUBSET tr, NEW results \in Results
  PROVE  /\ Found(results, entries) \in Results
         /\ \A s \in Subscriber : Found(results, entries)[s] # 0 <=> results[s] # 0 \/ \E e \in entries : e.sub = s
<1>1. ASSUME NEW s \in Subscriber, \E e \in entries : e.sub = s
      PROVE  (CHOOSE e \in entries : e.sub = s).gen \in Nat \ {0}
  <2>1. PICK e \in entries : e = (CHOOSE x \in entries : x.sub = s)
    BY Zenon, <1>1
  <2> QED BY Zenon, <2>1 DEF EntryType
<1>2. ASSUME NEW s \in Subscriber
      PROVE  /\ Found(results, entries)[s] \in Nat
             /\ Found(results, entries)[s] # 0 <=> results[s] # 0 \/ \E e \in entries : e.sub = s
  <2>1. CASE \E e \in entries : e.sub = s
    <3>1. Found(results, entries)[s] = (CHOOSE e \in entries : e.sub = s).gen
      BY Zenon, <2>1 DEF Found
    <3> QED BY Zenon, <1>1, <2>1, <3>1
  <2>2. CASE ~ \E e \in entries : e.sub = s
    BY Zenon, <2>2 DEF Found, Results
  <2> QED BY Zenon, <2>1, <2>2
<1>3. Found(results, entries) = [s \in Subscriber |-> Found(results, entries)[s]]
  BY Zenon DEF Found
<1> QED BY Zenon, <1>2, <1>3 DEF Results

LEMMA LevelType ==
  ASSUME NEW tr \in SUBSET EntryType, NEW topic \in Seq(Segment), NEW k \in 0 .. Len(topic),
         NEW below, k # 0 => below \in Walks
  PROVE  Level(tr, topic, k, below) \in Walks
<1> SUFFICES ASSUME NEW node \in Seq(Segment), NEW results \in Results
             PROVE  Level(tr, topic, k, below)[node][results] \in Results
  BY Zenon DEF Level, Walks
<1> DEFINE withTail == Found(results, At(tr, node, "tail"))
<1>1. withTail \in Results
  BY Zenon, FoundOnly DEF At
<1>2. CASE k = 0
  <2>1. Level(tr, topic, k, below)[node][results] = Found(withTail, At(tr, node, "exact"))
    BY Zenon, <1>2 DEF Level
  <2>2. At(tr, node, "exact") \in SUBSET tr
    BY Zenon DEF At
  <2> HIDE DEF withTail
  <2> QED BY ZenonT(30), <1>1, <2>1, <2>2, FoundOnly
<1>3. CASE k # 0
  <2> DEFINE next == topic[Len(topic) + 1 - k]
  <2>1. next \in Segment /\ "+" \in Segment
    <3>1. Len(topic) \in Nat /\ Len(topic) + 1 - k \in 1 .. Len(topic)
      BY <1>3
    <3> QED BY <3>1 DEF Segment
  <2>2. Level(tr, topic, k, below)[node][results] = below[Append(node, "+")][below[Append(node, next)][withTail]]
    BY Zenon, <1>3 DEF Level
  <2> HIDE DEF withTail, next
  <2>3. Append(node, "+") \in Seq(Segment) /\ Append(node, next) \in Seq(Segment)
    BY <2>1
  <2>4. below[Append(node, next)][withTail] \in Results
    BY Zenon, <1>1, <1>3, <2>3 DEF Walks
  <2> QED BY Zenon, <1>3, <2>2, <2>3, <2>4 DEF Walks
<1> QED BY Zenon, <1>2, <1>3

\* The walk is the function its recursion describes.
LEMMA WalkLevels ==
  ASSUME NEW tr \in SUBSET EntryType, NEW topic \in Seq(Segment)
  PROVE  /\ walk(tr, topic) \in [0 .. Len(topic) -> Walks]
         /\ \A k \in 0 .. Len(topic) : walk(tr, topic)[k] = Level(tr, topic, k, walk(tr, topic)[k - 1])
<1> DEFINE n == Len(topic)
           a == Level(tr, topic, 0, {})
           G == [x \in Nat \X Walks |-> IF x[1] < n THEN Level(tr, topic, x[1] + 1, x[2]) ELSE x[2]]
<1>1. n \in Nat
  OBVIOUS
<1>2. a \in Walks
  BY <1>1, LevelType
<1>3. ASSUME NEW x \in Nat \X Walks PROVE G[x] \in Walks
  <2>1. x[1] \in Nat /\ x[2] \in Walks
    OBVIOUS
  <2>2. CASE x[1] < n
    <3>1. x[1] + 1 \in 0 .. Len(topic)
      BY <1>1, <2>1, <2>2
    <3>2. Level(tr, topic, x[1] + 1, x[2]) \in Walks
      BY Zenon, <2>1, <3>1, LevelType
    <3> QED BY Zenon, <2>2, <3>2
  <2>3. CASE ~(x[1] < n)
    BY Zenon, <2>1, <2>3
  <2> QED BY Zenon, <2>2, <2>3
<1>4. G \in [Nat \X Walks -> Walks]
  BY Zenon, <1>3
<1> HIDE DEF a
<1>5. PICK f \in [Nat -> Walks] : f[0] = a /\ \A i \in Nat : f[i + 1] = G[<<i, f[i]>>]
  <2> HIDE DEF G
  <2>1. Unrolls(Walks, a, G)
    BY Zenon, <1>2, <1>4, Recursion
  <2> QED BY Zenon, <2>1 DEF Unrolls
<1> DEFINE g == [k \in 0 .. n |-> f[k]]
<1>6. ASSUME NEW k \in 0 .. n PROVE g[k] = Level(tr, topic, k, g[k - 1])
  <2>1. CASE k = 0
    <3>1. \A b : Level(tr, topic, 0, b) = a
      BY Zenon DEF Level, a
    <3> QED BY Zenon, <1>1, <1>5, <2>1, <3>1
  <2>2. CASE k # 0
    <3>1. k - 1 \in Nat /\ k - 1 \in 0 .. n /\ (k - 1) + 1 = k /\ k - 1 < n
      BY <1>1, <2>2
    <3>2. f[(k - 1) + 1] = G[<<k - 1, f[k - 1]>>]
      BY Zenon, <1>5, <3>1
    <3>3. G[<<k - 1, f[k - 1]>>] = Level(tr, topic, (k - 1) + 1, f[k - 1])
      BY Zenon, <3>1
    <3> HIDE DEF G
    <3> QED BY Zenon, <3>1, <3>2, <3>3
  <2> QED BY Zenon, <2>1, <2>2
<1>7. IsWalk(tr, topic, g)
  <2>1. g = [k \in 0 .. n |-> Level(tr, topic, k, g[k - 1])]
    BY Zenon, <1>6
  <2> QED BY Zenon, <2>1 DEF IsWalk
<1> DEFINE w == walk(tr, topic)
<1>8. IsWalk(tr, topic, w)
  <2> HIDE DEF g
  <2> QED BY Zenon, <1>7, WalkUnique
<1> HIDE DEF w, g
<1>9. \A k \in 0 .. n : w[k] = Level(tr, topic, k, w[k - 1])
  BY Zenon, <1>8 DEF IsWalk
<1>10. \A k \in 0 .. n : w[k] \in Walks
  <2> DEFINE S == {k \in Nat : k <= n => w[k] \in Walks}
  <2>1. 0 \in S
    <3>1. w[0] = Level(tr, topic, 0, w[0 - 1]) /\ 0 \in 0 .. Len(topic)
      BY <1>1, <1>9
    <3> QED BY Zenon, <1>1, <3>1, LevelType
  <2>2. ASSUME NEW k \in S PROVE k + 1 \in S
    <3>1. ASSUME k + 1 <= n PROVE w[k + 1] \in Walks
      <4>1. k \in Nat /\ k + 1 \in 0 .. Len(topic) /\ (k + 1) - 1 = k /\ w[k] \in Walks
        BY <1>1, <3>1
      <4>2. w[k + 1] = Level(tr, topic, k + 1, w[k])
        BY Zenon, <1>9, <4>1
      <4> QED BY Zenon, <4>1, <4>2, LevelType
    <3> QED BY <3>1
  <2>3. S \in SUBSET Nat
    OBVIOUS
  <2> HIDE DEF S
  <2>4. S = Nat
    BY Zenon, <2>1, <2>2, <2>3, Induction
  <2> QED BY <1>1, <2>4 DEF S
<1>11. w = [k \in 0 .. n |-> w[k]]
  BY Zenon, <1>8 DEF IsWalk
<1>12. w \in [0 .. n -> Walks]
  BY Zenon, <1>10, <1>11
<1> QED BY Zenon, <1>9, <1>12 DEF w

\* An entry the walk comes to from a node on its way along the topic.
Under(e, node, topic) ==
  /\ Len(node) <= Len(e.path) /\ Len(e.path) <= Len(topic)
  /\ e.kind = "exact" => Len(e.path) = Len(topic)
  /\ \A i \in 1 .. Len(node) : e.path[i] = node[i]
  /\ \A i \in Len(node) + 1 .. Len(e.path) : e.path[i] = "+" \/ e.path[i] = topic[i]

LEMMA SamePath ==
  ASSUME NEW S, NEW p \in Seq(S), NEW q \in Seq(S), Len(p) = Len(q), \A i \in 1 .. Len(p) : p[i] = q[i]
  PROVE  p = q
OBVIOUS

\* At the end of the topic, and before it.
LEMMA UnderEnd ==
  ASSUME NEW e \in EntryType, NEW node \in Seq(Segment), NEW topic \in Seq(Segment), Len(node) = Len(topic)
  PROVE  Under(e, node, topic) <=> e.path = node
<1>1. e.path \in Seq(Segment) /\ Len(e.path) \in Nat /\ Len(node) \in Nat
  BY DEF EntryType
<1>2. ASSUME Under(e, node, topic) PROVE e.path = node
  <2>1. Len(e.path) = Len(node) /\ \A i \in 1 .. Len(e.path) : e.path[i] = node[i]
    BY <1>1, <1>2 DEF Under
  <2> QED BY Zenon, <1>1, <2>1, SamePath
<1>3. ASSUME e.path = node PROVE Under(e, node, topic)
  BY <1>1, <1>3 DEF Under
<1> QED BY Zenon, <1>2, <1>3

LEMMA UnderStep ==
  ASSUME NEW e \in EntryType, NEW node \in Seq(Segment), NEW topic \in Seq(Segment), Len(node) < Len(topic),
         NEW next, next = topic[Len(node) + 1]
  PROVE  Under(e, node, topic) <=>
           \/ e.path = node /\ e.kind = "tail"
           \/ Under(e, Append(node, next), topic)
           \/ Under(e, Append(node, "+"), topic)
<1> DEFINE n == Len(node)
<1>1. /\ e.path \in Seq(Segment) /\ Len(e.path) \in Nat /\ n \in Nat /\ Len(topic) \in Nat
      /\ e.kind \in {"tail", "exact"}
  BY DEF EntryType
<1>2. next \in Segment /\ "+" \in Segment
  BY <1>1 DEF Segment
<1>3. ASSUME NEW x \in Segment
      PROVE  /\ Len(Append(node, x)) = n + 1 /\ Append(node, x)[n + 1] = x
             /\ \A i \in 1 .. n : Append(node, x)[i] = node[i]
  BY <1>1
<1>4. ASSUME NEW x \in Segment, x = "+" \/ x = next, Under(e, Append(node, x), topic)
      PROVE  Under(e, node, topic)
  <2> DEFINE y == Append(node, x)
  <2>0. Under(e, y, topic) /\ Len(y) = n + 1
    BY Zenon, <1>3, <1>4
  <2> HIDE DEF y
  <2>1. /\ n + 1 <= Len(e.path) /\ Len(e.path) <= Len(topic)
        /\ e.kind = "exact" => Len(e.path) = Len(topic)
        /\ \A i \in 1 .. n + 1 : e.path[i] = y[i]
        /\ \A i \in (n + 1) + 1 .. Len(e.path) : e.path[i] = "+" \/ e.path[i] = topic[i]
    BY Zenon, <2>0 DEF Under
  <2>2. e.path[n + 1] = x /\ \A i \in 1 .. n : e.path[i] = node[i]
    <3>1. y[n + 1] = x /\ \A i \in 1 .. n : y[i] = node[i]
      BY Zenon, <1>3 DEF y
    <3>2. n + 1 \in 1 .. n + 1 /\ \A i \in 1 .. n : i \in 1 .. n + 1
      BY <1>1
    <3> QED BY Zenon, <2>1, <3>1, <3>2
  <2>3. ASSUME NEW i \in n + 1 .. Len(e.path) PROVE e.path[i] = "+" \/ e.path[i] = topic[i]
    <3>1. CASE i = n + 1
      BY Zenon, <1>4, <2>2, <3>1
    <3>2. CASE i # n + 1
      BY <1>1, <2>1, <3>2
    <3> QED BY Zenon, <3>1, <3>2
  <2> QED BY <1>1, <2>1, <2>2, <2>3 DEF Under
<1>5. ASSUME e.path = node, e.kind = "tail" PROVE Under(e, node, topic)
  BY <1>1, <1>5 DEF Under
<1>6. ASSUME Under(e, node, topic), Len(e.path) = n PROVE e.path = node /\ e.kind = "tail"
  <2>1. e.kind = "tail" /\ \A i \in 1 .. Len(e.path) : e.path[i] = node[i]
    BY <1>1, <1>6 DEF Under
  <2> QED BY Zenon, <1>1, <1>6, <2>1, SamePath
<1>7. ASSUME Under(e, node, topic), Len(e.path) # n
      PROVE  Under(e, Append(node, next), topic) \/ Under(e, Append(node, "+"), topic)
  <2> DEFINE x == e.path[n + 1]
  <2>1. n + 1 <= Len(e.path)
    BY <1>1, <1>7 DEF Under
  <2>2. x = "+" \/ x = next
    BY <1>1, <1>7, <2>1 DEF Under
  <2>3. x \in Segment
    BY Zenon, <1>2, <2>2
  <2>4. \A i \in 1 .. n + 1 : e.path[i] = Append(node, x)[i]
    BY <1>1, <1>3, <1>7, <2>3 DEF Under
  <2>5. \A i \in (n + 1) + 1 .. Len(e.path) : e.path[i] = "+" \/ e.path[i] = topic[i]
    BY <1>1, <1>7 DEF Under
  <2>6. Len(e.path) <= Len(topic) /\ (e.kind = "exact" => Len(e.path) = Len(topic))
    BY Zenon, <1>7 DEF Under
  <2>7. Len(Append(node, x)) = n + 1
    BY Zenon, <1>3, <2>3
  <2> HIDE DEF x
  <2>8. Under(e, Append(node, x), topic)
    BY Zenon, <2>1, <2>4, <2>5, <2>6, <2>7 DEF Under
  <2> QED BY Zenon, <2>2, <2>8
<1> QED BY Zenon, <1>2, <1>4, <1>5, <1>6, <1>7

\* The walk finds the subscribers of the entries it comes to, and no others.
Finds(tr, topic, node, results, found) ==
  \A s \in Subscriber : found[s] # 0 <=> results[s] # 0 \/ \E e \in tr : e.sub = s /\ Under(e, node, topic)

LEMMA WalkFinds ==
  ASSUME NEW tr \in SUBSET EntryType, NEW topic \in Seq(Segment), NEW k \in 0 .. Len(topic),
         NEW node \in Seq(Segment), Len(node) = Len(topic) - k, NEW results \in Results
  PROVE  Finds(tr, topic, node, results, walk(tr, topic)[k][node][results])
<1> DEFINE n == Len(topic)
           w == walk(tr, topic)
           Good(i) == \A p \in Seq(Segment) : Len(p) = n - i =>
                        \A rs \in Results : Finds(tr, topic, p, rs, w[i][p][rs])
           S == {i \in Nat : i <= n => Good(i)}
<1>1. n \in Nat
  OBVIOUS
<1>2. /\ w \in [0 .. n -> Walks]
      /\ \A i \in 0 .. n : w[i] = Level(tr, topic, i, w[i - 1])
  BY Zenon, WalkLevels
<1> HIDE DEF w
<1>3. ASSUME NEW p \in Seq(Segment), NEW kind
      PROVE  At(tr, p, kind) \in SUBSET tr /\ \A e \in tr : e \in At(tr, p, kind) <=> e.path = p /\ e.kind = kind
  BY Zenon DEF At
<1>4. 0 \in S
  <2> SUFFICES ASSUME NEW p \in Seq(Segment), Len(p) = n, NEW rs \in Results
               PROVE  Finds(tr, topic, p, rs, w[0][p][rs])
    BY <1>1
  <2> DEFINE mid == Found(rs, At(tr, p, "tail"))
             end == Found(mid, At(tr, p, "exact"))
  <2>1. 0 \in 0 .. n
    BY <1>1
  <2>2. w[0] = Level(tr, topic, 0, w[0 - 1])
    BY Zenon, <1>2, <2>1
  <2>3. w[0][p][rs] = end
    BY <2>2 DEF Level
  <2>4. mid \in Results /\ \A s \in Subscriber : mid[s] # 0 <=> rs[s] # 0 \/ \E e \in At(tr, p, "tail") : e.sub = s
    <3>1. At(tr, p, "tail") \in SUBSET tr
      BY Zenon DEF At
    <3> QED BY Zenon, <3>1, FoundOnly
  <2> HIDE DEF mid
  <2>5. \A s \in Subscriber : end[s] # 0 <=> mid[s] # 0 \/ \E e \in At(tr, p, "exact") : e.sub = s
    <3>1. At(tr, p, "exact") \in SUBSET tr
      BY Zenon DEF At
    <3> QED BY Zenon, <2>4, <3>1, FoundOnly
  <2> HIDE DEF end
  <2>6. \A e \in tr : Under(e, p, topic) <=> e \in At(tr, p, "tail") \cup At(tr, p, "exact")
    <3>1. \A e \in tr : Under(e, p, topic) <=> e.path = p
      BY Zenon, UnderEnd
    <3>2. \A e \in tr : e.kind = "tail" \/ e.kind = "exact"
      BY Zenon DEF EntryType
    <3> QED BY Zenon, <1>3, <3>1, <3>2
  <2> QED BY <1>3, <2>3, <2>4, <2>5, <2>6 DEF Finds
<1>5. ASSUME NEW i \in S PROVE i + 1 \in S
  <2> SUFFICES ASSUME i + 1 <= n, NEW p \in Seq(Segment), Len(p) = n - (i + 1), NEW rs \in Results
               PROVE  Finds(tr, topic, p, rs, w[i + 1][p][rs])
    OBVIOUS
  <2> DEFINE mid == Found(rs, At(tr, p, "tail"))
             next == topic[Len(topic) + 1 - (i + 1)]
             one == w[i][Append(p, next)][mid]
             two == w[i][Append(p, "+")][one]
  <2>1. /\ i \in Nat /\ i \in 0 .. n /\ i + 1 \in 0 .. n /\ (i + 1) - 1 = i /\ Good(i)
        /\ Len(topic) + 1 - (i + 1) = Len(p) + 1 /\ Len(p) + 1 \in 1 .. n /\ Len(p) < Len(topic)
    <3>1. i \in Nat /\ (i <= n => Good(i))
      BY Zenon
    <3> HIDE DEF S, Good, mid, next, one, two
    <3>2. OneFurther(n, i, Len(p))
      BY Zenon, <1>1, <3>1, PathLength
    <3> QED BY Zenon, <3>1, <3>2 DEF OneFurther
  <2>2. next = topic[Len(p) + 1] /\ next \in Segment /\ "+" \in Segment
    BY <2>1 DEF Segment
  <2>3. w[i + 1] = Level(tr, topic, i + 1, w[i])
    BY Zenon, <1>2, <2>1
  <2>4. w[i + 1][p][rs] = two
    <3>1. i + 1 # 0
      BY <2>1
    <3> HIDE DEF S, Good, mid, next, one, two, n
    <3>2. GoesOn(tr, topic, i + 1, w[i], p, rs)
      BY Zenon, <3>1, LevelAbove
    <3> QED BY Zenon, <2>3, <3>2 DEF mid, next, one, two, GoesOn
  <2>5. mid \in Results /\ \A s \in Subscriber : mid[s] # 0 <=> rs[s] # 0 \/ \E e \in At(tr, p, "tail") : e.sub = s
    <3>1. At(tr, p, "tail") \in SUBSET tr
      BY Zenon DEF At
    <3> QED BY Zenon, <3>1, FoundOnly
  <2> HIDE DEF mid, next
  <2>6. /\ Append(p, next) \in Seq(Segment) /\ Append(p, "+") \in Seq(Segment)
        /\ Len(Append(p, next)) = n - i /\ Len(Append(p, "+")) = n - i
    <3> HIDE DEF S, Good, one, two
    <3>1. /\ Append(p, next) \in Seq(Segment) /\ Append(p, "+") \in Seq(Segment)
          /\ Len(Append(p, next)) = Len(p) + 1 /\ Len(Append(p, "+")) = Len(p) + 1
      BY Zenon, <2>2, LongerPath
    <3>2. Len(p) + 1 = n - i
      BY <1>1, <2>1
    <3> QED BY Zenon, <3>1, <3>2
  <2>7. one \in Results
    <3>1. w[i] \in Walks
      BY Zenon, <1>2, <2>1
    <3>2. w[i][Append(p, next)] \in [Results -> Results]
      BY Zenon, <2>6, <3>1 DEF Walks
    <3> QED BY Zenon, <2>5, <3>2
  <2>8. Finds(tr, topic, Append(p, next), mid, one)
    BY Zenon, <2>1, <2>5, <2>6
  <2> HIDE DEF one
  <2>9. Finds(tr, topic, Append(p, "+"), one, two)
    BY Zenon, <2>1, <2>6, <2>7
  <2> HIDE DEF two
  <2>10. \A e \in tr : Under(e, p, topic) <=>
           e \in At(tr, p, "tail") \/ Under(e, Append(p, next), topic) \/ Under(e, Append(p, "+"), topic)
    <3>1. \A e \in tr : Under(e, p, topic) <=>
            (e.path = p /\ e.kind = "tail") \/ Under(e, Append(p, next), topic) \/ Under(e, Append(p, "+"), topic)
      BY Zenon, <2>1, <2>2, UnderStep
    <3> QED BY Zenon, <1>3, <3>1
  <2> QED BY <1>3, <2>4, <2>5, <2>8, <2>9, <2>10 DEF Finds
<1>6. S = Nat
  <2>1. S \in SUBSET Nat
    OBVIOUS
  <2> HIDE DEF S
  <2> QED BY Zenon, <1>4, <1>5, <2>1, Induction
<1>7. Good(k)
  BY <1>1, <1>6
<1> QED BY Zenon, <1>7 DEF w

LEMMA Paths ==
  ASSUME NEW p \in Pattern \cup Topic
  PROVE  p \in Seq(Segment)
<1>1. p \in Seq(STRING) /\ Len(p) \in Nat
  BY PubSubAssumption
<1>2. \A i \in 1 .. Len(p) : p[i] \in Segment
  <2>1. \A i \in 1 .. Len(p) : p[i] \in Range(p)
    BY <1>1 DEF Range
  <2> QED BY Zenon, <2>1 DEF Segment
<1>3. p = [i \in 1 .. Len(p) |-> p[i]]
  BY <1>1
<1>4. p \in [1 .. Len(p) -> Segment]
  BY Zenon, <1>2, <1>3
<1> QED BY <1>1, <1>4

\* match finds the subscribers of the entries that lie on the topic.
LEMMA MatchFinds ==
  ASSUME NEW tr \in SUBSET EntryType, NEW t \in Topic
  PROVE  /\ match(tr, t) \in Results
         /\ \A s \in Subscriber : match(tr, t)[s] # 0 <=> \E e \in tr : e.sub = s /\ Under(e, <<>>, t)
<1> DEFINE none == [s \in Subscriber |-> 0]
           w == walk(tr, t)
<1>1. t \in Seq(Segment) /\ Len(t) \in Nat
  BY Paths
<1>2. none \in Results /\ <<>> \in Seq(Segment) /\ Len(<<>>) = 0 /\ Len(t) \in 0 .. Len(t) /\ 0 = Len(t) - Len(t)
  BY <1>1 DEF Results
<1>3. w \in [0 .. Len(t) -> Walks]
  BY Zenon, <1>1, WalkLevels
<1>4. match(tr, t) = w[Len(t)][<<>>][none]
  BY Zenon DEF match
<1> HIDE DEF none
<1>5. Finds(tr, t, <<>>, none, w[Len(t)][<<>>][none])
  BY Zenon, <1>1, <1>2, WalkFinds
<1> HIDE DEF w
<1>6. w[Len(t)][<<>>][none] \in Results
  <2>1. w[Len(t)] \in Walks
    BY Zenon, <1>2, <1>3
  <2>2. w[Len(t)][<<>>] \in [Results -> Results]
    BY Zenon, <1>2, <2>1 DEF Walks
  <2> QED BY Zenon, <1>2, <2>2
<1>7. \A s \in Subscriber : none[s] = 0
  BY Zenon DEF none
<1> QED BY Zenon, <1>4, <1>5, <1>6, <1>7 DEF Finds

\* Where a pattern is stored is on the topics the pattern means.
Stores(e, p) == \E l \in Leaf(p) : e.path = l.path /\ e.kind = l.kind

LEMMA LeafMeans ==
  ASSUME NEW p \in Pattern, ValidPattern(p), NEW t \in Topic, NEW e \in EntryType, Stores(e, p)
  PROVE  Last(p) # "+" /\ (Under(e, <<>>, t) <=> Matches(p, t))
<1>1. p \in Seq(Segment) /\ t \in Seq(Segment) /\ Len(p) \in Nat /\ Len(t) \in Nat
  BY Paths
<1>2. Len(p) > 0
  <2>1. p # <<>>
    BY Zenon DEF ValidPattern
  <2> QED BY <1>1, <2>1
<1>3. \A x, y \in Segment : x \in {"+", y} <=> x = "+" \/ x = y
  OBVIOUS
<1>4. CASE Last(p) = "#"
  <2>1. e.path = Front(p) /\ e.kind = "tail"
    BY <1>4 DEF Stores, Leaf
  <2> DEFINE n == Len(p) - 1
  <2>2. n \in Nat /\ Len(e.path) = n /\ \A i \in 1 .. n : e.path[i] = p[i]
    <3>1. n \in Nat /\ n \in Int /\ 1 \in Int /\ \A i \in 1 .. n : p[i] \in Segment
      BY <1>1, <1>2
    <3>2. e.path = SubSeq(p, 1, n)
      BY Zenon, <2>1 DEF Front
    <3> HIDE DEF n
    <3>3. /\ Len(SubSeq(p, 1, n)) = IF 1 <= n THEN n - 1 + 1 ELSE 0
          /\ \A i \in 1 .. n - 1 + 1 : SubSeq(p, 1, n)[i] = p[1 + i - 1]
      BY <3>1
    <3>4. \A i \in 1 .. n : i \in 1 .. n - 1 + 1 /\ 1 + i - 1 = i
      BY <3>1
    <3> QED BY <3>1, <3>2, <3>3, <3>4
  <2>3. Under(e, <<>>, t) <=> n <= Len(t) /\ \A i \in 1 .. n : p[i] = "+" \/ p[i] = t[i]
    <3>1. Len(<<>>) = 0 /\ 0 + 1 = 1
      OBVIOUS
    <3> HIDE DEF n
    <3> QED BY <1>1, <2>1, <2>2, <3>1 DEF Under
  <2>4. Matches(p, t) <=> Len(t) >= n /\ \A i \in 1 .. n : p[i] = "+" \/ p[i] = t[i]
    BY Zenon, <1>4 DEF Matches
  <2> QED BY Zenon, <1>1, <1>4, <2>2, <2>3, <2>4
<1>5. CASE Last(p) # "#"
  <2>1. e.path = p /\ e.kind = "exact" /\ Last(p) # "+"
    BY <1>5 DEF Stores, Leaf
  <2>2. Under(e, <<>>, t) <=> Len(p) = Len(t) /\ \A i \in 1 .. Len(p) : p[i] = "+" \/ p[i] = t[i]
    <3>1. Len(<<>>) = 0 /\ 0 + 1 = 1
      OBVIOUS
    <3> QED BY <1>1, <2>1, <3>1 DEF Under
  <2>3. Matches(p, t) <=> Len(t) = Len(p) /\ \A i \in 1 .. Len(p) : p[i] = "+" \/ p[i] = t[i]
    BY Zenon, <1>5 DEF Matches
  <2> QED BY Zenon, <2>1, <2>2, <2>3
<1> QED BY Zenon, <1>4, <1>5

\* The trie holds what the index has, where insert puts it.
Reflects(tr, index) ==
  /\ \A e \in tr : \E p \in Pattern : index[p][e.sub] # 0 /\ Stores(e, p)
  /\ \A p \in Pattern, s \in Subscriber : index[p][s] # 0 =>
       \A l \in Leaf(p) : \E e \in tr : e.path = l.path /\ e.kind = l.kind /\ e.sub = s

LEMMA LeafType ==
  ASSUME NEW p \in Pattern, ValidPattern(p), NEW l \in Leaf(p)
  PROVE  l.path \in Seq(Segment) /\ l.kind \in {"tail", "exact"}
<1>1. p \in Seq(Segment) /\ Len(p) \in Nat
  BY Paths
<1>2. Len(p) > 0
  <2>1. p # <<>>
    BY Zenon DEF ValidPattern
  <2> QED BY <1>1, <2>1
<1>3. Front(p) \in Seq(Segment)
  BY <1>1, <1>2 DEF Front
<1> QED BY <1>1, <1>3 DEF Leaf

LEMMA InsertReflects ==
  ASSUME NEW tr \in SUBSET EntryType, NEW index \in [Pattern -> [Subscriber -> Nat]], Reflects(tr, index),
         NEW p \in Pattern, ValidPattern(p), NEW s \in Subscriber, NEW g \in Nat \ {0}
  PROVE  /\ insert(tr, p, s, g) \in SUBSET EntryType
         /\ Reflects(insert(tr, p, s, g), [index EXCEPT ![p][s] = g])
<1> DEFINE tr2 == insert(tr, p, s, g)
           index2 == [index EXCEPT ![p][s] = g]
           new == {[path |-> l.path, kind |-> l.kind, sub |-> s, gen |-> g] : l \in Leaf(p)}
<1>1. \A q \in Pattern, x \in Subscriber : index2[q][x] = IF q = p /\ x = s THEN g ELSE index[q][x]
  OBVIOUS
<1>2. ASSUME NEW e \in new PROVE e \in EntryType /\ Stores(e, p) /\ e.sub = s
  <2>1. PICK l \in Leaf(p) : e = [path |-> l.path, kind |-> l.kind, sub |-> s, gen |-> g]
    OBVIOUS
  <2>2. l.path \in Seq(Segment) /\ l.kind \in {"tail", "exact"}
    BY Zenon, LeafType
  <2> QED BY Zenon, <2>1, <2>2 DEF EntryType, Stores
<1>3. \A e \in tr2 : e \in tr \/ e \in new
  BY Zenon DEF insert
<1>4. ASSUME NEW e \in tr, e \notin tr2 PROVE Stores(e, p) /\ e.sub = s
  BY Zenon, <1>4 DEF insert, Stores
<1>5. \A l \in Leaf(p) : \E e \in new : e.path = l.path /\ e.kind = l.kind /\ e.sub = s
  <2> SUFFICES ASSUME NEW l \in Leaf(p) PROVE \E e \in new : e.path = l.path /\ e.kind = l.kind /\ e.sub = s
    OBVIOUS
  <2> DEFINE e == [path |-> l.path, kind |-> l.kind, sub |-> s, gen |-> g]
  <2>1. e \in new /\ e.path = l.path /\ e.kind = l.kind /\ e.sub = s
    OBVIOUS
  <2> HIDE DEF e, new
  <2> QED BY Zenon, <2>1
<1>6. new \subseteq tr2
  BY Zenon DEF insert
<1> HIDE DEF tr2, index2, new
<1>7. ASSUME NEW e \in tr2 PROVE \E q \in Pattern : index2[q][e.sub] # 0 /\ Stores(e, q)
  <2>1. CASE e \in new
    <3>1. index2[p][e.sub] # 0 /\ Stores(e, p)
      BY Zenon, <1>1, <1>2, <2>1
    <3> QED BY Zenon, <3>1
  <2>2. CASE e \in tr
    <3>1. PICK q \in Pattern : index[q][e.sub] # 0 /\ Stores(e, q)
      BY Zenon, <2>2 DEF Reflects
    <3>2. e.sub \in Subscriber
      BY Zenon, <2>2 DEF EntryType
    <3>3. index2[q][e.sub] # 0
      BY Zenon, <1>1, <3>1, <3>2
    <3> QED BY Zenon, <3>1, <3>3
  <2> QED BY Zenon, <1>3, <2>1, <2>2
<1>8. ASSUME NEW q \in Pattern, NEW x \in Subscriber, index2[q][x] # 0, NEW l \in Leaf(q)
      PROVE  \E e \in tr2 : e.path = l.path /\ e.kind = l.kind /\ e.sub = x
  <2>1. CASE q = p /\ x = s
    BY Zenon, <1>5, <1>6, <2>1
  <2>2. CASE ~(q = p /\ x = s)
    <3>1. PICK e \in tr : e.path = l.path /\ e.kind = l.kind /\ e.sub = x
      BY <1>1, <1>8, <2>2 DEF Reflects
    <3>2. CASE e \in tr2
      BY Zenon, <3>1, <3>2
    <3>3. CASE e \notin tr2
      <4>1. PICK m \in Leaf(p) : e.path = m.path /\ e.kind = m.kind
        BY Zenon, <1>4, <3>3 DEF Stores
      <4>2. PICK f \in new : f.path = m.path /\ f.kind = m.kind /\ f.sub = s
        BY Zenon, <1>5
      <4>3. x = s
        BY Zenon, <1>4, <3>1, <3>3
      <4> QED BY Zenon, <1>6, <3>1, <4>1, <4>2, <4>3
    <3> QED BY Zenon, <3>2, <3>3
  <2> QED BY Zenon, <2>1, <2>2
<1>9. tr2 \in SUBSET EntryType
  BY Zenon, <1>2, <1>3
<1> QED BY Zenon, <1>7, <1>8, <1>9 DEF Reflects, tr2, index2

LEMMA RebuildReflects ==
  ASSUME NEW index \in [Pattern -> [Subscriber -> Nat]],
         \A p \in Pattern, s \in Subscriber : index[p][s] # 0 => ValidPattern(p)
  PROVE  rebuild(index) \in SUBSET EntryType /\ Reflects(rebuild(index), index)
<1> DEFINE tr == rebuild(index)
           Entry(l, p, s) == [path |-> l.path, kind |-> l.kind, sub |-> s, gen |-> index[p][s]]
<1>1. ASSUME NEW e \in tr
      PROVE  \E p \in Pattern, s \in Subscriber : index[p][s] # 0 /\ \E l \in Leaf(p) : e = Entry(l, p, s)
  <2>1. PICK ps \in Pattern \X Subscriber :
          index[ps[1]][ps[2]] # 0 /\ \E l \in Leaf(ps[1]) : e = Entry(l, ps[1], ps[2])
    BY Zenon DEF rebuild
  <2>2. ps[1] \in Pattern /\ ps[2] \in Subscriber
    OBVIOUS
  <2> QED BY Zenon, <2>1, <2>2
<1>2. ASSUME NEW p \in Pattern, NEW s \in Subscriber, index[p][s] # 0, NEW l \in Leaf(p) PROVE Entry(l, p, s) \in tr
  <2> DEFINE ps == <<p, s>>
  <2>1. ps \in Pattern \X Subscriber /\ ps[1] = p /\ ps[2] = s
    OBVIOUS
  <2> HIDE DEF ps
  <2>2. ps \in {x \in Pattern \X Subscriber : index[x[1]][x[2]] # 0}
    BY Zenon, <1>2, <2>1
  <2>3. Entry(l, p, s) \in {[path |-> k.path, kind |-> k.kind, sub |-> ps[2], gen |-> index[ps[1]][ps[2]]] : k \in Leaf(ps[1])}
    BY Zenon, <2>1
  <2> QED BY <2>2, <2>3 DEF rebuild
<1> HIDE DEF tr
<1>3. ASSUME NEW e \in tr PROVE e \in EntryType /\ \E p \in Pattern : index[p][e.sub] # 0 /\ Stores(e, p)
  <2>1. PICK p \in Pattern, s \in Subscriber : index[p][s] # 0 /\ \E l \in Leaf(p) : e = Entry(l, p, s)
    BY Zenon, <1>1
  <2>2. PICK l \in Leaf(p) : e = Entry(l, p, s)
    BY Zenon, <2>1
  <2>3. index[p][s] \in Nat \ {0} /\ l.path \in Seq(Segment) /\ l.kind \in {"tail", "exact"}
    BY Zenon, <2>1, LeafType
  <2>4. e \in EntryType /\ e.sub = s /\ e.path = l.path /\ e.kind = l.kind
    BY Zenon, <2>2, <2>3 DEF EntryType
  <2> QED BY Zenon, <2>1, <2>4 DEF Stores
<1>4. ASSUME NEW p \in Pattern, NEW s \in Subscriber, index[p][s] # 0, NEW l \in Leaf(p)
      PROVE  \E e \in tr : e.path = l.path /\ e.kind = l.kind /\ e.sub = s
  <2>1. Entry(l, p, s).path = l.path /\ Entry(l, p, s).kind = l.kind /\ Entry(l, p, s).sub = s
    OBVIOUS
  <2> HIDE DEF Entry
  <2> QED BY Zenon, <1>2, <1>4, <2>1
<1> QED BY Zenon, <1>3, <1>4 DEF Reflects, tr
-----------------------------------------------------------------------------
(* Subscriptions and routes *)

RoutePair == Pattern \X Node

IndexInv ==
  /\ byPattern \in [Node -> [Pattern -> [Subscriber -> Nat]]]
  /\ \A n \in Node, p \in Pattern, s \in Subscriber : byPattern[n][p][s] # 0 => ValidPattern(p) /\ Home[s] = n
  /\ trie \in [Node -> SUBSET EntryType]
  /\ \A n \in Node : Reflects(trie[n], byPattern[n])

RoutesInv ==
  /\ routes \in SUBSET RoutePair /\ view \in [Node -> SUBSET RoutePair]
  /\ RoutesExact
-----------------------------------------------------------------------------
(* Publications *)

Goal(d, s) == \E g \in Nat : <<s, g>> \in d.to

\* A publication that is still to come to the node of a subscriber.
Awaited(m, s) ==
  \/ pub[m] = NoPub
  \/ <<m, Home[s]>> \in wire
  \/ \E n \in Node : m \in pending[n] /\ Home[s] # n

OnceInv(m, s) ==
  /\ got[m][s] <= 1
  /\ Awaited(m, s) => got[m][s] = 0
  /\ \A d \in sending : d.pub = m /\ Goal(d, s) =>
       /\ got[m][s] = 0 /\ ~Awaited(m, s)
       /\ \A e \in sending : e.pub = m /\ Goal(e, s) => e = d

Delivery == [pub : Publication, to : SUBSET (Subscriber \X Nat)]

FlowType ==
  /\ adapter \in {"direct", "gossip", "crdt"}
  /\ pub \in [Publication -> [topic : Topic, origin : Node] \cup {NoPub}]
  /\ sending \in SUBSET Delivery
  /\ wire \in SUBSET (Publication \X Node)
  /\ pending \in [Node -> SUBSET Publication]
  /\ got \in [Publication -> [Subscriber -> Nat]]

\* What is under way was published, and elsewhere; what is buffered, on the node
\* itself, and no message carries it yet.
CarryInv ==
  /\ \A m \in Publication, n \in Node : <<m, n>> \in wire => pub[m] # NoPub /\ pub[m].origin # n
  /\ \A m \in Publication, n \in Node : m \in pending[n] =>
       pub[m] # NoPub /\ pub[m].origin = n /\ \A x \in Node : <<m, x>> \notin wire

Single(d) == \A s \in Subscriber, g, h \in Nat : <<s, g>> \in d.to /\ <<s, h>> \in d.to => g = h

FlowInv ==
  /\ FlowType /\ CarryInv
  /\ \A d \in sending : Single(d)
  /\ \A m \in Publication, s \in Subscriber : OnceInv(m, s)

PubSubInv == IndexInv /\ RoutesInv /\ FlowInv

LEMMA IndexStays ==
  ASSUME IndexInv, UNCHANGED <<byPattern, trie>>
  PROVE  IndexInv'
BY DEF IndexInv, Reflects, Stores

LEMMA RoutesStay ==
  ASSUME RoutesInv, UNCHANGED <<adapter, byPattern, routes, view, dropped>>
  PROVE  RoutesInv'
BY Zenon DEF RoutesInv, RoutesExact, HasLocal

\* The routes of a node change in one pair, and the pair is there afterwards exactly
\* when it is added or was there and is not removed.
Changed(r, after, x, first, last) ==
  /\ after \in SUBSET RoutePair
  /\ \A y \in RoutePair : y # x => (y \in after <=> y \in r)
  /\ adapter = "crdt" => /\ first => x \in after
                         /\ last => x \notin after
                         /\ ~first /\ ~last => (x \in after <=> x \in r)

LEMMA AnnounceChanges ==
  ASSUME RoutesInv, NEW n \in Node, NEW p \in Pattern, NEW first, NEW last, ~(first /\ last), Announce(n, p, first, last)
  PROVE  /\ Changed(routes, routes', <<p, n>>, first, last)
         /\ view' \in [Node -> SUBSET RoutePair]
         /\ Changed(view[n], view'[n], <<p, n>>, first, last)
         /\ \A m \in Node : m # n => view'[m] = view[m]
<1> DEFINE After(r) == CASE adapter = "crdt" /\ first -> r \cup {<<p, n>>}
                         [] adapter = "crdt" /\ last  -> r \ {<<p, n>>}
                         [] OTHER -> r
<1>1. routes \in SUBSET RoutePair /\ view \in [Node -> SUBSET RoutePair] /\ view[n] \in SUBSET RoutePair /\ <<p, n>> \in RoutePair
  BY Zenon DEF RoutesInv, RoutePair
<1>2. routes' = After(routes) /\ view' = [view EXCEPT ![n] = After(view[n])]
  BY Zenon, <1>1 DEF Announce
<1>3. ASSUME NEW r \in SUBSET RoutePair PROVE Changed(r, After(r), <<p, n>>, first, last)
  <2>1. CASE adapter = "crdt" /\ first
    <3>1. After(r) = r \cup {<<p, n>>}
      BY Zenon, <2>1
    <3> HIDE DEF After
    <3> QED BY Zenon, <1>1, <2>1, <3>1 DEF Changed
  <2>2. CASE adapter = "crdt" /\ ~first /\ last
    <3>1. After(r) = r \ {<<p, n>>}
      BY Zenon, <2>2
    <3> HIDE DEF After
    <3> QED BY Zenon, <1>1, <2>2, <3>1 DEF Changed
  <2>3. CASE ~(adapter = "crdt" /\ first) /\ ~(adapter = "crdt" /\ last)
    <3>1. After(r) = r
      BY Zenon, <2>3
    <3> HIDE DEF After
    <3> QED BY Zenon, <1>1, <2>3, <3>1 DEF Changed
  <2> QED BY Zenon, <2>1, <2>2, <2>3
<1> HIDE DEF After
<1>4. After(view[n]) \in SUBSET RoutePair
  BY Zenon, <1>1, <1>3 DEF Changed
<1> QED BY Zenon, <1>1, <1>2, <1>3, <1>4

\* The index of one node changes, at one pattern, and the change is announced.
LEMMA AnnounceKeeps ==
  ASSUME RoutesInv, byPattern \in [Node -> [Pattern -> [Subscriber -> Nat]]],
         NEW n \in Node, NEW p \in Pattern, NEW first, NEW last,
         NEW index \in [Pattern -> [Subscriber -> Nat]],
         byPattern' = [byPattern EXCEPT ![n] = index],
         \A q \in Pattern : q # p => index[q] = byPattern[n][q],
         Announce(n, p, first, last), UNCHANGED <<adapter, dropped>>,
         first => HasLocal(index, p) /\ ~last, last => ~HasLocal(index, p),
         ~first /\ ~last => (HasLocal(index, p) <=> HasLocal(byPattern[n], p))
  PROVE  RoutesInv'
<1>1. ~(first /\ last)
  OBVIOUS
<1>2. /\ Changed(routes, routes', <<p, n>>, first, last)
      /\ view' \in [Node -> SUBSET RoutePair]
      /\ Changed(view[n], view'[n], <<p, n>>, first, last)
      /\ \A m \in Node : m # n => view'[m] = view[m]
  BY <1>1, AnnounceChanges
<1>3. routes' \in SUBSET RoutePair
  BY Zenon, <1>2 DEF Changed
<1>4. ASSUME adapter = "crdt", NEW m \in Node \ dropped, NEW q \in Pattern
      PROVE  /\ HasLocal(byPattern'[m], q) <=> <<q, m>> \in routes'
             /\ HasLocal(byPattern'[m], q) <=> <<q, m>> \in view'[m]
  <2>1. /\ HasLocal(byPattern[m], q) <=> <<q, m>> \in routes
        /\ HasLocal(byPattern[m], q) <=> <<q, m>> \in view[m]
        /\ <<q, m>> \in RoutePair
    BY Zenon, <1>4 DEF RoutesInv, RoutesExact, RoutePair
  <2>2. CASE m # n
    <3>1. byPattern'[m] = byPattern[m] /\ view'[m] = view[m] /\ <<q, m>> # <<p, n>>
      BY Zenon, <1>2, <2>2
    <3> QED BY Zenon, <1>2, <2>1, <3>1 DEF Changed
  <2>3. CASE m = n /\ q # p
    <3>1. byPattern'[m][q] = byPattern[m][q] /\ <<q, m>> # <<p, n>>
      BY Zenon, <2>3
    <3>2. HasLocal(byPattern'[m], q) <=> HasLocal(byPattern[m], q)
      BY Zenon, <3>1 DEF HasLocal
    <3> QED BY Zenon, <1>2, <2>1, <2>3, <3>1, <3>2 DEF Changed
  <2>4. CASE m = n /\ q = p
    <3>1. byPattern'[m] = index
      BY Zenon, <2>4
    <3> QED BY Zenon, <1>2, <1>4, <2>1, <2>4, <3>1 DEF Changed
  <2> QED BY Zenon, <2>2, <2>3, <2>4
<1> QED BY Zenon, <1>2, <1>3, <1>4 DEF RoutesInv, RoutesExact

LEMMA SubscriptionsKeep ==
  ASSUME LifeTypeOK, IndexInv, RoutesInv, NEW n \in Node, NEW p \in Pattern, NEW s \in Subscriber,
         handleSubscribe(n, p, s) \/ handleUnsubscribe(n, p, s)
  PROVE  IndexInv' /\ RoutesInv'
<1> DEFINE old == byPattern[n]
<1>1. /\ byPattern \in [Node -> [Pattern -> [Subscriber -> Nat]]] /\ old \in [Pattern -> [Subscriber -> Nat]]
      /\ trie \in [Node -> SUBSET EntryType] /\ trie[n] \in SUBSET EntryType /\ Reflects(trie[n], old)
      /\ \A q \in Pattern, x \in Subscriber : old[q][x] # 0 => ValidPattern(q) /\ Home[x] = n
      /\ \A q \in Pattern : old[q] \in [Subscriber -> Nat]
  BY Zenon DEF IndexInv
<1>2. gen[s] \in Nat \ {0}
  BY SubscriberAssumption DEF LifeTypeOK
<1>3. ASSUME NEW index \in [Pattern -> [Subscriber -> Nat]], NEW tr \in SUBSET EntryType,
             byPattern' = [byPattern EXCEPT ![n] = index], trie' = [trie EXCEPT ![n] = tr],
             \A q \in Pattern, x \in Subscriber : index[q][x] # 0 => ValidPattern(q) /\ Home[x] = n,
             Reflects(tr, index)
      PROVE  IndexInv'
  <2>1. /\ byPattern' \in [Node -> [Pattern -> [Subscriber -> Nat]]] /\ trie' \in [Node -> SUBSET EntryType]
        /\ \A m \in Node : byPattern'[m] = IF m = n THEN index ELSE byPattern[m]
        /\ \A m \in Node : trie'[m] = IF m = n THEN tr ELSE trie[m]
    BY Zenon, <1>1, <1>3
  <2>2. \A m \in Node, q \in Pattern, x \in Subscriber : byPattern'[m][q][x] # 0 => ValidPattern(q) /\ Home[x] = m
    BY <1>3, <2>1 DEF IndexInv
  <2>3. \A m \in Node : Reflects(trie'[m], byPattern'[m])
    BY Zenon, <1>3, <2>1 DEF IndexInv
  <2> QED BY Zenon, <2>1, <2>2, <2>3 DEF IndexInv
<1>4. CASE handleSubscribe(n, p, s)
  <2> DEFINE index == [old EXCEPT ![p][s] = gen[s]]
             tr == IF old[p][s] # 0 THEN trie[n] ELSE insert(trie[n], p, s, gen[s])
             first == ~HasLocal(old, p)
  <2>1. /\ Home[s] = n /\ ValidPattern(p) /\ byPattern' = [byPattern EXCEPT ![n] = index]
        /\ trie' = [trie EXCEPT ![n] = tr] /\ Announce(n, p, first, FALSE) /\ UNCHANGED <<adapter, dropped>>
    BY Zenon, <1>1, <1>4 DEF handleSubscribe, config
  <2>2. /\ index \in [Pattern -> [Subscriber -> Nat]]
        /\ \A q \in Pattern, x \in Subscriber : index[q][x] = IF q = p /\ x = s THEN gen[s] ELSE old[q][x]
        /\ \A q \in Pattern : q # p => index[q] = old[q]
    BY Zenon, <1>1, <1>2
  <2>3. tr \in SUBSET EntryType /\ Reflects(tr, index)
    <3>1. CASE old[p][s] = 0
      BY Zenon, <1>1, <1>2, <2>1, <3>1, InsertReflects
    <3>2. CASE old[p][s] # 0
      <4>1. \A q \in Pattern, x \in Subscriber : index[q][x] # 0 <=> old[q][x] # 0
        BY Zenon, <1>2, <2>2, <3>2
      <4>2. \A e \in trie[n] : e.sub \in Subscriber
        BY Zenon, <1>1 DEF EntryType
      <4> HIDE DEF index, old
      <4>3. Reflects(trie[n], index)
        BY Zenon, <1>1, <4>1, <4>2 DEF Reflects
      <4> QED BY Zenon, <1>1, <3>2, <4>3
    <3> QED BY Zenon, <3>1, <3>2
  <2>4. \A q \in Pattern, x \in Subscriber : index[q][x] # 0 => ValidPattern(q) /\ Home[x] = n
    <3> HIDE DEF index, tr, first, old
    <3> QED BY ZenonT(30), <1>1, <2>1, <2>2
  <2>5. HasLocal(index, p)
    <3>1. index[p][s] # 0
      BY Zenon, <1>2, <2>2
    <3> HIDE DEF index
    <3> QED BY Zenon, <3>1 DEF HasLocal
  <2>6. first \in BOOLEAN /\ FALSE \in BOOLEAN /\ (~first => HasLocal(old, p))
    BY Zenon DEF HasLocal
  <2> HIDE DEF index, tr, first
  <2>7. IndexInv'
    BY Zenon, <1>3, <2>1, <2>2, <2>3, <2>4
  <2>8. RoutesInv'
    <3>1. /\ first => HasLocal(index, p) /\ ~FALSE
          /\ FALSE => ~HasLocal(index, p)
          /\ ~first /\ ~FALSE => (HasLocal(index, p) <=> HasLocal(byPattern[n], p))
      BY Zenon, <2>5, <2>6
    <3>2. \A q \in Pattern : q # p => index[q] = byPattern[n][q]
      BY Zenon, <2>2
    <3> QED BY ZenonT(30), <1>1, <2>1, <2>2, <3>1, <3>2, AnnounceKeeps
  <2> QED BY Zenon, <2>7, <2>8
<1>5. CASE handleUnsubscribe(n, p, s)
  <2> DEFINE index == [old EXCEPT ![p][s] = 0]
             last == ~HasLocal(index, p)
  <2>1. /\ byPattern' = [byPattern EXCEPT ![n] = index] /\ trie' = [trie EXCEPT ![n] = rebuild(index)]
        /\ Announce(n, p, FALSE, last) /\ UNCHANGED <<adapter, dropped>>
    BY Zenon, <1>1, <1>5 DEF handleUnsubscribe, config
  <2>2. /\ index \in [Pattern -> [Subscriber -> Nat]]
        /\ \A q \in Pattern, x \in Subscriber : index[q][x] = IF q = p /\ x = s THEN 0 ELSE old[q][x]
        /\ \A q \in Pattern : q # p => index[q] = old[q]
    BY Zenon, <1>1
  <2>3. \A q \in Pattern, x \in Subscriber : index[q][x] # 0 => ValidPattern(q) /\ Home[x] = n
    BY <1>1, <2>2
  <2>4. last \in BOOLEAN /\ FALSE \in BOOLEAN /\ (last <=> ~HasLocal(index, p))
    BY Zenon DEF HasLocal
  <2>8. HasLocal(index, p) => HasLocal(byPattern[n], p)
    BY Zenon, <2>2 DEF HasLocal
  <2> HIDE DEF index, last
  <2>5. rebuild(index) \in SUBSET EntryType /\ Reflects(rebuild(index), index)
    BY Zenon, <2>2, <2>3, RebuildReflects
  <2>6. IndexInv'
    BY Zenon, <1>3, <2>1, <2>2, <2>3, <2>5
  <2>7. RoutesInv'
    BY Zenon, <1>1, <2>1, <2>2, <2>4, <2>8, AnnounceKeeps
  <2> QED BY Zenon, <2>6, <2>7
<1> QED BY Zenon, <1>4, <1>5

LEMMA MembershipKeeps ==
  ASSUME RoutesInv, NEW n \in Node, NEW gone \in Node, OnMembershipChange(n, gone)
  PROVE  RoutesInv'
<1> DEFINE known == {r \in view[n] : r[2] = gone}
<1>1. /\ routes' = routes \ known /\ view' = [view EXCEPT ![n] = view[n] \ known]
      /\ dropped' = dropped \cup {gone} /\ UNCHANGED <<adapter, byPattern>>
      /\ routes \in SUBSET RoutePair /\ view \in [Node -> SUBSET RoutePair]
  BY Zenon DEF OnMembershipChange, RoutesInv, config
<1>2. routes' \in SUBSET RoutePair /\ view' \in [Node -> SUBSET RoutePair]
  BY Zenon, <1>1
<1>3. ASSUME NEW m \in Node \ dropped', NEW q \in Pattern
      PROVE  /\ m \notin dropped
             /\ <<q, m>> \in routes' <=> <<q, m>> \in routes
             /\ <<q, m>> \in view'[m] <=> <<q, m>> \in view[m]
  <2>1. m \notin dropped /\ <<q, m>> \notin known
    BY Zenon, <1>1
  <2> HIDE DEF known
  <2> QED BY Zenon, <1>1, <2>1
<1> HIDE DEF known
<1> QED BY Zenon, <1>1, <1>2, <1>3 DEF RoutesInv, RoutesExact

LEMMA MergeKeeps ==
  ASSUME RoutesInv, NEW n \in Node, MergeRoutes(n)
  PROVE  RoutesInv'
<1>1. /\ view' = [view EXCEPT ![n] = routes] /\ UNCHANGED <<adapter, byPattern, routes, dropped>>
      /\ routes \in SUBSET RoutePair /\ view \in [Node -> SUBSET RoutePair]
  BY Zenon DEF MergeRoutes, RoutesInv, config
<1>2. view' \in [Node -> SUBSET RoutePair] /\ \A m \in Node : view'[m] = IF m = n THEN routes ELSE view[m]
  BY Zenon, <1>1
<1> QED BY Zenon, <1>1, <1>2 DEF RoutesInv, RoutesExact
-----------------------------------------------------------------------------

LEMMA OnceStays ==
  ASSUME NEW m, NEW s, OnceInv(m, s), got'[m][s] = got[m][s], Awaited(m, s)' => Awaited(m, s),
         \A d \in sending' : d.pub = m /\ Goal(d, s) => d \in sending
  PROVE  OnceInv(m, s)'
<1>1. \A d : Goal(d, s)' <=> Goal(d, s)
  BY Zenon DEF Goal
<1> QED BY Zenon, <1>1 DEF OnceInv

\* What dispatchPublish starts: nothing, or one goroutine with at most one target for
\* a subscriber, whose subscribers live on the node.
Dispatched(n, m, before, after) ==
  \/ after = before
  \/ \E d \in Delivery : /\ after = before \cup {d} /\ d.pub = m /\ Single(d)
                         /\ \A s \in Subscriber : Goal(d, s) => Home[s] = n

LEMMA DispatchStarts ==
  ASSUME IndexInv, NEW n \in Node, NEW m \in Publication, NEW t \in Topic, Dispatch(n, m, t)
  PROVE  Dispatched(n, m, sending, sending')
<1> DEFINE found == match(trie[n], t)
           targets == {<<s, found[s]>> : s \in {x \in Subscriber : found[x] # 0}}
           d == [pub |-> m, to |-> targets]
<1>1. trie[n] \in SUBSET EntryType /\ Reflects(trie[n], byPattern[n])
  BY Zenon DEF IndexInv
<1>2. /\ found \in [Subscriber -> Nat]
      /\ \A s \in Subscriber : found[s] # 0 <=> \E e \in trie[n] : e.sub = s /\ Under(e, <<>>, t)
  BY Zenon, <1>1, MatchFinds DEF Results
<1>3. ASSUME NEW s \in Subscriber, found[s] # 0 PROVE Home[s] = n
  <2>1. PICK e \in trie[n] : e.sub = s
    BY Zenon, <1>2, <1>3
  <2>2. PICK p \in Pattern : byPattern[n][p][e.sub] # 0
    BY Zenon, <1>1 DEF Reflects
  <2> QED BY Zenon, <2>1, <2>2 DEF IndexInv
<1>4. sending' = sending \/ sending' = sending \cup {d}
  BY Zenon DEF Dispatch
<1> HIDE DEF found
<1>5. d \in Delivery /\ d.pub = m /\ d.to = targets
  BY <1>2 DEF Delivery
<1>6. \A s \in Subscriber, g \in Nat : <<s, g>> \in targets => g = found[s] /\ found[s] # 0
  OBVIOUS
<1> HIDE DEF targets, d
<1>7. Single(d) /\ \A s \in Subscriber : Goal(d, s) => Home[s] = n
  BY Zenon, <1>3, <1>5, <1>6 DEF Single, Goal
<1> QED BY Zenon, <1>4, <1>5, <1>7 DEF Dispatched

\* A node hands a publication to the subscribers it has, none of which has had it,
\* is about to get it or will be reached again.
LEMMA DispatchKeeps ==
  ASSUME FlowInv, NEW n \in Node, NEW m \in Publication, Dispatched(n, m, sending, sending'),
         got' = got, FlowType', CarryInv',
         \A x \in Publication, s \in Subscriber : x # m \/ Home[s] # n => (Awaited(x, s)' => Awaited(x, s)),
         \A s \in Subscriber : Home[s] = n => Awaited(m, s) /\ ~Awaited(m, s)'
  PROVE  FlowInv'
<1> USE DEF FlowInv
<1>1. CASE sending' = sending
  <2>1. ASSUME NEW x \in Publication, NEW s \in Subscriber PROVE OnceInv(x, s)'
    <3>1. Awaited(x, s)' => Awaited(x, s)
      OBVIOUS
    <3> QED BY Zenon, <1>1, <3>1, OnceStays
  <2> QED BY Zenon, <1>1, <2>1 DEF Single
<1>2. ASSUME NEW d \in Delivery, sending' = sending \cup {d}, d.pub = m, Single(d),
             \A s \in Subscriber : Goal(d, s) => Home[s] = n
      PROVE  FlowInv'
  <2>1. ASSUME NEW x \in Publication, NEW s \in Subscriber PROVE OnceInv(x, s)'
    <3>1. CASE x = m /\ Goal(d, s)
      <4>1. Home[s] = n /\ Awaited(m, s) /\ ~Awaited(m, s)' /\ OnceInv(m, s)
        BY Zenon, <1>2, <3>1
      <4>2. got[m][s] = 0 /\ \A e \in sending : ~(e.pub = m /\ Goal(e, s))
        BY Zenon, <4>1 DEF OnceInv
      <4>3. \A e : Goal(e, s)' <=> Goal(e, s)
        BY Zenon DEF Goal
      <4> QED BY Zenon, <1>2, <3>1, <4>1, <4>2, <4>3 DEF OnceInv
    <3>2. CASE ~(x = m /\ Goal(d, s))
      <4>1. Awaited(x, s)' => Awaited(x, s)
        OBVIOUS
      <4>2. \A e \in sending' : e.pub = x /\ Goal(e, s) => e \in sending
        BY Zenon, <1>2, <3>2
      <4> QED BY Zenon, <4>1, <4>2, OnceStays
    <3> QED BY Zenon, <3>1, <3>2
  <2>2. \A e \in sending' : Single(e)'
    BY Zenon, <1>2 DEF Single
  <2> QED BY Zenon, <2>1, <2>2
<1> QED BY Zenon, <1>1, <1>2 DEF Dispatched

LEMMA PublishKeeps ==
  ASSUME IndexInv, FlowInv, NEW n \in Node, NEW m \in Publication, NEW t \in Topic, handlePublish(n, m, t)
  PROVE  FlowInv'
<1> DEFINE record == [topic |-> t, origin |-> n]
<1>1. /\ FlowType /\ CarryInv /\ pub[m] = NoPub /\ t # <<>>
      /\ pub' = [pub EXCEPT ![m] = record] /\ got' = got
      /\ Dispatch(n, m, t) /\ Broadcast(n, m, t)
  BY Zenon DEF handlePublish, ValidTopic, FlowInv
<1>2. record # NoPub /\ record.origin = n /\ record \in [topic : Topic, origin : Node]
  BY Zenon, <1>1 DEF NoPub
<1> HIDE DEF record
<1>3. /\ wire' \in SUBSET (Publication \X Node)
      /\ \A x \in Publication, y \in Node : <<x, y>> \in wire' => <<x, y>> \in wire \/ (x = m /\ y # n)
      /\ adapter = "gossip" => wire' = wire
  <2>1. CASE adapter = "direct"
    <3>1. wire' = wire \cup DirectSends(n, m)
      BY Zenon, <1>1, <2>1 DEF Broadcast
    <3> QED BY <1>1, <2>1, <3>1 DEF DirectSends, FlowType
  <2>2. CASE adapter = "crdt"
    <3>1. wire' = wire \cup CrdtSends(n, m, t)
      BY Zenon, <1>1, <2>2 DEF Broadcast
    <3>2. \A z \in CrdtSends(n, m, t) : \E y \in Node \ {n} : z = <<m, y>>
      BY Zenon DEF CrdtSends
    <3> QED BY <1>1, <2>2, <3>1, <3>2 DEF FlowType
  <2>3. CASE adapter = "gossip"
    <3>1. wire' = wire
      BY Zenon, <1>1, <2>3 DEF Broadcast
    <3> QED BY Zenon, <1>1, <3>1 DEF FlowType
  <2> QED BY Zenon, <1>1, <2>1, <2>2, <2>3 DEF FlowType
<1>4. /\ pending' \in [Node -> SUBSET Publication]
      /\ \A y \in Node, x \in Publication : x \in pending'[y] => x \in pending[y] \/ (adapter = "gossip" /\ x = m /\ y = n)
  BY Zenon, <1>1 DEF Broadcast, Buffered, FlowType
<1>5. /\ pub' \in [Publication -> [topic : Topic, origin : Node] \cup {NoPub}]
      /\ pub'[m] = record /\ \A x \in Publication : x # m => pub'[x] = pub[x]
  BY Zenon, <1>1, <1>2 DEF FlowType
<1>6. Dispatched(n, m, sending, sending')
  BY Zenon, <1>1, DispatchStarts
<1>7. FlowType'
  <2>1. sending' \in SUBSET Delivery
    BY Zenon, <1>1, <1>6 DEF Dispatched, FlowType
  <2>2. adapter' = adapter
    BY Zenon DEF handlePublish, Local, config
  <2> QED BY Zenon, <1>1, <1>3, <1>4, <1>5, <2>1, <2>2 DEF FlowType
<1>8. \A x \in Node : <<m, x>> \notin wire /\ m \notin pending[x]
  BY Zenon, <1>1 DEF CarryInv
<1>9. CarryInv'
  <2>1. ASSUME NEW x \in Publication, NEW y \in Node, <<x, y>> \in wire' PROVE pub'[x] # NoPub /\ pub'[x].origin # y
    BY Zenon, <1>1, <1>2, <1>3, <1>5, <1>8, <2>1 DEF CarryInv
  <2>2. ASSUME NEW x \in Publication, NEW y \in Node, x \in pending'[y]
        PROVE  pub'[x] # NoPub /\ pub'[x].origin = y /\ \A z \in Node : <<x, z>> \notin wire'
    <3>1. CASE x # m
      BY Zenon, <1>1, <1>3, <1>4, <1>5, <2>2, <3>1 DEF CarryInv
    <3>2. CASE x = m
      BY Zenon, <1>2, <1>3, <1>4, <1>5, <1>8, <2>2, <3>2
    <3> QED BY Zenon, <3>1, <3>2
  <2> QED BY Zenon, <2>1, <2>2 DEF CarryInv
<1>10. ASSUME NEW x \in Publication, NEW s \in Subscriber, x # m \/ Home[s] # n, Awaited(x, s)'
       PROVE  Awaited(x, s)
  <2>1. Home[s] \in Node
    BY Zenon, SubscriberAssumption
  <2>2. CASE x = m
    BY Zenon, <1>1, <2>2 DEF Awaited
  <2>3. CASE x # m
    BY Zenon, <1>3, <1>4, <1>5, <1>10, <2>1, <2>3 DEF Awaited
  <2> QED BY Zenon, <2>2, <2>3
<1>11. ASSUME NEW s \in Subscriber, Home[s] = n PROVE Awaited(m, s) /\ ~Awaited(m, s)'
  BY Zenon, <1>1, <1>2, <1>3, <1>4, <1>5, <1>8, <1>11 DEF Awaited
<1> QED BY Zenon, <1>1, <1>6, <1>7, <1>9, <1>10, <1>11, DispatchKeeps

LEMMA RemoteKeeps ==
  ASSUME IndexInv, FlowInv, NEW n \in Node, NEW m \in Publication, handleRemotePublish(n, m)
  PROVE  FlowInv'
<1>1. /\ FlowType /\ CarryInv /\ <<m, n>> \in wire /\ wire' = wire \ {<<m, n>>}
      /\ Dispatch(n, m, pub[m].topic) /\ UNCHANGED <<adapter, pub, pending, got>>
  BY Zenon DEF handleRemotePublish, FlowInv, Local, config
<1>2. pub[m] # NoPub /\ \A x \in Node : m \notin pending[x]
  BY Zenon, <1>1 DEF CarryInv
<1>3. pub[m].topic \in Topic
  BY Zenon, <1>1, <1>2 DEF FlowType
<1>4. Dispatched(n, m, sending, sending')
  BY Zenon, <1>1, <1>3, DispatchStarts
<1>5. FlowType'
  <2>1. sending' \in SUBSET Delivery
    BY Zenon, <1>1, <1>4 DEF Dispatched, FlowType
  <2> QED BY Zenon, <1>1, <2>1 DEF FlowType
<1>6. CarryInv'
  BY Zenon, <1>1 DEF CarryInv
<1>7. ASSUME NEW x \in Publication, NEW s \in Subscriber, Awaited(x, s)' PROVE Awaited(x, s)
  BY Zenon, <1>1, <1>7 DEF Awaited
<1>8. ASSUME NEW s \in Subscriber, Home[s] = n PROVE Awaited(m, s) /\ ~Awaited(m, s)'
  BY Zenon, <1>1, <1>2, <1>8 DEF Awaited
<1>9. got' = got
  BY Zenon, <1>1
<1> QED BY Zenon, <1>4, <1>5, <1>6, <1>7, <1>8, <1>9, DispatchKeeps

\* A step that starts no goroutine and makes no publication expected that was not.
LEMMA CarryKeeps ==
  ASSUME FlowInv, FlowType', CarryInv', UNCHANGED <<sending, got>>,
         \A x \in Publication, s \in Subscriber : Awaited(x, s)' => Awaited(x, s)
  PROVE  FlowInv'
<1>1. ASSUME NEW x \in Publication, NEW s \in Subscriber PROVE OnceInv(x, s)'
  <2>1. OnceInv(x, s) /\ (Awaited(x, s)' => Awaited(x, s))
    BY Zenon DEF FlowInv
  <2> QED BY Zenon, <2>1, OnceStays
<1> QED BY Zenon, <1>1 DEF FlowInv, Single

LEMMA LoseKeeps ==
  ASSUME FlowInv, NEW n \in Node, NEW m \in Publication, LoseMessage(n, m)
  PROVE  FlowInv'
<1>1. /\ FlowType /\ CarryInv /\ wire' = wire \ {<<m, n>>} /\ UNCHANGED <<adapter, pub, sending, pending, got>>
  BY Zenon DEF LoseMessage, FlowInv, Local, config
<1>2. FlowType' /\ CarryInv'
  BY Zenon, <1>1 DEF FlowType, CarryInv
<1>3. ASSUME NEW x \in Publication, NEW s \in Subscriber, Awaited(x, s)' PROVE Awaited(x, s)
  BY Zenon, <1>1, <1>3 DEF Awaited
<1> QED BY Zenon, <1>1, <1>2, <1>3, CarryKeeps

LEMMA GossipKeeps ==
  ASSUME FlowInv, NEW n \in Node, NEW peers \in SUBSET Node, GossipRound(n, peers)
  PROVE  FlowInv'
<1>1. /\ FlowType /\ CarryInv /\ pending' = [pending EXCEPT ![n] = {}] /\ peers \subseteq Node \ {n}
      /\ wire' = wire \/ wire' = wire \cup (pending[n] \X peers)
      /\ UNCHANGED <<adapter, pub, sending, got>>
  BY Zenon DEF GossipRound, FlowInv, Local, config
<1>2. /\ pending' \in [Node -> SUBSET Publication]
      /\ \A y \in Node : pending'[y] = IF y = n THEN {} ELSE pending[y]
  BY Zenon, <1>1 DEF FlowType
<1>3. /\ wire' \in SUBSET (Publication \X Node)
      /\ \A x \in Publication, y \in Node : <<x, y>> \in wire' => <<x, y>> \in wire \/ (x \in pending[n] /\ y # n)
  BY Zenon, <1>1 DEF FlowType
<1>4. FlowType'
  BY Zenon, <1>1, <1>2, <1>3 DEF FlowType
<1>5. CarryInv'
  BY <1>1, <1>2, <1>3 DEF CarryInv
<1>6. ASSUME NEW x \in Publication, NEW s \in Subscriber, Awaited(x, s)' PROVE Awaited(x, s)
  <2>1. Home[s] \in Node
    BY Zenon, SubscriberAssumption
  <2> QED BY Zenon, <1>1, <1>2, <1>3, <1>6, <2>1 DEF Awaited
<1> QED BY Zenon, <1>1, <1>4, <1>5, <1>6, CarryKeeps

LEMMA SendKeeps ==
  ASSUME FlowInv, NEW d \in sending, NEW t \in d.to, SendPublished(d, t)
  PROVE  FlowInv'
<1> DEFINE rest == [d EXCEPT !.to = @ \ {t}]
           m == d.pub
           s == t[1]
<1>1. /\ FlowType /\ CarryInv /\ d \in Delivery /\ Single(d)
      /\ \A x \in Publication, y \in Subscriber : OnceInv(x, y)
  BY Zenon DEF FlowInv, FlowType
<1>2. m \in Publication /\ s \in Subscriber /\ t[2] \in Nat /\ t = <<s, t[2]>>
  BY <1>1 DEF Delivery
<1>3. /\ rest \in Delivery /\ rest.pub = m /\ rest.to = d.to \ {t}
  BY Zenon, <1>1 DEF Delivery
<1>4. /\ \A e \in sending' : (e \in sending /\ e # d) \/ e = rest
      /\ UNCHANGED <<adapter, pub, wire, pending>>
      /\ got' = [got EXCEPT ![m][s] = IF Reaches(s, t[2]) THEN @ + 1 ELSE @]
  BY Zenon DEF SendPublished, Local, config
<1> HIDE DEF rest, m, s
<1>5. /\ got \in [Publication -> [Subscriber -> Nat]] /\ got' \in [Publication -> [Subscriber -> Nat]]
      /\ \A x \in Publication, y \in Subscriber : x # m \/ y # s => got'[x][y] = got[x][y]
      /\ got'[m][s] \in {got[m][s], got[m][s] + 1}
  <2> DEFINE new == IF Reaches(s, t[2]) THEN got[m][s] + 1 ELSE got[m][s]
  <2>1. got \in [Publication -> [Subscriber -> Nat]]
    BY Zenon, <1>1 DEF FlowType
  <2>2. new \in Nat /\ new \in {got[m][s], got[m][s] + 1} /\ got' = [got EXCEPT ![m][s] = new]
    BY <1>2, <1>4, <2>1
  <2> HIDE DEF new
  <2> QED BY Zenon, <1>2, <2>1, <2>2
<1>6. FlowType' /\ CarryInv'
  <2>1. sending' \in SUBSET Delivery
    BY Zenon, <1>1, <1>3, <1>4 DEF FlowType
  <2> QED BY Zenon, <1>1, <1>4, <1>5, <2>1 DEF FlowType, CarryInv
<1>7. \A y \in Subscriber : Goal(rest, y) => Goal(d, y) /\ y # s
  BY Zenon, <1>1, <1>2, <1>3 DEF Goal, Single
<1>8. Goal(d, s) /\ d.pub = m
  BY Zenon, <1>2 DEF Goal, m
<1>9. \A e, x, y : (Awaited(x, y)' <=> Awaited(x, y)) /\ (Goal(e, y)' <=> Goal(e, y))
  BY Zenon, <1>4 DEF Awaited, Goal
<1>10. ASSUME NEW x \in Publication, NEW y \in Subscriber PROVE OnceInv(x, y)'
  <2>1. CASE x = m /\ y = s
    <3>1. got[m][s] = 0 /\ ~Awaited(m, s) /\ \A e \in sending : e.pub = m /\ Goal(e, s) => e = d
      BY Zenon, <1>1, <1>2, <1>8 DEF OnceInv
    <3>2. \A e \in sending' : ~(e.pub = m /\ Goal(e, s))
      BY Zenon, <1>2, <1>4, <1>7, <3>1
    <3> QED BY <1>5, <1>9, <2>1, <3>1, <3>2 DEF OnceInv
  <2>2. CASE x = m /\ y # s /\ Goal(rest, y)
    <3>1. got[m][y] = 0 /\ ~Awaited(m, y) /\ \A e \in sending : e.pub = m /\ Goal(e, y) => e = d
      BY Zenon, <1>1, <1>2, <1>7, <1>8, <2>2 DEF OnceInv
    <3>2. \A e \in sending' : e.pub = m /\ Goal(e, y) => e = rest
      BY Zenon, <1>4, <3>1
    <3>3. got'[m][y] = 0
      BY Zenon, <1>2, <1>5, <2>2, <3>1
    <3> QED BY <1>9, <2>2, <3>1, <3>2, <3>3 DEF OnceInv
  <2>3. CASE (x # m \/ y # s) /\ ~(x = m /\ Goal(rest, y))
    <3>1. \A e \in sending' : e.pub = x /\ Goal(e, y) => e \in sending
      BY Zenon, <1>3, <1>4, <2>3
    <3>2. OnceInv(x, y) /\ got'[x][y] = got[x][y] /\ (Awaited(x, y)' => Awaited(x, y))
      BY Zenon, <1>1, <1>5, <1>9, <2>3
    <3> QED BY Zenon, <3>1, <3>2, OnceStays
  <2> QED BY Zenon, <2>1, <2>2, <2>3
<1>11. \A e \in sending' : Single(e)'
  BY Zenon, <1>1, <1>3, <1>4 DEF Single, FlowInv
<1> QED BY Zenon, <1>6, <1>10, <1>11 DEF FlowInv
-----------------------------------------------------------------------------

LEMMA PubSubInitially ==
  ASSUME PubSubInit
  PROVE  PubSubInv
<1>2. IndexInv
  <2>1. \A n \in Node : trie[n] = {} /\ \A p \in Pattern, s \in Subscriber : byPattern[n][p][s] = 0
    BY Zenon DEF PubSubInit
  <2>2. byPattern \in [Node -> [Pattern -> [Subscriber -> Nat]]] /\ trie \in [Node -> SUBSET EntryType]
    BY Zenon DEF PubSubInit
  <2> QED BY <2>1, <2>2 DEF IndexInv, Reflects
<1>3. RoutesInv
  BY Zenon DEF PubSubInit, RoutesInv, RoutesExact, HasLocal
<1>4. FlowInv
  <2>1. FlowType
    BY Zenon DEF PubSubInit, FlowType
  <2>2. CarryInv /\ \A d \in sending : Single(d)
    BY Zenon DEF PubSubInit, CarryInv
  <2>3. ASSUME NEW m \in Publication, NEW s \in Subscriber PROVE OnceInv(m, s)
    BY DEF PubSubInit, OnceInv
  <2> QED BY Zenon, <2>1, <2>2, <2>3 DEF FlowInv
<1> QED BY Zenon, <1>2, <1>3, <1>4 DEF PubSubInv

LEMMA FlowStays ==
  ASSUME FlowInv, UNCHANGED <<adapter, flow>>
  PROVE  FlowInv'
<1>1. FlowType' /\ CarryInv' /\ UNCHANGED <<sending, got>>
  BY Zenon DEF FlowInv, FlowType, CarryInv, flow
<1>2. \A x \in Publication, s \in Subscriber : Awaited(x, s)' => Awaited(x, s)
  BY Zenon DEF Awaited, flow
<1> QED BY Zenon, <1>1, <1>2, CarryKeeps

LEMMA PubSubKeeps ==
  ASSUME LifeTypeOK, PubSubInv, PubSubCommand \/ PubSubStep \/ UNCHANGED pubsubVars
  PROVE  PubSubInv'
<1>1. IndexInv /\ RoutesInv /\ FlowInv
  BY Zenon DEF PubSubInv
<1>2. CASE UNCHANGED pubsubVars
  BY Zenon, <1>1, <1>2, IndexStays, RoutesStay, FlowStays DEF pubsubVars, flow, PubSubInv
<1>3. ASSUME NEW n \in Node, NEW p \in Pattern, NEW s \in Subscriber,
             handleSubscribe(n, p, s) \/ handleUnsubscribe(n, p, s)
      PROVE  PubSubInv'
  <2>1. UNCHANGED <<adapter, flow>>
    BY Zenon, <1>3 DEF handleSubscribe, handleUnsubscribe, config
  <2> QED BY Zenon, <1>1, <1>3, <2>1, SubscriptionsKeep, FlowStays DEF PubSubInv
<1>4. ASSUME UNCHANGED <<byPattern, trie, adapter, routes, view, dropped>>, FlowInv'
      PROVE  PubSubInv'
  BY Zenon, <1>1, <1>4, IndexStays, RoutesStay DEF PubSubInv
<1>5. ASSUME NEW n \in Node, NEW m \in Publication, NEW t \in Topic, handlePublish(n, m, t)
      PROVE  PubSubInv'
  <2>1. UNCHANGED <<byPattern, trie, adapter, routes, view, dropped>>
    BY Zenon, <1>5 DEF handlePublish, Local, config, crdt
  <2> QED BY Zenon, <1>1, <1>4, <1>5, <2>1, PublishKeeps
<1>6. ASSUME NEW n \in Node, NEW gone \in Node, OnMembershipChange(n, gone)
      PROVE  PubSubInv'
  <2>1. UNCHANGED <<byPattern, trie, adapter, flow>>
    BY Zenon, <1>6 DEF OnMembershipChange, config
  <2> QED BY Zenon, <1>1, <1>6, <2>1, MembershipKeeps, IndexStays, FlowStays DEF PubSubInv
<1>7. ASSUME NEW n \in Node, NEW m \in Publication, handleRemotePublish(n, m)
      PROVE  PubSubInv'
  <2>1. UNCHANGED <<byPattern, trie, adapter, routes, view, dropped>>
    BY Zenon, <1>7 DEF handleRemotePublish, Local, config, crdt
  <2> QED BY Zenon, <1>1, <1>4, <1>7, <2>1, RemoteKeeps
<1>8. ASSUME NEW n \in Node, NEW m \in Publication, LoseMessage(n, m)
      PROVE  PubSubInv'
  <2>1. UNCHANGED <<byPattern, trie, adapter, routes, view, dropped>>
    BY Zenon, <1>8 DEF LoseMessage, Local, config, crdt
  <2> QED BY Zenon, <1>1, <1>4, <1>8, <2>1, LoseKeeps
<1>9. ASSUME NEW d \in sending, NEW t \in d.to, SendPublished(d, t)
      PROVE  PubSubInv'
  <2>1. UNCHANGED <<byPattern, trie, adapter, routes, view, dropped>>
    BY Zenon, <1>9 DEF SendPublished, Local, config, crdt
  <2> QED BY Zenon, <1>1, <1>4, <1>9, <2>1, SendKeeps
<1>10. ASSUME NEW n \in Node, NEW peers \in SUBSET Node, GossipRound(n, peers)
       PROVE  PubSubInv'
  <2>1. UNCHANGED <<byPattern, trie, adapter, routes, view, dropped>>
    BY Zenon, <1>10 DEF GossipRound, Local, config, crdt
  <2> QED BY Zenon, <1>1, <1>4, <1>10, <2>1, GossipKeeps
<1>11. ASSUME NEW n \in Node, MergeRoutes(n)
       PROVE  PubSubInv'
  <2>1. UNCHANGED <<byPattern, trie, adapter, flow>>
    BY Zenon, <1>11 DEF MergeRoutes, config
  <2> QED BY Zenon, <1>1, <1>11, <2>1, MergeKeeps, IndexStays, FlowStays DEF PubSubInv
<1>12. CASE PubSubCommand
  BY Zenon, <1>3, <1>5, <1>6, <1>12 DEF PubSubCommand
<1>13. CASE PubSubStep
  BY Zenon, <1>7, <1>8, <1>9, <1>10, <1>11, <1>13 DEF PubSubStep
<1> QED BY Zenon, <1>2, <1>12, <1>13

LEMMA PubSubMeans ==
  ASSUME PubSubInv
  PROVE  TrieMatchesIndex /\ PublishedOnce /\ RoutesExact
<1>1. TrieMatchesIndex
  <2> SUFFICES ASSUME NEW n \in Node, NEW t \in Topic, NEW s \in Subscriber
               PROVE  s \in Chosen(n, t) <=> s \in Wanted(n, t, {p \in Pattern : ValidPattern(p) /\ Last(p) # "+"})
    BY Zenon DEF TrieMatchesIndex, Chosen, Wanted
  <2>1. /\ trie[n] \in SUBSET EntryType /\ Reflects(trie[n], byPattern[n])
        /\ \A p \in Pattern, x \in Subscriber : byPattern[n][p][x] # 0 => ValidPattern(p)
    BY Zenon DEF PubSubInv, IndexInv
  <2>2. s \in Chosen(n, t) <=> \E e \in trie[n] : e.sub = s /\ Under(e, <<>>, t)
    BY Zenon, <2>1, MatchFinds DEF Chosen
  <2>3. s \in Wanted(n, t, {p \in Pattern : ValidPattern(p) /\ Last(p) # "+"})
        <=> \E p \in Pattern : byPattern[n][p][s] # 0 /\ Last(p) # "+" /\ Matches(p, t)
    BY Zenon, <2>1 DEF Wanted
  <2>4. ASSUME NEW e \in trie[n], e.sub = s, Under(e, <<>>, t)
        PROVE  \E p \in Pattern : byPattern[n][p][s] # 0 /\ Last(p) # "+" /\ Matches(p, t)
    <3>1. PICK p \in Pattern : byPattern[n][p][s] # 0 /\ Stores(e, p)
      BY Zenon, <2>1, <2>4 DEF Reflects
    <3> QED BY Zenon, <2>1, <2>4, <3>1, LeafMeans
  <2>5. ASSUME NEW p \in Pattern, byPattern[n][p][s] # 0, Last(p) # "+", Matches(p, t)
        PROVE  \E e \in trie[n] : e.sub = s /\ Under(e, <<>>, t)
    <3>1. PICK l \in Leaf(p) : TRUE
      BY Zenon, <2>5 DEF Leaf
    <3>2. PICK e \in trie[n] : e.path = l.path /\ e.kind = l.kind /\ e.sub = s
      BY Zenon, <2>1, <2>5, <3>1 DEF Reflects
    <3>3. Stores(e, p) /\ e \in EntryType
      BY Zenon, <2>1, <3>1, <3>2 DEF Stores
    <3> QED BY Zenon, <2>1, <2>5, <3>2, <3>3, LeafMeans
  <2> QED BY Zenon, <2>2, <2>3, <2>4, <2>5
<1>2. PublishedOnce
  BY Zenon DEF PubSubInv, FlowInv, OnceInv, PublishedOnce
<1>3. RoutesExact
  BY Zenon DEF PubSubInv, RoutesInv
<1> QED BY Zenon, <1>1, <1>2, <1>3
=============================================================================
