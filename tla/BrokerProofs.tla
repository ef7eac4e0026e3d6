---------------------------- MODULE BrokerProofs ----------------------------
(***************************************************************************)
(* Proofs about the timers, the routers, cron and publish-subscribe, for   *)
(* every number of nodes, subscribers, patterns, publications, jobs, calls *)
(* and commands.  What the steps of cron and of publish-subscribe keep is  *)
(* in module SubscriptionProofs.                                           *)
(***************************************************************************)
EXTENDS Brokers, SubscriptionProofs, FiniteSetTheorems, TLAPS

\* Who else moves: the steps of one part leave the variables of the others alone.
LEMMA PartsApart ==
  ASSUME [Next]_vars
  PROVE  /\ UNCHANGED timerVars \/ TimersCommand \/ TimersStep
         /\ UNCHANGED routerVars \/ PoolCommand \/ ServiceCommand \/ RouterStep
         /\ UNCHANGED cronVars \/ CronCommand \/ CronStep \/ \E s \in Subscriber : CronSubscriberStops(s)
         /\ UNCHANGED pubsubVars \/ PubSubCommand \/ PubSubStep
BY Zenon DEF Next, Client, Step, vars, SubscriberReturns
-----------------------------------------------------------------------------
(* Timers *)

TimerType == [st : {"none", "waiting", "ended"}, interval : BOOLEAN, cancelled : BOOLEAN, sent : Nat]

TimersInv ==
  /\ timer \in [TimerId -> TimerType]
  /\ \A i \in TimerId : timer[i].st = "none" => timer[i].sent = 0
  /\ TimersTracked

\* Whatever the order in which timers fire and are cancelled, the table holds the
\* timers whose goroutine runs, and a one-shot timer sends once at most (timers.go).
THEOREM TimersAreTracked == Spec => []TimersTracked
<1>1. Init => TimersInv
  BY DEF Init, TimersInit, TimerType, TimersInv, TimersTracked
<1>2. TimersInv /\ [Next]_vars => TimersInv'
  <2> SUFFICES ASSUME TimersInv, [Next]_vars PROVE TimersInv'
    OBVIOUS
  <2>1. CASE UNCHANGED timerVars
    BY Zenon, <2>1 DEF timerVars, TimersInv, TimersTracked
  <2>2. ASSUME NEW i \in TimerId, NEW t \in TimerType, timer' = [timer EXCEPT ![i] = t],
               t.st # "none", t.st = "waiting" /\ ~t.interval => t.sent = 0,
               table' = IF t.st = "waiting" THEN table \cup {i} ELSE table \ {i}
        PROVE  TimersInv'
    BY Zenon, <2>2 DEF TimersInv, TimersTracked
  <2>3. ASSUME NEW i \in TimerId, SendAfter(i) \/ SendInterval(i) \/ Cancel(i) \/ Done(i) \/ Fire(i)
        PROVE  TimersInv'
    <3> DEFINE t == timer'[i]
    <3>1. timer[i] \in TimerType /\ timer' = [timer EXCEPT ![i] = t]
      BY Zenon, <2>3 DEF SendAfter, SendInterval, Cancel, Done, Fire, TimersInv
    <3>2. CASE SendAfter(i)
      BY <2>2, <3>1, <3>2 DEF SendAfter, IsNext, TimersInv, TimersTracked, TimerType
    <3>3. CASE SendInterval(i)
      BY Zenon, <2>2, <3>1, <3>3 DEF SendInterval, IsNext, TimersInv, TimersTracked, TimerType
    <3>4. CASE Cancel(i)
      BY Zenon, <2>2, <3>1, <3>4 DEF Cancel, TimersInv, TimersTracked, TimerType
    <3>5. CASE Done(i)
      BY Zenon, <2>2, <3>1, <3>5 DEF Done, TimersInv, TimersTracked, TimerType
    <3>6. CASE Fire(i)
      BY <2>2, <3>1, <3>6 DEF Fire, TimersInv, TimersTracked, TimerType
    <3> QED BY Zenon, <2>3, <3>2, <3>3, <3>4, <3>5, <3>6
  <2> QED BY Zenon, <2>1, <2>3, PartsApart DEF TimersCommand, TimersStep
<1>3. TimersInv => TimersTracked
  BY Zenon DEF TimersInv
<1> QED BY <1>1, <1>2, <1>3, PTL DEF Spec
-----------------------------------------------------------------------------
(* Sequences *)

Increasing(f, I) ==
  /\ f \in [1 .. Cardinality(I) -> I]
  /\ \A a, b \in 1 .. Cardinality(I) : a < b => f[a] < f[b]

\* The numbers of a finite set can be counted in their order.
LEMMA IncreasingExists ==
  ASSUME NEW n \in Nat, NEW I \in SUBSET (1 .. n)
  PROVE  \E f : Increasing(f, I)
<1> DEFINE S == {k \in Nat : \A J \in SUBSET (1 .. k) : \E f : Increasing(f, J)}
<1>1. 0 \in S
  <2> SUFFICES ASSUME NEW J \in SUBSET (1 .. 0) PROVE \E f : Increasing(f, J)
    OBVIOUS
  <2>0. J = {}
    OBVIOUS
  <2>1. Cardinality(J) = 0
    BY Zenon, <2>0, FS_EmptySet
  <2>2. [a \in {} |-> a] \in [{} -> J] /\ 1 .. 0 = {}
    OBVIOUS
  <2>3. Increasing([a \in {} |-> a], J)
    <3>1. 1 .. Cardinality(J) = {}
      BY <2>1
    <3> QED BY Zenon, <2>2, <3>1 DEF Increasing
  <2> QED BY Zenon, <2>3
<1>2. ASSUME NEW k \in S PROVE k + 1 \in S
  <2> SUFFICES ASSUME NEW J \in SUBSET (1 .. k + 1) PROVE \E f : Increasing(f, J)
    OBVIOUS
  <2>1. CASE k + 1 \notin J
    <3>1. J \in SUBSET (1 .. k)
      BY <2>1
    <3> QED BY Zenon, <3>1
  <2>2. CASE k + 1 \in J
    <3> DEFINE K == J \ {k + 1}
    <3>1. K \in SUBSET (1 .. k)
      BY <2>2
    <3>2. PICK g : Increasing(g, K)
      BY Zenon, <3>1
    <3>3. IsFiniteSet(K) /\ J = K \cup {k + 1} /\ k + 1 \notin K
      <4>1. IsFiniteSet(1 .. k)
        BY FS_Interval
      <4> QED BY Zenon, <2>2, <3>1, <4>1, FS_Subset
    <3>4. Cardinality(K) \in Nat /\ Cardinality(J) = Cardinality(K) + 1
      BY Zenon, <3>3, FS_AddElement, FS_CardinalityType
    <3> DEFINE c == Cardinality(K)
               f == [a \in 1 .. Cardinality(J) |-> IF a = c + 1 THEN k + 1 ELSE g[a]]
    <3> HIDE DEF K
    <3>5. \A a \in 1 .. c : g[a] \in 1 .. k /\ g[a] \in J
      BY Zenon, <3>1, <3>2, <3>3 DEF Increasing
    <3>6. f \in [1 .. Cardinality(J) -> J]
      BY <2>2, <3>4, <3>5
    <3>7. ASSUME NEW a \in 1 .. Cardinality(J), NEW b \in 1 .. Cardinality(J), a < b
          PROVE  f[a] < f[b]
      <4>1. a \in 1 .. c
        <5>1. c \in Nat /\ Cardinality(J) = c + 1
          BY Zenon, <3>4
        <5> HIDE DEF S, f, c
        <5> QED BY <3>7, <5>1
      <4>2. CASE b = c + 1
        <5>1. f[a] = g[a] /\ f[b] = k + 1 /\ g[a] \in 1 .. k
          BY <3>4, <3>5, <4>1, <4>2
        <5> QED BY <5>1
      <4>3. CASE b # c + 1
        <5>1. b \in 1 .. c /\ f[a] = g[a] /\ f[b] = g[b]
          BY <3>4, <4>1, <4>3
        <5>2. \A x, y \in 1 .. c : x < y => g[x] < g[y]
          BY Zenon, <3>2 DEF Increasing
        <5> QED BY Zenon, <3>7, <4>1, <5>1, <5>2
      <4> QED BY Zenon, <4>2, <4>3
    <3>8. Increasing(f, J)
      BY Zenon, <3>6, <3>7 DEF Increasing
    <3> QED BY Zenon, <3>8
  <2> QED BY Zenon, <2>1, <2>2
<1> HIDE DEF S
<1>3. S = Nat
  BY Zenon, <1>1, <1>2, Induction DEF S
<1> QED BY Zenon, <1>3 DEF S

\* The elements of l are those of s at places of I, each place once.
Draws(l, s, I) ==
  \E at \in [1 .. Len(l) -> I] :
    /\ \A a, b \in 1 .. Len(l) : a # b => at[a] # at[b]
    /\ \A k \in 1 .. Len(l) : l[k] = s[at[k]]

\* What is kept of a list are its elements at the places of I, each once.
LEMMA KeptPlaces ==
  ASSUME NEW X, NEW s \in Seq(X), NEW I \in SUBSET (1 .. Len(s))
  PROVE  /\ Kept(s, I) \in Seq(X) /\ Len(Kept(s, I)) = Cardinality(I) /\ Cardinality(I) \in Nat
         /\ Draws(Kept(s, I), s, I)
<1> DEFINE at == CHOOSE f \in [1 .. Cardinality(I) -> I] : \A a, b \in DOMAIN f : a < b => f[a] < f[b]
<1>0. Len(s) \in Nat
  OBVIOUS
<1>1. IsFiniteSet(1 .. Len(s))
  BY <1>0, FS_Interval
<1>2. Cardinality(I) \in Nat
  BY Zenon, <1>1, FS_Subset, FS_CardinalityType
<1>3. PICK g : Increasing(g, I)
  BY Zenon, <1>0, IncreasingExists
<1>4. g \in [1 .. Cardinality(I) -> I] /\ \A a, b \in DOMAIN g : a < b => g[a] < g[b]
  BY Zenon, <1>3 DEF Increasing
<1>5. at \in [1 .. Cardinality(I) -> I] /\ \A a, b \in DOMAIN at : a < b => at[a] < at[b]
  BY Zenon, <1>4
<1>6. Kept(s, I) = [k \in 1 .. Cardinality(I) |-> s[at[k]]]
  BY Zenon DEF Kept
<1> HIDE DEF at
<1>7. \A k \in 1 .. Cardinality(I) : at[k] \in 1 .. Len(s) /\ s[at[k]] \in X
  <2>1. \A k \in 1 .. Cardinality(I) : at[k] \in 1 .. Len(s)
    BY Zenon, <1>5
  <2> QED BY <2>1
<1>8. Kept(s, I) \in Seq(X) /\ Len(Kept(s, I)) = Cardinality(I)
  BY <1>2, <1>6, <1>7
<1>9. ASSUME NEW a \in 1 .. Cardinality(I), NEW b \in 1 .. Cardinality(I), a # b
      PROVE  at[a] # at[b]
  <2>1. a < b \/ b < a
    BY <1>2, <1>9
  <2>2. at[a] \in 1 .. Len(s) /\ at[b] \in 1 .. Len(s)
    BY Zenon, <1>7
  <2> QED BY <1>0, <1>5, <2>1, <2>2
<1>10. Draws(Kept(s, I), s, I)
  BY <1>2, <1>5, <1>6, <1>8, <1>9 DEF Draws
<1> QED BY Zenon, <1>2, <1>8, <1>10

LEMMA DrawsJoin ==
  ASSUME NEW X, NEW s \in Seq(X), NEW l \in Seq(X), NEW m \in Seq(X), NEW I, NEW J,
         Draws(l, s, I), Draws(m, s, J), I \cap J = {}
  PROVE  l \o m \in Seq(X) /\ Len(l \o m) = Len(l) + Len(m) /\ Draws(l \o m, s, I \cup J)
<1>1. PICK f \in [1 .. Len(l) -> I] :
        /\ \A a, b \in 1 .. Len(l) : a # b => f[a] # f[b]
        /\ \A k \in 1 .. Len(l) : l[k] = s[f[k]]
  BY Zenon DEF Draws
<1>2. PICK g \in [1 .. Len(m) -> J] :
        /\ \A a, b \in 1 .. Len(m) : a # b => g[a] # g[b]
        /\ \A k \in 1 .. Len(m) : m[k] = s[g[k]]
  BY Zenon DEF Draws
<1> DEFINE c == Len(l)
           d == Len(m)
           at == [k \in 1 .. c + d |-> IF k <= c THEN f[k] ELSE g[k - c]]
<1>3. c \in Nat /\ d \in Nat
  OBVIOUS
<1>4. /\ l \o m \in Seq(X) /\ Len(l \o m) = c + d
      /\ \A k \in 1 .. c + d : (l \o m)[k] = IF k <= c THEN l[k] ELSE m[k - c]
  OBVIOUS
<1> HIDE DEF c, d
<1>5. ASSUME NEW k \in 1 .. c + d PROVE (k <= c => k \in 1 .. c) /\ (~(k <= c) => k - c \in 1 .. d)
  BY <1>3
<1>6. at \in [1 .. c + d -> I \cup J]
  BY Zenon, <1>1, <1>2, <1>5 DEF c, d
<1>7. ASSUME NEW a \in 1 .. c + d, NEW b \in 1 .. c + d, a # b
      PROVE  at[a] # at[b]
  <2>1. CASE a <= c /\ b <= c
    BY Zenon, <1>1, <1>5, <1>7, <2>1 DEF c
  <2>2. CASE a > c /\ b > c
    <3>1. a - c \in 1 .. d /\ b - c \in 1 .. d /\ a - c # b - c
      BY <1>3, <1>5, <1>7, <2>2
    <3>2. at[a] = g[a - c] /\ at[b] = g[b - c]
      BY <1>3, <2>2
    <3> QED BY <1>2, <3>1, <3>2 DEF d
  <2>3. ASSUME NEW x \in 1 .. c + d, NEW y \in 1 .. c + d, x <= c, y > c
        PROVE  at[x] \in I /\ at[y] \in J
    <3>1. x \in 1 .. c /\ at[x] = f[x] /\ y - c \in 1 .. d /\ at[y] = g[y - c]
      BY <1>3, <1>5, <2>3
    <3> QED BY Zenon, <1>1, <1>2, <3>1 DEF c, d
  <2>4. CASE a <= c /\ b > c
    BY Zenon, <2>3, <2>4
  <2>5. CASE a > c /\ b <= c
    BY Zenon, <2>3, <2>5
  <2> QED BY <1>3, <2>1, <2>2, <2>4, <2>5
<1>8. \A k \in 1 .. c + d : (l \o m)[k] = s[at[k]]
  BY Zenon, <1>1, <1>2, <1>4, <1>5 DEF c, d
<1>9. \A a, b \in 1 .. c + d : a # b => at[a] # at[b]
  BY Zenon, <1>7
<1> HIDE DEF at
<1>10. Draws(l \o m, s, I \cup J)
  <2>1. Len(l \o m) = c + d
    BY Zenon, <1>4
  <2> DEFINE lm == l \o m
             N == c + d
  <2>2. at \in [1 .. N -> I \cup J] /\ (\A a, b \in 1 .. N : a # b => at[a] # at[b])
        /\ (\A k \in 1 .. N : lm[k] = s[at[k]]) /\ Len(lm) = N
    BY Zenon, <1>6, <1>8, <1>9, <2>1
  <2> HIDE DEF lm, N
  <2>3. Draws(lm, s, I \cup J)
    BY ZenonT(30), <2>2 DEF Draws
  <2> QED BY Zenon, <2>3 DEF lm
<1> QED BY Zenon, <1>4, <1>10 DEF c, d

\* The next number has the next remainder.
LEMMA NextRemainder ==
  ASSUME NEW x \in Nat, NEW n \in Nat \ {0}
  PROVE  /\ x % n \in 0 .. n - 1
         /\ (x + 1) % n = IF x % n = n - 1 THEN 0 ELSE (x % n) + 1
<1> DEFINE q == x \div n
           r == x % n
           q2 == (x + 1) \div n
           r2 == (x + 1) % n
<1>1. r \in 0 .. n - 1 /\ x = n * q + r /\ q \in Int
  OBVIOUS
<1>2. r2 \in 0 .. n - 1 /\ x + 1 = n * q2 + r2 /\ q2 \in Int
  OBVIOUS
<1> HIDE DEF q, r, q2, r2
<1>3. n * (q2 - q) = r + 1 - r2
  BY <1>1, <1>2
<1> DEFINE d == q2 - q
<1>4. d \in Int /\ n * d = r + 1 - r2
  BY <1>1, <1>2, <1>3
<1> HIDE DEF d
<1>5. d <= 1
  <2>1. d >= 2 => n * d >= n * 2
    BY <1>4
  <2> QED BY <1>1, <1>2, <1>4, <2>1
<1>6. d >= 0
  <2>1. d <= -1 => n * d <= n * (-1)
    BY <1>4
  <2> QED BY <1>1, <1>2, <1>4, <2>1
<1>7. d = 0 \/ d = 1
  BY <1>4, <1>5, <1>6
<1>8. r2 = r + 1 \/ r2 = r + 1 - n
  BY <1>1, <1>2, <1>4, <1>7
<1>9. r2 = IF r = n - 1 THEN 0 ELSE r + 1
  BY <1>1, <1>2, <1>8
<1> QED BY Zenon, <1>1, <1>9 DEF r, r2
-----------------------------------------------------------------------------
(* Routers *)

Pid == Subscriber \X Nat
Distinct(list) == \A a, b \in 1 .. Len(list) : a # b => list[a][1] # list[b][1]
PidList == {l \in Seq(Pid) : Distinct(l)}
RunType == [list : PidList, took : [Subscriber -> Nat]]
StateType == [strategy : Strategy \cup {"none"}, workers : PidList, filter : SUBSET Node,
              prefer : SUBSET Node, next : Nat, run : RunType]
CallType == [at : {"refused", "accepted", "filter", "prefer", "look", "make", "select", "deliver"},
             obj : 0 .. MaxStates, strategy : Strategy \cup {"none"}, list : PidList,
             msg : Message \cup {<<>>}, to : Pid \cup {<<>>}]
RuleKey == {<<m.type, SchemaVersion(m.version)>> : m \in Message}
RuleType == [exact : SUBSET RuleKey, fallback : BOOLEAN]

\* The places from a to the one before pos, around a circle.
Between(a, pos, p) == IF a <= pos THEN a <= p /\ p < pos ELSE a <= p \/ p < pos

\* The places since some place have had a turn more than the others, and pos is next.
EvenTo(pos, n, took) ==
  \E q \in Nat, a \in 0 .. n - 1 : \A p \in 0 .. n - 1 : took[p] = q + One(Between(a, pos, p))

\* A round-robin state is even: its run went around the list, from some place on.
Even(st) ==
  LET list == st.run.list  n == Len(st.run.list) IN
  list # <<>> => EvenTo(st.next % n, n, [p \in 0 .. n - 1 |-> st.run.took[list[p + 1][1]]])

\* A turn of the place that is next makes the circle longer, or full.
LEMMA TurnAround ==
  ASSUME NEW n \in Nat \ {0}, NEW pos \in 0 .. n - 1, NEW pos2 \in 0 .. n - 1,
         pos2 = IF pos = n - 1 THEN 0 ELSE pos + 1,
         NEW took \in [0 .. n - 1 -> Nat], NEW took2 \in [0 .. n - 1 -> Nat],
         \A p \in 0 .. n - 1 : took2[p] = IF p = pos THEN took[p] + 1 ELSE took[p],
         EvenTo(pos, n, took)
  PROVE  EvenTo(pos2, n, took2)
<1>1. PICK q \in Nat, a \in 0 .. n - 1 : \A p \in 0 .. n - 1 : took[p] = q + One(Between(a, pos, p))
  BY Zenon DEF EvenTo
<1>2. CASE a = pos2
  <2>1. ASSUME NEW p \in 0 .. n - 1 PROVE took2[p] = (q + 1) + One(Between(a, pos2, p))
    <3>1. (Between(a, pos, p) <=> p # pos) /\ ~Between(a, pos2, p)
      BY <1>2 DEF Between
    <3>2. One(Between(a, pos, p)) = (IF p = pos THEN 0 ELSE 1) /\ One(Between(a, pos2, p)) = 0
      BY Zenon, <3>1 DEF One
    <3>3. took[p] = q + One(Between(a, pos, p)) /\ took2[p] = IF p = pos THEN took[p] + 1 ELSE took[p]
      BY Zenon, <1>1
    <3> QED BY <3>2, <3>3
  <2>2. q + 1 \in Nat
    OBVIOUS
  <2> QED BY Zenon, <2>1, <2>2 DEF EvenTo
<1>3. CASE a # pos2
  <2>1. ASSUME NEW p \in 0 .. n - 1 PROVE took2[p] = q + One(Between(a, pos2, p))
    <3>1. (Between(a, pos2, p) <=> Between(a, pos, p) \/ p = pos) /\ ~Between(a, pos, pos)
      BY <1>3 DEF Between
    <3>2. CASE p = pos
      <4>1. One(Between(a, pos, p)) = 0 /\ One(Between(a, pos2, p)) = 1
        BY Zenon, <3>1, <3>2 DEF One
      <4>2. took[p] = q + One(Between(a, pos, p)) /\ took2[p] = took[p] + 1
        BY Zenon, <1>1, <3>2
      <4> QED BY <4>1, <4>2
    <3>3. CASE p # pos
      BY Zenon, <1>1, <3>1, <3>3 DEF One
    <3> QED BY Zenon, <3>2, <3>3
  <2> QED BY Zenon, <2>1 DEF EvenTo
<1> QED BY Zenon, <1>2, <1>3

\* The counter's place in the list has the turn, and the state stays even.
LEMMA TurnKeepsEven ==
  ASSUME NEW st \in StateType, Even(st), NEW list \in PidList, list # <<>>,
         NEW w, w = list[(st.next % Len(list)) + 1][1]
  PROVE  /\ Turn(st, list, w) \in StateType /\ Even(Turn(st, list, w))
         /\ Turn(st, list, w).strategy = st.strategy
<1> DEFINE n == Len(list)
           pos == st.next % n
           new == Turn(st, list, w)
           before == IF st.run.list = list THEN st.run.took ELSE [s \in Subscriber |-> 0]
<1>1. n \in Nat \ {0} /\ list \in Seq(Pid) /\ Distinct(list)
  BY DEF PidList
<1>2. \A k \in 1 .. n : list[k][1] \in Subscriber
  <2>1. \A k \in 1 .. n : list[k] \in Pid
    BY <1>1
  <2> QED BY Zenon, <2>1 DEF Pid
<1>3. st.next \in Nat /\ st.run \in RunType /\ before \in [Subscriber -> Nat]
  BY Zenon DEF StateType, RunType
<1>4. pos \in 0 .. n - 1 /\ (st.next + 1) % n = IF pos = n - 1 THEN 0 ELSE pos + 1
  BY Zenon, <1>1, <1>3, NextRemainder
<1> DEFINE run == [list |-> list, took |-> [s \in Subscriber |-> before[s] + One(s = w)]]
<1>0. new = [strategy |-> st.strategy, workers |-> st.workers, filter |-> st.filter, prefer |-> st.prefer,
             next |-> st.next + 1, run |-> run]
  <2>1. [s \in Subscriber |-> (IF st.run.list = list THEN st.run.took[s] ELSE 0) + One(s = w)]
          = [s \in Subscriber |-> before[s] + One(s = w)]
    OBVIOUS
  <2>2. new = [st EXCEPT !.next = @ + 1, !.run = run]
    BY Zenon, <2>1 DEF Turn
  <2> HIDE DEF new, run
  <2> QED BY Zenon, <2>2 DEF StateType
<1> HIDE DEF run
<1>5. /\ new.next = st.next + 1 /\ new.run.list = list /\ new.run = run
      /\ new.run.took = [s \in Subscriber |-> before[s] + One(s = w)]
  <2> HIDE DEF new
  <2> QED BY Zenon, <1>0 DEF run
<1>6. new.run.took \in [Subscriber -> Nat]
  <2> HIDE DEF new, before
  <2>1. \A s \in Subscriber : before[s] + One(s = w) \in Nat
    BY <1>3 DEF One
  <2>2. [s \in Subscriber |-> before[s] + One(s = w)] \in [Subscriber -> Nat]
    BY Zenon, <2>1
  <2> QED BY Zenon, <1>5, <2>2
<1>7. new \in StateType
  <2> HIDE DEF new, before, pos, n
  <2>1. run \in RunType
    <3>1. [s \in Subscriber |-> before[s] + One(s = w)] \in [Subscriber -> Nat]
      BY Zenon, <1>5, <1>6
    <3> QED BY Zenon, <3>1 DEF RunType, run
  <2>2. st.next + 1 \in Nat
    BY <1>3
  <2> QED BY Zenon, <1>0, <2>1, <2>2 DEF StateType
<1> DEFINE took == [p \in 0 .. n - 1 |-> before[list[p + 1][1]]]
           took2 == [p \in 0 .. n - 1 |-> new.run.took[list[p + 1][1]]]
<1>8. EvenTo(pos, n, took)
  <2>1. CASE st.run.list = list
    BY Zenon, <2>1 DEF Even
  <2>2. CASE st.run.list # list
    <3>1. \A p \in 0 .. n - 1 : took[p] = 0 + One(Between(pos, pos, p))
      BY <1>1, <1>2, <1>4, <2>2 DEF Between, One
    <3> QED BY Zenon, <1>4, <3>1 DEF EvenTo
  <2> QED BY Zenon, <2>1, <2>2
<1>9. took \in [0 .. n - 1 -> Nat] /\ took2 \in [0 .. n - 1 -> Nat]
  <2>1. \A p \in 0 .. n - 1 : list[p + 1][1] \in Subscriber
    BY <1>1, <1>2
  <2> QED BY Zenon, <1>3, <1>6, <2>1
<1>10. ASSUME NEW p \in 0 .. n - 1 PROVE took2[p] = IF p = pos THEN took[p] + 1 ELSE took[p]
  <2>1. list[p + 1][1] = w <=> p = pos
    <3>1. p + 1 \in 1 .. n /\ pos + 1 \in 1 .. n /\ w = list[pos + 1][1] /\ (p + 1 = pos + 1 => p = pos)
      BY <1>1, <1>4
    <3> HIDE DEF n, pos
    <3>2. p + 1 # pos + 1 => list[p + 1][1] # list[pos + 1][1]
      BY Zenon, <1>1, <3>1 DEF Distinct, n
    <3> QED BY Zenon, <3>1, <3>2
  <2>2. list[p + 1][1] \in Subscriber
    BY <1>1, <1>2
  <2> DEFINE x == list[p + 1][1]
  <2>3. took[p] = before[x] /\ took2[p] = new.run.took[x]
    BY Zenon
  <2> HIDE DEF took, took2, new, before, pos, n
  <2>4. new.run.took[x] = before[x] + One(x = w) /\ before[x] \in Nat
    BY Zenon, <1>3, <1>5, <2>2
  <2>5. One(x = w) = IF p = pos THEN 1 ELSE 0
    BY Zenon, <2>1 DEF One
  <2> HIDE DEF x
  <2> QED BY <2>3, <2>4, <2>5
<1> HIDE DEF took, took2, n, new, pos
<1>11. EvenTo(new.next % n, n, took2)
  <2>2. new.next % n = IF pos = n - 1 THEN 0 ELSE pos + 1
    BY Zenon, <1>4, <1>5
  <2>1. n \in Nat \ {0} /\ pos \in 0 .. n - 1 /\ new.next % n \in 0 .. n - 1
    BY <1>1, <1>4, <2>2
  <2>3. \A p \in 0 .. n - 1 : took2[p] = IF p = pos THEN took[p] + 1 ELSE took[p]
    BY Zenon, <1>10
  <2> QED BY Zenon, <1>8, <1>9, <2>1, <2>2, <2>3, TurnAround
<1>12. Even(new)
  <2>1. took2 = [p \in 0 .. n - 1 |-> new.run.took[list[p + 1][1]]] /\ new.run.list = list /\ n = Len(list)
    BY Zenon, <1>5 DEF took2, n
  <2> QED BY Zenon, <1>11, <2>1 DEF Even
<1>13. new.strategy = st.strategy
  BY Zenon, <1>0
<1> QED BY Zenon, <1>7, <1>12, <1>13 DEF new

\* Lists of PIDs with one PID to an id: what is drawn from one is another, and so are
\* the workers of a pool and the members of a service.
LEMMA DrawnList ==
  ASSUME NEW list \in PidList, NEW I \in SUBSET (1 .. Len(list)), NEW l \in Seq(Pid), Draws(l, list, I)
  PROVE  l \in PidList
<1>1. PICK at \in [1 .. Len(l) -> I] :
        /\ \A a, b \in 1 .. Len(l) : a # b => at[a] # at[b]
        /\ \A k \in 1 .. Len(l) : l[k] = list[at[k]]
  BY Zenon DEF Draws
<1>2. ASSUME NEW a \in 1 .. Len(l), NEW b \in 1 .. Len(l), a # b
      PROVE  l[a][1] # l[b][1]
  <2>1. at[a] \in 1 .. Len(list) /\ at[b] \in 1 .. Len(list) /\ at[a] # at[b]
    BY Zenon, <1>1, <1>2
  <2>2. list[at[a]][1] # list[at[b]][1]
    BY Zenon, <2>1 DEF PidList, Distinct
  <2> QED BY Zenon, <1>1, <2>2
<1> QED BY Zenon, <1>2 DEF PidList, Distinct

LEMMA KeptList ==
  ASSUME NEW list \in PidList, NEW I \in SUBSET (1 .. Len(list))
  PROVE  Kept(list, I) \in PidList
<1>1. list \in Seq(Pid)
  BY Zenon DEF PidList
<1> QED BY Zenon, <1>1, KeptPlaces, DrawnList

LEMMA PoolList ==
  ASSUME NEW ws \in Seq(Subscriber)
  PROVE  Ids(normalized(ws)) \in PidList
<1> DEFINE I == {i \in 1 .. Len(ws) : \A j \in 1 .. i - 1 : ws[j] # ws[i]}
           l == Kept(ws, I)
<1>1. l \in Seq(Subscriber) /\ Draws(l, ws, I)
  BY Zenon, KeptPlaces
<1>2. normalized(ws) = l
  BY Zenon DEF normalized
<1>3. ASSUME NEW x \in I, NEW y \in I, x # y PROVE ws[x] # ws[y]
  <2>1. x \in 1 .. Len(ws) /\ y \in 1 .. Len(ws) /\ Len(ws) \in Nat
    OBVIOUS
  <2>2. CASE x < y
    <3>1. x \in 1 .. y - 1
      BY <2>1, <2>2
    <3> QED BY Zenon, <3>1
  <2>3. CASE y < x
    <3>1. y \in 1 .. x - 1
      BY <2>1, <2>3
    <3> QED BY Zenon, <3>1
  <2> QED BY <1>3, <2>1, <2>2, <2>3
<1> HIDE DEF I, l
<1>4. PICK at \in [1 .. Len(l) -> I] :
        /\ \A a, b \in 1 .. Len(l) : a # b => at[a] # at[b]
        /\ \A k \in 1 .. Len(l) : l[k] = ws[at[k]]
  BY Zenon, <1>1 DEF Draws
<1>5. \A a, b \in 1 .. Len(l) : a # b => l[a] # l[b]
  BY <1>3, <1>4
<1>6. Len(l) \in Nat /\ \A k \in 1 .. Len(l) : <<l[k], 0>> \in Pid
  BY <1>1 DEF Pid
<1> DEFINE d == [k \in 1 .. Len(l) |-> <<l[k], 0>>]
<1>7. d \in Seq(Pid) /\ Len(d) = Len(l)
  BY <1>6
<1>8. Distinct(d)
  BY Zenon, <1>5, <1>7 DEF Distinct
<1> QED BY Zenon, <1>2, <1>7, <1>8 DEF Ids, PidList

LEMMA MemberList ==
  ASSUME order \in Seq(Subscriber), \A a, b \in 1 .. Len(order) : a # b => order[a] # order[b],
         group \in [Subscriber -> Nat]
  PROVE  Members \in PidList
<1> DEFINE I == {k \in 1 .. Len(order) : group[order[k]] # 0}
           l == Kept(order, I)
<1>1. l \in Seq(Subscriber) /\ Draws(l, order, I) /\ I \in SUBSET (1 .. Len(order))
  BY Zenon, KeptPlaces
<1>2. Members = [k \in 1 .. Len(l) |-> <<l[k], group[l[k]]>>]
  BY Zenon DEF Members
<1> HIDE DEF I, l
<1>3. PICK at \in [1 .. Len(l) -> I] :
        /\ \A a, b \in 1 .. Len(l) : a # b => at[a] # at[b]
        /\ \A k \in 1 .. Len(l) : l[k] = order[at[k]]
  BY Zenon, <1>1 DEF Draws
<1>4. ASSUME NEW a \in 1 .. Len(l), NEW b \in 1 .. Len(l), a # b
      PROVE  l[a] # l[b]
  <2>1. at[a] \in 1 .. Len(order) /\ at[b] \in 1 .. Len(order) /\ at[a] # at[b]
    BY Zenon, <1>1, <1>3, <1>4
  <2>2. l[a] = order[at[a]] /\ l[b] = order[at[b]]
    BY Zenon, <1>3
  <2> QED BY Zenon, <2>1, <2>2
<1>5. Len(l) \in Nat /\ \A k \in 1 .. Len(l) : <<l[k], group[l[k]]>> \in Pid
  BY <1>1 DEF Pid
<1> DEFINE d == [k \in 1 .. Len(l) |-> <<l[k], group[l[k]]>>]
<1>6. d \in Seq(Pid) /\ Len(d) = Len(l)
  BY <1>5
<1>7. Distinct(d)
  BY Zenon, <1>4, <1>6 DEF Distinct
<1> QED BY Zenon, <1>2, <1>6, <1>7 DEF PidList

\* The sort by preference has the workers of the list, in another order.
LEMMA PreferList ==
  ASSUME NEW list \in PidList, list # <<>>, NEW score \in [1 .. Len(list) -> {0, 1, 2}],
         NEW l2, l2 = Kept(list, {k \in 1 .. Len(list) : score[k] = 2}),
         NEW l1, l1 = Kept(list, {k \in 1 .. Len(list) : score[k] = 1}),
         NEW l0, l0 = Kept(list, {k \in 1 .. Len(list) : score[k] = 0})
  PROVE  l2 \o l1 \o l0 \in PidList /\ l2 \o l1 \o l0 # <<>>
<1> DEFINE I(n) == {k \in 1 .. Len(list) : score[k] = n}
<1>1. list \in Seq(Pid) /\ Len(list) \in Nat \ {0}
  BY DEF PidList
<1>2. /\ I(2) \in SUBSET (1 .. Len(list)) /\ I(1) \in SUBSET (1 .. Len(list)) /\ I(0) \in SUBSET (1 .. Len(list))
      /\ I(2) \cap I(1) = {} /\ (I(2) \cup I(1)) \cap I(0) = {} /\ 1 \in (I(2) \cup I(1)) \cup I(0)
      /\ l2 = Kept(list, I(2)) /\ l1 = Kept(list, I(1)) /\ l0 = Kept(list, I(0))
  BY <1>1
<1> HIDE DEF I
<1>3. /\ l2 \in Seq(Pid) /\ Len(l2) = Cardinality(I(2)) /\ Draws(l2, list, I(2))
      /\ l1 \in Seq(Pid) /\ Len(l1) = Cardinality(I(1)) /\ Draws(l1, list, I(1))
      /\ l0 \in Seq(Pid) /\ Len(l0) = Cardinality(I(0)) /\ Draws(l0, list, I(0))
  BY <1>1, <1>2, KeptPlaces
<1>4. l2 \o l1 \in Seq(Pid) /\ Len(l2 \o l1) = Len(l2) + Len(l1) /\ Draws(l2 \o l1, list, I(2) \cup I(1))
  BY Zenon, <1>1, <1>2, <1>3, DrawsJoin
<1> DEFINE m == l2 \o l1
           l == m \o l0
<1> HIDE DEF m
<1>5. l \in Seq(Pid) /\ Len(l) = Len(m) + Len(l0) /\ Draws(l, list, (I(2) \cup I(1)) \cup I(0))
  BY Zenon, <1>1, <1>2, <1>3, <1>4, DrawsJoin DEF m
<1> HIDE DEF l
<1>6. l \in PidList
  <2>1. (I(2) \cup I(1)) \cup I(0) \in SUBSET (1 .. Len(list))
    BY Zenon, <1>2
  <2> QED BY Zenon, <1>5, <2>1, DrawnList
<1>7. Len(l) # 0
  <2>1. ASSUME NEW n \in {0, 1, 2}, 1 \in I(n) PROVE Cardinality(I(n)) # 0
    <3>1. IsFiniteSet(I(n))
      <4>1. IsFiniteSet(1 .. Len(list))
        BY <1>1, FS_Interval
      <4> QED BY Zenon, <1>2, <4>1, FS_Subset
    <3> QED BY Zenon, <2>1, <3>1, FS_EmptySet
  <2>2. Len(l2) \in Nat /\ Len(l1) \in Nat /\ Len(l0) \in Nat
    BY <1>3
  <2>3. Len(l) = Len(l2) + Len(l1) + Len(l0)
    BY Zenon, <1>4, <1>5 DEF m
  <2>4. 1 \in I(2) \/ 1 \in I(1) \/ 1 \in I(0)
    BY Zenon, <1>2
  <2> QED BY <1>3, <2>1, <2>2, <2>3, <2>4
<1> QED BY Zenon, <1>6, <1>7 DEF l, m

\* What a call that is at some point of its way has been given.
CallInv(c) ==
  /\ c.at \in {"prefer", "look", "make", "select"} => c.list # <<>>
  /\ c.at \notin {"refused", "accepted"} => c.msg \in Message
  /\ c.at \in {"make", "select"} => c.strategy \in Strategy
  /\ c.at = "deliver" => c.to \in Pid

TablesInv ==
  /\ states \in [0 .. MaxStates -> StateType]
  /\ \A o \in 0 .. MaxStates : Even(states[o])
  /\ service \in 0 .. MaxStates
  /\ service # 0 => states[service].strategy \in Strategy
  /\ group \in [Subscriber -> Nat]
  /\ order \in Seq(Subscriber)
  /\ \A a, b \in 1 .. Len(order) : a # b => order[a] # order[b]
  /\ rules \in [Subscriber -> RuleType]

CallsInv ==
  /\ route \in Seq(CallType)
  /\ \A i \in 1 .. Len(route) : CallInv(route[i])

RoutersInv == TablesInv /\ CallsInv

\* The lives of the subscribers.
LEMMA LifeNext ==
  ASSUME LifeTypeOK, [Next]_vars
  PROVE  LifeTypeOK'
<1>1. ASSUME UNCHANGED life PROVE LifeTypeOK'
  BY Zenon, <1>1 DEF life, LifeTypeOK
<1>2. ASSUME NEW s \in Subscriber, Restart(s) \/ CronSubscriberStops(s) \/ SubscriberReturns(s)
      PROVE  LifeTypeOK'
  <2>1. MaxGeneration \in Nat \ {0}
    BY Zenon, SubscriberAssumption
  <2>2. Restart(s) => LifeTypeOK'
    BY <2>1 DEF Restart, LifeTypeOK
  <2>3. CronSubscriberStops(s) => LifeTypeOK'
    BY Zenon DEF CronSubscriberStops, LifeTypeOK
  <2>4. SubscriberReturns(s) => LifeTypeOK'
    BY <2>1 DEF SubscriberReturns, LifeTypeOK
  <2> QED BY Zenon, <1>2, <2>2, <2>3, <2>4
<1>3. PubSubCommand \/ PubSubStep => UNCHANGED life
  BY Zenon DEF PubSubCommand, PubSubStep, handleSubscribe, handleUnsubscribe, handlePublish, OnMembershipChange,
         handleRemotePublish, LoseMessage, SendPublished, GossipRound, MergeRoutes, Local
<1>4. CronCommand \/ CronStep => UNCHANGED life
  BY Zenon DEF CronCommand, CronStep, cronSubscribe, cronUnsubscribe, cronUnsubscribeAll, Removal, HandOff,
         cronDown, TickDue, TickSend, JobEnds, OnlyJob
<1>5. PoolCommand \/ ServiceCommand \/ RouterStep => UNCHANGED life
  BY Zenon DEF PoolCommand, ServiceCommand, RouterStep, ConfigureRouter, Route, RegisterTypeRoute, RegisterFallbackRoute,
         StopHub, Configure, SendWith, Join, Leave, filterByNodeMeta, applyPreferences, LookUp, MakeState,
         Select, Deliver
<1> QED BY Zenon, <1>1, <1>2, <1>3, <1>4, <1>5 DEF Next, Client, Step, vars

LEMMA EmptyList == <<>> \in PidList
BY DEF PidList, Distinct

LEMMA NewStateEven ==
  ASSUME NEW strategy \in Strategy \cup {"none"}, NEW workers \in PidList,
         NEW filter \in SUBSET Node, NEW prefer \in SUBSET Node
  PROVE  LET st == [NewState(strategy, filter, prefer) EXCEPT !.workers = workers]
         IN  /\ st \in StateType /\ Even(st) /\ st.strategy = strategy
             /\ NewState(strategy, filter, prefer) \in StateType /\ Even(NewState(strategy, filter, prefer))
             /\ NewState(strategy, filter, prefer).strategy = strategy
<1>1. NoRun \in RunType /\ NoRun.list = <<>>
  BY Zenon, EmptyList DEF NoRun, RunType
<1> QED BY Zenon, <1>1, EmptyList DEF NewState, StateType, Even

LEMMA PoolEven ==
  ASSUME NEW strategy \in Strategy, NEW ws \in WorkerList
  PROVE  Pool(strategy, ws) \in StateType /\ Even(Pool(strategy, ws))
<1>1. Ids(normalized(ws)) \in PidList
  BY Zenon, PoolList, RouterAssumption
<1> QED BY Zenon, <1>1, NewStateEven DEF Pool

LEMMA RoutersInitially == Init => LifeTypeOK /\ RoutersInv
<1> SUFFICES ASSUME Init PROVE LifeTypeOK /\ RoutersInv
  OBVIOUS
<1>1. LifeTypeOK
  BY SubscriberAssumption DEF Init, LifeInit, LifeTypeOK
<1>2. Unset \in StateType /\ Even(Unset)
  BY Zenon, EmptyList, NewStateEven DEF Unset
<1>3. states \in [0 .. MaxStates -> StateType] /\ \A o \in 0 .. MaxStates : Even(states[o])
  <2>1. PICK hubState \in {Unset} \cup {Pool(strategy, ws) : strategy \in Strategy, ws \in WorkerList} :
          states = [o \in 0 .. MaxStates |-> IF o = 0 THEN hubState ELSE Unset]
    BY DEF Init, RoutersInit
  <2>2. hubState \in StateType /\ Even(hubState)
    BY <1>2, PoolEven
  <2> QED BY <1>2, <2>1, <2>2
<1>4. order \in Seq(Subscriber) /\ \A a, b \in 1 .. Len(order) : a # b => order[a] # order[b]
  <2>1. CASE order = <<>>
    BY <2>1
  <2>2. CASE order \in Injection(1 .. Cardinality(Subscriber), Subscriber)
    <3>1. Cardinality(Subscriber) \in Nat
      BY Zenon, SubscriberAssumption, FS_CardinalityType
    <3>2. /\ order \in [1 .. Cardinality(Subscriber) -> Subscriber]
          /\ \A a, b \in 1 .. Cardinality(Subscriber) : order[a] = order[b] => a = b
      BY Zenon, <2>2 DEF Injection, IsInjective
    <3>3. order \in Seq(Subscriber) /\ Len(order) = Cardinality(Subscriber)
      BY <3>1, <3>2
    <3> QED BY Zenon, <3>2, <3>3
  <2> QED BY <2>1, <2>2 DEF Init, RoutersInit
<1>5. group \in [Subscriber -> Nat] /\ service \in 0 .. MaxStates /\ service = 0
  BY <1>1, RouterAssumption, SubscriberAssumption DEF Init, RoutersInit, LifeTypeOK
<1>6. rules \in [Subscriber -> RuleType]
  BY Zenon DEF Init, RoutersInit, RuleType
<1>7. CallsInv
  BY DEF Init, RoutersInit, CallsInv
<1> QED BY Zenon, <1>1, <1>3, <1>4, <1>5, <1>6, <1>7 DEF RoutersInv, TablesInv

LEMMA CallsSet ==
  ASSUME CallsInv, NEW i \in 1 .. Len(route), NEW c \in CallType, CallInv(c), Set(i, c)
  PROVE  CallsInv'
<1>1. route' = [route EXCEPT ![i] = c] /\ route \in Seq(CallType)
  BY Zenon DEF Set, CallsInv
<1>2. route' \in Seq(CallType) /\ Len(route') = Len(route)
  BY <1>1
<1>3. \A k \in 1 .. Len(route) : route'[k] = IF k = i THEN c ELSE route[k]
  BY <1>1
<1> QED BY Zenon, <1>2, <1>3 DEF CallsInv

LEMMA CallsAppend ==
  ASSUME CallsInv, NEW c \in CallType, CallInv(c), route' = Append(route, c)
  PROVE  CallsInv'
<1>1. route \in Seq(CallType) /\ Len(route) \in Nat
  BY DEF CallsInv
<1>2. /\ route' \in Seq(CallType) /\ Len(route') = Len(route) + 1
      /\ \A k \in 1 .. Len(route) + 1 : route'[k] = IF k = Len(route) + 1 THEN c ELSE route[k]
  BY <1>1
<1>3. ASSUME NEW k \in 1 .. Len(route') PROVE CallInv(route'[k])
  <2>1. k = Len(route) + 1 \/ k \in 1 .. Len(route)
    BY <1>1, <1>2
  <2> QED BY Zenon, <1>2, <2>1 DEF CallsInv
<1> QED BY Zenon, <1>2, <1>3 DEF CallsInv

LEMMA TablesStay ==
  ASSUME TablesInv, UNCHANGED <<states, service, group, order, rules>>
  PROVE  TablesInv'
BY Zenon DEF TablesInv

\* A new state of the service's router takes the place of the one before.
LEMMA TablesNewState ==
  ASSUME TablesInv, NEW strategy \in Strategy, NEW filter \in SUBSET Node, NEW prefer \in SUBSET Node,
         NewServiceState(strategy, filter, prefer), UNCHANGED <<group, order, rules>>
  PROVE  TablesInv'
<1>1. PICK o \in 1 .. MaxStates : states' = [states EXCEPT ![o] = NewState(strategy, filter, prefer)] /\ service' = o
  BY Zenon DEF NewServiceState
<1>2. o \in 0 .. MaxStates /\ o # 0
  BY RouterAssumption
<1>3. /\ NewState(strategy, filter, prefer) \in StateType /\ Even(NewState(strategy, filter, prefer))
      /\ NewState(strategy, filter, prefer).strategy = strategy
  BY Zenon, EmptyList, NewStateEven
<1> QED BY Zenon, <1>1, <1>2, <1>3 DEF TablesInv

LEMMA OverOK == Over \in CallType /\ CallInv(Over)
BY EmptyList, RouterAssumption DEF Over, CallType, CallInv

LEMMA PoolKeeps ==
  ASSUME RoutersInv, PoolCommand
  PROVE  RoutersInv'
<1> USE DEF RoutersInv
<1>1. ASSUME NEW strategy \in Strategy, NEW ws \in WorkerList, ConfigureRouter(strategy, ws)
      PROVE  RoutersInv'
  <2>1. states' = [states EXCEPT ![0] = Pool(strategy, ws)] /\ UNCHANGED <<service, group, order, rules, route>>
    BY Zenon, <1>1 DEF ConfigureRouter
  <2>2. 0 \in 0 .. MaxStates
    BY RouterAssumption
  <2>3. TablesInv'
    <3>1. Pool(strategy, ws) \in StateType /\ Even(Pool(strategy, ws))
      BY Zenon, PoolEven
    <3>2. states' \in [0 .. MaxStates -> StateType] /\ \A o \in 0 .. MaxStates : Even(states'[o])
      BY Zenon, <2>1, <2>2, <3>1 DEF TablesInv
    <3>3. service # 0 => states'[service].strategy \in Strategy
      BY Zenon, <2>1 DEF TablesInv
    <3> QED BY Zenon, <2>1, <3>2, <3>3 DEF TablesInv
  <2> QED BY Zenon, <2>1, <2>3 DEF CallsInv
<1>2. ASSUME NEW m \in Message, Route(m)
      PROVE  RoutersInv'
  <2> DEFINE c == [Over EXCEPT !.at = "select", !.strategy = states[0].strategy, !.list = states[0].workers, !.msg = m]
  <2>1. states[0] \in StateType /\ states[0].strategy # "none" /\ TablesInv'
    BY <1>2, RouterAssumption, TablesStay DEF Route, TablesInv
  <2>2. c \in CallType /\ (states[0].workers # <<>> => CallInv(c))
    BY Zenon, <2>1, OverOK DEF Over, CallType, CallInv, StateType
  <2>3. \/ route' = Append(route, Over)
        \/ states[0].workers # <<>> /\ route' = Append(route, c)
    BY Zenon, <1>2 DEF Route
  <2> HIDE DEF c
  <2> QED BY Zenon, <2>1, <2>2, <2>3, OverOK, CallsAppend
<1>3. ASSUME NEW s \in Subscriber, NEW r \in RuleType, rules' = [rules EXCEPT ![s] = r],
             UNCHANGED <<states, service, group, order, route>>
      PROVE  RoutersInv'
  BY Zenon, <1>3 DEF TablesInv, CallsInv
<1>4. ASSUME NEW s \in Subscriber, NEW m \in Message, RegisterTypeRoute(s, m.type, m.version)
      PROVE  RoutersInv'
  <2>1. rules[s] \in RuleType
    BY Zenon DEF TablesInv
  <2>2. <<m.type, SchemaVersion(m.version)>> \in RuleKey
    BY Zenon DEF RuleKey
  <2> DEFINE r == [rules[s] EXCEPT !.exact = @ \cup {<<m.type, SchemaVersion(m.version)>>}]
  <2>3. r \in RuleType
    BY Zenon, <2>1, <2>2 DEF RuleType
  <2>4. rules' = [rules EXCEPT ![s] = r] /\ UNCHANGED <<states, service, group, order, route>>
    BY Zenon, <1>4 DEF RegisterTypeRoute
  <2> QED BY Zenon, <1>3, <2>3, <2>4
<1>5. ASSUME NEW s \in Subscriber, RegisterFallbackRoute(s) PROVE RoutersInv'
  <2> DEFINE r == [rules[s] EXCEPT !.fallback = TRUE]
  <2>1. r \in RuleType
    BY Zenon DEF RuleType, TablesInv
  <2>2. rules' = [rules EXCEPT ![s] = r] /\ UNCHANGED <<states, service, group, order, route>>
    BY Zenon, <1>5 DEF RegisterFallbackRoute
  <2> QED BY Zenon, <1>3, <2>1, <2>2
<1>6. ASSUME StopHub PROVE RoutersInv'
  BY Zenon, <1>6 DEF StopHub, TablesInv, CallsInv
<1> QED BY Zenon, <1>1, <1>2, <1>4, <1>5, <1>6 DEF PoolCommand

LEMMA ServiceKeeps ==
  ASSUME LifeTypeOK, RoutersInv, ServiceCommand
  PROVE  RoutersInv'
<1> USE DEF RoutersInv
<1>1. ASSUME NEW strategy \in Strategy, NEW filter \in Group, NEW prefer \in Group, Configure(strategy, filter, prefer)
      PROVE  RoutersInv'
  <2>1. filter \in SUBSET Node /\ prefer \in SUBSET Node
    BY Zenon DEF Group
  <2>2. NewServiceState(strategy, filter, prefer) /\ UNCHANGED <<group, order, rules, route>>
    BY Zenon, <1>1 DEF Configure
  <2>3. TablesInv'
    BY Zenon, <2>1, <2>2, TablesNewState
  <2> QED BY Zenon, <2>2, <2>3 DEF CallsInv
<1>2. ASSUME NEW m \in Message, SendWith(m) PROVE RoutersInv'
  <2> DEFINE c == [Over EXCEPT !.at = "filter", !.list = Members, !.msg = m]
  <2>1. Members \in PidList
    BY Zenon, MemberList DEF TablesInv
  <2>2. c \in CallType /\ CallInv(c)
    BY Zenon, <2>1, OverOK DEF Over, CallType, CallInv
  <2>3. route' = Append(route, c) /\ TablesInv'
    BY Zenon, <1>2, TablesStay DEF SendWith
  <2> HIDE DEF c
  <2> QED BY Zenon, <2>2, <2>3, CallsAppend
<1>3. ASSUME NEW s \in Subscriber, Join(s) \/ Leave(s) PROVE RoutersInv'
  <2>1. gen[s] \in Nat
    BY SubscriberAssumption DEF LifeTypeOK
  <2>2. group' \in [Subscriber -> Nat] /\ UNCHANGED <<states, service, order, rules, route>>
    <3>1. group \in [Subscriber -> Nat] /\ 0 \in Nat
      BY Zenon DEF TablesInv
    <3>2. CASE Join(s)
      BY Zenon, <2>1, <3>1, <3>2 DEF Join
    <3>3. CASE Leave(s)
      BY Zenon, <3>1, <3>3 DEF Leave
    <3> QED BY Zenon, <1>3, <3>2, <3>3
  <2> QED BY Zenon, <2>2 DEF TablesInv, CallsInv
<1> QED BY Zenon, <1>1, <1>2, <1>3 DEF ServiceCommand

\* The place a call chooses is one of its list, and the counter's for round-robin.
LEMMA PlacesIn ==
  ASSUME TablesInv, NEW c \in CallType, CallInv(c), c.at = "select", NEW k \in Places(c)
  PROVE  /\ k \in 1 .. Len(c.list)
         /\ c.strategy = "round_robin" => k = (states[c.obj].next % Len(c.list)) + 1
<1> DEFINE n == Len(c.list)
<1>1. n \in Nat \ {0}
  BY DEF CallType, CallInv, PidList
<1>2. c.strategy \in Strategy /\ c.msg.key \in Nat /\ states[c.obj].next \in Nat
  BY Zenon, RouterAssumption DEF CallType, CallInv, TablesInv, StateType
<1> HIDE DEF n
<1>3. states[c.obj].next % n \in 0 .. n - 1 /\ c.msg.key % n \in 0 .. n - 1
  BY Zenon, <1>1, <1>2, NextRemainder
<1>4. CASE c.strategy = "round_robin"
  <2>1. k = (states[c.obj].next % n) + 1
    BY Zenon, <1>4 DEF Places, n
  <2> QED BY <1>1, <1>3, <2>1 DEF n
<1>5. CASE c.strategy = "random"
  BY Zenon, <1>5 DEF Places, n
<1>6. CASE c.strategy = "consistent_key"
  <2>1. k = (c.msg.key % n) + 1 \/ k = 1
    BY Zenon, <1>6 DEF Places, n
  <2> QED BY <1>1, <1>3, <1>6, <2>1 DEF n
<1> QED BY Zenon, <1>2, <1>4, <1>5, <1>6 DEF Strategy

LEMMA CallsKeep ==
  ASSUME RoutersInv, RouterStep
  PROVE  RoutersInv'
<1> USE DEF RoutersInv
<1>1. PICK i \in 1 .. Len(route) :
        filterByNodeMeta(i) \/ applyPreferences(i) \/ LookUp(i) \/ MakeState(i) \/ Select(i) \/ Deliver(i)
  BY Zenon DEF RouterStep
<1> DEFINE c == route[i]
<1>2. c \in CallType /\ CallInv(c) /\ c.list \in PidList
  <2>1. c \in CallType /\ CallInv(c)
    BY DEF CallsInv
  <2> QED BY Zenon, <2>1 DEF CallType
<1>3. CASE filterByNodeMeta(i)
  <2> DEFINE filter == IF service = 0 THEN {} ELSE states[service].filter
             I == {k \in 1 .. Len(c.list) : filter = {} \/ Home[c.list[k][1]] \in filter}
             list == Kept(c.list, I)
             new == [c EXCEPT !.at = "prefer", !.list = list]
  <2>1. list \in PidList
    BY Zenon, <1>2, KeptList
  <2>2. c.at = "filter" /\ (Set(i, Over) \/ (list # <<>> /\ Set(i, new))) /\ TablesInv'
    BY Zenon, <1>3, TablesStay DEF filterByNodeMeta
  <2> HIDE DEF list
  <2>3. new \in CallType /\ (list # <<>> => CallInv(new))
    BY Zenon, <1>2, <2>1, <2>2 DEF CallType, CallInv
  <2> HIDE DEF new
  <2> QED BY Zenon, <2>2, <2>3, OverOK, CallsSet
<1>4. CASE applyPreferences(i)
  <2> DEFINE static == IF service = 0 THEN {} ELSE states[service].prefer
             Score(s) == One(Home[s] \in static) + One(Home[s] \in c.msg.near)
             Of(n) == Kept(c.list, {k \in 1 .. Len(c.list) : Score(c.list[k][1]) = n})
             score == [k \in 1 .. Len(c.list) |-> Score(c.list[k][1])]
             list == Of(2) \o Of(1) \o Of(0)
             new == [c EXCEPT !.at = "look", !.list = list]
  <2>1. c.at = "prefer" /\ Set(i, new) /\ TablesInv' /\ c.list # <<>>
    BY Zenon, <1>2, <1>4, TablesStay DEF applyPreferences, CallInv
  <2>2. score \in [1 .. Len(c.list) -> {0, 1, 2}]
    BY DEF One
  <2>3. /\ Of(2) = Kept(c.list, {k \in 1 .. Len(c.list) : score[k] = 2})
        /\ Of(1) = Kept(c.list, {k \in 1 .. Len(c.list) : score[k] = 1})
        /\ Of(0) = Kept(c.list, {k \in 1 .. Len(c.list) : score[k] = 0})
    <3>1. ASSUME NEW n \in {0, 1, 2}
          PROVE  {k \in 1 .. Len(c.list) : Score(c.list[k][1]) = n} = {k \in 1 .. Len(c.list) : score[k] = n}
      <4>1. \A k \in 1 .. Len(c.list) : score[k] = Score(c.list[k][1])
        BY Zenon
      <4> HIDE DEF score, Score, Of, new, list
      <4> QED BY Zenon, <4>1
    <3> QED BY Zenon, <3>1
  <2> HIDE DEF score, Of
  <2>4. list \in PidList /\ list # <<>>
    BY <1>2, <2>1, <2>2, <2>3, PreferList
  <2> HIDE DEF list
  <2>5. new \in CallType /\ CallInv(new)
    BY Zenon, <1>2, <2>1, <2>4 DEF CallType, CallInv
  <2> HIDE DEF new
  <2> QED BY Zenon, <2>1, <2>5, CallsSet
<1>5. CASE LookUp(i)
  <2> DEFINE make == [c EXCEPT !.at = "make", !.strategy = "round_robin"]
             take == [c EXCEPT !.at = "select", !.obj = service, !.strategy = states[service].strategy]
  <2>1. c.at = "look" /\ TablesInv' /\ ((service = 0 /\ Set(i, make)) \/ (service # 0 /\ Set(i, take)))
    BY Zenon, <1>5, TablesStay DEF LookUp
  <2>2. make \in CallType /\ CallInv(make)
    BY Zenon, <1>2, <2>1 DEF CallType, CallInv, Strategy
  <2>3. service # 0 => take \in CallType /\ CallInv(take)
    BY Zenon, <1>2, <2>1 DEF CallType, CallInv, TablesInv
  <2> HIDE DEF make, take
  <2> QED BY Zenon, <2>1, <2>2, <2>3, CallsSet
<1>6. CASE MakeState(i)
  <2> DEFINE new == [c EXCEPT !.at = "select", !.obj = service']
  <2>1. /\ c.at = "make" /\ NewServiceState("round_robin", {}, {}) /\ Set(i, new)
        /\ UNCHANGED <<group, order, rules>>
    BY Zenon, <1>6 DEF MakeState
  <2>2. TablesInv'
    BY <2>1, TablesNewState DEF Strategy
  <2>3. service' \in 0 .. MaxStates
    BY Zenon, <2>2 DEF TablesInv
  <2>4. c.strategy \in Strategy => new \in CallType /\ CallInv(new)
    BY Zenon, <1>2, <2>1, <2>3 DEF CallType, CallInv
  <2> HIDE DEF new
  <2> QED BY Zenon, <1>2, <2>1, <2>2, <2>4, CallsSet DEF CallInv
<1>7. CASE Select(i)
  <2>1. c.at = "select" /\ UNCHANGED <<service, group, order, rules>>
    BY Zenon, <1>7 DEF Select
  <2>2. CASE Set(i, Over) /\ UNCHANGED states
    BY Zenon, <2>1, <2>2, OverOK, CallsSet, TablesStay
  <2>3. ASSUME NEW k \in Places(c), Set(i, [c EXCEPT !.at = "deliver", !.to = c.list[k]]),
               states' = IF c.strategy = "round_robin" THEN [states EXCEPT ![c.obj] = Turn(@, c.list, c.list[k][1])]
                         ELSE states
        PROVE  RoutersInv'
    <3> DEFINE new == [c EXCEPT !.at = "deliver", !.to = c.list[k]]
    <3>1. /\ k \in 1 .. Len(c.list)
          /\ c.strategy = "round_robin" => k = (states[c.obj].next % Len(c.list)) + 1
      BY Zenon, <1>2, <2>1, PlacesIn
    <3>2. c.list[k] \in Pid
      BY <1>2, <3>1 DEF PidList
    <3>3. new \in CallType /\ CallInv(new)
      BY Zenon, <1>2, <2>1, <3>2 DEF CallType, CallInv
    <3>4. CallsInv'
      BY Zenon, <2>3, <3>3, CallsSet
    <3>5. CASE c.strategy # "round_robin"
      BY Zenon, <2>1, <2>3, <3>4, <3>5, TablesStay
    <3>6. CASE c.strategy = "round_robin"
      <4> DEFINE st == states[c.obj]
                 turn == Turn(st, c.list, c.list[k][1])
      <4>1. c.obj \in 0 .. MaxStates /\ st \in StateType /\ Even(st) /\ c.list # <<>>
        BY Zenon, <1>2, <2>1 DEF TablesInv, CallType, CallInv
      <4>2. turn \in StateType /\ Even(turn) /\ turn.strategy = st.strategy
        BY Zenon, <1>2, <3>1, <3>6, <4>1, TurnKeepsEven
      <4>3. states' = [states EXCEPT ![c.obj] = turn]
        BY Zenon, <2>3, <3>6
      <4> HIDE DEF turn
      <4>4. /\ states' \in [0 .. MaxStates -> StateType] /\ \A o \in 0 .. MaxStates : Even(states'[o])
            /\ \A o \in 0 .. MaxStates : states'[o].strategy = states[o].strategy
        BY Zenon, <4>1, <4>2, <4>3 DEF TablesInv
      <4>5. TablesInv'
        BY Zenon, <2>1, <4>4 DEF TablesInv
      <4> QED BY Zenon, <3>4, <4>5
    <3> QED BY Zenon, <3>5, <3>6
  <2> QED BY Zenon, <1>7, <2>2, <2>3 DEF Select
<1>8. CASE Deliver(i)
  <2>1. PICK at \in {"accepted", "refused"} : Set(i, [Over EXCEPT !.at = at])
    BY Zenon, <1>8 DEF Deliver
  <2>2. TablesInv'
    BY Zenon, <1>8, TablesStay DEF Deliver
  <2>3. [Over EXCEPT !.at = at] \in CallType /\ CallInv([Over EXCEPT !.at = at])
    BY Zenon, OverOK DEF Over, CallType, CallInv
  <2> QED BY Zenon, <2>1, <2>2, <2>3, CallsSet
<1> QED BY Zenon, <1>1, <1>3, <1>4, <1>5, <1>6, <1>7, <1>8

LEMMA RoutersNext == LifeTypeOK /\ RoutersInv /\ [Next]_vars => LifeTypeOK' /\ RoutersInv'
<1> SUFFICES ASSUME LifeTypeOK, RoutersInv, [Next]_vars PROVE LifeTypeOK' /\ RoutersInv'
  OBVIOUS
<1>1. CASE UNCHANGED routerVars
  <2>1. TablesInv'
    BY Zenon, <1>1, TablesStay DEF routerVars, RoutersInv
  <2>2. CallsInv'
    BY Zenon, <1>1 DEF routerVars, RoutersInv, CallsInv
  <2> QED BY Zenon, <2>1, <2>2, LifeNext DEF RoutersInv
<1> QED BY Zenon, <1>1, LifeNext, PartsApart, PoolKeeps, ServiceKeeps, CallsKeep

\* For every pool, service, list of workers and number of calls, round-robin gives no
\* worker more than one turn more than another (rrNext in runtime.go and
\* cluster_router.go).
THEOREM RoundRobinIsEven == Spec => []RoundRobinEven
<1>1. RoutersInv => RoundRobinEven
  <2> SUFFICES ASSUME RoutersInv, NEW o \in 0 .. MaxStates,
                      NEW i \in 1 .. Len(states[o].run.list), NEW j \in 1 .. Len(states[o].run.list)
               PROVE  states[o].run.took[states[o].run.list[i][1]] <= states[o].run.took[states[o].run.list[j][1]] + 1
    BY Zenon DEF RoundRobinEven
  <2> DEFINE run == states[o].run
             n == Len(run.list)
             took == [p \in 0 .. n - 1 |-> run.took[run.list[p + 1][1]]]
  <2>1. states[o] \in StateType /\ Even(states[o])
    BY Zenon DEF RoutersInv, TablesInv
  <2>2. run.list \in Seq(Pid) /\ n \in Nat
    BY <2>1 DEF StateType, RunType, PidList
  <2>3. run.list # <<>>
    BY <2>2
  <2>4. EvenTo(states[o].next % n, n, took)
    BY Zenon, <2>1, <2>3 DEF Even
  <2>5. i - 1 \in 0 .. n - 1 /\ j - 1 \in 0 .. n - 1 /\ (i - 1) + 1 = i /\ (j - 1) + 1 = j
    BY <2>2
  <2>6. took[i - 1] = run.took[run.list[i][1]] /\ took[j - 1] = run.took[run.list[j][1]]
    BY Zenon, <2>5
  <2> HIDE DEF took
  <2>7. took[i - 1] <= took[j - 1] + 1
    BY <2>4, <2>5 DEF EvenTo, One
  <2> QED BY Zenon, <2>6, <2>7
<1> QED BY <1>1, RoutersInitially, RoutersNext, PTL DEF Spec

\* What resolve answers is what the rules mean.
LEMMA ResolveTakes ==
  ASSUME NEW ar \in RuleType, NEW m \in Message
  PROVE  resolve(ar, m) \in {"no_rules", "exact", "fallback"} <=> Takes(ar, m)
<1>1. ar = [exact |-> {}, fallback |-> FALSE] <=> ar.exact = {} /\ ~ar.fallback
  BY DEF RuleType
<1>2. m.type \notin {r[1] : r \in ar.exact} <=> ~ \E r \in ar.exact : r[1] = m.type
  OBVIOUS
<1> QED BY Zenon, <1>1, <1>2 DEF resolve, Takes

\* For every set of rules, messages and interleaving of calls, a routed message is
\* accepted exactly when its worker runs and the worker's rules mean so (resolve in
\* routing.go).
THEOREM RulesAlwaysDecide == Spec => RulesDecide
<1> DEFINE Decide(i) ==
             LET c == route[i] IN
             c.at = "deliver" /\ c.to[2] = 0 /\ route'[i].at # "deliver" =>
               (route'[i].at = "accepted" <=> up[c.to[1]] /\ Takes(rules[c.to[1]], c.msg))
<1>1. ASSUME RoutersInv, [Next]_vars, NEW i \in 1 .. Len(route) PROVE Decide(i)
  <2> DEFINE c == route[i]
  <2>1. route \in Seq(CallType) /\ Len(route) \in Nat
    BY <1>1 DEF RoutersInv, CallsInv
  <2>2. ASSUME route'[i] = route[i] PROVE Decide(i)
    BY Zenon, <2>2
  <2>3. ASSUME NEW x, route' = Append(route, x) PROVE Decide(i)
    BY <2>1, <2>2, <2>3
  <2>4. CASE UNCHANGED route
    BY Zenon, <2>2, <2>4
  <2>5. CASE PoolCommand
    <3>1. ASSUME NEW m \in Message, Route(m) PROVE Decide(i)
      BY Zenon, <2>3, <3>1 DEF Route
    <3>2. PoolCommand => UNCHANGED route \/ \E m \in Message : Route(m)
      BY Zenon DEF PoolCommand, ConfigureRouter, RegisterTypeRoute, RegisterFallbackRoute, StopHub
    <3> QED BY Zenon, <2>4, <2>5, <3>1, <3>2
  <2>6. CASE ServiceCommand
    <3>1. ASSUME NEW m \in Message, SendWith(m) PROVE Decide(i)
      BY Zenon, <2>3, <3>1 DEF SendWith
    <3>2. ServiceCommand => UNCHANGED route \/ \E m \in Message : SendWith(m)
      BY Zenon DEF ServiceCommand, Configure, Join, Leave
    <3> QED BY Zenon, <2>4, <2>6, <3>1, <3>2
  <2>7. CASE RouterStep
    <3>1. PICK j \in 1 .. Len(route) :
            filterByNodeMeta(j) \/ applyPreferences(j) \/ LookUp(j) \/ MakeState(j) \/ Select(j) \/ Deliver(j)
      BY Zenon, <2>7 DEF RouterStep
    <3>2. \E x : Set(j, x)
      BY Zenon, <3>1 DEF filterByNodeMeta, applyPreferences, LookUp, MakeState, Select, Deliver
    <3>3. CASE j # i
      BY <2>1, <2>2, <3>2, <3>3 DEF Set
    <3>4. CASE j = i /\ ~Deliver(j)
      BY Zenon, <3>1, <3>4 DEF filterByNodeMeta, applyPreferences, LookUp, MakeState, Select
    <3>5. CASE j = i /\ Deliver(i) /\ c.to[2] = 0
      <4> DEFINE taken == up[c.to[1]] /\ resolve(rules[c.to[1]], c.msg) \in {"no_rules", "exact", "fallback"}
                 new == [Over EXCEPT !.at = IF taken THEN "accepted" ELSE "refused"]
      <4>1. c.at = "deliver" /\ Set(i, new)
        BY Zenon, <3>5 DEF Deliver
      <4>2. c \in CallType /\ CallInv(c)
        BY <1>1 DEF RoutersInv, CallsInv
      <4>3. c.to \in Pid /\ c.msg \in Message
        BY Zenon, <4>1, <4>2 DEF CallInv
      <4>4. c.to[1] \in Subscriber
        BY Zenon, <4>3 DEF Pid
      <4>5. rules[c.to[1]] \in RuleType
        BY Zenon, <1>1, <4>4 DEF RoutersInv, TablesInv
      <4>6. taken <=> up[c.to[1]] /\ Takes(rules[c.to[1]], c.msg)
        BY Zenon, <4>3, <4>5, ResolveTakes
      <4> HIDE DEF taken
      <4>7. route'[i].at = IF taken THEN "accepted" ELSE "refused"
        BY <2>1, <4>1 DEF Set, Over
      <4> QED BY Zenon, <4>6, <4>7
    <3> QED BY Zenon, <3>1, <3>3, <3>4, <3>5
  <2> QED BY Zenon, <1>1, <2>4, <2>5, <2>6, <2>7, PartsApart DEF routerVars
<1>2. RoutersInv /\ [Next]_vars => [\A i \in 1 .. Len(route) : Decide(i)]_routerVars
  BY Zenon, <1>1
<1> QED BY <1>2, RoutersInitially, RoutersNext, PTL DEF Spec, RulesDecide
-----------------------------------------------------------------------------
(* Cron *)

LEMMA JobsAreCounted == JobsCounted
<1> SUFFICES ASSUME NEW D \in SUBSET Job PROVE Cardinality(D) \in Nat /\ (D # {} => Cardinality(D) > 0)
  BY Zenon DEF JobsCounted
<1>1. IsFiniteSet(1 .. MaxJobs)
  BY FS_Interval, CronAssumption
<1>2. IsFiniteSet(D)
  BY Zenon, <1>1, FS_Subset DEF Job
<1>3. Cardinality(D) \in Nat /\ (Cardinality(D) = 0 => D = {})
  BY Zenon, <1>2, FS_CardinalityType, FS_EmptySet
<1> QED BY <1>3

LEMMA CronAlways ==
  /\ Init => CronInv
  /\ CronInv /\ [Next]_vars => CronInv'
<1>1. ASSUME Init PROVE CronInv
  BY Zenon, <1>1, CronInitially DEF Init
<1>2. ASSUME CronInv, [Next]_vars PROVE CronInv'
  BY Zenon, <1>2, PartsApart, CronKeeps, JobsAreCounted
<1> QED BY Zenon, <1>1, <1>2

\* For every number of nodes, subscribers, jobs and moves of the singleton, a service
\* that inherited nothing can stop each of its jobs (removeLocked and handleDown in
\* cron_broker.go).
THEOREM JobsAreIndexed == Spec => []JobsIndexed
<1>1. CronInv => JobsIndexed
  BY Zenon, CronMeans
<1> QED BY <1>1, CronAlways, PTL DEF Spec

\* Where the cron actor has a PID and has not moved away, no job outlives the stop of
\* the subscriber it watches, for every order of commands, stops, returns and moves
\* (handleSubscribe, restoreFromHandoff and handleDown in cron_broker.go).
THEOREM JobsAreWatched == Spec => []JobsWatched
<1>1. CronInv => JobsWatched
  BY Zenon, CronMeans
<1> QED BY <1>1, CronAlways, PTL DEF Spec

\* A cancelled job sends at most the tick under way (runSchedule in cron_broker.go).
THEOREM AtMostOneLateTick == Spec => []OneLateTick
<1>1. CronInv => OneLateTick
  BY Zenon, CronMeans
<1> QED BY <1>1, CronAlways, PTL DEF Spec
-----------------------------------------------------------------------------
(* Publish-subscribe *)

LEMMA PubSubAlways ==
  /\ Init => LifeTypeOK /\ PubSubInv
  /\ LifeTypeOK /\ PubSubInv /\ [Next]_vars => LifeTypeOK' /\ PubSubInv'
<1>1. ASSUME Init PROVE LifeTypeOK /\ PubSubInv
  BY Zenon, <1>1, RoutersInitially, PubSubInitially DEF Init
<1>2. ASSUME LifeTypeOK, PubSubInv, [Next]_vars PROVE LifeTypeOK' /\ PubSubInv'
  BY Zenon, <1>2, LifeNext, PartsApart, PubSubKeeps
<1> QED BY Zenon, <1>1, <1>2

\* Whatever patterns, topics and subscribers there are, and after every sequence of
\* subscriptions and unsubscriptions, match finds for a topic exactly the subscribers
\* the index holds under a pattern that means the topic, patterns that end in + apart
\* (insert, match and rebuildTrieLocked in pubsub_trie.go and pubsub_broker.go).
THEOREM TrieAlwaysMatchesIndex == Spec => []TrieMatchesIndex
<1>1. PubSubInv => TrieMatchesIndex
  BY Zenon, PubSubMeans
<1> QED BY <1>1, PubSubAlways, PTL DEF Spec

\* For every number of nodes, subscribers and publications, and for each of the three
\* adapters, a subscriber is sent a publication at most once, whatever is lost and
\* however subscriptions change meanwhile (handlePublish and dispatchPublish in
\* pubsub_broker.go, produce in pubsub_adapter_gossip.go).
THEOREM PublicationsSentOnce == Spec => []PublishedOnce
<1>1. PubSubInv => PublishedOnce
  BY Zenon, PubSubMeans
<1> QED BY <1>1, PubSubAlways, PTL DEF Spec

\* The route map names a node for exactly the patterns it has subscribers for, in the
\* node's replica and once merged, until a membership event removes its routes
\* (NotifySubscribe and NotifyUnsubscribe of the CRDT adapter).
THEOREM RoutesAlwaysExact == Spec => []RoutesExact
<1>1. PubSubInv => RoutesExact
  BY Zenon, PubSubMeans
<1> QED BY <1>1, PubSubAlways, PTL DEF Spec
=============================================================================
