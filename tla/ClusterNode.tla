----------------------------- MODULE ClusterNode -----------------------------
(***************************************************************************)
(* One node of a cluster as cluster.Start builds it: a provider fills the  *)
(* event channel, the membership loop takes an event at a time, changes    *)
(* peers and connections under the lock and calls the callback after it,   *)
(* and the callback tells the services.  Metadata gossip changes a peer    *)
(* and calls the same callback from a goroutine of its own.                *)
(***************************************************************************)
EXTENDS Providers, ClusterLinks, NodeServices

CONSTANTS
  Volatile,       \* the peers that start and stop; the others stay up
  MaxChanges,     \* bound, for each use a client makes of the node: starts, stops and
                  \* tags of peers, and what the network does to probes,
                  \* announcements, gossip and replication
  MaxCommands     \* bound: sends, names, daemons, inbound connections and seeds

ASSUME ClusterAssumption ==
  /\ Volatile \subseteq Peer
  /\ Registered \in [Name -> Settled \cup {Self, None}]

VARIABLES
  client,     \* what the clients of this node use: "send", "names" or "daemons"
  changes, commands,
  called,     \* the event whose callback the membership loop is about to call
  gossiped,   \* the peer whose update metadata gossip is about to call back
  crossed,    \* history: the peers that went while such an update was under way
  retold      \* history: the peers whose metadata came by gossip

bookkeeping == <<client, changes, commands, called, gossiped, crossed, retold>>
vars == <<providerVars, linkVars, serviceVars, bookkeeping>>

NoEvent == Event("none", None, 0)

Init ==
  /\ ProviderInit
  /\ LinksInit(Settled)
  /\ ServicesInit(Settled)
  /\ client \in {"send", "names", "daemons"}
  /\ topology = "ring" <=> client = "send"
  /\ client = "send" => kind = "poll"
  /\ changes = 0
  /\ commands = 0
  /\ called = NoEvent
  /\ gossiped = None
  /\ crossed = {}
  /\ retold = {}
-----------------------------------------------------------------------------
\* The loop is in handleMemberEvent until its callback, and the supervisor in it,
\* are done.  After Stop it chooses between the event and the end of its context.
membershipLoop ==
  /\ called = NoEvent /\ plan = NoPlan /\ events # <<>>
  /\ handleMemberEvent(Head(events))
  /\ events' = Tail(events)
  /\ called' = Head(events)
  /\ crossed' = IF Head(events).peer = gossiped /\ Head(events).type \in {"leave", "failed"}
                THEN crossed \cup {gossiped} ELSE crossed
  /\ retold' = retold \ {Head(events).peer}
  /\ UNCHANGED <<outside, known, dropped, serviceVars, client, changes, commands, gossiped>>

Callback ==
  /\ called # NoEvent
  /\ OnMemberEvent(called, Present)
  /\ called' = NoEvent
  /\ crossed' = IF called.peer # gossiped /\ called.type \in {"join", "leave", "failed"}
                THEN crossed \ {called.peer} ELSE crossed
  /\ UNCHANGED <<providerVars, linkVars, client, changes, commands, gossiped, retold>>

\* MetadataGossip.receive: the tags a peer has, or had when the message was made.
receive(p, t) ==
  /\ gossiped = None
  /\ UpdatePeerMeta(p, t)
  /\ gossiped' = p
  /\ retold' = retold \cup {p}
  /\ crossed' = crossed
  /\ UNCHANGED <<providerVars, serviceVars, client, commands, called>>

GossipCallback ==
  /\ gossiped # None
  /\ OnMemberEvent(Event("updated", gossiped, 0), Present)
  /\ gossiped' = None
  /\ UNCHANGED <<providerVars, linkVars, client, changes, commands, called, crossed, retold>>
-----------------------------------------------------------------------------
Change ==
  /\ changes < MaxChanges[client]
  /\ changes' = changes + 1
  /\ \/ /\ \/ \E p \in Volatile : PeerUp(p) \/ PeerDown(p) \/ PeerRetags(p)
           \/ node = "started" /\ ProviderFault
        /\ UNCHANGED <<linkVars, serviceVars, client, commands, called, gossiped, crossed, retold>>
     \/ client = "names" /\ \E p \in Volatile, t \in {0, 1} : t <= tag[p] /\ receive(p, t)
     \/ /\ client = "names"
        /\ \E x \in Name, p \in Volatile : MergePut(x, p, p \in Present)
        /\ UNCHANGED <<providerVars, linkVars, client, commands, called, gossiped, crossed, retold>>

Command ==
  /\ commands < MaxCommands[client]
  /\ commands' = commands + 1
  /\ \/ /\ \/ client = "send" /\ \E p \in Peer : Send(p)
           \/ client = "send" /\ \E p \in Up, target \in Node : p # target /\ PeerSends(p, target)
           \/ client = "send" /\ \E p \in Up : OnConnectionEstablished(p, "in") \/ OnConnectionEstablished(p, "astray")
        /\ UNCHANGED <<providerVars, serviceVars>>
     \/ Stop /\ StopDaemons /\ UNCHANGED providerVars
     \/ /\ client = "names" /\ NamesCommand
        /\ UNCHANGED <<providerVars, linkVars>>
     \/ /\ client = "daemons" /\ DaemonsCommand
        /\ UNCHANGED <<providerVars, linkVars>>
     \/ /\ kind = "fixed" /\ \E p \in Peer : AddSeed(p)
        /\ UNCHANGED <<linkVars, serviceVars>>
  /\ UNCHANGED <<client, changes, called, gossiped, crossed, retold>>

\* The provider works until Provider.Stop.
ProviderWorks(step) ==
  /\ node = "started"
  /\ step
  /\ UNCHANGED <<linkVars, serviceVars, bookkeeping>>

\* The goroutine of the membership loop, with the callbacks it makes.
MembershipWorks ==
  \/ membershipLoop
  \/ Callback
  \/ CommitDecisions /\ UNCHANGED <<providerVars, linkVars, bookkeeping>>

Step ==
  \/ \E p \in Peer : ProviderWorks(Probe(p) \/ Announced(p))
  \/ ProviderWorks(Poll \/ Sweep)
  \/ MembershipWorks
  \/ GossipCallback
  \/ client = "send" /\ LinksStep(Up) /\ UNCHANGED <<providerVars, serviceVars, bookkeeping>>

Next == Change \/ Command \/ Step

\* The tickers of the provider, of which kind allows one, and the membership loop,
\* until Stop.
Fairness ==
  /\ \A p \in Peer : WF_vars(ProviderWorks(Probe(p) \/ Announced(p)))
  /\ WF_vars(ProviderWorks(Poll \/ Sweep))
  /\ WF_vars(node = "started" /\ MembershipWorks)

Spec == Init /\ [][Next]_vars /\ Fairness
-----------------------------------------------------------------------------
\* What the view of a peer will be after the events in the channel.
Pending(p) == {i \in 1 .. Len(events) : events[i].peer = p}
Final(p) ==
  LET last == CHOOSE i \in Pending(p) : \A j \in Pending(p) : j <= i IN
  IF Pending(p) = {} THEN peers[p]
  ELSE IF events[last].type \in {"leave", "failed"} THEN NoPeer ELSE events[last].tag

\* The events of a provider tell all there is to know: after the ones in the channel
\* the cluster's peers are the members the provider counts as alive, with their tags
\* unless gossip told others, whatever the order of joins, updates, failures and
\* leaves (handleProbeSuccess, diffMembers, handleAnnouncement, sweep,
\* handleMemberEvent).  A dropped event ends that.
ViewFollowsProvider ==
  node = "started" /\ ~dropped =>
    \A p \in Peer :
      IF known[p].st = "alive"
      THEN Final(p) # NoPeer /\ (p \notin retold => Final(p) = known[p].tag)
      ELSE Final(p) = NoPeer

\* An envelope that is passed on from node to node gets closer to its target in the
\* hash space with every hop, although each node routes by a view of its own and
\* nothing counts the hops (Route, SendRemote, Dispatch); but for a stream that is
\* stored under the name of a node that did not open it.
ForwardShrinksArc ==
  [][env # NoEnvelope /\ env' # NoEnvelope /\ env'.at # env.at /\ send.conn # "astray"
       => env'.target = env.target /\ Arc(env'.at, env.target) < Arc(env.at, env.target)]_vars

One(b) == IF b THEN 1 ELSE 0

\* While the node runs, a connection it dialled and did not close is in its table or
\* in the hands of the goroutine that dialled it, whichever of dialPeer,
\* ensureConnection, removeConnection and the membership loop come together; and an
\* open replicated state belongs to a daemon that runs.
NothingLeaked ==
  /\ node = "started" =>
       \A p \in Peer : open[p] = One(conns[p] = "out") + One(dial[p] = "dialed")
                                  + One(send.at = "store" /\ send.hop = p)
  /\ \A d \in Daemon : daemons[d].states = One(d \in Replicated /\ daemons[d].running)

\* When no callback is under way the services agree with the peers: the election
\* counts them and no other, the resolver reaches them and no other, and the registry
\* has no name of a node that has gone, but one that it put after that.  An update by
\* gossip that crosses the departure of its peer ends the first, a supervisor, whose
\* callback takes the place of the one of Start, the rest.
ServicesFollowView ==
  node = "started" /\ called = NoEvent /\ gossiped = None =>
    /\ members \ crossed = (Present \cup {Self}) \ crossed
    /\ ~supervisor =>
         /\ reach \ crossed = Present \ crossed
         /\ \A x \in Name : names[x] \in Present \cup {Self, None} \/ x \in late

\* Once the peers no longer change and the network keeps still, the view of a running
\* node becomes and stays the set of the peers that run (heartbeatLoop, pollLoop,
\* announceLoop, sweepLoop, membershipLoop), but for a seed it was not given.
ViewConverges ==
  <>[](node = "started" /\ ~dropped => Present = Up \cap seeds)
=============================================================================
