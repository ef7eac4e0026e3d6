----------------------------- MODULE ClusterLinks -----------------------------
(***************************************************************************)
(* The peers and connections of one node (cluster.go) and the way of an    *)
(* envelope over the nodes (SendRemote, and Dispatch of                    *)
(* inbound_handler.go, which sends on what is for another node).           *)
(*                                                                         *)
(* A lock guards the tables and no lock is held over a call of the         *)
(* transport, so dialPeer, ensureConnection and SendRemote take several    *)
(* steps.  The other nodes are seen only as they pass an envelope on, each *)
(* with a view of the members of its own.                                  *)
(***************************************************************************)
EXTENDS RingTopology

VARIABLES
  node,      \* "started", "stopping" once Stop has closed the connections, "stopped"
  topology,  \* "full" or "ring"
  peers,     \* Cluster.peers: the tag of each peer, NoPeer for one not known
  conns,     \* Cluster.conns: "none", "out" (dialled), "in" (accepted), "astray"
             \* (accepted, and another node's), "shut" (dialled, and closed)
  open,      \* outbound connections to each peer that were not closed
  dial,      \* the goroutine of dialPeer: "no", "dialing", "dialed"
  send,      \* where SendRemote is, the hop it chose and the connection it holds
  env        \* the envelope on its way: the node it is at and its target

linkVars == <<node, topology, peers, conns, open, dial, send, env>>
links == <<peers, conns, open, dial>>

NoPeer == 2
NoEnvelope == [at |-> None, target |-> None]
NotSending == [at |-> "idle", hop |-> None, conn |-> "none"]

Present == {p \in Peer : peers[p] # NoPeer}
memberList(S) == S \cup {Self}

\* What the ring says for each set of peers, as relations: whom to connect to, and
\* the hop to each target.
RingLinks  == UNION {{S} \X RingShouldConnect(memberList(S), Self) : S \in SUBSET Peer}
RingRoutes == {<<S, target, RingRoute(memberList(S), Self, target)>> : S \in SUBSET Peer, target \in Peer}

ShouldConnect(S) ==
  IF topology = "full" THEN FullShouldConnect(memberList(S), Self) ELSE {p \in Peer : <<S, p>> \in RingLinks}
Route(S, target) ==
  IF topology = "full" THEN FullRoute(memberList(S), target)
  ELSE CHOOSE hop \in Peer \cup {None} : <<S, target, hop>> \in RingRoutes

LinksInit(settled) ==
  /\ node = "started"
  /\ topology \in {"full", "ring"}
  /\ peers = [p \in Peer |-> IF p \in settled THEN 0 ELSE NoPeer]
  /\ conns = [p \in Peer |-> IF p \in ShouldConnect(settled) THEN "out" ELSE "none"]
  /\ open = [p \in Peer |-> IF p \in ShouldConnect(settled) THEN 1 ELSE 0]
  /\ dial = [p \in Peer |-> "no"]
  /\ send = NotSending
  /\ env = NoEnvelope

\* Closing the connections of C: the ones that were dialled, for a stream that was
\* accepted ends with its handler only.  Whoever holds one finds it closed.
Closed(C) == [p \in Peer |-> IF p \in C /\ conns[p] = "out" THEN open[p] - 1 ELSE open[p]]
Holding(C) == IF send.conn = "out" /\ send.hop \in C THEN [send EXCEPT !.conn = "shut"] ELSE send
-----------------------------------------------------------------------------
(* Membership                                                              *)

\* handleMemberEvent and reconcileConnectionsLocked, under the lock: the table of
\* peers, the connection of one that goes, then the connections the topology wants.
Reconciled(view, gone) ==
  LET want == ShouldConnect({p \in Peer : view[p] # NoPeer})
      drop == {p \in Peer : conns[p] # "none" /\ (p = gone \/ p \notin want)}
      kept == [p \in Peer |-> IF p \in drop THEN "none" ELSE conns[p]]
  IN
  /\ peers' = view
  /\ conns' = kept
  /\ open' = Closed(drop)
  /\ send' = Holding(drop)
  /\ dial' = [p \in Peer |-> IF p \in want /\ kept[p] = "none" /\ dial[p] = "no" THEN "dialing" ELSE dial[p]]
  /\ UNCHANGED <<node, topology, env>>

handleMemberEvent(ev) ==
  Reconciled([peers EXCEPT ![ev.peer] = IF ev.type \in {"leave", "failed"} THEN NoPeer ELSE ev.tag],
             IF ev.type \in {"leave", "failed"} THEN ev.peer ELSE None)

\* The metadata of a peer that is known, when its tags differ.
UpdatePeerMeta(p, t) ==
  /\ peers[p] \notin {NoPeer, t}
  /\ peers' = [peers EXCEPT ![p] = t]
  /\ UNCHANGED <<node, topology, conns, open, dial, send, env>>
-----------------------------------------------------------------------------
(* Connections                                                             *)

Conn(p, c) == conns' = [conns EXCEPT ![p] = c]
Opened(p, n) == open' = [open EXCEPT ![p] = n]

\* The transport dials until it is closed (GRPCTransport.Dial keeps no deadline).
dialReturns(p, ok) ==
  /\ dial[p] = "dialing"
  /\ IF ok THEN node # "stopped" /\ Opened(p, open[p] + 1) ELSE UNCHANGED open
  /\ dial' = [dial EXCEPT ![p] = IF ok THEN "dialed" ELSE "no"]
  /\ UNCHANGED <<node, topology, peers, conns, send, env>>

\* A slip: the connection is stored over the one that is there.
dialPeer_Overwrites(p) ==
  /\ dial[p] = "dialed"
  /\ dial' = [dial EXCEPT ![p] = "no"]
  /\ Conn(p, "out")
  /\ UNCHANGED <<node, topology, peers, open, send, env>>

\* The connection is closed again when there is one by now; it is stored for a peer
\* that has left meanwhile, too.
dialPeer(p) ==
  /\ dial[p] = "dialed"
  /\ dial' = [dial EXCEPT ![p] = "no"]
  /\ IF conns[p] = "none" THEN Conn(p, "out") /\ UNCHANGED open
     ELSE Opened(p, open[p] - 1) /\ UNCHANGED conns
  /\ UNCHANGED <<node, topology, peers, send, env>>

\* A stream is stored under the sender of its first envelope, which is the node that
\* opened it unless that node passed the envelope on.
OnConnectionEstablished(p, c) ==
  /\ node = "started" /\ conns[p] = "none"
  /\ c \in {"in", "astray"}
  /\ Conn(p, c)
  /\ UNCHANGED <<node, topology, peers, open, dial, send, env>>
-----------------------------------------------------------------------------
(* SendRemote                                                              *)

Goto(at, hop, conn) == send' = [at |-> at, hop |-> hop, conn |-> conn]
Ends == send' = NotSending /\ env' = NoEnvelope

\* Send: it ends in SendRemote, as SendAsk, SendTo and the gossip round do.
Send(target) ==
  /\ env = NoEnvelope
  /\ env' = [at |-> Self, target |-> target]
  /\ Goto("direct", None, "none")
  /\ UNCHANGED <<node, topology, links>>

\* Another node sends.
PeerSends(p, target) ==
  /\ env = NoEnvelope
  /\ env' = [at |-> p, target |-> target]
  /\ UNCHANGED <<node, topology, links, send>>

\* An envelope from another node is delivered here, or sent on.
Dispatch ==
  /\ env.at = Self /\ send.at = "idle"
  /\ IF env.target = Self THEN Ends ELSE Goto("direct", None, "none") /\ UNCHANGED env
  /\ UNCHANGED <<node, topology, links>>

directConnection ==
  /\ send.at = "direct"
  /\ IF conns[env.target] # "none" THEN Goto("send", env.target, conns[env.target])
     ELSE Goto("route", None, "none")
  /\ UNCHANGED <<node, topology, links, env>>

nextHop ==
  /\ send.at = "route"
  /\ LET hop == Route(Present, env.target) IN
     IF hop = None THEN Ends
     ELSE Goto(IF hop = env.target THEN "ensure" ELSE "hop", hop, "none") /\ UNCHANGED env
  /\ UNCHANGED <<node, topology, links>>

hopConnection ==
  /\ send.at = "hop"
  /\ Goto(IF conns[send.hop] = "none" THEN "ensure" ELSE "send", send.hop, conns[send.hop])
  /\ UNCHANGED <<node, topology, links, env>>

\* ensureConnection, up to the answer of the dial.
ensureDials(ok) ==
  /\ send.at = "ensure"
  /\ IF ok /\ peers[send.hop] # NoPeer /\ node # "stopped"
     THEN Goto("store", send.hop, "none") /\ Opened(send.hop, open[send.hop] + 1) /\ UNCHANGED env
     ELSE Ends /\ UNCHANGED open
  /\ UNCHANGED <<node, topology, peers, conns, dial>>

\* ensureConnection, from the lock on: a connection that came first is used.
ensureConnection ==
  /\ send.at = "store"
  /\ Goto("send", send.hop, IF conns[send.hop] = "none" THEN "out" ELSE conns[send.hop])
  /\ IF conns[send.hop] = "none" THEN Conn(send.hop, "out") /\ UNCHANGED open
     ELSE Opened(send.hop, open[send.hop] - 1) /\ UNCHANGED conns
  /\ UNCHANGED <<node, topology, peers, dial, env>>

\* The envelope reaches the node at the other end, or is lost when that is down.
sent(end, arrives) ==
  /\ send.at = "send" /\ send.conn # "shut"
  /\ send.conn = "astray" <=> end # send.hop
  /\ send' = NotSending
  /\ env' = IF end = env.target \/ ~arrives THEN NoEnvelope ELSE [env EXCEPT !.at = end]
  /\ UNCHANGED <<node, topology, links>>

\* The send fails, and removeConnection closes what is stored for the hop by now.
sendFailed ==
  /\ send.at = "send"
  /\ Conn(send.hop, "none")
  /\ open' = Closed({send.hop})
  /\ Ends
  /\ UNCHANGED <<node, topology, peers, dial>>

\* The hops a node may choose for a target, over every view it may have.
Hops ==
  {<<way[1], way[2], RingRoute(view \cup {way[1]}, way[1], way[2])>> : way \in Node \X Node, view \in SUBSET Node}

\* Dispatch at another node: to the target over a connection it has, to the next
\* hop of its own view, or nowhere.  Its streams are taken to be under the right names.
Forward ==
  /\ env.at \in Peer
  /\ \E hop \in Node \cup {None} :
       /\ IF topology = "full" THEN hop \in {None, env.target} ELSE <<env.at, env.target, hop>> \in Hops
       /\ env' = IF hop \in {None, env.target} \ {Self} THEN NoEnvelope ELSE [env EXCEPT !.at = hop]
  /\ UNCHANGED <<node, topology, links, send>>
-----------------------------------------------------------------------------
(* Stop                                                                    *)

\* The connections of a snapshot are closed, and stay in the table.
Stop ==
  /\ node = "started"
  /\ node' = "stopping"
  /\ conns' = [p \in Peer |-> IF conns[p] = "out" THEN "shut" ELSE conns[p]]
  /\ open' = Closed(Peer)
  /\ send' = Holding(Peer)
  /\ UNCHANGED <<topology, peers, dial, env>>

\* Provider.Stop and Transport.Close.
StopEnds ==
  /\ node = "stopping"
  /\ node' = "stopped"
  /\ UNCHANGED <<topology, links, send, env>>

LinksStep(reached) ==
  \/ \E p \in Peer : dialReturns(p, FALSE) \/ (p \in reached /\ dialReturns(p, TRUE)) \/ dialPeer(p)
  \/ Dispatch \/ directConnection \/ nextHop \/ hopConnection \/ ensureConnection \/ sendFailed
  \/ ensureDials(FALSE) \/ (send.hop \in reached /\ ensureDials(TRUE)) \/ (\E p \in Peer : sent(p, p \in reached))
  \/ Forward
  \/ StopEnds
=============================================================================
