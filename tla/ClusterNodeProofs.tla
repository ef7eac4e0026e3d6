-------------------------- MODULE ClusterNodeProofs --------------------------
(***************************************************************************)
(* Proofs, for every set of nodes and names, place on the ring, fanout,    *)
(* threshold, capacity and bound, of the properties of module ClusterNode: *)
(* the next hop of the ring is closer to its target, and so is a forwarded *)
(* envelope; no connection or replicated state is leaked; the view follows *)
(* the provider; and the services follow the view.                         *)
(***************************************************************************)
EXTENDS ClusterNode, FiniteSetTheorems, TLAPS

-----------------------------------------------------------------------------
(* The ring *)

\* A set of naturals that is not empty has a least element.
LEMMA LeastNatural ==
  ASSUME NEW T \in SUBSET Nat, T # {}
  PROVE  \E x \in T : \A y \in T : x <= y
<1> DEFINE R == OpToRel(<, Nat)
<1>1. PICK x \in T : \A y \in T : ~(<<y, x>> \in R)
  <2>1. IsWellFoundedOn(R, Nat)
    BY Zenon, NatLessThanWellFounded
  <2> QED BY Zenon, <2>1, WFMin
<1> HIDE DEF R
<1>2. ASSUME NEW y \in T PROVE x <= y
  <2>1. y < x => <<y, x>> \in R
    BY Zenon DEF OpToRel, R
  <2>2. ~(y < x)
    BY Zenon, <1>1, <2>1
  <2> QED BY <2>2
<1> QED BY Zenon, <1>2

\* A distance is a natural number below the size of the hash space, zero from a node
\* to itself only.
LEMMA ArcType ==
  ASSUME NEW a \in Node, NEW b \in Node
  PROVE  /\ Arc(a, b) \in Nat
         /\ Arc(a, b) < Space
         /\ Arc(a, b) = 0 <=> a = b
<1>1. Pos[a] \in 0 .. Space - 1 /\ Pos[b] \in 0 .. Space - 1 /\ Space \in Nat
  BY Zenon, RingAssumption
<1>2. Pos[a] = Pos[b] => a = b
  BY Zenon, RingAssumption
<1> QED BY <1>1, <1>2 DEF Arc

\* Of two nodes the one that is not closer to c has the other on its way to c.
LEMMA ArcThrough ==
  ASSUME NEW a \in Node, NEW b \in Node, NEW c \in Node, NEW y \in Node,
         Arc(a, c) <= Arc(b, c), 0 < Arc(a, y), Arc(a, y) <= Arc(a, c)
  PROVE  0 < Arc(b, y) /\ Arc(b, y) <= Arc(b, c)
<1>1. \A n \in {a, b, c, y} : Pos[n] \in 0 .. Space - 1
  BY Zenon, RingAssumption
<1>2. Space \in Nat
  BY Zenon, RingAssumption
<1> QED BY <1>1, <1>2 DEF Arc

\* What lies between b and c, for a b on the way from a to c, lies between a and c.
LEMMA ArcBeyond ==
  ASSUME NEW a \in Node, NEW b \in Node, NEW c \in Node, NEW y \in Node,
         Arc(a, b) <= Arc(a, c), 0 < Arc(b, y), Arc(b, y) <= Arc(b, c)
  PROVE  0 < Arc(a, y) /\ Arc(a, y) <= Arc(a, c)
<1>1. \A n \in {a, b, c, y} : Pos[n] \in 0 .. Space - 1
  BY Zenon, RingAssumption
<1>2. Space \in Nat
  BY Zenon, RingAssumption
<1> QED BY <1>1, <1>2 DEF Arc

\* The distance in places is a natural number, and grows with the way.
LEMMA DistanceMonotone ==
  ASSUME NEW S \in SUBSET Node, NEW a \in Node, NEW b \in Node, NEW c \in Node, NEW d \in Node,
         Passed(S, a, b) \subseteq Passed(S, c, d)
  PROVE  /\ ringDistance(S, a, b) \in Nat
         /\ ringDistance(S, a, b) <= ringDistance(S, c, d)
         /\ Passed(S, a, b) # Passed(S, c, d) => ringDistance(S, a, b) < ringDistance(S, c, d)
<1>1. IsFiniteSet(Node)
  BY Zenon, RingAssumption
<1>2. Passed(S, c, d) \in SUBSET Node
  BY Zenon DEF Passed
<1>3. IsFiniteSet(Passed(S, c, d))
  BY Zenon, <1>1, <1>2, FS_Subset
<1>4. IsFiniteSet(Passed(S, a, b))
  BY Zenon, <1>3, FS_Subset
<1>5. Cardinality(Passed(S, a, b)) \in Nat /\ Cardinality(Passed(S, c, d)) \in Nat
  BY Zenon, <1>3, <1>4, FS_CardinalityType
<1>6. /\ Cardinality(Passed(S, a, b)) <= Cardinality(Passed(S, c, d))
      /\ Cardinality(Passed(S, c, d)) = Cardinality(Passed(S, a, b)) => Passed(S, c, d) = Passed(S, a, b)
  BY Zenon, <1>3, FS_Subset
<1> QED BY <1>5, <1>6 DEF ringDistance

\* The set of nodes C, if it is not empty, has one that is nearest to the target.
LEMMA ClosestIsNearest ==
  ASSUME NEW S \in SUBSET Node, NEW C \in SUBSET Node, C # {}, NEW target \in Node
  PROVE  /\ Closest(S, C, target) \in C
         /\ \A c \in C : ringDistance(S, Closest(S, C, target), target) <= ringDistance(S, c, target)
<1> DEFINE D == {ringDistance(S, c, target) : c \in C}
<1>1. \A c \in C : ringDistance(S, c, target) \in Nat
  BY Zenon, DistanceMonotone
<1>2. \E x \in D : \A y \in D : x <= y
  <2>1. D \in SUBSET Nat /\ D # {}
    BY Zenon, <1>1
  <2> HIDE DEF D
  <2> QED BY Zenon, <2>1, LeastNatural
<1>3. \E h \in C : \A c \in C : ringDistance(S, h, target) <= ringDistance(S, c, target)
  BY Zenon, <1>2
<1> QED BY Zenon, <1>3 DEF Closest

\* Another member follows a node on the ring: the first one clockwise, a neighbour.
LEMMA SuccessorExists ==
  ASSUME NEW S \in SUBSET Node, NEW self \in S, NEW target \in S, target # self
  PROVE  \E x \in S \ {self} :
           /\ x \in Neighbours(S, self)
           /\ Arc(self, x) <= Arc(self, target)
<1> DEFINE D == {Arc(self, y) : y \in S \ {self}}
<1>1. \E v \in D : \A w \in D : v <= w
  <2>1. D \in SUBSET Nat /\ D # {}
    BY ArcType
  <2> HIDE DEF D
  <2> QED BY Zenon, <2>1, LeastNatural
<1>2. PICK x \in S \ {self} : \A y \in S \ {self} : Arc(self, x) <= Arc(self, y)
  BY Zenon, <1>1
<1>3. Passed(S, self, x) = {x}
  <2>1. ASSUME NEW y \in S, 0 < Arc(self, y), Arc(self, y) <= Arc(self, x)
        PROVE  y = x
    <3>1. y # self
      BY <2>1, ArcType
    <3>2. Arc(self, y) = Arc(self, x)
      BY <1>2, <2>1, <3>1, ArcType
    <3> QED BY <3>2, RingAssumption DEF Arc
  <2>2. 0 < Arc(self, x) /\ Arc(self, x) <= Arc(self, x)
    BY ArcType
  <2> QED BY Zenon, <2>1, <2>2 DEF Passed
<1>4. ringDistance(S, self, x) = 1
  BY Zenon, <1>3, FS_Singleton DEF ringDistance
<1>5. x \in Neighbours(S, self)
  BY <1>4, RingAssumption DEF Neighbours
<1> QED BY Zenon, <1>2, <1>5

\* Every hop that RingTopology.Route chooses is nearer to the target, clockwise in the
\* hash space, than the node that routes, whatever members that node knows, and is a
\* member it knows.  Nothing in the code counts hops: this is what ends a way.
THEOREM RingHopShrinksArc ==
  ASSUME NEW S \in SUBSET Node, NEW self \in S, NEW target \in Node, target # self,
         RingRoute(S, self, target) # None
  PROVE  /\ RingRoute(S, self, target) \in S \ {self}
         /\ Arc(RingRoute(S, self, target), target) < Arc(self, target)
<1>1. target \in S /\ ~(Cardinality(S) < 2)
  BY Zenon DEF RingRoute
<1>2. CASE ringDistance(S, self, target) <= Fanout
  <2>1. RingRoute(S, self, target) = target
    BY Zenon, <1>1, <1>2 DEF RingRoute
  <2> QED BY <1>1, <2>1, ArcType
<1>3. CASE ~(ringDistance(S, self, target) <= Fanout)
  <2> DEFINE C == Neighbours(S, self) \cup buildFingers(S, self)
             h == Closest(S, C, target)
  <2>1. RingRoute(S, self, target) = h
    BY Zenon, <1>1, <1>3 DEF RingRoute
  <2>2. PICK x \in S \ {self} : x \in Neighbours(S, self) /\ Arc(self, x) <= Arc(self, target)
    BY Zenon, <1>1, SuccessorExists
  <2>3. C \subseteq S \ {self}
    BY Zenon DEF Neighbours, buildFingers
  <2>4. h \in C /\ ringDistance(S, h, target) <= ringDistance(S, x, target)
    <3>1. C \in SUBSET Node /\ C # {} /\ x \in C
      BY Zenon, <2>2, <2>3
    <3> HIDE DEF C
    <3> QED BY Zenon, <3>1, ClosestIsNearest
  <2>5. ringDistance(S, x, target) < ringDistance(S, self, target)
    <3>1. 0 < Arc(self, x)
      BY ArcType
    <3>2. x \in Passed(S, self, target)
      BY Zenon, <2>2, <3>1 DEF Passed
    <3>3. x \notin Passed(S, x, target)
      BY ArcType DEF Passed
    <3>4. Passed(S, x, target) \subseteq Passed(S, self, target)
      BY Zenon, <2>2, ArcBeyond DEF Passed
    <3> QED BY Zenon, <3>2, <3>3, <3>4, DistanceMonotone
  <2>6. Arc(h, target) < Arc(self, target)
    <3>1. SUFFICES ASSUME Arc(self, target) <= Arc(h, target) PROVE FALSE
      BY <2>3, <2>4, ArcType
    <3>2. Passed(S, self, target) \subseteq Passed(S, h, target)
      BY <2>3, <2>4, <3>1, ArcThrough DEF Passed
    <3>3. ringDistance(S, self, target) <= ringDistance(S, h, target)
      BY Zenon, <2>3, <2>4, <3>2, DistanceMonotone
    <3>4. /\ ringDistance(S, self, target) \in Nat
          /\ ringDistance(S, h, target) \in Nat
          /\ ringDistance(S, x, target) \in Nat
      BY Zenon, <2>3, <2>4, DistanceMonotone
    <3> QED BY <2>4, <2>5, <3>3, <3>4
  <2> QED BY Zenon, <2>1, <2>3, <2>4, <2>6
<1> QED BY Zenon, <1>2, <1>3

\* Every hop that RingTopology.Route chooses is a node that ShouldConnect asks for with
\* the same members, so that a node that follows its topology need not dial to send.
THEOREM RingHopConnected ==
  ASSUME NEW S \in SUBSET Node, NEW self \in S, NEW target \in Node, target # self,
         RingRoute(S, self, target) # None
  PROVE  RingRoute(S, self, target) \in RingShouldConnect(S, self)
<1> DEFINE C == Neighbours(S, self) \cup buildFingers(S, self)
<1>1. target \in S /\ ~(Cardinality(S) < 2)
  BY Zenon DEF RingRoute
<1>2. RingRoute(S, self, target) \in S \ {self}
  BY Zenon, RingHopShrinksArc
<1>3. RingRoute(S, self, target) \in C
  <2>1. CASE ringDistance(S, self, target) <= Fanout
    <3>1. 0 < Arc(self, target)
      BY ArcType
    <3>2. {target} \subseteq Passed(S, self, target)
      BY <1>1, <3>1, ArcType DEF Passed
    <3>3. IsFiniteSet(Passed(S, self, target))
      BY Zenon, RingAssumption, FS_Subset DEF Passed
    <3>4. Cardinality({target}) <= Cardinality(Passed(S, self, target))
      BY Zenon, <3>2, <3>3, FS_Subset
    <3>5. 1 <= ringDistance(S, self, target) /\ ringDistance(S, self, target) \in Nat
      BY Zenon, <3>3, <3>4, FS_Singleton, FS_CardinalityType DEF ringDistance
    <3>6. target \in Neighbours(S, self)
      BY <1>1, <2>1, <3>5, RingAssumption DEF Neighbours
    <3> QED BY Zenon, <1>1, <2>1, <3>6 DEF RingRoute
  <2>2. CASE ~(ringDistance(S, self, target) <= Fanout)
    <3>1. RingRoute(S, self, target) = Closest(S, C, target)
      BY Zenon, <1>1, <2>2 DEF RingRoute
    <3>2. C \in SUBSET Node /\ C # {}
      BY Zenon, <1>1, SuccessorExists DEF Neighbours, buildFingers
    <3> HIDE DEF C
    <3> QED BY Zenon, <3>1, <3>2, ClosestIsNearest
  <2> QED BY Zenon, <2>1, <2>2
<1> QED BY Zenon, <1>2, <1>3 DEF RingShouldConnect
-----------------------------------------------------------------------------
(* Links *)

LinksType ==
  /\ node \in {"started", "stopping", "stopped"}
  /\ conns \in [Peer -> {"none", "out", "in", "astray", "shut"}]
  /\ open \in [Peer -> Int]
  /\ dial \in [Peer -> {"no", "dialing", "dialed"}]
  /\ send \in [at : {"idle", "direct", "route", "hop", "ensure", "store", "send"},
               hop : Peer \cup {None}, conn : {"none", "out", "in", "astray", "shut"}]
  /\ env \in [at : Node \cup {None}, target : Node \cup {None}]

\* The connections of NothingLeaked.
LinksKept ==
  node = "started" =>
    \A p \in Peer : open[p] = One(conns[p] = "out") + One(dial[p] = "dialed")
                               + One(send.at = "store" /\ send.hop = p)

\* An envelope that another node has is not for that node; the one that SendRemote
\* has is for another node, and the hop it chose is closer to that.
HopCloser ==
  /\ env.at \in Node => env.target \in Node
  /\ env.at \in Peer => env.target # env.at
  /\ send.at # "idle" => env.at = Self /\ env.target \in Peer
  /\ send.at \in {"hop", "ensure", "store", "send"} =>
       send.hop \in Peer /\ Arc(send.hop, env.target) < Arc(Self, env.target)

LinksInv == LinksType /\ LinksKept /\ HopCloser

\* The steps that change a variable of ClusterLinks, and no others do.
LEMMA LinkSteps ==
  ASSUME Next
  PROVE  \/ UNCHANGED linkVars
         \/ \E ev \in {Head(events)} : handleMemberEvent(ev)
         \/ \E p \in Peer, t \in {0, 1} : UpdatePeerMeta(p, t)
         \/ \E p \in Peer : Send(p)
         \/ \E p \in Peer, target \in Node : p # target /\ PeerSends(p, target)
         \/ \E p \in Peer, c \in {"in", "astray"} : OnConnectionEstablished(p, c)
         \/ Stop
         \/ LinksStep(Up)
<1>1. CASE Change
  BY Zenon, <1>1, ClusterAssumption DEF Change, receive
<1>2. CASE Command
  BY Zenon, <1>2 DEF Command, Up
<1>3. CASE Step
  BY Zenon, <1>3 DEF Step, ProviderWorks, MembershipWorks, membershipLoop, Callback, GossipCallback
<1> QED BY Zenon, <1>1, <1>2, <1>3 DEF Next

LEMMA LinksInitially == Init => LinksInv
<1> SUFFICES ASSUME Init PROVE LinksInv
  OBVIOUS
<1> USE DEF Init, LinksInit, NotSending, NoEnvelope
<1>1. LinksType
  BY NodesAssumption DEF LinksType
<1>2. LinksKept
  BY DEF LinksKept, One
<1>3. HopCloser
  BY Zenon, NodesAssumption DEF HopCloser, Peer
<1> QED BY Zenon, <1>1, <1>2, <1>3 DEF LinksInv

\* The hop of a node for a target, by any view that node may have.
LEMMA HopsCloser ==
  ASSUME NEW n \in Node, NEW target \in Node, n # target,
         NEW hop, <<n, target, hop>> \in Hops, hop # None
  PROVE  hop \in Node /\ Arc(hop, target) < Arc(n, target)
<1> DEFINE R(view, way) == RingRoute(view \cup {way[1]}, way[1], way[2])
<1>0. PICK way \in Node \X Node, view \in SUBSET Node :
        <<n, target, hop>> = <<way[1], way[2], R(view, way)>>
  <2> Hops = {<<way[1], way[2], R(view, way)>> : way \in Node \X Node, view \in SUBSET Node}
    BY DEF Hops
  <2> HIDE DEF R
  <2> QED OBVIOUS
<1>1. hop = RingRoute(view \cup {n}, n, target)
  BY Zenon, <1>0
<1>2. view \cup {n} \in SUBSET Node /\ n \in view \cup {n}
  OBVIOUS
<1> QED BY Zenon, <1>1, <1>2, RingHopShrinksArc

\* The hop of this node, by the table of either topology.
LEMMA RouteCloser ==
  ASSUME NEW S \in SUBSET Peer, NEW target \in Peer, Route(S, target) # None
  PROVE  Route(S, target) \in Peer /\ Arc(Route(S, target), target) < Arc(Self, target)
<1>1. target \in Node /\ Self \in Node /\ target # Self
  BY Zenon, NodesAssumption DEF Peer
<1>2. CASE topology = "full"
  <2>1. Route(S, target) = target
    BY Zenon, <1>2 DEF Route, FullRoute
  <2> QED BY <1>1, <2>1, ArcType
<1>3. CASE topology # "full"
  <2> DEFINE hop == RingRoute(memberList(S), Self, target)
  <2>1. memberList(S) \in SUBSET Node /\ Self \in memberList(S)
    BY Zenon, <1>1 DEF memberList, Peer
  <2>2. hop = None \/ (hop \in Peer /\ Arc(hop, target) < Arc(Self, target))
    BY Zenon, <1>1, <2>1, RingHopShrinksArc DEF Peer
  <2> HIDE DEF hop
  <2>3. \A h \in Peer \cup {None} : <<S, target, h>> \in RingRoutes <=> h = hop
    BY DEF RingRoutes, hop
  <2>4. Route(S, target) = CHOOSE h \in Peer \cup {None} : <<S, target, h>> \in RingRoutes
    BY Zenon, <1>3 DEF Route
  <2>5. Route(S, target) = hop
    BY Zenon, <2>2, <2>3, <2>4
  <2> QED BY Zenon, <2>2, <2>5
<1> QED BY Zenon, <1>2, <1>3

\* What is done to the tables by an event, a gossiped change, and the commands.
LEMMA LinksStable ==
  ASSUME LinksInv, UNCHANGED linkVars
  PROVE  LinksInv'
BY DEF LinksInv, LinksType, LinksKept, HopCloser, linkVars

LEMMA LinksEvent ==
  ASSUME LinksInv, NEW ev, handleMemberEvent(ev)
  PROVE  LinksInv'
<1> USE DEF LinksInv
<1>1. PICK view, gone : Reconciled(view, gone)
  BY Zenon DEF handleMemberEvent
<1>2. /\ send'.at = send.at /\ send'.hop = send.hop
      /\ send' \in [at : {"idle", "direct", "route", "hop", "ensure", "store", "send"},
                    hop : Peer \cup {None}, conn : {"none", "out", "in", "astray", "shut"}]
  BY Zenon, <1>1 DEF Reconciled, Holding, LinksType
<1>3. PICK drop \in SUBSET Peer :
        /\ conns' = [p \in Peer |-> IF p \in drop THEN "none" ELSE conns[p]]
        /\ open' = [p \in Peer |-> IF p \in drop /\ conns[p] = "out" THEN open[p] - 1 ELSE open[p]]
  BY Zenon, <1>1 DEF Reconciled, Closed
<1>4. dial' \in [Peer -> {"no", "dialing", "dialed"}] /\ \A p \in Peer : dial'[p] = "dialed" <=> dial[p] = "dialed"
  BY Zenon, <1>1 DEF Reconciled, LinksType
<1>5. UNCHANGED <<node, env>>
  BY Zenon, <1>1 DEF Reconciled
<1>6. LinksType'
  BY <1>2, <1>3, <1>4, <1>5 DEF LinksType
<1>7. LinksKept'
  BY <1>2, <1>3, <1>4, <1>5 DEF LinksKept, LinksType, One
<1>8. HopCloser'
  BY Zenon, <1>2, <1>5 DEF HopCloser
<1> QED BY Zenon, <1>6, <1>7, <1>8

LEMMA LinksCommand ==
  ASSUME LinksInv,
         \/ \E p \in Peer, t \in {0, 1} : UpdatePeerMeta(p, t)
         \/ \E p \in Peer : Send(p)
         \/ \E p \in Peer, target \in Node : p # target /\ PeerSends(p, target)
         \/ \E p \in Peer, c \in {"in", "astray"} : OnConnectionEstablished(p, c)
         \/ Stop
  PROVE  LinksInv'
<1> USE DEF LinksInv
<1>0. Self \in Node /\ None \notin Node /\ Peer = Node \ {Self}
  BY Zenon, NodesAssumption DEF Peer
<1>1. CASE \E p \in Peer, t \in {0, 1} : UpdatePeerMeta(p, t)
  BY <1>1, LinksStable DEF UpdatePeerMeta, LinksInv, LinksType, LinksKept, HopCloser
<1>2. CASE \E p \in Peer : Send(p)
  <2>1. LinksType'
    BY <1>0, <1>2 DEF Send, links, Goto, LinksType
  <2>2. LinksKept'
    BY <1>0, <1>2 DEF Send, links, Goto, LinksType, LinksKept, HopCloser, NoEnvelope, One
  <2>3. HopCloser'
    BY <1>0, <1>2 DEF Send, links, Goto, HopCloser
  <2> QED BY Zenon, <2>1, <2>2, <2>3
<1>3. CASE \E p \in Peer, target \in Node : p # target /\ PeerSends(p, target)
  <2>1. LinksType'
    BY <1>0, <1>3 DEF PeerSends, links, LinksType
  <2>2. LinksKept'
    BY <1>0, <1>3 DEF PeerSends, links, LinksKept
  <2>3. HopCloser'
    BY <1>0, <1>3 DEF PeerSends, links, HopCloser, NoEnvelope
  <2> QED BY Zenon, <2>1, <2>2, <2>3
<1>4. CASE \E p \in Peer, c \in {"in", "astray"} : OnConnectionEstablished(p, c)
  <2>1. LinksType'
    BY <1>0, <1>4 DEF OnConnectionEstablished, Conn, LinksType
  <2>2. LinksKept'
    BY <1>0, <1>4 DEF OnConnectionEstablished, Conn, LinksType, LinksKept, One
  <2>3. HopCloser'
    BY Zenon, <1>0, <1>4 DEF OnConnectionEstablished, HopCloser
  <2> QED BY Zenon, <2>1, <2>2, <2>3
<1>5. CASE Stop
  <2>1. /\ send'.at = send.at /\ send'.hop = send.hop
        /\ send' \in [at : {"idle", "direct", "route", "hop", "ensure", "store", "send"},
                      hop : Peer \cup {None}, conn : {"none", "out", "in", "astray", "shut"}]
    BY Zenon, <1>5 DEF Stop, Holding, LinksType
  <2>2. LinksType'
    BY <1>5, <2>1 DEF Stop, Closed, LinksType
  <2>3. LinksKept'
    BY Zenon, <1>5 DEF Stop, LinksKept
  <2>4. HopCloser'
    BY Zenon, <1>5, <2>1 DEF Stop, HopCloser
  <2> QED BY Zenon, <2>2, <2>3, <2>4
<1> QED BY Zenon, <1>1, <1>2, <1>3, <1>4, <1>5

\* The goroutine of dialPeer, and the end of Stop.
LEMMA LinksDial ==
  ASSUME LinksInv,
         StopEnds \/ \E p \in Peer : dialPeer(p) \/ dialReturns(p, TRUE) \/ dialReturns(p, FALSE)
  PROVE  LinksInv'
<1> USE DEF LinksInv
<1>1. CASE StopEnds
  BY <1>1 DEF StopEnds, links, LinksType, LinksKept, HopCloser
<1>2. ASSUME NEW p \in Peer, NEW ok \in BOOLEAN, dialReturns(p, ok) PROVE LinksInv'
  <2>1. LinksType'
    BY <1>2 DEF dialReturns, Opened, LinksType
  <2>2. LinksKept'
    BY <1>2 DEF dialReturns, Opened, LinksType, LinksKept, One
  <2>3. HopCloser'
    BY Zenon, <1>2 DEF dialReturns, HopCloser
  <2> QED BY Zenon, <2>1, <2>2, <2>3
<1>3. ASSUME NEW p \in Peer, dialPeer(p) PROVE LinksInv'
  <2>1. LinksType'
    BY <1>3 DEF dialPeer, Opened, Conn, LinksType
  <2>2. LinksKept'
    BY <1>3 DEF dialPeer, Opened, Conn, LinksType, LinksKept, One
  <2>3. HopCloser'
    BY Zenon, <1>3 DEF dialPeer, HopCloser
  <2> QED BY Zenon, <2>1, <2>2, <2>3
<1> QED BY Zenon, <1>1, <1>2, <1>3

\* SendRemote up to the choice of a hop.
LEMMA LinksRoute ==
  ASSUME LinksInv, Dispatch \/ directConnection \/ nextHop \/ hopConnection
  PROVE  LinksInv'
<1> USE DEF LinksInv
<1>0. Self \in Node /\ None \notin Node /\ Peer = Node \ {Self}
  BY Zenon, NodesAssumption DEF Peer
<1>1. UNCHANGED <<node, conns, open, dial>>
  BY Zenon DEF Dispatch, directConnection, nextHop, hopConnection, links
<1>2. CASE Dispatch
  <2>1. LinksType'
    BY <1>0, <1>1, <1>2 DEF Dispatch, Goto, Ends, NotSending, NoEnvelope, LinksType
  <2>2. LinksKept'
    BY <1>1, <1>2 DEF Dispatch, Goto, Ends, NotSending, LinksKept, LinksType, One
  <2>3. HopCloser'
    BY <1>0, <1>2 DEF Dispatch, Goto, Ends, NotSending, NoEnvelope, HopCloser, LinksType
  <2> QED BY Zenon, <2>1, <2>2, <2>3
<1>3. CASE directConnection
  <2>0. env.target \in Peer /\ Arc(env.target, env.target) < Arc(Self, env.target)
    BY <1>0, <1>3, ArcType DEF directConnection, HopCloser
  <2>1. LinksType'
    BY <1>0, <1>1, <1>3, <2>0 DEF directConnection, Goto, LinksType
  <2>2. LinksKept'
    BY <1>1, <1>3 DEF directConnection, Goto, LinksKept, LinksType, One
  <2>3. HopCloser'
    BY <1>0, <1>3, <2>0 DEF directConnection, Goto, HopCloser, LinksType
  <2> QED BY Zenon, <2>1, <2>2, <2>3
<1>4. CASE nextHop
  <2> DEFINE hop == Route(Present, env.target)
  <2>0. env.target \in Peer /\ (hop = None \/ (hop \in Peer /\ Arc(hop, env.target) < Arc(Self, env.target)))
    BY Zenon, <1>0, <1>4, RouteCloser DEF nextHop, HopCloser, Present
  <2>00. \/ send' = NotSending /\ env' = NoEnvelope
         \/ /\ send' = [at |-> IF hop = env.target THEN "ensure" ELSE "hop", hop |-> hop, conn |-> "none"]
            /\ UNCHANGED env /\ hop # None
    BY Zenon, <1>4 DEF nextHop, Goto, Ends
  <2> HIDE DEF hop
  <2>1. LinksType'
    BY <1>0, <1>1, <2>0, <2>00 DEF NotSending, NoEnvelope, LinksType
  <2>2. LinksKept'
    <3>1. send.at # "store" /\ send'.at # "store"
      BY <1>4, <2>00 DEF nextHop, NotSending
    <3> QED BY Zenon, <1>1, <3>1 DEF LinksKept, One
  <2>3. HopCloser'
    BY <1>0, <1>4, <2>0, <2>00 DEF nextHop, HopCloser, NotSending, NoEnvelope
  <2> QED BY Zenon, <2>1, <2>2, <2>3
<1>5. CASE hopConnection
  <2>1. LinksType'
    BY Zenon, <1>0, <1>1, <1>5 DEF hopConnection, Goto, LinksType, HopCloser
  <2>2. LinksKept'
    BY Zenon, <1>1, <1>5 DEF hopConnection, Goto, LinksKept, LinksType, One
  <2>3. HopCloser'
    BY Zenon, <1>5 DEF hopConnection, Goto, HopCloser, LinksType
  <2> QED BY Zenon, <2>1, <2>2, <2>3
<1> QED BY Zenon, <1>2, <1>3, <1>4, <1>5

\* SendRemote from the hop on, and another node that passes the envelope on.
LEMMA LinksSend ==
  ASSUME LinksInv,
         \/ ensureConnection \/ sendFailed \/ Forward
         \/ ensureDials(TRUE) \/ ensureDials(FALSE)
         \/ \E p \in Peer : sent(p, p \in Up)
  PROVE  LinksInv'
<1> USE DEF LinksInv
<1>0. Self \in Node /\ None \notin Node /\ Peer = Node \ {Self}
  BY Zenon, NodesAssumption DEF Peer
<1>1. CASE ensureConnection
  <2>0. send.hop \in Peer
    BY Zenon, <1>1 DEF ensureConnection, HopCloser
  <2>1. LinksType'
    BY <1>1, <2>0 DEF ensureConnection, Goto, Conn, Opened, LinksType
  <2>2. LinksKept'
    BY <1>1, <2>0 DEF ensureConnection, Goto, Conn, Opened, LinksType, LinksKept, One
  <2>3. HopCloser'
    BY Zenon, <1>1 DEF ensureConnection, Goto, HopCloser
  <2> QED BY Zenon, <2>1, <2>2, <2>3
<1>2. CASE sendFailed
  <2>0. send.hop \in Peer
    BY Zenon, <1>2 DEF sendFailed, HopCloser
  <2>1. LinksType'
    BY <1>0, <1>2, <2>0 DEF sendFailed, Conn, Closed, Ends, NotSending, NoEnvelope, LinksType
  <2>2. LinksKept'
    BY <1>0, <1>2, <2>0 DEF sendFailed, Conn, Closed, Ends, NotSending, LinksType, LinksKept, One
  <2>3. HopCloser'
    BY Zenon, <1>0, <1>2 DEF sendFailed, Ends, NotSending, NoEnvelope, HopCloser
  <2> QED BY Zenon, <2>1, <2>2, <2>3
<1>3. CASE Forward
  <2>0. env.at \in Peer /\ env.target \in Node \ {env.at}
    BY Zenon, <1>0, <1>3 DEF Forward, HopCloser
  <2>1. PICK hop \in Node \cup {None} :
          env' = IF hop \in {None, env.target} \ {Self} THEN NoEnvelope ELSE [env EXCEPT !.at = hop]
    BY Zenon, <1>3 DEF Forward
  <2>2. LinksType'
    BY <1>0, <1>3, <2>1 DEF Forward, links, NoEnvelope, LinksType
  <2>3. LinksKept'
    BY Zenon, <1>3 DEF Forward, links, LinksKept
  <2>4. HopCloser'
    <3>1. send.at = "idle" /\ UNCHANGED send
      BY Zenon, <1>0, <1>3, <2>0 DEF Forward, HopCloser
    <3>2. /\ env'.at \in Node => env'.target \in Node
          /\ env'.at \in Peer => env'.target # env'.at
      BY Zenon, <1>0, <2>0, <2>1 DEF NoEnvelope, LinksType
    <3> QED BY Zenon, <3>1, <3>2 DEF HopCloser
  <2> QED BY Zenon, <2>2, <2>3, <2>4
<1>4. ASSUME NEW ok \in BOOLEAN, ensureDials(ok) PROVE LinksInv'
  <2>0. send.hop \in Peer
    BY Zenon, <1>4 DEF ensureDials, HopCloser
  <2>1. LinksType'
    BY <1>0, <1>4, <2>0 DEF ensureDials, Goto, Opened, Ends, NotSending, NoEnvelope, LinksType
  <2>2. LinksKept'
    BY <1>0, <1>4, <2>0 DEF ensureDials, Goto, Opened, Ends, NotSending, LinksType, LinksKept, One
  <2>3. HopCloser'
    BY <1>0, <1>4 DEF ensureDials, Goto, Ends, NotSending, NoEnvelope, HopCloser
  <2> QED BY Zenon, <2>1, <2>2, <2>3
<1>5. ASSUME NEW p \in Peer, sent(p, p \in Up) PROVE LinksInv'
  <2>0. send' = NotSending
    BY Zenon, <1>5 DEF sent
  <2>1. LinksType'
    BY Zenon, <1>0, <1>5 DEF sent, links, NotSending, NoEnvelope, LinksType
  <2>2. LinksKept'
    BY Zenon, <1>5 DEF sent, links, NotSending, LinksKept, One
  <2>3. HopCloser'
    <3>1. env.target \in Peer
      BY Zenon, <1>5 DEF sent, HopCloser
    <3>2. /\ env'.at \in Node => env'.target \in Node
          /\ env'.at \in Peer => env'.target # env'.at
      BY Zenon, <1>0, <1>5, <3>1 DEF sent, NoEnvelope, LinksType
    <3> QED BY Zenon, <2>0, <3>2 DEF HopCloser, NotSending
  <2> QED BY Zenon, <2>1, <2>2, <2>3
<1> QED BY Zenon, <1>1, <1>2, <1>3, <1>4, <1>5

LEMMA LinksNext ==
  ASSUME LinksInv, [Next]_vars
  PROVE  LinksInv'
<1>1. CASE UNCHANGED vars
  BY Zenon, <1>1, LinksStable DEF vars
<1>2. CASE Next
  <2>1. CASE LinksStep(Up)
    BY Zenon, <2>1, LinksDial, LinksRoute, LinksSend DEF LinksStep
  <2> QED BY Zenon, <1>2, <2>1, LinkSteps, LinksStable, LinksEvent, LinksCommand
<1> QED BY Zenon, <1>1, <1>2
-----------------------------------------------------------------------------
\* An envelope gets closer to its target with every node that passes it on, for any
\* number of nodes, and any views they may have (Route, SendRemote, Dispatch).
THEOREM ClusterForwardShrinksArc == Spec => ForwardShrinksArc
<1>0. Self \in Node /\ None \notin Node /\ Peer = Node \ {Self}
  BY Zenon, NodesAssumption DEF Peer
<1> DEFINE Shrinks ==
      env # NoEnvelope /\ env' # NoEnvelope /\ env'.at # env.at /\ send.conn # "astray"
        => env'.target = env.target /\ Arc(env'.at, env.target) < Arc(env.at, env.target)
<1>1. ASSUME LinksInv, [Next]_vars PROVE [Shrinks]_vars
  <2> USE DEF LinksInv
  <2>1. SUFFICES ASSUME Next, env # NoEnvelope, env' # NoEnvelope, env'.at # env.at, send.conn # "astray"
                 PROVE  env'.target = env.target /\ Arc(env'.at, env.target) < Arc(env.at, env.target)
    BY Zenon, <1>1
  <2>2. Forward \/ \E p \in Peer : sent(p, p \in Up)
    <3>1. ~UNCHANGED env
      BY Zenon, <2>1
    <3>2. LinksStep(Up)
      BY Zenon, <2>1, <3>1, LinkSteps
         DEF linkVars, handleMemberEvent, Reconciled, UpdatePeerMeta, Send, PeerSends, OnConnectionEstablished, Stop
    <3> QED BY Zenon, <2>1, <3>1, <3>2
          DEF LinksStep, dialReturns, dialPeer, Dispatch, directConnection, nextHop, hopConnection,
              ensureConnection, sendFailed, ensureDials, Ends, StopEnds
  <2>3. CASE Forward
    <3>1. env.at \in Peer /\ env.target \in Node \ {env.at}
      BY Zenon, <1>0, <1>1, <2>3 DEF Forward, HopCloser
    <3>2. PICK hop \in Node \cup {None} :
            /\ IF topology = "full" THEN hop \in {None, env.target} ELSE <<env.at, env.target, hop>> \in Hops
            /\ env' = IF hop \in {None, env.target} \ {Self} THEN NoEnvelope ELSE [env EXCEPT !.at = hop]
      BY Zenon, <2>3 DEF Forward
    <3>3. hop # None /\ env' = [env EXCEPT !.at = hop]
      BY Zenon, <1>0, <2>1, <3>2
    <3>4. env'.at = hop /\ env'.target = env.target
      BY <3>3 DEF LinksType
    <3>5. CASE hop = env.target
      BY <1>0, <3>1, <3>4, <3>5, ArcType
    <3>6. CASE hop # env.target
      BY Zenon, <1>0, <3>1, <3>2, <3>3, <3>4, <3>6, HopsCloser
    <3> QED BY Zenon, <3>5, <3>6
  <2>4. ASSUME NEW p \in Peer, sent(p, p \in Up)
        PROVE  env'.target = env.target /\ Arc(env'.at, env.target) < Arc(env.at, env.target)
    <3>1. p = send.hop /\ env' = [env EXCEPT !.at = p]
      BY Zenon, <2>1, <2>4 DEF sent
    <3>2. env'.at = send.hop /\ env'.target = env.target
      BY <3>1 DEF LinksType
    <3> QED BY Zenon, <1>1, <2>4, <3>2 DEF sent, HopCloser
  <2> QED BY Zenon, <2>2, <2>3, <2>4
<1>2. Spec => []LinksInv
  BY LinksInitially, LinksNext, PTL DEF Spec
<1>3. QED
  BY <1>1, <1>2, PTL DEF Spec, ForwardShrinksArc
-----------------------------------------------------------------------------
(* Daemons *)

DaemonEntry == [spec : BOOLEAN, running : BOOLEAN, actor : {"none", "alive", "stopped"}, states : Int]

EntryKept(d, e) == e \in DaemonEntry /\ e.states = One(d \in Replicated /\ e.running)

DaemonsInv == daemons \in [Daemon -> DaemonEntry] /\ \A d \in Daemon : EntryKept(d, daemons[d])

\* Stopping and reconciling a daemon keep as many states open as run.
LEMMA StopKeepsEntry ==
  ASSUME NEW d \in Daemon, NEW e, EntryKept(d, e), e.running
  PROVE  EntryKept(d, stopDaemon(d, e))
BY DEF EntryKept, DaemonEntry, stopDaemon, One

LEMMA ReconcileKeepsEntry ==
  ASSUME NEW d \in Daemon, NEW e, EntryKept(d, e), NEW m
  PROVE  EntryKept(d, reconcileDaemon(d, e, m))
<1>1. CASE e.spec /\ shouldRunLocally(d, m) /\ ~e.running
  BY <1>1 DEF EntryKept, DaemonEntry, reconcileDaemon, startReplicatedDaemon, startDaemon, One
<1>2. CASE e.spec /\ ~shouldRunLocally(d, m) /\ e.running
  BY Zenon, <1>2, StopKeepsEntry DEF reconcileDaemon
<1>3. CASE ~(e.spec /\ shouldRunLocally(d, m) /\ ~e.running) /\ ~(e.spec /\ ~shouldRunLocally(d, m) /\ e.running)
  BY Zenon, <1>3 DEF reconcileDaemon
<1> QED BY Zenon, <1>1, <1>2, <1>3

\* Whatever the manager is told to do, and whatever else the node does.
LEMMA DaemonsNext ==
  ASSUME DaemonsInv, [Next]_vars
  PROVE  DaemonsInv'
<1>1. CASE UNCHANGED daemons
  BY Zenon, <1>1 DEF DaemonsInv, EntryKept
<1>2. CASE DaemonsCommand \/ StopDaemons
  <2>1. ASSUME NEW d \in Daemon, RegisterDaemon(d) PROVE DaemonsInv'
    <3> DEFINE e == [daemons[d] EXCEPT !.spec = TRUE]
               f == IF managing THEN reconcileDaemon(d, e, matches) ELSE e
    <3>1. daemons' = [daemons EXCEPT ![d] = f]
      BY Zenon, <2>1 DEF RegisterDaemon
    <3>2. EntryKept(d, e)
      BY Zenon DEF DaemonsInv, EntryKept, DaemonEntry
    <3> HIDE DEF e
    <3>3. EntryKept(d, f)
      BY Zenon, <3>2, ReconcileKeepsEntry
    <3> HIDE DEF f
    <3> QED BY Zenon, <3>1, <3>3 DEF DaemonsInv, EntryKept
  <2>2. CASE ReconcileAll
    BY Zenon, <2>2, ReconcileKeepsEntry DEF ReconcileAll, DaemonsInv, EntryKept
  <2>3. CASE StopDaemons
    BY Zenon, <2>3, StopKeepsEntry DEF StopDaemons, DaemonsInv, EntryKept
  <2> QED BY Zenon, <1>1, <1>2, <2>1, <2>2, <2>3
        DEF DaemonsCommand, DaemonsStart, DaemonsStop, Reconcile, UpdateTags
<1>3. DaemonsCommand \/ StopDaemons \/ UNCHANGED daemons
  <2>1. CASE Change
    BY Zenon, <2>1 DEF Change, receive, MergePut, serviceVars, daemonState
  <2>2. CASE Command
    BY Zenon, <2>2 DEF Command, NamesCommand, Register, Unregister, SupervisorStart, serviceVars, daemonState
  <2>3. CASE Step
    BY Zenon, <2>3 DEF Step, ProviderWorks, MembershipWorks, membershipLoop, Callback, GossipCallback, CommitDecisions,
                OnMemberEvent, StartCallback, SupervisorCallback, serviceVars, daemonState
  <2>4. CASE UNCHANGED vars
    BY Zenon, <2>4 DEF vars, serviceVars, daemonState
  <2> QED BY Zenon, <2>1, <2>2, <2>3, <2>4 DEF Next
<1> QED BY Zenon, <1>1, <1>2, <1>3

\* While the node runs every connection it dialled is in its table, in the hands of
\* the goroutine that dialled it or closed, and a replicated state that is open belongs
\* to a daemon that runs (dialPeer, ensureConnection, removeConnection,
\* handleMemberEvent, reconcileDaemon, Stop).
THEOREM ClusterNothingLeaked == Spec => []NothingLeaked
<1>1. Init => DaemonsInv
  BY DEF Init, ServicesInit, Absent, DaemonsInv, EntryKept, DaemonEntry, One
<1>2. LinksInv /\ DaemonsInv => NothingLeaked
  BY Zenon DEF LinksInv, LinksKept, DaemonsInv, EntryKept, NothingLeaked
<1> QED BY <1>1, <1>2, LinksInitially, LinksNext, DaemonsNext, PTL DEF Spec
-----------------------------------------------------------------------------
(* Events *)

EventType == [type : {"join", "updated", "leave", "failed"}, peer : Peer, tag : {0, 1}]
EntryType == [st : {"unknown", "alive", "dead"}, miss : Nat, tag : {0, 1}]

EventsInv ==
  /\ tag \in [Peer -> {0, 1}]
  /\ known \in [Peer -> EntryType]
  /\ events \in Seq(EventType)

LEMMA EventTypeFinite == IsFiniteSet(EventType)
<1> DEFINE K == {"join", "updated", "leave", "failed"}
           P == (K \X Peer) \X {0, 1}
           f == [ev \in EventType |-> <<<<ev.type, ev.peer>>, ev.tag>>]
<1>1. IsFiniteSet(Peer)
  BY Zenon, RingAssumption, FS_Subset DEF Peer
<1>2. IsFiniteSet(K)
  <2>1. K = (({"join"} \cup {"updated"}) \cup {"leave"}) \cup {"failed"}
    OBVIOUS
  <2>2. IsFiniteSet({"join"} \cup {"updated"})
    BY Zenon, FS_Singleton, FS_AddElement
  <2>3. IsFiniteSet(({"join"} \cup {"updated"}) \cup {"leave"})
    BY Zenon, <2>2, FS_AddElement
  <2>4. IsFiniteSet((({"join"} \cup {"updated"}) \cup {"leave"}) \cup {"failed"})
    BY Zenon, <2>3, FS_AddElement
  <2> QED BY Zenon, <2>1, <2>4
<1>3. IsFiniteSet({0, 1})
  <2>1. IsFiniteSet({0} \cup {1})
    BY Zenon, FS_Singleton, FS_AddElement
  <2>2. {0, 1} = {0} \cup {1}
    OBVIOUS
  <2> QED BY Zenon, <2>1, <2>2
<1>4. f \in Injection(EventType, P)
  BY DEF EventType, Injection, IsInjective
<1> HIDE DEF K, f
<1>5. IsFiniteSet(P)
  BY Zenon, <1>1, <1>2, <1>3, FS_Product
<1> QED BY Zenon, <1>4, <1>5, FS_Injection

\* The events a sequence is made of, in any order, and the channel after emit.
LEMMA OrderedEvents ==
  ASSUME NEW T \in SUBSET EventType, NEW evs \in Orders(T)
  PROVE  evs \in Seq(EventType)
<1>1. Cardinality(T) \in Nat
  BY Zenon, EventTypeFinite, FS_Subset, FS_CardinalityType
<1>2. evs \in [1 .. Cardinality(T) -> T]
  BY Zenon DEF Orders, Injection
<1> QED BY <1>1, <1>2

LEMMA EmitType ==
  ASSUME events \in Seq(EventType), NEW evs \in Seq(EventType), emit(evs)
  PROVE  events' \in Seq(EventType)
<1> DEFINE all == events \o evs
           n == IF Len(all) > EventCap THEN EventCap ELSE Len(all)
<1>1. all \in Seq(EventType)
  OBVIOUS
<1>2. events' = SubSeq(all, 1, n)
  BY Zenon DEF emit
<1> HIDE DEF all
<1>3. n \in Nat /\ n <= Len(all)
  BY <1>1, ProviderAssumption
<1> HIDE DEF n
<1> QED BY <1>1, <1>2, <1>3

\* Every provider keeps its table and its events well formed.
LEMMA ProviderKeepsEvents ==
  ASSUME EventsInv,
         \/ \E p \in Peer : Probe(p) \/ Announced(p)
         \/ Poll \/ Sweep \/ ProviderFault
  PROVE  EventsInv'
<1> USE DEF EventsInv
<1>0. UNCHANGED tag
  BY Zenon DEF Probe, Announced, Poll, Sweep, ProviderFault, probeSeed, handleAnnouncement, poll, sweep, outside
<1>1. ASSUME NEW p \in Peer, NEW answer, probeSeed(p, answer) PROVE EventsInv'
  <2>1. \/ /\ \E e \in EntryType : known' = [known EXCEPT ![p] = e]
           /\ UNCHANGED events
        \/ /\ \E e \in EntryType : known' = [known EXCEPT ![p] = e]
           /\ \E ev \in EventType : emit(<<ev>>)
    <3>1. CASE answer
      BY Zenon, <1>1, <3>1 DEF probeSeed, handleProbeSuccess, Known, Member, Event, EntryType, EventType
    <3>2. CASE ~answer
      <4>1. Missed(known[p]) \in EntryType /\ Dead(known[p]) \in EntryType
            /\ Event("failed", p, known[p].tag) \in EventType
        BY DEF Missed, Dead, Event, EntryType, EventType
      <4> QED BY Zenon, <1>1, <3>2, <4>1 DEF probeSeed, handleProbeFailure, Known
    <3> QED BY Zenon, <3>1, <3>2
  <2>2. known' \in [Peer -> EntryType]
    BY Zenon, <2>1
  <2>3. events' \in Seq(EventType)
    <3>1. ASSUME NEW ev \in EventType, emit(<<ev>>) PROVE events' \in Seq(EventType)
      <4>1. <<ev>> \in Seq(EventType)
        OBVIOUS
      <4> QED BY Zenon, <3>1, <4>1, EmitType
    <3> QED BY Zenon, <2>1, <3>1
  <2> QED BY Zenon, <1>0, <2>2, <2>3
<1>2. ASSUME NEW D \in SUBSET Peer, poll(D) PROVE EventsInv'
  <2>1. known' \in [Peer -> EntryType]
    <3>1. ASSUME NEW p \in Peer PROVE Polled(p, D) \in EntryType
      <4>1. /\ Member(tag[p]) \in EntryType /\ known[p] \in EntryType
            /\ Missed(known[p]) \in EntryType /\ Dead(known[p]) \in EntryType
        BY DEF Missed, Dead, Member, EntryType
      <4> QED BY Zenon, <4>1 DEF Polled
    <3> QED BY Zenon, <1>2, <3>1 DEF poll, diffMembers
  <2>2. PICK found \in Orders(Joined(D) \cup Updated(D)), lost \in Orders(Missing(D)) : emit(found \o lost)
    BY Zenon, <1>2 DEF poll, diffMembers
  <2>3. Joined(D) \cup Updated(D) \in SUBSET EventType /\ Missing(D) \in SUBSET EventType
    BY DEF Joined, Updated, Missing, Event, EntryType, EventType
  <2>4. found \in Seq(EventType) /\ lost \in Seq(EventType)
    BY Zenon, <2>3, OrderedEvents
  <2>5. found \o lost \in Seq(EventType)
    BY <2>4
  <2>6. events' \in Seq(EventType)
    BY Zenon, <2>2, <2>5, EmitType
  <2> QED BY Zenon, <1>0, <2>1, <2>6
<1>3. ASSUME NEW p \in Peer, NEW leaving \in BOOLEAN, handleAnnouncement(p, leaving) PROVE EventsInv'
  <2>1. known' \in [Peer -> EntryType]
    <3>1. Member(tag[p]) \in EntryType /\ Unknown \in EntryType
      BY Zenon DEF Unknown, Member, EntryType
    <3> QED BY Zenon, <1>3, <3>1 DEF handleAnnouncement, Known
  <2>2. UNCHANGED events \/ \E ev \in EventType : emit(<<ev>>)
    BY Zenon, <1>3 DEF handleAnnouncement, Event, EventType
  <2>3. events' \in Seq(EventType)
    <3>1. ASSUME NEW ev \in EventType, emit(<<ev>>) PROVE events' \in Seq(EventType)
      <4>1. <<ev>> \in Seq(EventType)
        OBVIOUS
      <4> QED BY Zenon, <3>1, <4>1, EmitType
    <3> QED BY Zenon, <2>2, <3>1
  <2> QED BY Zenon, <1>0, <2>1, <2>3
<1>4. ASSUME NEW L \in SUBSET Peer, sweep(L) PROVE EventsInv'
  <2>1. known' \in [Peer -> EntryType]
    BY Zenon, <1>4 DEF sweep, Unknown, EntryType
  <2>2. PICK evs \in Orders({Event("failed", p, known[p].tag) : p \in L}) : emit(evs)
    BY Zenon, <1>4 DEF sweep
  <2>3. {Event("failed", p, known[p].tag) : p \in L} \in SUBSET EventType
    BY DEF Event, EntryType, EventType
  <2>4. events' \in Seq(EventType)
    BY Zenon, <2>2, <2>3, OrderedEvents, EmitType
  <2> QED BY Zenon, <1>0, <2>1, <2>4
<1>5. CASE \E p \in Peer : Probe(p) \/ Announced(p)
  BY Zenon, <1>1, <1>3, <1>5 DEF Probe, Announced
<1>6. CASE Poll \/ Sweep
  <2>1. Up \in SUBSET Peer /\ Alive \ Up \in SUBSET Peer
    BY Zenon DEF Up, Alive
  <2> QED BY Zenon, <1>2, <1>4, <1>6, <2>1 DEF Poll, Sweep
<1>7. CASE ProviderFault
  <2>1. Up \in SUBSET Peer
    BY Zenon DEF Up
  <2> QED BY Zenon, <1>1, <1>2, <1>3, <1>4, <1>7, <2>1 DEF ProviderFault
<1> QED BY Zenon, <1>5, <1>6, <1>7

LEMMA EventsInitially == Init => EventsInv
<1> SUFFICES ASSUME Init PROVE EventsInv
  OBVIOUS
<1>1. Member(0) \in EntryType /\ Unknown \in EntryType
  BY Zenon DEF Member, Unknown, EntryType
<1> QED BY <1>1 DEF Init, ProviderInit, EventsInv

LEMMA EventsNext ==
  ASSUME EventsInv, [Next]_vars
  PROVE  EventsInv'
<1>1. CASE UNCHANGED <<tag, known, events>>
  BY Zenon, <1>1 DEF EventsInv
<1>2. CASE \E p \in Volatile : PeerUp(p) \/ PeerDown(p) \/ PeerRetags(p)
  BY Zenon, <1>2, ClusterAssumption DEF PeerUp, PeerDown, PeerRetags, table, EventsInv
<1>3. CASE membershipLoop
  <2>1. events # <<>> /\ events' = Tail(events) /\ UNCHANGED <<tag, known>>
    BY Zenon, <1>3 DEF membershipLoop, outside
  <2> QED BY <2>1 DEF EventsInv
<1>4. CASE Change
  BY Zenon, <1>1, <1>2, <1>4, ProviderKeepsEvents DEF Change, receive, providerVars
<1>5. CASE Command
  BY Zenon, <1>1, <1>5 DEF Command, AddSeed, providerVars, table
<1>6. CASE Step
  BY Zenon, <1>1, <1>3, <1>6, ProviderKeepsEvents
     DEF Step, ProviderWorks, MembershipWorks, Callback, GossipCallback, providerVars
<1>7. CASE UNCHANGED vars
  BY Zenon, <1>1, <1>7 DEF vars, providerVars
<1> QED BY Zenon, <1>4, <1>5, <1>6, <1>7 DEF Next
-----------------------------------------------------------------------------
(* Services *)

\* What a service that keeps S will keep after the callback the loop is about to make.
Told(S) == IF called = NoEvent THEN S ELSE After(S, called)

Leaving == IF called.type \in {"leave", "failed"} THEN {called.peer} ELSE {}

\* An update that gossip is about to call back is of a peer, or of one that has gone
\* meanwhile; the event of the loop is in the view already; and the services that
\* are told of it agree with the view.
ViewInv ==
  /\ peers \in [Peer -> {0, 1, NoPeer}]
  /\ names \in [Name -> Node \cup {None}]
  /\ called = NoEvent \/ called \in EventType
  /\ gossiped # None => gossiped \in Peer /\ gossiped \in Present \cup crossed
  /\ called # NoEvent => (called.peer \in Present <=> called.type \in {"join", "updated"})
  /\ Told(members) \ crossed = (Present \cup {Self}) \ crossed
  /\ ~supervisor => Told(reach) \ crossed = Present \ crossed
  /\ ~supervisor => \A x \in Name : names[x] \in Present \cup {Self, None} \cup Leaving \/ x \in late

viewVars == <<peers, members, reach, names, late, supervisor, called, gossiped, crossed>>

\* The steps that change a variable of ViewInv, and no others do.
LEMMA ViewSteps ==
  ASSUME Next
  PROVE  \/ UNCHANGED viewVars
         \/ membershipLoop \/ Callback \/ GossipCallback
         \/ \E p \in Peer, t \in {0, 1} : receive(p, t)
         \/ /\ \/ \E x \in Name, p \in Peer : MergePut(x, p, p \in Present)
               \/ \E x \in Name : Register(x) \/ Unregister(x)
               \/ SupervisorStart
               \/ CommitDecisions
            /\ UNCHANGED <<peers, called, gossiped, crossed>>
<1> USE DEF viewVars, linkVars, serviceVars, clusterState
<1>1. CASE Change
  BY Zenon, <1>1, ClusterAssumption DEF Change
<1>2. CASE Command
  <2>1. CASE (\E p \in Peer : AddSeed(p)) /\ UNCHANGED <<linkVars, serviceVars>>
    BY Zenon, <1>2, <2>1 DEF Command
  <2>2. CASE DaemonsCommand /\ UNCHANGED linkVars
    BY Zenon, <1>2, <2>2 DEF Command, DaemonsCommand, RegisterDaemon, DaemonsStart, DaemonsStop, StopDaemons, Reconcile,
                        UpdateTags
  <2>3. CASE NamesCommand /\ UNCHANGED linkVars
    BY Zenon, <1>2, <2>3 DEF Command, NamesCommand
  <2>4. CASE UNCHANGED <<peers, serviceVars>>
    BY Zenon, <1>2, <2>4 DEF Command
  <2>5. CASE Stop /\ StopDaemons
    BY Zenon, <1>2, <2>5 DEF Command, Stop, StopDaemons
  <2> QED BY Zenon, <1>2, <2>1, <2>2, <2>3, <2>4, <2>5
        DEF Command, Send, PeerSends, OnConnectionEstablished, links
<1>3. CASE Step
  <2>1. CASE LinksStep(Up) /\ UNCHANGED <<serviceVars, bookkeeping>>
    <3>1. UNCHANGED peers
      BY Zenon, <2>1 DEF LinksStep, dialReturns, dialPeer, Dispatch, directConnection, nextHop, hopConnection,
                  ensureConnection, sendFailed, ensureDials, sent, Forward, StopEnds, links
    <3> QED BY Zenon, <2>1, <3>1 DEF bookkeeping
  <2> QED BY Zenon, <1>3, <2>1 DEF Step, ProviderWorks, MembershipWorks, bookkeeping
<1> QED BY Zenon, <1>1, <1>2, <1>3 DEF Next

LEMMA NodeFacts ==
  /\ Self \in Node /\ None \notin Node /\ Peer = Node \ {Self}
  /\ NoEvent \notin EventType
BY Zenon, NodesAssumption DEF Peer, NoEvent, Event, EventType

LEMMA ViewInitially == Init => ViewInv
<1> SUFFICES ASSUME Init PROVE ViewInv
  OBVIOUS
<1>1. Present = Settled /\ Settled \subseteq Peer
  BY ProviderAssumption DEF Init, LinksInit, Present, NoPeer
<1>2. names \in [Name -> Settled \cup {Self, None}]
  BY Zenon, ClusterAssumption DEF Init, ServicesInit
<1> QED BY Zenon, <1>1, <1>2, NodeFacts
      DEF Init, LinksInit, ServicesInit, ViewInv, Told, Leaving, NoPeer

LEMMA ViewStable ==
  ASSUME ViewInv, UNCHANGED viewVars
  PROVE  ViewInv'
BY Zenon DEF ViewInv, viewVars, Told, Leaving, Present, After

\* The loop takes an event: the view changes, and the services are about to be told.
LEMMA ViewEvent ==
  ASSUME EventsInv, ViewInv, membershipLoop
  PROVE  ViewInv'
<1> DEFINE ev == Head(events)
<1>1. ev \in EventType /\ called = NoEvent /\ called' = ev
  BY DEF EventsInv, membershipLoop
<1>2. /\ peers' = [peers EXCEPT ![ev.peer] = IF ev.type \in {"leave", "failed"} THEN NoPeer ELSE ev.tag]
      /\ UNCHANGED <<members, reach, names, late, supervisor, gossiped>>
      /\ crossed' = IF ev.peer = gossiped /\ ev.type \in {"leave", "failed"} THEN crossed \cup {gossiped} ELSE crossed
  BY Zenon DEF membershipLoop, handleMemberEvent, Reconciled, serviceVars, clusterState
<1> HIDE DEF ev
<1>3. ev.peer \in Peer /\ ev.tag \in {0, 1} /\ ev.type \in {"join", "updated", "leave", "failed"} /\ ev # NoEvent
  BY Zenon, <1>1, NodeFacts DEF EventType
<1>4. peers' \in [Peer -> {0, 1, NoPeer}]
  BY Zenon, <1>2, <1>3 DEF ViewInv
<1>5. Present' = IF ev.type \in {"leave", "failed"} THEN Present \ {ev.peer} ELSE Present \cup {ev.peer}
  BY <1>2, <1>3 DEF ViewInv, Present, NoPeer
<1>6. gossiped' # None => gossiped' \in Peer /\ gossiped' \in Present' \cup crossed'
  BY Zenon, <1>2, <1>5 DEF ViewInv
<1>7. called' # NoEvent => (called'.peer \in Present' <=> called'.type \in {"join", "updated"})
  BY Zenon, <1>1, <1>3, <1>5
<1>8. Told(members)' \ crossed' = (Present' \cup {Self}) \ crossed'
  <2>1. members \ crossed = (Present \cup {Self}) \ crossed
    BY Zenon, <1>1 DEF ViewInv, Told
  <2>2. Told(members)' = IF ev.type \in {"join", "updated"} THEN members \cup {ev.peer} ELSE members \ {ev.peer}
    BY Zenon, <1>1, <1>2, <1>3 DEF Told, After
  <2> QED BY Zenon, <1>2, <1>3, <1>5, <2>1, <2>2, NodeFacts
<1>9. ~supervisor' => Told(reach)' \ crossed' = Present' \ crossed'
  <2>1. ~supervisor => reach \ crossed = Present \ crossed
    BY Zenon, <1>1 DEF ViewInv, Told
  <2>2. Told(reach)' = IF ev.type \in {"join", "updated"} THEN reach \cup {ev.peer} ELSE reach \ {ev.peer}
    BY Zenon, <1>1, <1>2, <1>3 DEF Told, After
  <2> QED BY Zenon, <1>2, <1>3, <1>5, <2>1, <2>2
<1>10. ~supervisor' => \A x \in Name : names'[x] \in Present' \cup {Self, None} \cup Leaving' \/ x \in late'
  <2>1. Leaving = {} /\ Leaving' = IF ev.type \in {"leave", "failed"} THEN {ev.peer} ELSE {}
    BY Zenon, <1>1 DEF Leaving, NoEvent, Event
  <2> QED BY Zenon, <1>2, <1>5, <2>1 DEF ViewInv
<1> QED BY Zenon, <1>1, <1>2, <1>4, <1>6, <1>7, <1>8, <1>9, <1>10 DEF ViewInv

\* The services are told of the event.
LEMMA ViewCallback ==
  ASSUME ViewInv, Callback
  PROVE  ViewInv'
<1>1. /\ called \in EventType /\ called # NoEvent /\ called' = NoEvent
      /\ UNCHANGED <<peers, gossiped>>
      /\ crossed' = IF called.peer # gossiped /\ called.type \in {"join", "leave", "failed"}
                    THEN crossed \ {called.peer} ELSE crossed
  BY Zenon DEF Callback, ViewInv, linkVars
<1>2. called.peer \in Peer /\ called.type \in {"join", "updated", "leave", "failed"}
  BY Zenon, <1>1 DEF EventType
<1>3. members' = Told(members) /\ UNCHANGED <<late, supervisor>>
  BY Zenon, <1>1 DEF Callback, OnMemberEvent, SupervisorCallback, StartCallback, ElectionChange, Told
<1>4. ~supervisor => reach' = Told(reach) /\ OnMembershipChange(called)
  BY Zenon, <1>1 DEF Callback, OnMemberEvent, StartCallback, ResolverChange, Told
<1>5. supervisor => UNCHANGED names
  BY Zenon DEF Callback, OnMemberEvent, SupervisorCallback
<1>6. Present' = Present /\ Told(members)' = members' /\ Told(reach)' = reach' /\ Leaving' = {}
  BY Zenon, <1>1 DEF Present, Told, Leaving, NoEvent, Event
<1>7. names' \in [Name -> Node \cup {None}]
  BY Zenon, <1>4, <1>5 DEF OnMembershipChange, UnregisterByNode, ViewInv
<1>8. members' \ crossed' = (Present' \cup {Self}) \ crossed'
  BY <1>1, <1>2, <1>3, <1>6, NodeFacts DEF ViewInv, Told, After
<1>9. ~supervisor' => reach' \ crossed' = Present' \ crossed'
  BY <1>1, <1>2, <1>3, <1>4, <1>6 DEF ViewInv, Told, After
<1>10. ~supervisor' => \A x \in Name : names'[x] \in Present' \cup {Self, None} \/ x \in late'
  <2> SUFFICES ASSUME ~supervisor, NEW x \in Name
               PROVE  names'[x] \in Present \cup {Self, None} \/ x \in late
    BY Zenon, <1>3, <1>6
  <2>1. names[x] \in Present \cup {Self, None} \cup Leaving \/ x \in late
    BY Zenon DEF ViewInv
  <2> QED BY Zenon, <2>1, <1>4 DEF OnMembershipChange, UnregisterByNode, Leaving
<1>11. gossiped' # None => gossiped' \in Peer /\ gossiped' \in Present' \cup crossed'
  BY Zenon, <1>1, <1>6 DEF ViewInv
<1>12. peers' \in [Peer -> {0, 1, NoPeer}]
  BY Zenon, <1>1 DEF ViewInv
<1> QED BY Zenon, <1>1, <1>6, <1>7, <1>8, <1>9, <1>10, <1>11, <1>12 DEF ViewInv

\* Gossip tells them of an update, of a peer that may have gone meanwhile.
LEMMA ViewGossip ==
  ASSUME ViewInv, GossipCallback
  PROVE  ViewInv'
<1> DEFINE ev == Event("updated", gossiped, 0)
<1>1. /\ gossiped \in Peer /\ gossiped \in Present \cup crossed
      /\ gossiped' = None /\ UNCHANGED <<peers, called, crossed>>
  BY Zenon DEF GossipCallback, ViewInv, linkVars
<1>2. After(members, ev) = members \cup {gossiped} /\ After(reach, ev) = reach \cup {gossiped}
  BY Zenon DEF After, Event
<1>3. members' = members \cup {gossiped} /\ UNCHANGED <<late, supervisor>>
  BY Zenon, <1>2 DEF GossipCallback, OnMemberEvent, SupervisorCallback, StartCallback, ElectionChange
<1>4. ~supervisor => reach' = reach \cup {gossiped}
  BY Zenon, <1>2 DEF GossipCallback, OnMemberEvent, StartCallback, ResolverChange
<1>5. UNCHANGED names
  BY Zenon DEF GossipCallback, OnMemberEvent, SupervisorCallback, StartCallback, OnMembershipChange, Event
<1>6. Present' = Present /\ Leaving' = Leaving
  BY Zenon, <1>1 DEF Present, Leaving
<1>7. called # NoEvent /\ called.type \notin {"join", "updated"} /\ called.peer = gossiped => gossiped \in crossed
  BY Zenon, <1>1 DEF ViewInv
<1>8. ASSUME NEW S, NEW T, T = S \cup {gossiped}
      PROVE  (IF called = NoEvent THEN T ELSE After(T, called)) \ crossed = (Told(S) \cup {gossiped}) \ crossed
  BY Zenon, <1>7, <1>8 DEF Told, After
<1>9. Told(members)' \ crossed' = (Present' \cup {Self}) \ crossed'
  <2>1. Told(members)' \ crossed = (Told(members) \cup {gossiped}) \ crossed
    BY Zenon, <1>1, <1>3, <1>8 DEF Told, After
  <2>2. (Told(members) \cup {gossiped}) \ crossed = (Present \cup {Self}) \ crossed
    BY Zenon, <1>1 DEF ViewInv
  <2> QED BY Zenon, <1>1, <1>6, <2>1, <2>2
<1>10. ~supervisor' => Told(reach)' \ crossed' = Present' \ crossed'
  <2>1. ~supervisor => Told(reach)' \ crossed = (Told(reach) \cup {gossiped}) \ crossed
    BY Zenon, <1>1, <1>4, <1>8 DEF Told, After
  <2>2. ~supervisor => (Told(reach) \cup {gossiped}) \ crossed = Present \ crossed
    BY Zenon, <1>1 DEF ViewInv
  <2> QED BY Zenon, <1>1, <1>3, <1>6, <2>1, <2>2
<1> QED BY Zenon, <1>1, <1>3, <1>5, <1>6, <1>9, <1>10 DEF ViewInv

LEMMA ViewReceive ==
  ASSUME ViewInv, NEW p \in Peer, NEW t \in {0, 1}, receive(p, t)
  PROVE  ViewInv'
<1>1. /\ p \in Present /\ gossiped' = p
      /\ peers' = [peers EXCEPT ![p] = t]
      /\ UNCHANGED <<members, reach, names, late, supervisor, called, crossed>>
  BY Zenon DEF receive, UpdatePeerMeta, serviceVars, clusterState, Present
<1>2. peers' \in [Peer -> {0, 1, NoPeer}] /\ Present' = Present
  BY <1>1 DEF ViewInv, Present, NoPeer
<1>3. Told(members)' = Told(members) /\ Told(reach)' = Told(reach) /\ Leaving' = Leaving
  BY Zenon, <1>1 DEF Told, After, Leaving
<1> QED BY Zenon, <1>1, <1>2, <1>3 DEF ViewInv

\* The registry and the supervisor.
LEMMA ViewNames ==
  ASSUME ViewInv, UNCHANGED <<peers, called, gossiped, crossed>>,
         \/ \E x \in Name, p \in Peer : MergePut(x, p, p \in Present)
         \/ \E x \in Name : Register(x) \/ Unregister(x)
         \/ SupervisorStart
         \/ CommitDecisions
  PROVE  ViewInv'
<1>1. UNCHANGED <<members, reach>> /\ (supervisor => supervisor')
  BY DEF MergePut, Register, Unregister, SupervisorStart, CommitDecisions
<1>2. Told(members)' = Told(members) /\ Told(reach)' = Told(reach) /\ Leaving' = Leaving /\ Present' = Present
  BY Zenon, <1>1 DEF Told, After, Leaving, Present
<1>3. names' \in [Name -> Node \cup {None}]
  <2>1. CASE CommitDecisions
    BY Zenon, <2>1 DEF CommitDecisions, UnregisterByNode, ViewInv
  <2> QED BY Zenon, <2>1, NodeFacts DEF MergePut, Register, Unregister, SupervisorStart, ViewInv
<1>4. ~supervisor' => \A x \in Name : names'[x] \in Present' \cup {Self, None} \cup Leaving' \/ x \in late'
  <2> SUFFICES ASSUME ~supervisor, NEW x \in Name
               PROVE  names'[x] \in Present \cup {Self, None} \cup Leaving \/ x \in late'
    BY Zenon, <1>1, <1>2
  <2>1. names[x] \in Present \cup {Self, None} \cup Leaving \/ x \in late
    BY Zenon DEF ViewInv
  <2>2. CASE \E y \in Name, p \in Peer : MergePut(y, p, p \in Present)
    BY Zenon, <2>1, <2>2 DEF MergePut, ViewInv
  <2>3. CASE \E y \in Name : Register(y) \/ Unregister(y)
    BY Zenon, <2>1, <2>3 DEF Register, Unregister, ViewInv
  <2>4. CASE SupervisorStart
    BY Zenon, <2>1, <2>4 DEF SupervisorStart
  <2>5. CASE CommitDecisions
    BY Zenon, <2>1, <2>5 DEF CommitDecisions, UnregisterByNode
  <2> QED BY Zenon, <2>2, <2>3, <2>4, <2>5
<1> QED BY Zenon, <1>1, <1>2, <1>3, <1>4 DEF ViewInv

LEMMA ViewNext ==
  ASSUME EventsInv, ViewInv, [Next]_vars
  PROVE  ViewInv'
<1>1. EventsInv'
  BY Zenon, EventsNext
<1>2. CASE UNCHANGED vars
  BY Zenon, <1>1, <1>2, ViewStable DEF vars, viewVars, linkVars, serviceVars, clusterState, bookkeeping
<1>3. CASE Next
  BY Zenon, <1>1, <1>3, ViewSteps, ViewStable, ViewEvent, ViewCallback, ViewGossip, ViewReceive, ViewNames
<1> QED BY Zenon, <1>2, <1>3

\* The services agree with the view of the cluster whenever no callback is under way,
\* in any order of member events, gossip, registrations and commands
\* (handleMemberEvent, UpdatePeerMeta, OnMembershipChange, AddRemoteNode,
\* RemoveRemoteNode), with the exceptions that the property names.
THEOREM ClusterServicesFollowView == Spec => []ServicesFollowView
<1>1. Init => EventsInv /\ ViewInv
  BY Zenon, EventsInitially, ViewInitially
<1>2. EventsInv /\ ViewInv /\ [Next]_vars => EventsInv' /\ ViewInv'
  BY Zenon, EventsNext, ViewNext
<1>3. ViewInv => ServicesFollowView
  BY DEF ViewInv, ServicesFollowView, Told, Leaving, NoEvent, Event
<1> QED BY <1>1, <1>2, <1>3, PTL DEF Spec
-----------------------------------------------------------------------------
(* The view and the provider *)

\* Event i is the last of peer p in the sequence s, and what it makes of the peer.
LastOf(s, p, i) == i \in 1 .. Len(s) /\ s[i].peer = p /\ \A j \in 1 .. Len(s) : s[j].peer = p => j <= i
Outcome(ev) == IF ev.type \in {"leave", "failed"} THEN NoPeer ELSE ev.tag

\* The outcome of an event is what an entry of the provider's table says.
Tells(entry, ev) == Outcome(ev) = IF entry.st = "alive" THEN entry.tag ELSE NoPeer

\* Two entries that need no event to tell them apart.
SameMember(e, f) == (e.st = "alive" <=> f.st = "alive") /\ (e.st = "alive" => e.tag = f.tag)

Settles(entry, view, told) ==
  IF entry.st = "alive" THEN view # NoPeer /\ (~told => view = entry.tag) ELSE view = NoPeer

\* The last event of a peer in the channel says what the provider knows, also of a
\* peer that gossip told of; and without an event there the view says so.  A peer that
\* a multicast provider no longer hears is unknown to it, not dead.
FollowInv ==
  /\ kind = "multicast" => \A p \in Peer : known[p].st # "dead"
  /\ node = "started" /\ ~dropped => \A p \in Peer :
       /\ \A i \in 1 .. Len(events) : LastOf(events, p, i) => Tells(known[p], events[i])
       /\ (\A i \in 1 .. Len(events) : events[i].peer # p) => Settles(known[p], peers[p], p \in retold)

\* A peer that has an event in a sequence has a last one.
LEMMA LastExists ==
  ASSUME NEW S, NEW s \in Seq(S), NEW p, NEW k \in 1 .. Len(s), s[k].peer = p
  PROVE  \E i \in 1 .. Len(s) : LastOf(s, p, i)
<1> DEFINE T == {n \in Nat : \E i \in 1 .. Len(s) : s[i].peer = p /\ n = Len(s) - i}
<1>0. Len(s) \in Nat
  OBVIOUS
<1>1. Len(s) - k \in T /\ Len(s) \in Nat
  BY <1>0
<1>2. PICK n \in T : \A m \in T : n <= m
  BY Zenon, <1>1, LeastNatural
<1>3. PICK i \in 1 .. Len(s) : s[i].peer = p /\ n = Len(s) - i
  BY Zenon, <1>2
<1>4. ASSUME NEW j \in 1 .. Len(s), s[j].peer = p
      PROVE  j <= i
  <2>1. Len(s) - j \in T
    BY <1>4, <1>1
  <2> HIDE DEF T
  <2>2. n <= Len(s) - j
    BY Zenon, <2>1, <1>2
  <2> QED BY <2>2, <1>1, <1>3
<1> QED BY Zenon, <1>3, <1>4 DEF LastOf

LEMMA FinalIs ==
  ASSUME EventsInv, NEW p \in Peer
  PROVE  \/ (\A i \in 1 .. Len(events) : events[i].peer # p) /\ Final(p) = peers[p]
         \/ \E i \in 1 .. Len(events) : LastOf(events, p, i) /\ Final(p) = Outcome(events[i])
<1>1. CASE Pending(p) = {}
  BY Zenon, <1>1 DEF Pending, Final
<1>2. CASE Pending(p) # {}
  <2>1. PICK i \in 1 .. Len(events) : LastOf(events, p, i)
    BY Zenon, <1>2, LastExists DEF Pending, EventsInv
  <2>2. i \in Pending(p) /\ \A j \in Pending(p) : j <= i
    BY Zenon, <2>1 DEF Pending, LastOf
  <2> DEFINE last == CHOOSE x \in Pending(p) : \A j \in Pending(p) : j <= x
  <2>3. last \in Pending(p) /\ \A j \in Pending(p) : j <= last
    BY Zenon, <2>2
  <2>4. last = i
    BY <2>2, <2>3 DEF Pending, EventsInv
  <2> HIDE DEF last
  <2>5. Final(p) = IF events[last].type \in {"leave", "failed"} THEN NoPeer ELSE events[last].tag
    BY Zenon, <1>2 DEF Final, last
  <2> QED BY Zenon, <2>1, <2>4, <2>5 DEF Outcome
<1> QED BY Zenon, <1>1, <1>2

LEMMA FollowImplies == EventsInv /\ FollowInv => ViewFollowsProvider
<1> SUFFICES ASSUME EventsInv, FollowInv, node = "started", ~dropped, NEW p \in Peer
             PROVE  IF known[p].st = "alive"
                    THEN Final(p) # NoPeer /\ (p \notin retold => Final(p) = known[p].tag)
                    ELSE Final(p) = NoPeer
  BY Zenon DEF ViewFollowsProvider
<1>1. known[p].tag \in {0, 1}
  BY Zenon DEF EventsInv, EntryType
<1>2. CASE (\A i \in 1 .. Len(events) : events[i].peer # p) /\ Final(p) = peers[p]
  BY Zenon, <1>2 DEF FollowInv, Settles
<1>3. CASE \E i \in 1 .. Len(events) : LastOf(events, p, i) /\ Final(p) = Outcome(events[i])
  BY <1>1, <1>3 DEF FollowInv, Tells, NoPeer
<1> QED BY Zenon, <1>2, <1>3, FinalIs

LEMMA FollowInitially == Init => FollowInv
BY DEF Init, ProviderInit, LinksInit, FollowInv, LastOf, Settles, Member, Unknown, NoPeer

\* What a step of the provider does: it puts events into the channel that say of each
\* peer what the table now says, and none for a peer of which it says the same.
Informs(evs) ==
  \A p \in Peer :
    /\ \A i \in 1 .. Len(evs) : evs[i].peer = p => Tells(known'[p], evs[i])
    /\ (\A i \in 1 .. Len(evs) : evs[i].peer # p) => SameMember(known[p], known'[p])

LEMMA EmitAll ==
  ASSUME events \in Seq(EventType), NEW evs \in Seq(EventType), emit(evs), ~dropped'
  PROVE  events' = events \o evs /\ ~dropped
<1> DEFINE all == events \o evs
<1>1. all \in Seq(EventType) /\ Len(all) \in Nat
  OBVIOUS
<1>2. dropped' = (dropped \/ Len(all) > EventCap)
  BY Zenon DEF emit
<1>3. ~(Len(all) > EventCap) /\ ~dropped
  BY Zenon, <1>2
<1>4. events' = SubSeq(all, 1, Len(all))
  BY Zenon, <1>3 DEF emit
<1> HIDE DEF all
<1>5. events' = all
  BY <1>1, <1>4
<1> QED BY Zenon, <1>3, <1>5 DEF all

LEMMA FollowEmit ==
  ASSUME EventsInv, FollowInv, NEW evs \in Seq(EventType), Informs(evs),
         emit(evs) \/ (evs = <<>> /\ UNCHANGED <<events, dropped>>),
         kind = "multicast" => \A p \in Peer : known'[p].st # "dead",
         UNCHANGED <<kind, node, peers, retold>>
  PROVE  FollowInv'
<1> SUFFICES ASSUME node = "started", ~dropped', NEW p \in Peer
             PROVE  /\ \A i \in 1 .. Len(events') : LastOf(events', p, i) => Tells(known'[p], events'[i])
                    /\ (\A i \in 1 .. Len(events') : events'[i].peer # p) => Settles(known'[p], peers[p], p \in retold)
  BY Zenon DEF FollowInv
<1>1. events' = events \o evs /\ ~dropped
  <2>1. CASE emit(evs)
    BY Zenon, <2>1, EmitAll DEF EventsInv
  <2>2. CASE evs = <<>> /\ UNCHANGED <<events, dropped>>
    BY <2>2 DEF EventsInv
  <2> QED BY Zenon, <2>1, <2>2
<1> DEFINE n == Len(events)
           m == Len(evs)
<1>2. /\ n \in Nat /\ m \in Nat /\ Len(events') = n + m
      /\ \A i \in 1 .. n : events'[i] = events[i]
      /\ \A i \in 1 .. m : events'[n + i] = evs[i]
  BY <1>1 DEF EventsInv
<1> HIDE DEF n, m
<1>3. CASE \A i \in 1 .. m : evs[i].peer # p
  <2>1. SameMember(known[p], known'[p])
    BY Zenon, <1>3 DEF Informs, m
  <2>2. ASSUME NEW i \in 1 .. n + m, LastOf(events', p, i)
        PROVE  Tells(known'[p], events'[i])
    <3>1. i \in 1 .. n
      <4>1. CASE i > n
        <5>1. i - n \in 1 .. m /\ n + (i - n) = i
          BY <1>2, <4>1
        <5> QED BY Zenon, <5>1, <1>2, <1>3, <2>2 DEF LastOf
      <4> QED BY <4>1, <1>2
    <3>2. LastOf(events, p, i)
      BY <3>1, <1>2, <2>2 DEF LastOf, n
    <3>3. Tells(known[p], events[i])
      BY Zenon, <3>1, <3>2, <1>1 DEF FollowInv, n
    <3> QED BY Zenon, <3>1, <3>3, <2>1, <1>2 DEF Tells, SameMember
  <2>3. ASSUME \A i \in 1 .. n + m : events'[i].peer # p
        PROVE  Settles(known'[p], peers[p], p \in retold)
    <3>1. \A i \in 1 .. Len(events) : events[i].peer # p
      BY <2>3, <1>2 DEF n
    <3>2. Settles(known[p], peers[p], p \in retold)
      BY Zenon, <3>1, <1>1 DEF FollowInv
    <3> QED BY Zenon, <3>2, <2>1 DEF Settles, SameMember
  <2> QED BY Zenon, <2>2, <2>3, <1>2
<1>4. CASE \E i \in 1 .. m : evs[i].peer = p
  <2>1. PICK k \in 1 .. m : evs[k].peer = p
    BY Zenon, <1>4
  <2>2. n + k \in 1 .. n + m /\ events'[n + k].peer = p
    BY <1>2, <2>1
  <2>3. ASSUME NEW i \in 1 .. n + m, LastOf(events', p, i)
        PROVE  Tells(known'[p], events'[i])
    <3>1. n + k <= i /\ events'[i].peer = p
      BY Zenon, <2>2, <2>3, <1>2 DEF LastOf
    <3>2. i - n \in 1 .. m /\ n + (i - n) = i
      BY <3>1, <1>2
    <3>3. events'[i] = evs[i - n]
      BY Zenon, <3>2, <1>2
    <3> QED BY Zenon, <3>1, <3>2, <3>3 DEF Informs, m
  <2> QED BY Zenon, <2>2, <2>3, <1>2
<1> QED BY Zenon, <1>3, <1>4

\* The events of a set, in any order: those of the set and no others.
LEMMA OrdersCover ==
  ASSUME NEW T \in SUBSET EventType, NEW evs \in Orders(T)
  PROVE  /\ evs \in Seq(EventType)
         /\ \A i \in 1 .. Len(evs) : evs[i] \in T
         /\ \A ev \in T : \E i \in 1 .. Len(evs) : evs[i] = ev
<1> DEFINE n == Cardinality(T)
<1>1. IsFiniteSet(T) /\ n \in Nat
  BY Zenon, EventTypeFinite, FS_Subset, FS_CardinalityType
<1>2. evs \in Injection(1 .. n, T) /\ evs \in [1 .. n -> T]
  BY Zenon DEF Orders, Injection
<1>3. Cardinality(1 .. n) = n
  BY <1>1, FS_Interval
<1> HIDE DEF n
<1>4. evs \in Surjection(1 .. n, T)
  BY Zenon, <1>1, <1>2, <1>3, FS_Injection DEF n
<1>5. evs \in Seq(EventType) /\ Len(evs) = n
  BY <1>1, <1>2
<1> QED BY Zenon, <1>2, <1>4, <1>5 DEF Surjection

\* Every provider tells of what it changes.
LEMMA ProviderInforms ==
  ASSUME EventsInv, FollowInv,
         \/ \E p \in Peer : Probe(p) \/ Announced(p)
         \/ Poll \/ Sweep \/ ProviderFault
  PROVE  /\ \E evs \in Seq(EventType) :
              /\ Informs(evs)
              /\ emit(evs) \/ (evs = <<>> /\ UNCHANGED <<events, dropped>>)
         /\ kind = "multicast" => \A p \in Peer : known'[p].st # "dead"
         /\ UNCHANGED kind
<1> DEFINE Goal == /\ \E evs \in Seq(EventType) :
                        /\ Informs(evs)
                        /\ emit(evs) \/ (evs = <<>> /\ UNCHANGED <<events, dropped>>)
                   /\ kind = "multicast" => \A p \in Peer : known'[p].st # "dead"
                   /\ UNCHANGED kind
<1>q. ASSUME NEW p \in Peer, NEW e \in EntryType, known' = [known EXCEPT ![p] = e], SameMember(known[p], e),
             UNCHANGED <<events, dropped>>
      PROVE  \E evs \in Seq(EventType) :
                /\ Informs(evs)
                /\ emit(evs) \/ (evs = <<>> /\ UNCHANGED <<events, dropped>>)
  <2>1. Informs(<<>>)
    BY <1>q DEF Informs, SameMember, EventsInv
  <2>2. <<>> \in Seq(EventType)
    OBVIOUS
  <2> QED BY Zenon, <1>q, <2>1, <2>2
<1>e. ASSUME NEW p \in Peer, NEW e \in EntryType, known' = [known EXCEPT ![p] = e],
             NEW ev \in EventType, ev.peer = p, Tells(e, ev), emit(<<ev>>)
      PROVE  \E evs \in Seq(EventType) :
                /\ Informs(evs)
                /\ emit(evs) \/ (evs = <<>> /\ UNCHANGED <<events, dropped>>)
  <2>1. <<ev>> \in Seq(EventType) /\ Len(<<ev>>) = 1 /\ <<ev>>[1] = ev
    OBVIOUS
  <2>2. known'[p] = e /\ \A q \in Peer : q # p => known'[q] = known[q]
    BY Zenon, <1>e DEF EventsInv
  <2>3. Informs(<<ev>>)
    <3> SUFFICES ASSUME NEW q \in Peer
                 PROVE  /\ \A i \in 1 .. Len(<<ev>>) : <<ev>>[i].peer = q => Tells(known'[q], <<ev>>[i])
                        /\ (\A i \in 1 .. Len(<<ev>>) : <<ev>>[i].peer # q) => SameMember(known[q], known'[q])
      BY Zenon DEF Informs
    <3>1. \A i \in 1 .. Len(<<ev>>) : <<ev>>[i] = ev
      BY <2>1
    <3>2. 1 \in 1 .. Len(<<ev>>)
      BY <2>1
    <3> QED BY Zenon, <1>e, <2>2, <3>1, <3>2 DEF SameMember
  <2> QED BY Zenon, <1>e, <2>1, <2>3
<1>1. ASSUME NEW p \in Peer, NEW answer \in BOOLEAN, probeSeed(p, answer) PROVE Goal
  <2>0. kind = "fixed" /\ UNCHANGED kind /\ known[p] \in EntryType
    BY Zenon, <1>1 DEF probeSeed, outside, EventsInv
  <2>1. CASE answer /\ known[p].st = "alive"
    <3>1. [known[p] EXCEPT !.miss = 0] \in EntryType /\ SameMember(known[p], [known[p] EXCEPT !.miss = 0])
      BY Zenon, <2>0 DEF EntryType, SameMember
    <3>2. known' = [known EXCEPT ![p] = [known[p] EXCEPT !.miss = 0]] /\ UNCHANGED <<events, dropped>>
      BY Zenon, <1>1, <2>1 DEF probeSeed, handleProbeSuccess, Known
    <3> QED BY Zenon, <1>q, <2>0, <3>1, <3>2
  <2>2. CASE answer /\ known[p].st # "alive"
    <3>1. /\ Member(0) \in EntryType /\ Event("join", p, 0) \in EventType /\ Event("join", p, 0).peer = p
          /\ Tells(Member(0), Event("join", p, 0))
      BY Zenon DEF EntryType, EventType, Member, Event, Tells, Outcome
    <3>2. known' = [known EXCEPT ![p] = Member(0)] /\ emit(<<Event("join", p, 0)>>)
      BY Zenon, <1>1, <2>2 DEF probeSeed, handleProbeSuccess, Known
    <3> QED BY Zenon, <1>e, <2>0, <3>1, <3>2
  <2>3. CASE ~answer
    <3>1. /\ Missed(known[p]) \in EntryType /\ Dead(known[p]) \in EntryType
          /\ known[p].st = "alive" => SameMember(known[p], Missed(known[p]))
          /\ Event("failed", p, known[p].tag) \in EventType /\ Event("failed", p, known[p].tag).peer = p
          /\ Tells(Dead(known[p]), Event("failed", p, known[p].tag))
      BY <2>0 DEF Missed, Dead, Event, EntryType, EventType, SameMember, Tells, Outcome
    <3>2. /\ known[p].st = "alive"
          /\ \/ known' = [known EXCEPT ![p] = Missed(known[p])] /\ UNCHANGED <<events, dropped>>
             \/ known' = [known EXCEPT ![p] = Dead(known[p])] /\ emit(<<Event("failed", p, known[p].tag)>>)
      BY Zenon, <1>1, <2>3 DEF probeSeed, handleProbeFailure, Known
    <3> QED BY Zenon, <1>q, <1>e, <2>0, <3>1, <3>2
  <2> QED BY Zenon, <2>1, <2>2, <2>3
<1>2. ASSUME NEW D \in SUBSET Peer, poll(D) PROVE Goal
  <2>1. kind = "poll" /\ UNCHANGED kind
    BY Zenon, <1>2 DEF poll, outside
  <2>2. PICK found \in Orders(Joined(D) \cup Updated(D)), lost \in Orders(Missing(D)) : emit(found \o lost)
    BY Zenon, <1>2 DEF poll, diffMembers
  <2> DEFINE A == Joined(D) \cup Updated(D)
             B == Missing(D)
             evs == found \o lost
  <2>3. A \in SUBSET EventType /\ B \in SUBSET EventType
    BY DEF Joined, Updated, Missing, Event, EntryType, EventType, EventsInv
  <2>4. /\ found \in Seq(EventType) /\ \A i \in 1 .. Len(found) : found[i] \in A
        /\ \A ev \in A : \E i \in 1 .. Len(found) : found[i] = ev
        /\ lost \in Seq(EventType) /\ \A i \in 1 .. Len(lost) : lost[i] \in B
        /\ \A ev \in B : \E i \in 1 .. Len(lost) : lost[i] = ev
    BY Zenon, <2>3, OrdersCover
  <2> HIDE DEF A, B
  <2>5. evs \in Seq(EventType) /\ (\A i \in 1 .. Len(evs) : evs[i] \in A \cup B)
        /\ \A ev \in A \cup B : \E i \in 1 .. Len(evs) : evs[i] = ev
    <3>1. evs \in Seq(EventType) /\ Len(evs) = Len(found) + Len(lost) /\ Len(found) \in Nat /\ Len(lost) \in Nat
      BY <2>4
    <3>2. /\ \A i \in 1 .. Len(found) : evs[i] = found[i] /\ i \in 1 .. Len(evs)
          /\ \A i \in 1 .. Len(lost) : evs[Len(found) + i] = lost[i] /\ Len(found) + i \in 1 .. Len(evs)
      BY <2>4, <3>1
    <3>3. ASSUME NEW i \in 1 .. Len(evs) PROVE evs[i] \in A \cup B
      <4>1. CASE i <= Len(found)
        BY <4>1, <3>1, <3>2, <2>4
      <4>2. CASE i > Len(found)
        <5>1. i - Len(found) \in 1 .. Len(lost) /\ Len(found) + (i - Len(found)) = i
          BY <4>2, <3>1
        <5>2. evs[i] = lost[i - Len(found)]
          BY Zenon, <5>1, <3>2
        <5> QED BY Zenon, <5>1, <5>2, <2>4
      <4> QED BY <4>1, <4>2, <3>1
    <3>4. ASSUME NEW ev \in A \cup B PROVE \E i \in 1 .. Len(evs) : evs[i] = ev
      BY <2>4, <3>2
    <3> QED BY Zenon, <3>1, <3>3, <3>4
  <2> HIDE DEF evs
  <2>6. ASSUME NEW p \in Peer, NEW ev \in A \cup B, ev.peer = p
        PROVE  Tells(known'[p], ev)
    <3>1. known'[p] = Polled(p, D) /\ known[p] \in EntryType
      BY Zenon, <1>2 DEF poll, diffMembers, EventsInv
    <3>2. CASE ev \in A
      BY <2>6, <3>1, <3>2 DEF A, Joined, Updated, Event, Polled, Member, Tells, Outcome
    <3>3. CASE ev \in B
      BY <2>6, <3>1, <3>3 DEF B, Missing, Event, Polled, Dead, Tells, Outcome, EntryType
    <3> QED BY Zenon, <3>2, <3>3
  <2>7. ASSUME NEW p \in Peer, ~SameMember(known[p], known'[p])
        PROVE  \E ev \in A \cup B : ev.peer = p
    <3>1. known'[p] = Polled(p, D) /\ known[p] \in EntryType
      BY Zenon, <1>2 DEF poll, diffMembers, EventsInv
    <3>2. CASE p \in D /\ known[p].st # "alive"
      <4>1. Event("join", p, tag[p]) \in A /\ Event("join", p, tag[p]).peer = p
        BY Zenon, <3>2 DEF A, Joined, Event
      <4> QED BY Zenon, <4>1
    <3>3. CASE p \in D /\ known[p].st = "alive"
      <4>1. known[p].tag # tag[p]
        BY <2>7, <3>1, <3>3 DEF Polled, Member, SameMember
      <4>2. Event("updated", p, tag[p]) \in A /\ Event("updated", p, tag[p]).peer = p
        BY Zenon, <3>3, <4>1 DEF A, Updated, Event
      <4> QED BY Zenon, <4>2
    <3>4. CASE p \notin D
      <4>1. known[p].st = "alive" /\ known[p].miss + 1 >= Threshold
        BY <2>7, <3>1, <3>4, ProviderAssumption DEF Polled, Missed, SameMember, EntryType
      <4>2. Event("failed", p, known[p].tag) \in B /\ Event("failed", p, known[p].tag).peer = p
        BY Zenon, <3>4, <4>1 DEF B, Missing, Event
      <4> QED BY Zenon, <4>2
    <3> QED BY Zenon, <3>2, <3>3, <3>4
  <2>8. Informs(evs)
    BY Zenon, <2>5, <2>6, <2>7 DEF Informs
  <2> QED BY Zenon, <2>1, <2>2, <2>5, <2>8 DEF evs
<1>3. ASSUME NEW p \in Peer, NEW leaving \in BOOLEAN, handleAnnouncement(p, leaving) PROVE Goal
  <2>1. kind = "multicast" /\ UNCHANGED kind /\ known[p] \in EntryType /\ known[p].st # "dead" /\ tag[p] \in {0, 1}
    BY Zenon, <1>3 DEF handleAnnouncement, outside, EventsInv, FollowInv
  <2>2. /\ Unknown \in EntryType /\ Member(tag[p]) \in EntryType
        /\ \A type \in {"join", "updated", "leave", "failed"} :
             Event(type, p, tag[p]) \in EventType /\ Event(type, p, tag[p]).peer = p
        /\ Tells(Unknown, Event("leave", p, tag[p]))
        /\ Tells(Member(tag[p]), Event("join", p, tag[p])) /\ Tells(Member(tag[p]), Event("updated", p, tag[p]))
    BY Zenon, <2>1 DEF Unknown, Member, Event, EntryType, EventType, Tells, Outcome
  <2>3. \A q \in Peer : known'[q].st # "dead"
    BY <1>3, <2>1 DEF handleAnnouncement, Known, Unknown, Member, EventsInv, FollowInv
  <2>4. CASE leaving
    <3>1. known' = [known EXCEPT ![p] = Unknown] /\ emit(<<Event("leave", p, tag[p])>>)
      BY Zenon, <1>3, <2>4 DEF handleAnnouncement, Known
    <3> QED BY Zenon, <1>e, <2>1, <2>2, <2>3, <3>1
  <2>5. CASE ~leaving
    <3>1. /\ known' = [known EXCEPT ![p] = Member(tag[p])]
          /\ \/ emit(<<Event("join", p, tag[p])>>) \/ emit(<<Event("updated", p, tag[p])>>)
             \/ known[p].st = "alive" /\ known[p].tag = tag[p] /\ UNCHANGED <<events, dropped>>
      BY Zenon, <1>3, <2>1, <2>5 DEF handleAnnouncement, Known, EntryType
    <3>2. known[p].st = "alive" /\ known[p].tag = tag[p] => SameMember(known[p], Member(tag[p]))
      BY Zenon DEF SameMember, Member
    <3> QED BY Zenon, <1>e, <1>q, <2>1, <2>2, <2>3, <3>1, <3>2
  <2> QED BY Zenon, <2>4, <2>5
<1>4. ASSUME NEW L \in SUBSET Peer, sweep(L) PROVE Goal
  <2> DEFINE T == {Event("failed", p, known[p].tag) : p \in L}
  <2>1. kind = "multicast" /\ UNCHANGED kind
        /\ known' = [p \in Peer |-> IF p \in L THEN Unknown ELSE known[p]]
    BY Zenon, <1>4 DEF sweep, outside
  <2>2. PICK evs \in Orders(T) : emit(evs)
    BY Zenon, <1>4 DEF sweep
  <2>3. T \in SUBSET EventType
    BY DEF Event, EntryType, EventType, EventsInv
  <2>4. /\ \A ev \in T : ev.peer \in L /\ Tells(Unknown, ev)
        /\ \A p \in L : Event("failed", p, known[p].tag) \in T /\ Event("failed", p, known[p].tag).peer = p
    BY DEF Event, Tells, Outcome, Unknown
  <2> HIDE DEF T
  <2>5. /\ evs \in Seq(EventType) /\ \A i \in 1 .. Len(evs) : evs[i] \in T
        /\ \A ev \in T : \E i \in 1 .. Len(evs) : evs[i] = ev
    BY Zenon, <2>3, OrdersCover
  <2>6. ASSUME NEW p \in Peer, NEW i \in 1 .. Len(evs), evs[i].peer = p
        PROVE  Tells(known'[p], evs[i])
    BY Zenon, <2>1, <2>4, <2>5, <2>6
  <2>7. ASSUME NEW p \in Peer, \A i \in 1 .. Len(evs) : evs[i].peer # p
        PROVE  SameMember(known[p], known'[p])
    <3>1. p \notin L
      BY <2>4, <2>5, <2>7
    <3> QED BY Zenon, <2>1, <3>1 DEF SameMember
  <2>8. \A p \in Peer : known'[p].st # "dead"
    BY Zenon, <2>1 DEF Unknown, FollowInv
  <2>9. Informs(evs)
    BY Zenon, <2>6, <2>7 DEF Informs
  <2> QED BY Zenon, <2>1, <2>2, <2>5, <2>8, <2>9
<1> SUFFICES Goal
  OBVIOUS
<1> HIDE DEF Goal
<1>5. CASE \E p \in Peer : Probe(p) \/ Announced(p)
  <2>1. PICK p \in Peer : Probe(p) \/ Announced(p)
    BY Zenon, <1>5
  <2>2. Announced(p) => Goal
    BY Zenon, <1>3 DEF Announced
  <2>3. probeSeed(p, up[p]) => probeSeed(p, TRUE) \/ probeSeed(p, FALSE)
    BY Zenon DEF probeSeed
  <2>4. Probe(p) => Goal
    BY Zenon, <1>1, <2>3 DEF Probe
  <2> QED BY Zenon, <2>1, <2>2, <2>4
<1>6. CASE Poll \/ Sweep
  <2>1. Up \in SUBSET Peer /\ Alive \ Up \in SUBSET Peer
    BY Zenon DEF Up, Alive
  <2> QED BY Zenon, <1>2, <1>4, <1>6, <2>1 DEF Poll, Sweep
<1>7. CASE ProviderFault
  <2>1. Up \in SUBSET Peer
    BY Zenon DEF Up
  <2> QED BY Zenon, <1>1, <1>2, <1>3, <1>4, <1>7, <2>1 DEF ProviderFault
<1> QED BY Zenon, <1>5, <1>6, <1>7

\* The loop takes an event and the view is what the event says; what came by gossip
\* of its peer before no longer counts.
LEMMA FollowEvent ==
  ASSUME EventsInv, peers \in [Peer -> {0, 1, NoPeer}], FollowInv, membershipLoop
  PROVE  FollowInv'
<1> DEFINE ev == Head(events)
<1>1. /\ ev \in EventType /\ ev = events[1] /\ events # <<>> /\ events' = Tail(events) /\ retold' = retold \ {ev.peer}
      /\ peers' = [peers EXCEPT ![ev.peer] = Outcome(ev)] /\ UNCHANGED <<kind, known, dropped, node>>
  <2>1. /\ events # <<>> /\ events' = Tail(events) /\ retold' = retold \ {ev.peer}
        /\ peers' = [peers EXCEPT ![ev.peer] = Outcome(ev)] /\ UNCHANGED <<kind, known, dropped, node>>
    BY Zenon DEF membershipLoop, handleMemberEvent, Reconciled, outside, Outcome
  <2>2. ev \in EventType /\ ev = events[1]
    BY <2>1 DEF EventsInv
  <2> QED BY Zenon, <2>1, <2>2
<1> HIDE DEF ev
<1>2. /\ Len(events) \in Nat \ {0} /\ Len(events') = Len(events) - 1
      /\ \A i \in 1 .. Len(events) - 1 : events'[i] = events[i + 1]
  BY <1>1 DEF EventsInv
<1> SUFFICES ASSUME node = "started", ~dropped, NEW p \in Peer
             PROVE  /\ \A i \in 1 .. Len(events') : LastOf(events', p, i) => Tells(known[p], events'[i])
                    /\ (\A i \in 1 .. Len(events') : events'[i].peer # p) => Settles(known[p], peers'[p], p \in retold')
  BY Zenon, <1>1 DEF FollowInv
<1>3. ASSUME NEW i \in 1 .. Len(events'), LastOf(events', p, i)
      PROVE  Tells(known[p], events'[i])
  <2>1. i + 1 \in 1 .. Len(events) /\ events'[i] = events[i + 1]
    BY <1>2
  <2>2. ASSUME NEW j \in 1 .. Len(events), events[j].peer = p
        PROVE  j <= i + 1
    <3>1. CASE j = 1
      BY <3>1, <2>1
    <3>2. CASE j # 1
      <4>1. j - 1 \in 1 .. Len(events') /\ events'[j - 1] = events[j]
        BY <1>2, <3>2
      <4>2. j - 1 <= i
        BY Zenon, <1>3, <2>2, <4>1 DEF LastOf
      <4> QED BY <1>2, <4>2
    <3> QED BY Zenon, <3>1, <3>2
  <2>3. LastOf(events, p, i + 1)
    BY Zenon, <1>3, <2>1, <2>2 DEF LastOf
  <2> QED BY Zenon, <2>1, <2>3 DEF FollowInv
<1>4. ASSUME \A i \in 1 .. Len(events') : events'[i].peer # p
      PROVE  Settles(known[p], peers'[p], p \in retold')
  <2>1. ASSUME NEW j \in 2 .. Len(events)
        PROVE  events[j].peer # p
    <3>1. j - 1 \in 1 .. Len(events') /\ events'[j - 1] = events[j]
      BY <1>2
    <3> QED BY Zenon, <1>4, <3>1
  <2>3. CASE ev.peer = p
    <3>1. LastOf(events, p, 1)
      BY <1>1, <1>2, <2>1, <2>3 DEF LastOf
    <3>2. Tells(known[p], ev)
      BY <1>1, <1>2, <3>1 DEF FollowInv
    <3>3. peers'[p] = Outcome(ev) /\ known[p].tag \in {0, 1}
      BY Zenon, <1>1, <2>3 DEF EventsInv, EntryType
    <3> QED BY <3>2, <3>3 DEF Tells, Settles, NoPeer
  <2>4. CASE ev.peer # p
    <3>1. \A j \in 1 .. Len(events) : events[j].peer # p
      BY <1>1, <1>2, <2>1, <2>4
    <3>2. Settles(known[p], peers[p], p \in retold)
      BY Zenon, <3>1 DEF FollowInv
    <3>3. peers'[p] = peers[p] /\ (p \in retold' <=> p \in retold)
      BY Zenon, <1>1, <2>4
    <3> QED BY Zenon, <3>2, <3>3 DEF Settles
  <2> QED BY Zenon, <2>3, <2>4
<1> QED BY Zenon, <1>3, <1>4

\* Gossip changes the tags of a peer that is in the view, and of no other.
LEMMA FollowGossip ==
  ASSUME EventsInv, peers \in [Peer -> {0, 1, NoPeer}], FollowInv, NEW p \in Peer, NEW t \in {0, 1}, receive(p, t)
  PROVE  FollowInv'
<1>1. /\ UNCHANGED <<kind, known, events, dropped, node>> /\ retold' = retold \cup {p}
      /\ peers[p] # NoPeer /\ peers' = [peers EXCEPT ![p] = t] /\ t # NoPeer
  BY DEF receive, UpdatePeerMeta, providerVars, NoPeer
<1>2. ASSUME NEW q \in Peer, Settles(known[q], peers[q], q \in retold)
      PROVE  Settles(known[q], peers'[q], q \in retold')
  BY Zenon, <1>1, <1>2 DEF Settles
<1> QED BY Zenon, <1>1, <1>2 DEF FollowInv

LEMMA FollowNext ==
  ASSUME EventsInv, ViewInv, FollowInv, [Next]_vars
  PROVE  FollowInv'
<1> DEFINE Kept == UNCHANGED <<kind, known, events, dropped, peers, retold>> /\ (node' = "started" => node = "started")
<1>0. peers \in [Peer -> {0, 1, NoPeer}]
  BY Zenon DEF ViewInv
<1>1. Kept => FollowInv'
  BY DEF FollowInv
<1> HIDE DEF Kept
<1>2. ASSUME (\E p \in Peer : Probe(p) \/ Announced(p)) \/ Poll \/ Sweep \/ ProviderFault,
             UNCHANGED <<node, peers, retold>>
      PROVE  FollowInv'
  <2>1. PICK evs \in Seq(EventType) :
          /\ Informs(evs)
          /\ emit(evs) \/ (evs = <<>> /\ UNCHANGED <<events, dropped>>)
    BY Zenon, <1>2, ProviderInforms
  <2>2. UNCHANGED kind /\ (kind = "multicast" => \A p \in Peer : known'[p].st # "dead")
    BY Zenon, <1>2, ProviderInforms
  <2> QED BY Zenon, <1>2, <2>1, <2>2, FollowEmit
<1>3. CASE Change
  <2>1. CASE \E p \in Volatile : PeerUp(p) \/ PeerDown(p) \/ PeerRetags(p)
    <3>1. UNCHANGED <<kind, known, events, dropped>>
      BY Zenon, <2>1 DEF PeerUp, PeerDown, PeerRetags, table
    <3>2. UNCHANGED <<linkVars, retold>> \/ \E p \in Volatile, t \in {0, 1} : receive(p, t)
      BY Zenon, <1>3 DEF Change
    <3>3. UNCHANGED <<linkVars, retold>> => Kept
      BY Zenon, <3>1 DEF Kept, linkVars
    <3> QED BY Zenon, <1>0, <1>1, <3>2, <3>3, FollowGossip, ClusterAssumption
  <2>2. CASE ProviderFault /\ UNCHANGED <<linkVars, retold>>
    BY Zenon, <1>2, <2>2 DEF linkVars
  <2>3. CASE \E p \in Volatile, t \in {0, 1} : receive(p, t)
    BY Zenon, <1>0, <2>3, FollowGossip, ClusterAssumption
  <2>4. CASE UNCHANGED <<providerVars, linkVars, retold>>
    BY Zenon, <1>1, <2>4 DEF Kept, providerVars, linkVars
  <2> QED BY Zenon, <1>3, <2>1, <2>2, <2>3, <2>4 DEF Change
<1>4. CASE Command
  <2>1. UNCHANGED <<kind, known, events, dropped, retold>>
    BY Zenon, <1>4 DEF Command, AddSeed, providerVars, table
  <2>2. UNCHANGED linkVars \/ Stop \/ (\E p \in Peer : Send(p)) \/ (\E p \in Up, target \in Node : PeerSends(p, target))
        \/ (\E p \in Up : OnConnectionEstablished(p, "in") \/ OnConnectionEstablished(p, "astray"))
    BY Zenon, <1>4 DEF Command
  <2>3. UNCHANGED peers /\ (node' = "started" => node = "started")
    BY Zenon, <2>2 DEF linkVars, links, Stop, Send, PeerSends, OnConnectionEstablished
  <2> QED BY Zenon, <1>1, <2>1, <2>3 DEF Kept
<1>5. CASE Step
  <2>1. CASE \E p \in Peer : ProviderWorks(Probe(p) \/ Announced(p))
    BY Zenon, <1>2, <2>1 DEF ProviderWorks, linkVars, bookkeeping
  <2>2. CASE ProviderWorks(Poll \/ Sweep)
    BY Zenon, <1>2, <2>2 DEF ProviderWorks, linkVars, bookkeeping
  <2>3. CASE MembershipWorks
    <3>1. CASE membershipLoop
      BY Zenon, <1>0, <3>1, FollowEvent
    <3>2. CASE ~membershipLoop
      BY Zenon, <1>1, <2>3, <3>2 DEF MembershipWorks, Callback, Kept, providerVars, linkVars, bookkeeping
    <3> QED BY Zenon, <3>1, <3>2
  <2>4. CASE GossipCallback
    BY Zenon, <1>1, <2>4 DEF GossipCallback, Kept, providerVars, linkVars
  <2>5. CASE LinksStep(Up) /\ UNCHANGED <<providerVars, bookkeeping>>
    <3>1. UNCHANGED peers /\ (node' = "started" => node = "started")
      BY Zenon, <2>5 DEF LinksStep, dialReturns, dialPeer, Dispatch, directConnection, nextHop, hopConnection,
                  ensureConnection, sendFailed, ensureDials, Ends, StopEnds, sent, Forward, links
    <3> QED BY Zenon, <1>1, <2>5, <3>1 DEF Kept, providerVars, bookkeeping
  <2> QED BY Zenon, <1>5, <2>1, <2>2, <2>3, <2>4, <2>5 DEF Step
<1>6. CASE UNCHANGED vars
  BY Zenon, <1>1, <1>6 DEF vars, Kept, providerVars, linkVars, bookkeeping
<1> QED BY Zenon, <1>3, <1>4, <1>5, <1>6 DEF Next

\* Whatever the provider, and whatever it sees of its peers: as long as no event was
\* dropped, the peers of a running node will be, after the events in the channel,
\* the members the provider counts as alive, with their tags unless gossip told
\* others (handleMemberEvent, UpdatePeerMeta, emit).
THEOREM ClusterViewFollowsProvider == Spec => []ViewFollowsProvider
<1>1. Init => EventsInv /\ ViewInv /\ FollowInv
  BY Zenon, EventsInitially, ViewInitially, FollowInitially
<1>2. EventsInv /\ ViewInv /\ FollowInv /\ [Next]_vars => EventsInv' /\ ViewInv' /\ FollowInv'
  BY Zenon, EventsNext, ViewNext, FollowNext
<1>3. EventsInv /\ FollowInv => ViewFollowsProvider
  BY Zenon, FollowImplies
<1> QED BY <1>1, <1>2, <1>3, PTL DEF Spec
=============================================================================
