---------------------------- MODULE PubSubBroker ----------------------------
(***************************************************************************)
(* Publish-subscribe: the broker actor of each node (pubsub_broker.go),    *)
(* its trie of patterns (pubsub_trie.go, pubsub_pattern.go), and the three *)
(* adapters that carry publications to the other nodes: direct sends to    *)
(* every member, gossip rounds, and sends to the nodes that a replicated   *)
(* map names for the topic (pubsub_adapter_*.go).                          *)
(*                                                                         *)
(* The broker is an actor: it handles one command at a time.  What it      *)
(* starts runs beside it: one goroutine per publication that sends to the  *)
(* subscribers, and the messages between nodes, which may be lost.  A      *)
(* topic or a pattern is the sequence of its segments.  bySubscriber,      *)
(* which mirrors byPattern and is never read, is left out.                 *)
(***************************************************************************)
EXTENDS Subscribers

CONSTANTS Pattern, Topic,
          Publication,   \* bound: the publications of a behaviour
          MaxPending,    \* maxPendingPubSub of the gossip adapter
          Fanout         \* the peers of a gossip round

ASSUME PubSubAssumption == Pattern \subseteq Seq(STRING) /\ Topic \subseteq Seq(STRING)

VARIABLES
  broker,      \* the nodes that have a broker actor
  byPattern,   \* pubsubBrokerService.byPattern: the generation of the PID that
               \* subscribed, 0 when there is none
  trie,        \* the entries of each node's subscriptionTrie
  adapter,     \* the adapter of the cluster, chosen at its start
  codec,       \* its codec: gob, the default, or another one
  routes,      \* the replicated map of the CRDT adapter: its pairs of a
               \* pattern and a node, as they are once merged
  view,        \* what each node has merged of it
  dropped,     \* history: the nodes whose routes a peer has removed
  pub,         \* the publications: topic and origin
  sending,     \* the goroutines of dispatchPublish: publication, targets left
  wire,        \* the messages under way: publication and node
  pending,     \* GossipPubSubAdapter.pending of each node
  got          \* history: how often a publication was sent to a subscriber

pubsubVars == <<broker, byPattern, trie, adapter, codec, routes, view, dropped, pub, sending, wire,
                pending, got>>

config == <<adapter, codec>>
crdt == <<routes, view, dropped>>
flow == <<pub, sending, wire, pending, got>>

NoPub == [topic |-> <<>>, origin |-> "none"]
-----------------------------------------------------------------------------
(* Patterns and the trie.                                                  *)

\* parseTopicPattern: # is the last segment or none; segments are not empty.
ValidPattern(p) ==
  /\ p # <<>>
  /\ \A i \in 1 .. Len(p) : p[i] # "" /\ (p[i] = "#" => i = Len(p))

\* parsePublishTopic.
ValidTopic(t) == t # <<>> /\ \A i \in 1 .. Len(t) : t[i] \notin {"", "+", "#"}

\* The segments of a path in the trie, + for a star child.
Segment == {"+"} \cup UNION {Range(x) : x \in Pattern \cup Topic}

Last(p)  == p[Len(p)]
Front(p) == SubSeq(p, 1, Len(p) - 1)

\* Where subscriptionTrie.insert stores the subscriber: at the node before #, or
\* at the node of a last literal segment; a last + makes the node and stores
\* nothing.  A node is named by the path to it, a star child by +.
Leaf(p) ==
  CASE Last(p) = "#" -> {[path |-> Front(p), kind |-> "tail"]}
    [] Last(p) = "+" -> {}
    [] OTHER -> {[path |-> p, kind |-> "exact"]}

\* The entries of a trie after insert; an entry is keyed by the node's map and
\* the subscriber.
insert(tr, p, s, g) ==
  {e \in tr : \A l \in Leaf(p) : ~(e.path = l.path /\ e.kind = l.kind /\ e.sub = s)}
  \cup {[path |-> l.path, kind |-> l.kind, sub |-> s, gen |-> g] : l \in Leaf(p)}

\* The entries found replace what was found before under the same PID key.
Found(results, entries) ==
  [s \in Subscriber |-> IF \E e \in entries : e.sub = s
                         THEN (CHOOSE e \in entries : e.sub = s).gen ELSE results[s]]

\* The closure of match, for the nodes with k segments of the topic to go: the tail of
\* a node, then what is exact at the end of the topic, or the child of the segment
\* and the star.
walk(tr, topic) ==
  LET here(node, kind) == {e \in tr : e.path = node /\ e.kind = kind}
      level[k \in 0 .. Len(topic)] ==
        [node \in Seq(Segment) |-> [results \in [Subscriber -> Nat] |->
           LET withTail == Found(results, here(node, "tail"))
               child == level[k - 1][Append(node, topic[Len(topic) + 1 - k])]
               star == level[k - 1][Append(node, "+")]
           IN  IF k = 0 THEN Found(withTail, here(node, "exact")) ELSE star[child[withTail]]]]
  IN  level

\* subscriptionTrie.match: the generation of the PID to send to, 0 for none.
match(tr, topic) == walk(tr, topic)[Len(topic)][<<>>][[s \in Subscriber |-> 0]]

\* rebuildTrieLocked: the entries of every subscription of the index.
rebuild(index) ==
  UNION {{[path |-> l.path, kind |-> l.kind, sub |-> ps[2], gen |-> index[ps[1]][ps[2]]] : l \in Leaf(ps[1])} :
           ps \in {x \in Pattern \X Subscriber : index[x[1]][x[2]] # 0}}

HasLocal(index, p) == \E s \in Subscriber : index[p][s] # 0
-----------------------------------------------------------------------------
PubSubInit ==
  /\ broker = {}
  /\ byPattern = [n \in Node |-> [p \in Pattern |-> [s \in Subscriber |-> 0]]]
  /\ trie = [n \in Node |-> {}]
  /\ adapter \in {"direct", "gossip", "crdt"}
  /\ codec \in {"gob", "other"}
  /\ routes = {}
  /\ view = [n \in Node |-> {}]
  /\ dropped = {}
  /\ pub = [m \in Publication |-> NoPub]
  /\ sending = {}
  /\ wire = {}
  /\ pending = [n \in Node |-> {}]
  /\ got = [m \in Publication |-> [s \in Subscriber |-> 0]]

\* EnsureBrokerActor, the first thing of every call: makes the actor unless there
\* is one.  Who comes between the creation and the entry in the map is refused as
\* a duplicate, which leaves the state alone.
EnsureBrokerActor(n) == broker' = broker \cup {n}

\* A slip: the last unsubscription is not announced.
Announce_AddOnly(n, p, first, last) ==
  LET after(r) == IF adapter = "crdt" /\ first THEN r \cup {<<p, n>>} ELSE r IN
  /\ routes' = after(routes)
  /\ view' = [view EXCEPT ![n] = after(@)]

\* The hooks of the cluster layer: NotifySubscribe for the first subscriber of a
\* pattern on the node, NotifyUnsubscribe when the last one is gone.
Announce(n, p, first, last) ==
  LET after(r) == CASE adapter = "crdt" /\ first -> r \cup {<<p, n>>}
                    [] adapter = "crdt" /\ last  -> r \ {<<p, n>>}
                    [] OTHER -> r
  IN
  /\ routes' = after(routes)
  /\ view' = [view EXCEPT ![n] = after(@)]

\* handleSubscribe.  A subscriber that is known has its PID replaced in the
\* index and not in the trie.
handleSubscribe(n, p, s) ==
  LET index == byPattern[n]
      exists == index[p][s] # 0
      first == ~HasLocal(index, p)
  IN
  /\ EnsureBrokerActor(n) /\ Home[s] = n /\ up[s]
  /\ ValidPattern(p)
  /\ byPattern' = [byPattern EXCEPT ![n][p][s] = gen[s]]
  /\ trie' = [trie EXCEPT ![n] = IF exists THEN @ ELSE insert(@, p, s, gen[s])]
  /\ Announce(n, p, first, FALSE)
  /\ UNCHANGED <<config, dropped, flow, life>>

\* A slip: the trie keeps the subscriber until the next rebuild.
handleUnsubscribe_NoRebuild(n, p, s) ==
  LET index == [byPattern[n] EXCEPT ![p][s] = 0] IN
  /\ EnsureBrokerActor(n) /\ Home[s] = n
  /\ ValidPattern(p) /\ byPattern[n][p][s] # 0
  /\ byPattern' = [byPattern EXCEPT ![n] = index]
  /\ Announce(n, p, FALSE, ~HasLocal(index, p))
  /\ UNCHANGED <<trie, config, dropped, flow, life>>

\* handleUnsubscribe of a subscription that exists.
handleUnsubscribe(n, p, s) ==
  LET index == [byPattern[n] EXCEPT ![p][s] = 0] IN
  /\ EnsureBrokerActor(n) /\ Home[s] = n
  /\ ValidPattern(p) /\ byPattern[n][p][s] # 0
  /\ byPattern' = [byPattern EXCEPT ![n] = index]
  /\ trie' = [trie EXCEPT ![n] = rebuild(index)]
  /\ Announce(n, p, FALSE, ~HasLocal(index, p))
  /\ UNCHANGED <<config, dropped, flow, life>>
-----------------------------------------------------------------------------
(* Publications.                                                           *)

Local == <<byPattern, trie, config, crdt, life>>

\* dispatchPublish: the targets are those of the trie as it is now; the
\* goroutine that sends to them starts when there is one.
Dispatch(n, m, topic) ==
  LET found == match(trie[n], topic)
      targets == {<<s, found[s]>> : s \in {x \in Subscriber : found[x] # 0}}
  IN  sending' = IF targets = {} THEN sending ELSE sending \cup {[pub |-> m, to |-> targets]}

\* DirectPubSubAdapter.Broadcast: to every other member.
DirectSends(n, m) == {<<m, x>> : x \in Node \ {n}}

\* CRDTPubSubAdapter.Broadcast: to the nodes under the key of the topic itself.
CrdtSends(n, m, topic) == {<<m, x>> : x \in {y \in Node \ {n} : <<topic, y>> \in view[n]}}

\* GossipPubSubAdapter.Broadcast: into the buffer, unless it is full.
Buffered(n, m) == IF Cardinality(pending[n]) < MaxPending THEN pending[n] \cup {m} ELSE pending[n]

Broadcast(n, m, topic) ==
  /\ wire' = wire \cup CASE adapter = "direct" -> DirectSends(n, m)
                         [] adapter = "crdt" -> CrdtSends(n, m, topic)
                         [] adapter = "gossip" -> {}
  /\ pending' = IF adapter = "gossip" THEN [pending EXCEPT ![n] = Buffered(n, m)] ELSE pending

\* handlePublish of a local publication.
handlePublish(n, m, topic) ==
  /\ EnsureBrokerActor(n)
  /\ pub[m] = NoPub /\ ValidTopic(topic)
  /\ pub' = [pub EXCEPT ![m] = [topic |-> topic, origin |-> n]]
  /\ Dispatch(n, m, topic)
  /\ Broadcast(n, m, topic)
  /\ UNCHANGED <<Local, got>>

\* A slip: what comes from another node is handled like a local publication.
handleRemotePublish_Forward(n, m) ==
  /\ EnsureBrokerActor(n)
  /\ <<m, n>> \in wire
  /\ Dispatch(n, m, pub[m].topic)
  /\ wire' = (wire \ {<<m, n>>}) \cup {<<m, x>> : x \in Node \ {n}}
  /\ UNCHANGED <<Local, pub, pending, got>>

\* The inbound handler of the adapter, BrokerPublishRemote, and handlePublish with
\* isRemote: to the local subscribers, and not broadcast again.
handleRemotePublish(n, m) ==
  /\ EnsureBrokerActor(n)
  /\ <<m, n>> \in wire
  /\ Dispatch(n, m, pub[m].topic)
  /\ wire' = wire \ {<<m, n>>}
  /\ UNCHANGED <<Local, pub, pending, got>>

\* SendRemote fails, or the message is lost on its way; nobody tries again.
LoseMessage(n, m) ==
  /\ <<m, n>> \in wire
  /\ wire' = wire \ {<<m, n>>}
  /\ UNCHANGED <<broker, Local, pub, sending, pending, got>>

\* The goroutine sends to its next target: the PID is the one the trie has.
SendPublished(d, t) ==
  /\ d \in sending /\ t \in d.to
  /\ sending' = (sending \ {d}) \cup (IF d.to = {t} THEN {} ELSE {[d EXCEPT !.to = @ \ {t}]})
  /\ got' = [got EXCEPT ![d.pub][t[1]] = IF Reaches(t[1], t[2]) THEN @ + 1 ELSE @]
  /\ UNCHANGED <<broker, Local, pub, wire, pending>>

\* A round of the gossip adapter: produce takes the whole buffer, and gob, which
\* knows the type of an element and not that of the batch, encodes nothing.
GossipRound(n, peers) ==
  /\ adapter = "gossip" /\ pending[n] # {}
  /\ peers \subseteq Node \ {n} /\ Cardinality(peers) <= Fanout
  /\ pending' = [pending EXCEPT ![n] = {}]
  /\ wire' = IF codec = "gob" THEN wire ELSE wire \cup (pending[n] \X peers)
  /\ UNCHANGED <<broker, Local, pub, sending, got>>

\* The replicas of the route map exchange their deltas.
MergeRoutes(n) ==
  /\ view[n] # routes
  /\ view' = [view EXCEPT ![n] = routes]
  /\ UNCHANGED <<broker, byPattern, trie, config, routes, dropped, flow, life>>

\* CRDTPubSubAdapter.OnMembershipChange on node n for a node that left or failed,
\* a drained node itself included: the routes n knows of are removed.
OnMembershipChange(n, gone) ==
  LET known == {r \in view[n] : r[2] = gone} IN
  /\ adapter = "crdt" /\ known # {}
  /\ routes' = routes \ known
  /\ view' = [view EXCEPT ![n] = @ \ known]
  /\ dropped' = dropped \cup {gone}
  /\ UNCHANGED <<broker, byPattern, trie, config, flow, life>>

PubSubCommand ==
  \/ \E n \in Node, p \in Pattern, s \in Subscriber : handleSubscribe(n, p, s)
  \/ \E n \in Node, p \in Pattern, s \in Subscriber : handleUnsubscribe(n, p, s)
  \/ \E n \in Node, m \in Publication, t \in Topic : handlePublish(n, m, t)
  \/ \E n, gone \in Node : OnMembershipChange(n, gone)

PubSubStep ==
  \/ \E n \in Node, m \in Publication : handleRemotePublish(n, m)
  \/ \E n \in Node, m \in Publication : LoseMessage(n, m)
  \/ \E d \in sending : \E t \in d.to : SendPublished(d, t)
  \/ \E n \in Node, peers \in SUBSET Node : GossipRound(n, peers)
  \/ \E n \in Node : MergeRoutes(n)
-----------------------------------------------------------------------------
(* Properties.                                                             *)

\* What the wildcards mean: + stands for one segment, a last # for any number.
Matches(p, t) ==
  LET tail == Last(p) = "#"
      k == IF tail THEN Len(p) - 1 ELSE Len(p)
  IN  /\ IF tail THEN Len(t) >= k ELSE Len(t) = k
      /\ \A i \in 1 .. k : p[i] \in {"+", t[i]}

Wanted(n, t, Ps) == {s \in Subscriber : \E p \in Ps : byPattern[n][p][s] # 0 /\ Matches(p, t)}

Chosen(n, t) == {s \in Subscriber : match(trie[n], t)[s] # 0}

\* Whatever was subscribed and unsubscribed, the trie finds for a topic exactly the
\* subscribers that the index holds under a pattern of that meaning, patterns that
\* end in + apart (insert, match and rebuildTrieLocked against byPattern).
TrieMatchesIndex ==
  \A n \in Node, t \in Topic :
    Chosen(n, t) = Wanted(n, t, {p \in Pattern : ValidPattern(p) /\ Last(p) # "+"})

\* A publication is sent to a subscriber at most once, whichever adapter carries it
\* and however subscriptions overlap and change meanwhile: a node does not send
\* again what another one sent it (BrokerPublishRemote), and match has one target
\* per PID key.
PublishedOnce == \A m \in Publication, s \in Subscriber : got[m][s] <= 1

\* The route map of the CRDT adapter names a node for exactly the patterns it has
\* subscribers for, in the node's own replica and once merged, as long as no
\* membership event has removed its routes (NotifySubscribe, NotifyUnsubscribe).
RoutesExact ==
  adapter = "crdt" =>
    \A n \in Node \ dropped, p \in Pattern :
      /\ HasLocal(byPattern[n], p) <=> <<p, n>> \in routes
      /\ HasLocal(byPattern[n], p) <=> <<p, n>> \in view[n]
=============================================================================
