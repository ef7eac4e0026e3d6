------------------------------ MODULE Providers ------------------------------
(***************************************************************************)
(* How a node learns of its peers: the providers of membership events,     *)
(* one of which a cluster uses.                                            *)
(*   fixed      probes the seeds in turn (provider_fixed.go)               *)
(*   poll       asks a service for the list of nodes; shared by the cloud  *)
(*              providers (pkg/providerutil/poller.go)                     *)
(*   multicast  hears announcements, sweeps the peers it has not heard     *)
(*              (pkg/multicastprovider/provider.go)                        *)
(* All three keep a table of peers and put each change into a channel that *)
(* drops what does not fit.  A peer carries tags, here one that it may     *)
(* change once; a seed is configured with the first.                       *)
(***************************************************************************)
EXTENDS ClusterNodes, Naturals, Sequences, FiniteSets, Functions

CONSTANTS Settled,     \* the peers that are up and members from the start
          Threshold,   \* FailureThreshold (3 in the code)
          EventCap     \* capacity of the event channel (1024 in the code)

ASSUME ProviderAssumption ==
  /\ Settled \subseteq Peer
  /\ Threshold \in Nat \ {0}
  /\ EventCap \in Nat

VARIABLES
  kind,      \* which provider this is
  up, tag,   \* the peers themselves: which ones run, and their tag
  seeds,     \* FixedProviderConfig.Seeds
  known,     \* the members table: state, failures in a row, tag
  events,    \* eventCh
  dropped    \* droppedEvents > 0

providerVars == <<kind, up, tag, seeds, known, events, dropped>>
table == <<known, events, dropped>>
outside == <<kind, up, tag, seeds>>

Unknown == [st |-> "unknown", miss |-> 0, tag |-> 0]
Member(t) == [st |-> "alive", miss |-> 0, tag |-> t]
Missed(e) == [st |-> "alive", miss |-> e.miss + 1, tag |-> e.tag]
Dead(e) == [st |-> "dead", miss |-> 0, tag |-> e.tag]
Event(type, p, t) == [type |-> type, peer |-> p, tag |-> t]

ProviderInit ==
  /\ kind \in {"fixed", "poll", "multicast"}
  /\ up = [p \in Peer |-> p \in Settled]
  /\ tag = [p \in Peer |-> 0]
  /\ seeds = IF kind = "fixed" THEN Settled ELSE Peer
  /\ known = [p \in Peer |-> IF p \in Settled THEN Member(0) ELSE Unknown]
  /\ events = <<>>
  /\ dropped = FALSE

\* emit, for the events of one call: a full channel drops them.
emit(evs) ==
  LET all == events \o evs IN
  /\ events' = SubSeq(all, 1, IF Len(all) > EventCap THEN EventCap ELSE Len(all))
  /\ dropped' = (dropped \/ Len(all) > EventCap)

\* The order in which a loop over a map takes the elements of S: any.
Orders(S) == Injection(1 .. Cardinality(S), S)

Known(p, entry) == known' = [known EXCEPT ![p] = entry]
-----------------------------------------------------------------------------
(* fixed                                                                   *)

AddSeed(p) ==
  /\ kind = "fixed" /\ p \notin seeds
  /\ seeds' = seeds \cup {p}
  /\ UNCHANGED <<kind, up, tag, table>>

\* A slip: a dead peer that answers again is alive without an event.
handleProbeSuccess_NoRejoin(p) ==
  CASE known[p].st = "unknown" -> Known(p, Member(0)) /\ emit(<<Event("join", p, 0)>>)
    [] OTHER -> Known(p, [known[p] EXCEPT !.st = "alive", !.miss = 0]) /\ UNCHANGED <<events, dropped>>

\* A peer that is not alive joins, with the metadata of the seed.
handleProbeSuccess(p) ==
  IF known[p].st = "alive"
  THEN Known(p, [known[p] EXCEPT !.miss = 0]) /\ UNCHANGED <<events, dropped>>
  ELSE Known(p, Member(0)) /\ emit(<<Event("join", p, 0)>>)

\* A slip: the failures are counted, and never reach the threshold.
handleProbeFailure_NeverDead(p) ==
  /\ known[p].st = "alive" /\ known[p].miss + 1 < Threshold
  /\ Known(p, Missed(known[p]))
  /\ UNCHANGED <<events, dropped>>

\* Ignored for a peer that is unknown or dead already.  The counter of a dead peer
\* is kept and is cleared with the next success: 0 stands for both.
handleProbeFailure(p) ==
  /\ known[p].st = "alive"
  /\ IF known[p].miss + 1 < Threshold
     THEN Known(p, Missed(known[p])) /\ UNCHANGED <<events, dropped>>
     ELSE /\ Known(p, Dead(known[p]))
          /\ emit(<<Event("failed", p, known[p].tag)>>)

\* probeSeed: the answer of a peer, or the error of the dial; answer is TRUE for
\* a probe that comes through.
probeSeed(p, answer) ==
  /\ kind = "fixed" /\ p \in seeds
  /\ IF answer THEN handleProbeSuccess(p) ELSE handleProbeFailure(p)
  /\ UNCHANGED outside
-----------------------------------------------------------------------------
(* poll                                                                    *)

\* What a poll that finds D makes of a peer, and the event it emits.
Polled(p, D) ==
  CASE p \in D -> Member(tag[p])
    [] p \notin D /\ known[p].st = "alive" /\ known[p].miss + 1 < Threshold -> Missed(known[p])
    [] p \notin D /\ known[p].st = "alive" /\ known[p].miss + 1 >= Threshold -> Dead(known[p])
    [] OTHER -> known[p]

Joined(D)  == {Event("join", p, tag[p]) : p \in {q \in D : known[q].st # "alive"}}
Updated(D) == {Event("updated", p, tag[p]) : p \in {q \in D : known[q].st = "alive" /\ known[q].tag # tag[q]}}
Missing(D) == {Event("failed", p, known[p].tag) : p \in {q \in Peer \ D : known[q].st = "alive" /\ known[q].miss + 1 >= Threshold}}

\* First the nodes that were found, then the ones that were not, each in the order
\* of a map.
diffMembers(D) ==
  /\ known' = [p \in Peer |-> Polled(p, D)]
  /\ \E found \in Orders(Joined(D) \cup Updated(D)), lost \in Orders(Missing(D)) : emit(found \o lost)

\* A poll whose discovery fails changes nothing.
poll(D) ==
  /\ kind = "poll"
  /\ diffMembers(D)
  /\ UNCHANGED outside
-----------------------------------------------------------------------------
(* multicast                                                               *)

handleAnnouncement(p, leaving) ==
  /\ kind = "multicast"
  /\ IF leaving
     THEN known[p].st = "alive" /\ Known(p, Unknown) /\ emit(<<Event("leave", p, tag[p])>>)
     ELSE /\ Known(p, Member(tag[p]))
          /\ CASE known[p].st = "unknown" -> emit(<<Event("join", p, tag[p])>>)
               [] known[p].st = "alive" /\ known[p].tag # tag[p] -> emit(<<Event("updated", p, tag[p])>>)
               [] OTHER -> UNCHANGED <<events, dropped>>
  /\ UNCHANGED outside

\* The peers of L were last heard longer than DeadTimeout ago.
sweep(L) ==
  /\ kind = "multicast" /\ L # {}
  /\ \A p \in L : known[p].st = "alive"
  /\ known' = [p \in Peer |-> IF p \in L THEN Unknown ELSE known[p]]
  /\ \E evs \in Orders({Event("failed", p, known[p].tag) : p \in L}) : emit(evs)
  /\ UNCHANGED outside
-----------------------------------------------------------------------------
(* The peers                                                               *)

PeerUp(p) ==
  /\ ~up[p]
  /\ up' = [up EXCEPT ![p] = TRUE]
  /\ UNCHANGED <<kind, tag, seeds, table>>

PeerDown(p) ==
  /\ up[p]
  /\ up' = [up EXCEPT ![p] = FALSE]
  /\ UNCHANGED <<kind, tag, seeds, table>>

PeerRetags(p) ==
  /\ up[p] /\ tag[p] = 0
  /\ tag' = [tag EXCEPT ![p] = 1]
  /\ UNCHANGED <<kind, up, seeds, table>>

Up == {p \in Peer : up[p]}
Alive == {p \in Peer : known[p].st = "alive"}

\* What the provider does of its own accord: a probe, a poll, an announcement of a
\* peer that runs, a sweep of the ones that do not.
Probe(p)     == probeSeed(p, up[p])
Poll         == poll(Up)
Announced(p) == up[p] /\ handleAnnouncement(p, FALSE)
Sweep        == sweep(Alive \ Up)

\* What the network does to it: a probe that times out, a node missing from the
\* answer, a peer not heard in time, an announcement that comes late, after its
\* peer has gone or said so, and the leave announcement itself.
ProviderFault ==
  \/ \E p \in Peer : up[p] /\ probeSeed(p, FALSE)
  \/ \E p \in Up : poll(Up \ {p})
  \/ \E p \in Up : sweep({p})
  \/ \E p \in Peer \ Up : handleAnnouncement(p, FALSE) \/ handleAnnouncement(p, TRUE)
=============================================================================
