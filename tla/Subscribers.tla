----------------------------- MODULE Subscribers -----------------------------
(***************************************************************************)
(* The actors that subscribe to a broker, as the brokers see them: whether *)
(* an actor with the id is running, and the generation its PID has, which  *)
(* a restart raises (see ActorRuntime and PidDirectory).                   *)
(***************************************************************************)
EXTENDS Naturals, FiniteSets, Sequences, Functions

CONSTANTS Node, Subscriber,
          Home,           \* the node each subscriber runs on
          MaxGeneration   \* bound: generations of a PID

ASSUME SubscriberAssumption ==
  /\ IsFiniteSet(Subscriber) /\ "none" \notin Subscriber
  /\ Home \in [Subscriber -> Node]
  /\ MaxGeneration \in Nat \ {0}

VARIABLES up, gen

life == <<up, gen>>

LifeInit == up = [s \in Subscriber |-> TRUE] /\ gen = [s \in Subscriber |-> 1]

\* A supervised restart: the PID's generation goes up.
Restart(s) ==
  /\ up[s] /\ gen[s] < MaxGeneration
  /\ gen' = [gen EXCEPT ![s] = @ + 1]
  /\ UNCHANGED up

\* SendPID to a subscriber: it must run, and the generation must be its own.
Reaches(s, g) == up[s] /\ g = gen[s]

LifeTypeOK == up \in [Subscriber -> BOOLEAN] /\ gen \in [Subscriber -> 1 .. MaxGeneration]
=============================================================================
