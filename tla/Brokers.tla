------------------------------- MODULE Brokers -------------------------------
(***************************************************************************)
(* The brokers, timers and routers of the runtime side by side, over the   *)
(* same subscribers: a subscriber that restarts, stops or comes back meets *)
(* every subscription it made, and every router it works for.  The clients *)
(* of a behaviour use publish-subscribe, cron and timers, a pool or a      *)
(* service.                                                                *)
(***************************************************************************)
EXTENDS PubSubBroker, CronBroker, Timers, Routers

CONSTANT MaxCommands    \* bound, for each use: commands to the brokers and routers,
                        \* restarts, stops and returns of subscribers, moves of
                        \* the singleton and departures of nodes

VARIABLES use, commands

vars == <<pubsubVars, cronVars, timerVars, routerVars, life, use, commands>>

\* gob decodes the state of the cron actor as the type that was registered, a
\* value, and the actor restores a pointer.
Init ==
  /\ LifeInit /\ PubSubInit /\ CronInit /\ TimersInit /\ RoutersInit
  /\ pointer = (codec = "other")
  /\ use \in {"pubsub", "cron", "pool", "service"}
  /\ use # "pubsub" => adapter = "direct"
  /\ use # "cron" => mode = "lazy"
  /\ use \in {"pool", "service"} => codec = "gob"
  /\ states[0] = Unset <=> use # "pool"
  /\ order = <<>> <=> use # "service"
  /\ commands = 0

Client ==
  /\ commands < MaxCommands[use]
  /\ commands' = commands + 1
  /\ UNCHANGED use
  /\ \/ use = "pubsub" /\ PubSubCommand /\ UNCHANGED <<cronVars, timerVars, routerVars>>
     \/ use = "cron" /\ CronCommand /\ UNCHANGED <<pubsubVars, timerVars, routerVars>>
     \/ use = "cron" /\ TimersCommand /\ UNCHANGED <<pubsubVars, cronVars, routerVars, life>>
     \/ /\ \/ use = "pool" /\ PoolCommand
           \/ use = "service" /\ ServiceCommand
        /\ UNCHANGED <<pubsubVars, cronVars, timerVars>>
     \/ /\ \/ \E s \in Subscriber : Restart(s) /\ UNCHANGED cronVars
           \/ \E s \in Subscriber : CronSubscriberStops(s) \/ SubscriberReturns(s)
        /\ UNCHANGED <<pubsubVars, timerVars, routerVars>>

Step ==
  /\ UNCHANGED <<use, commands>>
  /\ \/ PubSubStep /\ UNCHANGED <<cronVars, timerVars, routerVars>>
     \/ CronStep /\ UNCHANGED <<pubsubVars, timerVars, routerVars>>
     \/ TimersStep /\ UNCHANGED <<pubsubVars, cronVars, routerVars, life>>
     \/ RouterStep /\ UNCHANGED <<pubsubVars, cronVars, timerVars>>

Next == Client \/ Step

Spec == Init /\ [][Next]_vars
=============================================================================
