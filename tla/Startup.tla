------------------------------ MODULE Startup ------------------------------
(***************************************************************************)
(* How the system starts (docker-compose.yml): kafka-init creates the      *)
(* topics and waits until the broker lists them, the migrator brings the   *)
(* schema up, and the services start when both have completed.  A service  *)
(* that ends is restarted, and its conditions are not looked at again.     *)
(*                                                                         *)
(* The wait is for partitions, not for their leaders: allHaveLeader looks  *)
(* for the id -1, and kafka-go gives a partition that has no leader the    *)
(* zero Broker, whose id is 0.                                             *)
(*                                                                         *)
(* The workers' bootstrap creates its topic, too, with one partition, and  *)
(* goes on whatever comes of it: a consumer that joins its group before    *)
(* the topic is there is assigned nothing.  The api-gateway is module      *)
(* Gateway; docker compose and the broker are external.                    *)
(***************************************************************************)
EXTENDS Gateway, Sequences

CONSTANTS Topics,     \* KAFKA_TOPICS, in this order
          Partitions, \* KAFKA_PARTITIONS
          Workers,    \* services beside the gateway
          Reads,      \* Reads[w]: the topic w consumes, or NoTopic
          NoTopic,
          MaxRestarts \* bound on the ends of workers

TopicNames == {Topics[i] : i \in 1..Len(Topics)}

ASSUME StartupAssumption ==
  /\ Len(Topics) \in Nat
  /\ Partitions \in Nat \ {0}
  /\ MaxRestarts \in Nat
  /\ NoTopic \notin TopicNames
  /\ Reads \in [Workers -> TopicNames \cup {NoTopic}]

VARIABLES
  parts,    \* parts[t]: the topic's partitions, 0 while there is none
  listed,   \* topics whose partitions the broker's metadata lists
  kinit,    \* kafka-init: "ensure" or "wait" for topic number todo, "ok", "failed"
  todo,
  schema,   \* the migrator: "running", "ok" or "failed"
  worker,   \* worker[w]: "waiting", "boot" (its bootstrap), "runs" or "down"
  restarts  \* ends of workers so far

topicVars == <<parts, listed>>
initVars == <<kinit, todo, schema>>
workerVars == <<worker, restarts>>
startupVars == <<topicVars, initVars, workerVars, gatewayVars>>

StartupInit ==
  /\ GatewayInit
  /\ parts = [t \in TopicNames |-> 0]
  /\ listed = {}
  /\ kinit = "ensure" /\ todo = 1
  /\ schema = "running"
  /\ worker = [w \in Workers |-> "waiting"]
  /\ restarts = 0

-----------------------------------------------------------------------------
\* CreateTopics: a topic that exists is left as it is.
Created(t, n) == parts' = [parts EXCEPT ![t] = IF @ = 0 THEN n ELSE @]

\* The metadata of the broker follows the controller's.
List(t) ==
  /\ parts[t] > 0
  /\ listed' = listed \cup {t}
  /\ UNCHANGED <<parts, initVars, workerVars, gatewayVars>>

\* ensureTopic: the topic is there now, or was before.
EnsureTopic ==
  /\ kinit = "ensure" /\ todo <= Len(Topics)
  /\ Created(Topics[todo], Partitions)
  /\ kinit' = "wait"
  /\ UNCHANGED <<listed, todo, schema, workerVars, gatewayVars>>

\* ReadPartitions answers with partitions; none of them fails allHaveLeader.
HasPartitions(t) == t \in listed

\* waitTopicReady returns nil: on to the next topic.
TopicReady ==
  /\ kinit = "wait"
  /\ HasPartitions(Topics[todo])
  /\ kinit' = "ensure"
  /\ todo' = todo + 1
  /\ UNCHANGED <<topicVars, schema, workerVars, gatewayVars>>

\* Mutant: a topic that is not ready in time is taken as it is, as in admin.go.
WaitTimesOutNil ==
  /\ kinit = "wait"
  /\ kinit' = "ensure"
  /\ todo' = todo + 1
  /\ UNCHANGED <<topicVars, schema, workerVars, gatewayVars>>

\* Thirty seconds, or the sixty for everything, are over: log.Fatalf.
WaitTimesOut ==
  /\ kinit = "wait"
  /\ kinit' = "failed"
  /\ UNCHANGED <<topicVars, todo, schema, workerVars, gatewayVars>>

\* The broker cannot be reached or refuses: log.Fatalf.
EnsureFails ==
  /\ kinit = "ensure" /\ todo <= Len(Topics)
  /\ kinit' = "failed"
  /\ UNCHANGED <<topicVars, todo, schema, workerVars, gatewayVars>>

InitOk ==
  /\ kinit = "ensure" /\ todo > Len(Topics)
  /\ kinit' = "ok"
  /\ UNCHANGED <<topicVars, todo, schema, workerVars, gatewayVars>>

\* goose.Up.
Migrate ==
  /\ schema = "running"
  /\ schema' \in {"ok", "failed"}
  /\ UNCHANGED <<topicVars, kinit, todo, workerVars, gatewayVars>>

\* docker compose up once more: what failed runs again.  (What completed runs
\* again, too, and finds its work done.)
UpAgain ==
  /\ kinit = "failed" \/ schema = "failed"
  /\ IF kinit = "failed" THEN kinit' = "ensure" /\ todo' = 1 ELSE UNCHANGED <<kinit, todo>>
  /\ schema' = IF schema = "failed" THEN "running" ELSE schema
  /\ UNCHANGED <<topicVars, workerVars, gatewayVars>>

-----------------------------------------------------------------------------
\* Mutant: depends_on lists the migrator alone.
DependenciesMigrator == schema = "ok"

\* depends_on: service_completed_successfully.
Dependencies == kinit = "ok" /\ schema = "ok"

StartWorker(w) ==
  /\ worker[w] = "waiting" /\ Dependencies
  /\ worker' = [worker EXCEPT ![w] = "boot"]
  /\ UNCHANGED <<topicVars, initVars, restarts, gatewayVars>>

\* BootstrapConsumer creates the topic, or does not, and joins the group.
BootstrapConsumer(w) == Reads[w] # NoTopic /\ (Created(Reads[w], 1) \/ UNCHANGED parts)

\* A worker's main up to its select: the database answers, the consumer joins.
Bootstrap(w) ==
  /\ worker[w] = "boot"
  /\ BootstrapConsumer(w)
  /\ worker' = [worker EXCEPT ![w] = "runs"]
  /\ UNCHANGED <<listed, initVars, restarts, gatewayVars>>

\* The scheduler's: it only publishes, and leaves the topic to be.
BootstrapProducer(w) ==
  /\ worker[w] = "boot" /\ Reads[w] = NoTopic
  /\ worker' = [worker EXCEPT ![w] = "runs"]
  /\ UNCHANGED <<topicVars, initVars, restarts, gatewayVars>>

\* Fatal in main, a signal, or an error of the controller.
WorkerEnds(w) ==
  /\ worker[w] \in {"boot", "runs"}
  /\ restarts < MaxRestarts
  /\ restarts' = restarts + 1
  /\ worker' = [worker EXCEPT ![w] = "down"]
  /\ UNCHANGED <<topicVars, initVars, gatewayVars>>

\* restart: unless-stopped.
Restart(w) ==
  /\ worker[w] = "down"
  /\ worker' = [worker EXCEPT ![w] = "boot"]
  /\ UNCHANGED <<topicVars, initVars, restarts, gatewayVars>>

\* The gateway starts, runs and ends.  (Restarted, it begins anew.)
ApiGateway ==
  /\ phase = "init" => Dependencies
  /\ GatewayNext
  /\ UNCHANGED <<topicVars, initVars, workerVars>>

StartupNext ==
  \/ \E t \in TopicNames : List(t)
  \/ EnsureTopic \/ EnsureFails \/ TopicReady \/ WaitTimesOut \/ InitOk
  \/ Migrate \/ UpAgain
  \/ \E w \in Workers :
       \/ StartWorker(w) \/ Bootstrap(w) \/ BootstrapProducer(w)
       \/ WorkerEnds(w) \/ Restart(w)
  \/ ApiGateway

StartupSpec == StartupInit /\ [][StartupNext]_startupVars

FairStartupSpec == StartupSpec /\ GatewayFairness

-----------------------------------------------------------------------------
\* Types, and the order of the start: nothing runs before kafka-init and the
\* migrator have completed once.
StartupTypeOK ==
  /\ GatewayTypeOK
  /\ parts \in [TopicNames -> {0, 1, Partitions}]
  /\ listed \subseteq {t \in TopicNames : parts[t] > 0}
  /\ kinit \in {"ensure", "wait", "ok", "failed"}
  /\ todo \in 1..(Len(Topics) + 1)
  /\ schema \in {"running", "ok", "failed"}
  /\ worker \in [Workers -> {"waiting", "boot", "runs", "down"}]
  /\ restarts \in 0..MaxRestarts
  /\ phase # "init" => kinit = "ok" /\ schema = "ok"

\* A consumer joins its group on a topic that the broker lists, with as many
\* partitions as kafka-init was told: its own bootstrap, which would create it
\* with one and ignores every error, comes too late to matter, also after
\* restarts.
JoinsReadyTopic ==
  \A w \in Workers : worker[w] = "runs" /\ Reads[w] # NoTopic =>
    Reads[w] \in listed /\ parts[Reads[w]] = Partitions
=============================================================================
