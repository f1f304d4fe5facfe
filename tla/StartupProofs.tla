--------------------------- MODULE StartupProofs ---------------------------
(***************************************************************************)
(* Proofs about the life of the api-gateway and the start of the system,   *)
(* for any calls, topics, workers and restarts.                            *)
(***************************************************************************)
EXTENDS Startup, TLAPS

-----------------------------------------------------------------------------
\* The order of the shutdown: what is behind main in each of its phases.
Phases ==
  /\ phase = "init" => http = "off" /\ \A c \in Calls : call[c] = "none"
  /\ grpc = "off" <=> phase = "init"
  /\ grpc = "drained" => phase \in {"grpc", "defers", "exited"}
  /\ phase \in {"http", "grpc", "defers", "exited"} => http = "shut"
  /\ phase \in {"grpc", "defers", "exited"} =>
       grpc = "drained" /\ \A c \in Calls : call[c] # "ping"
  /\ phase \in {"defers", "exited"} => \A c \in Calls : call[c] \notin InRPC
  /\ pool = "closed" => phase \in {"defers", "exited"}

\* Only requests wait for an RPC, and they find the gRPC server serving until
\* the graceful timeout has run out.
Handlers ==
  \A c \in Calls :
    /\ call[c] = "handler" => Kind[c] = "http" /\ (grpc \in {"on", "failed"} \/ late)
    /\ call[c] = "ping" => Kind[c] = "health"

GatewayInv == GatewayTypeOK /\ Phases /\ Handlers /\ LostForCause

LEMMA GatewayInvInit == GatewayInit => GatewayInv
BY DEF GatewayInit, GatewayInv, GatewayTypeOK, Phases, Handlers, LostForCause,
       Open, Over, InRPC

LEMMA DyingKeepsInv ==
  ASSUME GatewayInv, NEW how \in {"main", "fatal", "killed"}, Dies(how),
         phase # "exited",
         how = "main" => phase = "defers",
         UNCHANGED <<cancelled, pool, late>>
  PROVE  GatewayInv'
<1> USE DEF GatewayInv, Dies, Open, Over, InRPC
<1>1. GatewayTypeOK'
  BY DEF GatewayTypeOK
<1>2. Phases' /\ Handlers'
  BY <1>1 DEF GatewayTypeOK, Phases, Handlers
<1>3. LostForCause'
  BY DEF GatewayTypeOK, Phases, Handlers, LostForCause
<1> QED BY <1>1, <1>2, <1>3

LEMMA CallKeepsInv ==
  ASSUME GatewayInv, NEW c \in Calls, Call(c)
  PROVE  GatewayInv'
<1> USE GatewayAssumption DEF GatewayInv, Moves, serverVars, Open, Over, InRPC
<1>1. CASE Arrive(c)
  <2>1. call[c] = "none" /\ UNCHANGED serverVars
    BY <1>1 DEF Arrive
  <2>2. CASE http \in {"on", "failed"} /\ Kind[c] = "health" /\ call' = [call EXCEPT ![c] = "ping"]
    BY <2>1, <2>2 DEF GatewayTypeOK, Phases, Handlers, LostForCause
  <2>3. CASE http \in {"on", "failed"} /\ Kind[c] = "http" /\ call' = [call EXCEPT ![c] = "handler"]
    BY <2>1, <2>3 DEF GatewayTypeOK, Phases, Handlers, LostForCause
  <2>4. CASE grpc \in {"on", "failed"} /\ call' = [call EXCEPT ![c] = "rpc"]
    BY <2>1, <2>4 DEF GatewayTypeOK, Phases, Handlers, LostForCause
  <2> QED BY <1>1, <2>2, <2>3, <2>4 DEF Arrive, ByHttp
<1>2. CASE Forward(c)
  <2>1. call' = [call EXCEPT ![c] = IF grpc \in {"on", "failed"} THEN "rpc" ELSE "unavailable"]
        /\ call[c] = "handler" /\ UNCHANGED serverVars
    BY <1>2 DEF Forward
  <2>2. phase \notin {"init", "exited"}
    BY <2>1 DEF GatewayTypeOK, Phases
  <2>3. CASE grpc \in {"on", "failed"}
    BY <2>1, <2>2, <2>3 DEF GatewayTypeOK, Phases, Handlers, LostForCause
  <2>4. CASE grpc \notin {"on", "failed"}
    BY <2>1, <2>2, <2>4 DEF GatewayTypeOK, Phases, Handlers, LostForCause
  <2> QED BY <2>3, <2>4
<1>3. CASE Query(c)
  BY <1>3 DEF Query, GatewayTypeOK, Phases, Handlers, LostForCause
<1>4. CASE QueryDone(c) \/ WithTimeout(c)
  BY <1>4 DEF QueryDone, WithTimeout, GatewayTypeOK, Phases, Handlers, LostForCause
<1>5. CASE Reply(c) \/ StreamEnds(c)
  BY <1>5 DEF Reply, StreamEnds, GatewayTypeOK, Phases, Handlers, LostForCause
<1> QED BY <1>1, <1>2, <1>3, <1>4, <1>5 DEF Call

LEMMA GatewayInvStep ==
  ASSUME GatewayInv, [GatewayNext]_gatewayVars
  PROVE  GatewayInv'
<1> USE DEF GatewayInv, GatewayTypeOK, Phases, Handlers, LostForCause, Open, Over, InRPC
<1>1. CASE Connect
  BY <1>1 DEF Connect
<1>2. CASE ConnectFails
  BY <1>2, DyingKeepsInv DEF ConnectFails
<1>3. CASE Dialed
  BY <1>3 DEF Dialed
<1>4. CASE DialFails
  BY <1>4, DyingKeepsInv DEF DialFails
<1>5. CASE Stop
  BY <1>5 DEF Stop
<1>6. CASE HttpStopped
  <2>1. \A c \in Calls : call[c] # "ping" /\ call[c] # "handler"
    <3>1. ASSUME NEW c \in Calls, call[c] \in {"ping", "handler"} PROVE ByHttp(c)
      BY <3>1 DEF ByHttp
    <3> QED BY <1>6, <3>1 DEF HttpStopped
  <2> QED BY <1>6, <2>1 DEF HttpStopped
<1>7. CASE HttpTimesOut
  BY <1>7, GatewayAssumption DEF HttpTimesOut, ByHttp
<1>8. CASE GrpcStopped
  BY <1>8 DEF GrpcStopped
<1>9. CASE ClosePool
  BY <1>9 DEF ClosePool
<1>10. CASE Exit
  BY <1>10, DyingKeepsInv DEF Exit
<1>11. CASE Signal
  BY <1>11 DEF Signal
<1>12. CASE ServerFails
  BY <1>12 DEF ServerFails
<1>13. CASE Kill
  BY <1>13, DyingKeepsInv DEF Kill
<1>14. ASSUME NEW c \in Calls, Call(c) PROVE GatewayInv'
  BY <1>14, CallKeepsInv
<1>15. CASE UNCHANGED gatewayVars
  BY <1>15 DEF gatewayVars, serverVars
<1> QED
  BY <1>1, <1>2, <1>3, <1>4, <1>5, <1>6, <1>7, <1>8, <1>9, <1>10, <1>11, <1>12,
     <1>13, <1>14, <1>15 DEF GatewayNext, Main

THEOREM GatewayInvariant == GatewaySpec => []GatewayInv
<1>1. GatewayInv /\ [GatewayNext]_gatewayVars => GatewayInv'
  BY GatewayInvStep
<1> QED BY <1>1, GatewayInvInit, PTL DEF GatewaySpec

\* No order of signals, failing servers, timeouts and slow calls closes the
\* pool under a call.
THEOREM PoolIsLast == GatewaySpec => []PoolOutlivesCalls
<1>1. GatewayInv => PoolOutlivesCalls
  BY DEF GatewayInv, Phases, PoolOutlivesCalls
<1> QED BY <1>1, GatewayInvariant, PTL

\* A request is turned away or dropped only for one of the named causes.
THEOREM CallsLostForCause == GatewaySpec => []LostForCause
<1>1. GatewayInv => LostForCause
  BY DEF GatewayInv
<1> QED BY <1>1, GatewayInvariant, PTL

-----------------------------------------------------------------------------
\* The start of the system does with the gateway what the gateway does.
THEOREM StartupImplementsGateway == StartupSpec => GatewaySpec
<1>1. StartupInit => GatewayInit
  BY DEF StartupInit
<1>2. [StartupNext]_startupVars => [GatewayNext]_gatewayVars
  BY DEF StartupNext, startupVars, List, EnsureTopic, EnsureFails, TopicReady,
         WaitTimesOut, InitOk, Migrate, UpAgain, StartWorker, Bootstrap,
         BootstrapProducer, WorkerEnds, Restart, ApiGateway
<1> QED BY <1>1, <1>2, PTL DEF StartupSpec, GatewaySpec

Ready(t) == t \in listed /\ parts[t] = Partitions

\* A topic has no partitions or as many as kafka-init was told; kafka-init has
\* got the topics before todo ready, and no worker is started before the last.
TopicsInv ==
  /\ parts \in [TopicNames -> {0, Partitions}]
  /\ listed \subseteq {t \in TopicNames : parts[t] > 0}
  /\ todo \in 1..(Len(Topics) + 1)
  /\ kinit \in {"ensure", "wait", "ok", "failed"}
  /\ \A i \in 1..(todo - 1) : Ready(Topics[i])
  /\ kinit = "wait" => todo <= Len(Topics) /\ parts[Topics[todo]] = Partitions
  /\ kinit = "ok" => todo = Len(Topics) + 1

WorkersInv ==
  /\ worker \in [Workers -> {"waiting", "boot", "runs", "down"}]
  /\ restarts \in 0..MaxRestarts
  /\ schema \in {"running", "ok", "failed"}
  /\ \A w \in Workers : worker[w] # "waiting" => \A t \in TopicNames : Ready(t)
  /\ phase # "init" => kinit = "ok" /\ schema = "ok"

StartupInv == TopicsInv /\ WorkersInv

LEMMA StartupInvInit == StartupInit => StartupInv
BY StartupAssumption
DEF StartupInit, GatewayInit, StartupInv, TopicsInv, WorkersInv, Ready

\* kafka-init is through: every topic is ready.
LEMMA AllReady == ASSUME TopicsInv, kinit = "ok" PROVE \A t \in TopicNames : Ready(t)
BY StartupAssumption DEF TopicsInv, TopicNames

LEMMA StartupInvStep ==
  ASSUME StartupInv, [StartupNext]_startupVars
  PROVE  StartupInv'
<1> USE StartupAssumption DEF StartupInv, TopicsInv, WorkersInv, Ready
<1>1. ASSUME NEW t \in TopicNames, List(t) PROVE StartupInv'
  BY <1>1 DEF List, initVars, workerVars, gatewayVars, serverVars
<1>2. CASE EnsureTopic
  <2>1. Topics[todo] \in TopicNames
    BY <1>2 DEF EnsureTopic, TopicNames
  <2>2. TopicsInv'
    BY <1>2, <2>1 DEF EnsureTopic, Created
  <2>3. WorkersInv'
    BY <1>2, <2>1 DEF EnsureTopic, Created, workerVars, gatewayVars, serverVars
  <2> QED BY <2>2, <2>3
<1>3. CASE EnsureFails
  BY <1>3 DEF EnsureFails, topicVars, workerVars, gatewayVars, serverVars
<1>4. CASE TopicReady
  <2>1. Ready(Topics[todo]) /\ todo <= Len(Topics)
    BY <1>4 DEF TopicReady, HasPartitions
  <2>2. TopicsInv'
    BY <1>4, <2>1 DEF TopicReady, topicVars
  <2>3. WorkersInv'
    BY <1>4 DEF TopicReady, topicVars, workerVars, gatewayVars, serverVars
  <2> QED BY <2>2, <2>3
<1>5. CASE WaitTimesOut
  BY <1>5 DEF WaitTimesOut, topicVars, workerVars, gatewayVars, serverVars
<1>6. CASE InitOk
  BY <1>6 DEF InitOk, topicVars, workerVars, gatewayVars, serverVars
<1>7. CASE Migrate
  BY <1>7 DEF Migrate, topicVars, workerVars, gatewayVars, serverVars
<1>8. CASE UpAgain
  BY <1>8 DEF UpAgain, topicVars, workerVars, gatewayVars, serverVars
<1>9. ASSUME NEW w \in Workers, StartWorker(w) PROVE StartupInv'
  <2>1. \A t \in TopicNames : Ready(t)
    BY <1>9, AllReady DEF StartWorker, Dependencies
  <2> QED BY <1>9, <2>1 DEF StartWorker, topicVars, initVars, gatewayVars, serverVars
<1>10. ASSUME NEW w \in Workers, Bootstrap(w) PROVE StartupInv'
  <2>1. parts' = parts
    BY <1>10 DEF Bootstrap, BootstrapConsumer, Created
  <2> QED BY <1>10, <2>1 DEF Bootstrap, initVars, gatewayVars, serverVars
<1>11. ASSUME NEW w \in Workers, BootstrapProducer(w) PROVE StartupInv'
  BY <1>11 DEF BootstrapProducer, topicVars, initVars, gatewayVars, serverVars
<1>12. ASSUME NEW w \in Workers, WorkerEnds(w) PROVE StartupInv'
  BY <1>12 DEF WorkerEnds, topicVars, initVars, gatewayVars, serverVars
<1>13. ASSUME NEW w \in Workers, Restart(w) PROVE StartupInv'
  BY <1>13 DEF Restart, topicVars, initVars, gatewayVars, serverVars
<1>14. CASE ApiGateway
  BY <1>14 DEF ApiGateway, Dependencies, topicVars, initVars, workerVars
<1>15. CASE UNCHANGED startupVars
  BY <1>15 DEF startupVars, topicVars, initVars, workerVars, gatewayVars, serverVars
<1> QED
  BY <1>1, <1>2, <1>3, <1>4, <1>5, <1>6, <1>7, <1>8, <1>9, <1>10, <1>11, <1>12,
     <1>13, <1>14, <1>15 DEF StartupNext

THEOREM StartupInvariant == StartupSpec => []StartupInv
<1>1. StartupInv /\ [StartupNext]_startupVars => StartupInv'
  BY StartupInvStep
<1> QED BY <1>1, StartupInvInit, PTL DEF StartupSpec

\* The state is well typed, and the gateway does not start before kafka-init
\* and the migrator have completed.
THEOREM StartupTypeCorrect == StartupSpec => []StartupTypeOK
<1>1. GatewayInv /\ StartupInv => StartupTypeOK
  BY StartupAssumption DEF GatewayInv, StartupInv, TopicsInv, WorkersInv, StartupTypeOK
<1> QED BY <1>1, StartupInvariant, StartupImplementsGateway, GatewayInvariant, PTL

\* No failure of kafka-init, of the migrator or of a bootstrap, and no restart,
\* lets a consumer join its group on a topic that is not ready.
THEOREM ConsumersJoinReadyTopics == StartupSpec => []JoinsReadyTopic
<1>1. StartupInv => JoinsReadyTopic
  BY StartupAssumption DEF StartupInv, WorkersInv, Ready, JoinsReadyTopic
<1> QED BY <1>1, StartupInvariant, PTL
=============================================================================
