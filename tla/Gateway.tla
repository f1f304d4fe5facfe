------------------------------ MODULE Gateway ------------------------------
(***************************************************************************)
(* The life of an api-gateway process (cmd/api-gateway): it opens the      *)
(* pool, serves gRPC, dials itself, serves HTTP in front of it, and on a   *)
(* signal or on the failure of either server stops both, HTTP first and    *)
(* for GracefulTimeout at most, gRPC for as long as its calls take, and    *)
(* then runs its deferred calls, which close the pool.  A fault before     *)
(* both servers run ends in logger.Fatal, which runs no deferred call.     *)
(*                                                                         *)
(* A call arrives over HTTP and is forwarded to the gRPC server, or        *)
(* arrives there directly; streams (server reflection) last as long as     *)
(* their client likes; "health" is a probe of /healthz, which uses the     *)
(* pool without an RPC.                                                    *)
(***************************************************************************)
EXTENDS Naturals, FiniteSets

CONSTANTS Calls, \* client calls
          Kind   \* Kind[c]: "http", "health", "grpc" or "stream"

ASSUME GatewayAssumption == Kind \in [Calls -> {"http", "health", "grpc", "stream"}]

VARIABLES
  phase,     \* main: "init", "dial", "serve", "http", "grpc", "defers", "exited"
  cancelled, \* rootCtx: a signal has arrived
  http,      \* the HTTP server: "off", "on", "failed" or "shut"
  grpc,      \* the gRPC server: "off", "on", "failed" or "drained"
  pool,      \* the connection pool: "none", "open" or "closed"
  call,      \* call[c]: how far call c is
  late,      \* history: the graceful timeout ran out
  ended      \* history: how the process ended: "no", "main", "fatal", "killed"

serverVars == <<phase, cancelled, http, grpc, pool, late, ended>>
gatewayVars == <<serverVars, call>>

\* A call is nowhere yet, in the HTTP handler, in the RPC's handler before or
\* after its statement, or in a statement; or it is over.
InRPC == {"rpc", "query", "reply"}
Open == InRPC \cup {"handler", "ping"}
Over == {"answered", "unavailable", "lost"}

GatewayInit ==
  /\ phase = "init"
  /\ cancelled = FALSE
  /\ http = "off" /\ grpc = "off" /\ pool = "none"
  /\ call = [c \in Calls |-> "none"]
  /\ late = FALSE
  /\ ended = "no"

\* The process is gone, and with it what its handlers had in hand.
Dies(how) ==
  /\ phase' = "exited"
  /\ ended' = how
  /\ http' = "shut" /\ grpc' = "drained"
  /\ call' = [c \in Calls |-> IF call[c] \in Open THEN "lost" ELSE call[c]]

-----------------------------------------------------------------------------
\* Starting.

\* The pool answers a ping, buildGRPCServer listens and a goroutine serves.
Connect ==
  /\ phase = "init"
  /\ phase' = "dial"
  /\ pool' = "open"
  /\ grpc' = "on"
  /\ UNCHANGED <<cancelled, http, call, late, ended>>

\* NewDB or a listener fails.
ConnectFails ==
  /\ phase = "init"
  /\ Dies("fatal")
  /\ UNCHANGED <<cancelled, pool, late>>

\* dialGRPCBlocking finds the connection ready; the HTTP server listens.
Dialed ==
  /\ phase = "dial"
  /\ phase' = "serve"
  /\ http' = "on"
  /\ UNCHANGED <<cancelled, grpc, pool, call, late, ended>>

\* Ten seconds, or a signal, end the dialling.
DialFails ==
  /\ phase = "dial"
  /\ Dies("fatal")
  /\ UNCHANGED <<cancelled, pool, late>>

Signal ==
  /\ phase # "exited"
  /\ cancelled' = TRUE
  /\ UNCHANGED <<phase, http, grpc, pool, call, late, ended>>

\* Serve or ListenAndServe returns an error.
ServerFails ==
  /\ phase \in {"dial", "serve"}
  /\ \/ grpc = "on" /\ grpc' = "failed" /\ UNCHANGED http
     \/ http = "on" /\ http' = "failed" /\ UNCHANGED grpc
  /\ UNCHANGED <<phase, cancelled, pool, call, late, ended>>

-----------------------------------------------------------------------------
\* Stopping.

\* Mutant: main waits for a signal alone.
DoneOnSignal == cancelled

\* The select of main.
Done == cancelled \/ grpc = "failed" \/ http = "failed"

\* Mutant: the gRPC server is drained before the HTTP server is shut down.
StopGrpcFirst ==
  /\ phase = "serve"
  /\ Done
  /\ phase' = "http"
  /\ http' = "shut"
  /\ grpc' = "drained"
  /\ UNCHANGED <<cancelled, pool, call, late, ended>>

\* httpSrv.Shutdown closes the listener and waits for the handlers.
Stop ==
  /\ phase = "serve"
  /\ Done
  /\ phase' = "http"
  /\ http' = "shut"
  /\ UNCHANGED <<cancelled, grpc, pool, call, late, ended>>

ByHttp(c) == Kind[c] \in {"http", "health"}

\* Shutdown returns: no HTTP handler runs.  GracefulStop refuses new RPCs.
HttpStopped ==
  /\ phase = "http"
  /\ \A c \in Calls : ByHttp(c) => call[c] \notin Open
  /\ phase' = "grpc"
  /\ grpc' = "drained"
  /\ UNCHANGED <<cancelled, http, pool, call, late, ended>>

\* shCtx expires first; a probe, of half a second, is over long before that.
HttpTimesOut ==
  /\ phase = "http"
  /\ \E c \in Calls : ByHttp(c) /\ call[c] \in Open
  /\ \A c \in Calls : call[c] # "ping"
  /\ phase' = "grpc"
  /\ grpc' = "drained"
  /\ late' = TRUE
  /\ UNCHANGED <<cancelled, http, pool, call, ended>>

\* Mutant: Stop for GracefulStop.
GrpcStoppedAtOnce ==
  /\ phase = "grpc"
  /\ phase' = "defers"
  /\ UNCHANGED <<cancelled, http, grpc, pool, call, late, ended>>

\* GracefulStop returns when the last RPC has, however long it takes.
GrpcStopped ==
  /\ phase = "grpc"
  /\ \A c \in Calls : call[c] \notin InRPC
  /\ phase' = "defers"
  /\ UNCHANGED <<cancelled, http, grpc, pool, call, late, ended>>

\* The deferred calls: conn.Close, and db.Close, which waits for the
\* connections in use.
ClosePool ==
  /\ phase = "defers"
  /\ pool = "open"
  /\ \A c \in Calls : call[c] \notin {"query", "ping"}
  /\ pool' = "closed"
  /\ UNCHANGED <<phase, cancelled, http, grpc, call, late, ended>>

\* main returns, whatever handlers still run.
Exit ==
  /\ phase = "defers"
  /\ pool = "closed"
  /\ Dies("main")
  /\ UNCHANGED <<cancelled, pool, late>>

\* The container is stopped for good while the process still winds down.
Kill ==
  /\ cancelled /\ phase # "exited"
  /\ Dies("killed")
  /\ UNCHANGED <<cancelled, pool, late>>

-----------------------------------------------------------------------------
\* Calls.

Moves(c, from, to) ==
  /\ call[c] = from
  /\ call' = [call EXCEPT ![c] = to]
  /\ UNCHANGED serverVars

\* A server that failed accepts no connection, but calls on those it has.
Arrive(c) ==
  \/ /\ http \in {"on", "failed"} /\ ByHttp(c)
     /\ Moves(c, "none", IF Kind[c] = "health" THEN "ping" ELSE "handler")
  \/ grpc \in {"on", "failed"} /\ ~ByHttp(c) /\ Moves(c, "none", "rpc")

\* The mux forwards the request over the gateway's own connection; a server
\* that drains takes no new RPC, and the client is answered 503.
Forward(c) ==
  Moves(c, "handler", IF grpc \in {"on", "failed"} THEN "rpc" ELSE "unavailable")

\* The handler needs the database, or answers by itself (the interceptor).
Query(c) == pool = "open" /\ Kind[c] # "stream" /\ Moves(c, "rpc", "query")

\* Mutant: QueryTimeout is zero, and withTimeout returns the context it got.
WithoutTimeout(c) == FALSE /\ Moves(c, "query", "reply")

\* withTimeout ends a statement the database does not answer.
WithTimeout(c) == Moves(c, "query", "reply")

\* The statement, or the probe of the pool, is answered.
QueryDone(c) == Moves(c, "query", "reply")

\* The handler returns.  A probe has half a second, and none after a signal.
Reply(c) ==
  \/ Moves(c, "reply", "answered")
  \/ Kind[c] # "stream" /\ Moves(c, "rpc", "answered")
  \/ Moves(c, "ping", "answered")

\* The client of a stream has enough.
StreamEnds(c) == Kind[c] = "stream" /\ Moves(c, "rpc", "answered")

Call(c) ==
  \/ Arrive(c) \/ Forward(c) \/ Query(c) \/ QueryDone(c)
  \/ WithTimeout(c) \/ Reply(c) \/ StreamEnds(c)

Main ==
  \/ Dialed \/ DialFails \/ Stop \/ HttpStopped \/ HttpTimesOut
  \/ GrpcStopped \/ ClosePool \/ Exit

GatewayNext ==
  \/ Connect \/ ConnectFails \/ Main
  \/ Signal \/ ServerFails \/ Kill
  \/ \E c \in Calls : Call(c)

GatewaySpec == GatewayInit /\ [][GatewayNext]_gatewayVars

\* main and the handlers run on, and timers fire.  Nothing is assumed of the
\* database, of the clients of streams, or of who sends signals.
GatewayFairness ==
  /\ WF_gatewayVars(Connect \/ ConnectFails)
  /\ WF_gatewayVars(Main)
  /\ \A c \in Calls : WF_gatewayVars(Forward(c) \/ WithTimeout(c) \/ Reply(c))

FairGatewaySpec == GatewaySpec /\ GatewayFairness

-----------------------------------------------------------------------------
\* Types; both servers are off or gone unless the process runs.
GatewayTypeOK ==
  /\ phase \in {"init", "dial", "serve", "http", "grpc", "defers", "exited"}
  /\ cancelled \in BOOLEAN
  /\ http \in {"off", "on", "failed", "shut"}
  /\ grpc \in {"off", "on", "failed", "drained"}
  /\ pool \in {"none", "open", "closed"}
  /\ call \in [Calls -> {"none"} \cup Open \cup Over]
  /\ late \in BOOLEAN
  /\ ended \in {"no", "main", "fatal", "killed"}
  /\ phase = "exited" => \A c \in Calls : call[c] \notin Open
  /\ ended # "no" <=> phase = "exited"

\* The pool is closed under nobody: neither an RPC, one forwarded from HTTP or
\* a direct one, nor a probe is in progress once db.Close has run.
PoolOutlivesCalls ==
  pool = "closed" => \A c \in Calls : call[c] \notin InRPC \cup {"ping"}

\* A shutdown loses no call: a request that was accepted is turned away or
\* dropped only after GracefulTimeout, by Fatal while the gateway starts, or
\* by a kill; and one the gRPC server has accepted never by the timeout.
LostForCause ==
  \A c \in Calls :
    /\ call[c] = "unavailable" => late
    /\ call[c] = "lost" => ended \in {"fatal", "killed"} \/ (late /\ Kind[c] = "http")

\* A signal, or the failure of one of the two servers, ends the process, and
\* it is not left half alive; only an open stream can hold that up.
ShutdownEnds ==
  (cancelled \/ grpc = "failed" \/ http = "failed") ~>
    (phase = "exited" \/ \E c \in Calls : Kind[c] = "stream" /\ call[c] = "rpc")
=============================================================================
