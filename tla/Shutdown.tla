------------------------------- MODULE Shutdown -------------------------------
(***************************************************************************)
(* control-plane/cmd/server/main.go and store.go: the life of the control  *)
(* plane's process.  It boots, serves gRPC and HTTP from two goroutines,   *)
(* and on a signal or a listener's error shuts HTTP down, then gRPC, then  *)
(* the database pool.                                                      *)
(*                                                                         *)
(* A stream is a worker's WorkerSession; a call is an HTTP request whose   *)
(* handler asks the worker (GET /friends), with a query before and after.  *)
(* WebSockets are hijacked connections, which http.Server does not track.  *)
(***************************************************************************)
EXTENDS Naturals

CONSTANTS Streams, Calls

VARIABLES
  main,       \* position of main
  pool,       \* the pgx pool: "none", "open", "closing", "closed"
  signalled,  \* SIGINT or SIGTERM arrived: ctx is done
  expired,    \* shutdownCtx is done, 10 seconds later
  grpc, http, \* the goroutines that serve
  errCh,      \* errors in the channel
  up,         \* servers that came to accept connections, "grpc" and "http"
  goneAway,   \* GracefulStop has sent every connection its last GOAWAY
  stream,     \* per stream: "none", "open", "closed"
  call        \* per call: position of its handler

envVars    == <<signalled, expired>>
serverVars == <<grpc, http, errCh, up, goneAway>>
peerVars   == <<stream, call>>
vars == <<main, pool, envVars, serverVars, peerVars>>

TypeOK ==
  /\ main \in {"env", "connect", "ping", "select", "http_shutdown", "graceful_stop",
               "close", "stopped", "exited"}
  /\ pool \in {"none", "open", "closing", "closed"}
  /\ signalled \in BOOLEAN /\ expired \in BOOLEAN
  /\ grpc \in {"none", "listen", "serve", "send", "exited"}
  /\ http \in {"none", "listen", "serve", "send", "exited"}
  /\ errCh \in Nat
  /\ up \subseteq {"grpc", "http"} /\ goneAway \in BOOLEAN
  /\ stream \in [Streams -> {"none", "open", "closed"}]
  /\ call \in [Calls -> {"none", "query", "worker", "done"}]

Init ==
  /\ main = "env" /\ pool = "none"
  /\ signalled = FALSE /\ expired = FALSE
  /\ grpc = "none" /\ http = "none" /\ errCh = 0
  /\ up = {} /\ goneAway = FALSE
  /\ stream = [s \in Streams |-> "none"]
  /\ call = [c \in Calls |-> "none"]

\* The process does nothing once main has returned or exited.
Running == main \notin {"stopped", "exited"}

----------------------------------------------------------------------------
(* Boot.                                                                   *)

\* mustEnv, NewHasher, NewTokenManager: exit, or go on to the database.
Configure ==
  /\ main = "env"
  /\ main' \in {"exited", "connect"}
  /\ UNCHANGED <<pool, envVars, serverVars, peerVars>>

\* store.New: pgxpool.New fails on a bad URL only.
OpenPool ==
  /\ main = "connect"
  /\ \/ main' = "exited" /\ UNCHANGED pool
     \/ main' = "ping" /\ pool' = "open"
  /\ UNCHANGED <<envVars, serverVars, peerVars>>

\* Faulty: New returns the error and keeps the pool.
PingFailsOpen ==
  /\ main = "ping"
  /\ main' = "exited"
  /\ UNCHANGED <<pool, envVars, serverVars, peerVars>>

\* No answer within dbCtx: New closes the pool, main exits.
PingFails ==
  /\ main = "ping"
  /\ main' = "exited"
  /\ pool' = "closed"
  /\ UNCHANGED <<envVars, serverVars, peerVars>>

\* The database answers; both goroutines start and main waits.
StartServing ==
  /\ main = "ping"
  /\ main' = "select"
  /\ grpc' = "listen" /\ http' = "listen"
  /\ UNCHANGED <<pool, envVars, errCh, up, goneAway, peerVars>>

----------------------------------------------------------------------------
(* The two goroutines.                                                     *)

ErrChCapTooSmall == 1
ErrChCap == 2     \* make(chan error, 2)

GrpcStopped == main \in {"graceful_stop", "close", "stopped"}
HttpStopped == main \in {"http_shutdown", "graceful_stop", "close", "stopped"}

\* net.Listen and Serve, which fails if the server has been stopped before.
GrpcListen ==
  /\ Running /\ grpc = "listen"
  /\ grpc' \in {"send"} \cup IF GrpcStopped THEN {} ELSE {"serve"}
  /\ up' = IF grpc' = "serve" THEN up \cup {"grpc"} ELSE up
  /\ UNCHANGED <<main, pool, envVars, http, errCh, goneAway, peerVars>>

\* Serve returns on an error of the listener, and when the server is stopped.
GrpcServeReturns ==
  /\ Running /\ grpc = "serve"
  /\ grpc' = "send"
  /\ UNCHANGED <<main, pool, envVars, http, errCh, up, goneAway, peerVars>>

\* errCh <- whatever Serve or Listen returned, nil included.
GrpcSend ==
  /\ Running /\ grpc = "send" /\ errCh < ErrChCap
  /\ grpc' = "exited"
  /\ errCh' = errCh + 1
  /\ UNCHANGED <<main, pool, envVars, http, up, goneAway, peerVars>>

\* ListenAndServe: an error is sent, ErrServerClosed is not.
HttpListen ==
  /\ Running /\ http = "listen"
  /\ http' \in IF HttpStopped THEN {"send", "exited"} ELSE {"send", "serve"}
  /\ up' = IF http' = "serve" THEN up \cup {"http"} ELSE up
  /\ UNCHANGED <<main, pool, envVars, grpc, errCh, goneAway, peerVars>>

HttpServeReturns ==
  /\ Running /\ http = "serve"
  /\ http' = IF HttpStopped THEN "exited" ELSE "send"
  /\ UNCHANGED <<main, pool, envVars, grpc, errCh, up, goneAway, peerVars>>

HttpSend ==
  /\ Running /\ http = "send" /\ errCh < ErrChCap
  /\ http' = "exited"
  /\ errCh' = errCh + 1
  /\ UNCHANGED <<main, pool, envVars, grpc, up, goneAway, peerVars>>

----------------------------------------------------------------------------
(* Peers: workers and browsers.                                            *)

\* A worker opens its stream, also on a connection made before the listener failed or
\* GracefulStop began.  It never closes it: only its death does.
StreamOpens(s) ==
  /\ Running /\ stream[s] = "none" /\ "grpc" \in up /\ ~goneAway
  /\ stream' = [stream EXCEPT ![s] = "open"]
  /\ UNCHANGED <<main, pool, envVars, serverVars, call>>

StreamEnds(s) ==
  /\ Running /\ stream[s] = "open"
  /\ stream' = [stream EXCEPT ![s] = "closed"]
  /\ UNCHANGED <<main, pool, envVars, serverVars, call>>

Goto(c, pc) == call' = [call EXCEPT ![c] = pc]

\* A handler starts with a query, if the pool is not closed.  Shutdown waits for the
\* connections made before, each of which may still bring a request, and leaves those
\* that outlast it.
CallBegins(c) ==
  /\ Running /\ call[c] = "none" /\ "http" \in up
  /\ ~HttpStopped \/ main = "http_shutdown" \/ expired
  /\ Goto(c, IF pool = "open" THEN "query" ELSE "done")
  /\ UNCHANGED <<main, pool, envVars, serverVars, stream>>

\* It asks the worker, which may not answer, or has its answer already ...
QueryReturns(c) ==
  /\ Running /\ call[c] = "query"
  /\ \E pc \in {"worker", "done"} : Goto(c, pc)
  /\ UNCHANGED <<main, pool, envVars, serverVars, stream>>

\* ... and writes what the worker said if the pool still lets it, unless the
\* worker refuses or the browser hangs up.
WorkerAnswers(c) ==
  /\ Running /\ call[c] = "worker"
  /\ \E pc \in {"done"} \cup IF pool = "open" THEN {"query"} ELSE {} : Goto(c, pc)
  /\ UNCHANGED <<main, pool, envVars, serverVars, stream>>

Signal ==
  /\ main \in {"select", "http_shutdown", "graceful_stop"} /\ ~signalled
  /\ signalled' = TRUE
  /\ UNCHANGED <<main, pool, expired, serverVars, peerVars>>

----------------------------------------------------------------------------
(* Shutdown.                                                               *)

Active(c) == call[c] \in {"query", "worker"}
Drained   == \A c \in Calls : ~Active(c)

\* select: the signal ...
SelectSignal ==
  /\ main = "select" /\ signalled
  /\ main' = "http_shutdown"
  /\ UNCHANGED <<pool, envVars, serverVars, peerVars>>

\* ... or a listener's error, whichever of the two.
SelectError ==
  /\ main = "select" /\ errCh > 0
  /\ main' = "http_shutdown"
  /\ errCh' = errCh - 1
  /\ UNCHANGED <<pool, envVars, grpc, http, up, goneAway, peerVars>>

\* shutdownCtx times out.
Expire ==
  /\ main = "http_shutdown" /\ ~expired
  /\ expired' = TRUE
  /\ UNCHANGED <<main, pool, signalled, serverVars, peerVars>>

\* Faulty: Shutdown(context.Background()).
ShutdownWaitsOn ==
  /\ main = "http_shutdown" /\ Drained
  /\ main' = "graceful_stop"
  /\ UNCHANGED <<pool, envVars, serverVars, peerVars>>

\* Faulty: Close instead of Shutdown.
ShutdownAtOnce ==
  /\ main = "http_shutdown"
  /\ main' = "graceful_stop"
  /\ UNCHANGED <<pool, envVars, serverVars, peerVars>>

\* httpServer.Shutdown returns when no request is left, or at the timeout.
HttpShutdownReturns ==
  /\ main = "http_shutdown" /\ (Drained \/ expired)
  /\ main' = "graceful_stop"
  /\ UNCHANGED <<pool, envVars, serverVars, peerVars>>

\* grpcServer.GracefulStop closes the listener and tells every connection to go away;
\* until a connection has been told a second time a stream that was on its way gets in.
FinalGoAway ==
  /\ main = "graceful_stop" /\ ~goneAway
  /\ goneAway' = TRUE
  /\ UNCHANGED <<main, pool, envVars, grpc, http, errCh, up, peerVars>>

\* It waits for every stream.
GracefulStopReturns ==
  /\ main = "graceful_stop" /\ goneAway
  /\ \A s \in Streams : stream[s] # "open"
  /\ main' = "close"
  /\ pool' = "closing"
  /\ UNCHANGED <<envVars, serverVars, peerVars>>

\* db.Close, deferred, waits for the connections in use; main returns.
CloseReturns ==
  /\ main = "close"
  /\ \A c \in Calls : call[c] # "query"
  /\ main' = "stopped"
  /\ pool' = "closed"
  /\ UNCHANGED <<envVars, serverVars, peerVars>>

----------------------------------------------------------------------------

Boot == Configure \/ OpenPool \/ PingFails \/ StartServing
Serve == GrpcListen \/ GrpcSend \/ HttpListen \/ HttpSend
         \/ GrpcServeReturns \/ HttpServeReturns
StopSequence == \/ SelectSignal \/ SelectError \/ HttpShutdownReturns
                \/ FinalGoAway \/ GracefulStopReturns \/ CloseReturns

Next ==
  \/ Boot \/ Serve \/ StopSequence \/ Signal \/ Expire
  \/ \E s \in Streams : StreamOpens(s) \/ StreamEnds(s)
  \/ \E c \in Calls : CallBegins(c) \/ QueryReturns(c) \/ WorkerAnswers(c)

Spec == Init /\ [][Next]_vars

\* main, the two goroutines, queries and the timer make progress.  Workers
\* need not answer, nor die; listeners need not fail.
Fairness ==
  /\ WF_vars(Boot) /\ WF_vars(StopSequence) /\ WF_vars(Expire)
  /\ WF_vars(GrpcListen \/ GrpcSend) /\ WF_vars(HttpListen \/ HttpSend)
  /\ \A c \in Calls : WF_vars(QueryReturns(c))

FairSpec == Spec /\ Fairness

----------------------------------------------------------------------------
(* Properties.                                                             *)

\* No goroutine that serves ever waits to send its error, although main
\* receives at most one and stops receiving once it shuts down.
SendersNeverBlock == grpc = "send" \/ http = "send" => errCh < ErrChCap

\* The worker's streams are only given up when the requests that may depend
\* on them are answered, or have had their 10 seconds.
WorkersOutliveRequests == main \in {"graceful_stop", "close", "stopped"} => Drained \/ expired

\* However the process ends by itself, no pool is left open: New closes the
\* one whose database does not answer, main defers the rest.
NoPoolLeftOpen == ~Running => pool # "open"

\* A signal or a failed listener stops the process, unless a worker's stream
\* is open: requests that wait for a silent worker do not hold it up.
OnlyStreamsHoldItUp ==
  signalled \/ errCh > 0 ~>
     main = "stopped" \/ (main = "graceful_stop" /\ \E s \in Streams : stream[s] = "open")

(* A claim of a comment that the code does not keep *)

\* main.go: graceful shutdown is real.
ShutdownCompletes == signalled ~> main = "stopped"
==============================================================================
