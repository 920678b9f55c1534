--------------------------- MODULE Shutdown_proofs ---------------------------
(***************************************************************************)
(* Safety of the control plane's life cycle for any number of workers and  *)
(* requests.                                                               *)
(***************************************************************************)
EXTENDS Shutdown, TLAPS

\* Each goroutine starts once and sends at most once: the channel holds no
\* more errors than goroutines have finished.
ErrBound ==
  /\ main \in {"env", "connect", "ping"} => grpc = "none" /\ http = "none" /\ errCh = 0
  /\ errCh <= 2
  /\ grpc # "exited" \/ http # "exited" => errCh <= 1
  /\ grpc # "exited" /\ http # "exited" => errCh = 0

\* The pool is opened once, on the way to the ping.
PoolInv ==
  /\ main \in {"env", "connect"} => pool = "none"
  /\ NoPoolLeftOpen

\* Every step of main, of the goroutines and of the peers keeps the type
\* invariant.
LEMMA TypeStep ==
  TypeOK /\ [Next]_vars => TypeOK'
<1> SUFFICES ASSUME TypeOK, [Next]_vars PROVE TypeOK'
  OBVIOUS
<1> USE DEF TypeOK, envVars, serverVars, peerVars
<1>1. CASE Configure
  BY <1>1 DEF Configure
<1>2. CASE OpenPool
  BY <1>2 DEF OpenPool
<1>3. CASE PingFails
  BY <1>3 DEF PingFails
<1>4. CASE StartServing
  BY <1>4 DEF StartServing
<1>5. CASE GrpcListen
  BY <1>5 DEF GrpcListen
<1>6. CASE GrpcSend
  BY <1>6 DEF GrpcSend
<1>7. CASE HttpListen
  BY <1>7 DEF HttpListen
<1>8. CASE HttpSend
  BY <1>8 DEF HttpSend
<1>9. CASE GrpcServeReturns
  BY <1>9 DEF GrpcServeReturns
<1>10. CASE HttpServeReturns
  BY <1>10 DEF HttpServeReturns
<1>11. CASE SelectSignal
  BY <1>11 DEF SelectSignal
<1>12. CASE SelectError
  BY <1>12 DEF SelectError
<1>13. CASE HttpShutdownReturns
  BY <1>13 DEF HttpShutdownReturns
<1>24. CASE FinalGoAway
  BY <1>24 DEF FinalGoAway
<1>14. CASE GracefulStopReturns
  BY <1>14 DEF GracefulStopReturns
<1>15. CASE CloseReturns
  BY <1>15 DEF CloseReturns
<1>16. CASE Signal
  BY <1>16 DEF Signal
<1>17. CASE Expire
  BY <1>17 DEF Expire
<1>18. CASE \E s \in Streams : StreamOpens(s)
  BY <1>18 DEF StreamOpens
<1>19. CASE \E s \in Streams : StreamEnds(s)
  BY <1>19 DEF StreamEnds
<1>20. CASE \E c \in Calls : CallBegins(c)
  BY <1>20 DEF CallBegins, Goto
<1>21. CASE \E c \in Calls : QueryReturns(c)
  BY <1>21 DEF QueryReturns, Goto
<1>22. CASE \E c \in Calls : WorkerAnswers(c)
  BY <1>22 DEF WorkerAnswers, Goto
<1>23. CASE UNCHANGED vars
  BY <1>23 DEF vars
<1> QED
  BY <1>1, <1>2, <1>3, <1>4, <1>5, <1>6, <1>7, <1>8, <1>9, <1>10, <1>11, <1>12, <1>13, <1>14, <1>15, <1>16, <1>17, <1>18, <1>19, <1>20, <1>21, <1>22, <1>23, <1>24
  DEF Next, Boot, Serve, StopSequence

\* Every reachable state is well typed: main's position, the channel and the
\* handlers' positions keep to the values the code gives them.
THEOREM TypeCorrect == Spec => []TypeOK
<1>1. Init => TypeOK
  <2> SUFFICES ASSUME Init PROVE TypeOK
    OBVIOUS
  <2>1. signalled \in BOOLEAN /\ expired \in BOOLEAN
    BY DEF Init
  <2>2. stream \in [Streams -> {"none", "open", "closed"}]
    BY DEF Init
  <2>3. call \in [Calls -> {"none", "query", "worker", "done"}]
    BY DEF Init
  <2> QED
    BY <2>1, <2>2, <2>3 DEF Init, TypeOK
<1> QED
  BY <1>1, TypeStep, PTL DEF Spec

\* A send needs a goroutine that has not finished, and finishes it.
LEMMA ErrStep ==
  TypeOK /\ ErrBound /\ [Next]_vars => ErrBound'
<1> SUFFICES ASSUME TypeOK, ErrBound, [Next]_vars PROVE ErrBound'
  OBVIOUS
<1> USE DEF TypeOK, ErrBound, envVars, serverVars, peerVars
<1>1. CASE Configure
  BY <1>1 DEF Configure
<1>2. CASE OpenPool
  BY <1>2 DEF OpenPool
<1>3. CASE PingFails
  BY <1>3 DEF PingFails
<1>4. CASE StartServing
  BY <1>4 DEF StartServing
<1>5. CASE GrpcListen
  BY <1>5 DEF GrpcListen
<1>6. CASE GrpcSend
  BY <1>6 DEF GrpcSend
<1>7. CASE HttpListen
  BY <1>7 DEF HttpListen
<1>8. CASE HttpSend
  BY <1>8 DEF HttpSend
<1>9. CASE GrpcServeReturns
  BY <1>9 DEF GrpcServeReturns
<1>10. CASE HttpServeReturns
  BY <1>10 DEF HttpServeReturns
<1>11. CASE SelectSignal
  BY <1>11 DEF SelectSignal
<1>12. CASE SelectError
  BY <1>12 DEF SelectError
<1>13. CASE HttpShutdownReturns
  BY <1>13 DEF HttpShutdownReturns
<1>24. CASE FinalGoAway
  BY <1>24 DEF FinalGoAway
<1>14. CASE GracefulStopReturns
  BY <1>14 DEF GracefulStopReturns
<1>15. CASE CloseReturns
  BY <1>15 DEF CloseReturns
<1>16. CASE Signal
  BY <1>16 DEF Signal
<1>17. CASE Expire
  BY <1>17 DEF Expire
<1>18. CASE \E s \in Streams : StreamOpens(s)
  BY <1>18 DEF StreamOpens
<1>19. CASE \E s \in Streams : StreamEnds(s)
  BY <1>19 DEF StreamEnds
<1>20. CASE \E c \in Calls : CallBegins(c)
  BY <1>20 DEF CallBegins
<1>21. CASE \E c \in Calls : QueryReturns(c)
  BY <1>21 DEF QueryReturns
<1>22. CASE \E c \in Calls : WorkerAnswers(c)
  BY <1>22 DEF WorkerAnswers
<1>23. CASE UNCHANGED vars
  BY <1>23 DEF vars
<1> QED
  BY <1>1, <1>2, <1>3, <1>4, <1>5, <1>6, <1>7, <1>8, <1>9, <1>10, <1>11, <1>12, <1>13, <1>14, <1>15, <1>16, <1>17, <1>18, <1>19, <1>20, <1>21, <1>22, <1>23, <1>24
  DEF Next, Boot, Serve, StopSequence

\* main.go's errCh: whatever main still receives, neither serving goroutine
\* ever waits to send.
THEOREM SendersTheorem == Spec => []SendersNeverBlock
<1>1. Init => ErrBound
  BY DEF Init, ErrBound
<1>2. TypeOK /\ ErrBound => SendersNeverBlock
  BY DEF TypeOK, ErrBound, SendersNeverBlock, ErrChCap
<1> QED
  BY <1>1, <1>2, ErrStep, TypeCorrect, PTL DEF Spec

\* Once HTTP has been shut down in time no handler starts; one that is active otherwise
\* was given up.
LEMMA OutliveStep ==
  TypeOK /\ WorkersOutliveRequests /\ [Next]_vars => WorkersOutliveRequests'
<1> SUFFICES ASSUME TypeOK, WorkersOutliveRequests, [Next]_vars PROVE WorkersOutliveRequests'
  OBVIOUS
<1> USE DEF TypeOK, WorkersOutliveRequests, Drained, Active, HttpStopped, envVars, serverVars, peerVars
<1>1. CASE Configure
  BY <1>1 DEF Configure
<1>2. CASE OpenPool
  BY <1>2 DEF OpenPool
<1>3. CASE PingFails
  BY <1>3 DEF PingFails
<1>4. CASE StartServing
  BY <1>4 DEF StartServing
<1>5. CASE GrpcListen
  BY <1>5 DEF GrpcListen
<1>6. CASE GrpcSend
  BY <1>6 DEF GrpcSend
<1>7. CASE HttpListen
  BY <1>7 DEF HttpListen
<1>8. CASE HttpSend
  BY <1>8 DEF HttpSend
<1>9. CASE GrpcServeReturns
  BY <1>9 DEF GrpcServeReturns
<1>10. CASE HttpServeReturns
  BY <1>10 DEF HttpServeReturns
<1>11. CASE SelectSignal
  BY <1>11 DEF SelectSignal
<1>12. CASE SelectError
  BY <1>12 DEF SelectError
<1>13. CASE HttpShutdownReturns
  BY <1>13 DEF HttpShutdownReturns
<1>24. CASE FinalGoAway
  BY <1>24 DEF FinalGoAway
<1>14. CASE GracefulStopReturns
  BY <1>14 DEF GracefulStopReturns
<1>15. CASE CloseReturns
  BY <1>15 DEF CloseReturns
<1>16. CASE Signal
  BY <1>16 DEF Signal
<1>17. CASE Expire
  BY <1>17 DEF Expire
<1>18. CASE \E s \in Streams : StreamOpens(s)
  BY <1>18 DEF StreamOpens
<1>19. CASE \E s \in Streams : StreamEnds(s)
  BY <1>19 DEF StreamEnds
<1>20. CASE \E c \in Calls : CallBegins(c)
  BY <1>20 DEF CallBegins, Goto
<1>21. CASE \E c \in Calls : QueryReturns(c)
  BY <1>21 DEF QueryReturns, Goto
<1>22. CASE \E c \in Calls : WorkerAnswers(c)
  BY <1>22 DEF WorkerAnswers, Goto
<1>23. CASE UNCHANGED vars
  BY <1>23 DEF vars
<1> QED
  BY <1>1, <1>2, <1>3, <1>4, <1>5, <1>6, <1>7, <1>8, <1>9, <1>10, <1>11, <1>12, <1>13, <1>14, <1>15, <1>16, <1>17, <1>18, <1>19, <1>20, <1>21, <1>22, <1>23, <1>24
  DEF Next, Boot, Serve, StopSequence

\* main's order of shutdown: HTTP requests drain, or time out, before the
\* workers' streams are given up.
THEOREM OutliveTheorem == Spec => []WorkersOutliveRequests
<1>1. Init => WorkersOutliveRequests
  BY DEF Init, WorkersOutliveRequests
<1> QED
  BY <1>1, OutliveStep, TypeCorrect, PTL DEF Spec

\* main exits with no pool or a closed one.
LEMMA PoolStep ==
  PoolInv /\ [Next]_vars => PoolInv'
<1> SUFFICES ASSUME PoolInv, [Next]_vars PROVE PoolInv'
  OBVIOUS
<1> USE DEF PoolInv, NoPoolLeftOpen, Running, envVars, serverVars, peerVars
<1>1. CASE Configure
  BY <1>1 DEF Configure
<1>2. CASE OpenPool
  BY <1>2 DEF OpenPool
<1>3. CASE PingFails
  BY <1>3 DEF PingFails
<1>4. CASE StartServing
  BY <1>4 DEF StartServing
<1>5. CASE GrpcListen
  BY <1>5 DEF GrpcListen
<1>6. CASE GrpcSend
  BY <1>6 DEF GrpcSend
<1>7. CASE HttpListen
  BY <1>7 DEF HttpListen
<1>8. CASE HttpSend
  BY <1>8 DEF HttpSend
<1>9. CASE GrpcServeReturns
  BY <1>9 DEF GrpcServeReturns
<1>10. CASE HttpServeReturns
  BY <1>10 DEF HttpServeReturns
<1>11. CASE SelectSignal
  BY <1>11 DEF SelectSignal
<1>12. CASE SelectError
  BY <1>12 DEF SelectError
<1>13. CASE HttpShutdownReturns
  BY <1>13 DEF HttpShutdownReturns
<1>24. CASE FinalGoAway
  BY <1>24 DEF FinalGoAway
<1>14. CASE GracefulStopReturns
  BY <1>14 DEF GracefulStopReturns
<1>15. CASE CloseReturns
  BY <1>15 DEF CloseReturns
<1>16. CASE Signal
  BY <1>16 DEF Signal
<1>17. CASE Expire
  BY <1>17 DEF Expire
<1>18. CASE \E s \in Streams : StreamOpens(s)
  BY <1>18 DEF StreamOpens
<1>19. CASE \E s \in Streams : StreamEnds(s)
  BY <1>19 DEF StreamEnds
<1>20. CASE \E c \in Calls : CallBegins(c)
  BY <1>20 DEF CallBegins
<1>21. CASE \E c \in Calls : QueryReturns(c)
  BY <1>21 DEF QueryReturns
<1>22. CASE \E c \in Calls : WorkerAnswers(c)
  BY <1>22 DEF WorkerAnswers
<1>23. CASE UNCHANGED vars
  BY <1>23 DEF vars
<1> QED
  BY <1>1, <1>2, <1>3, <1>4, <1>5, <1>6, <1>7, <1>8, <1>9, <1>10, <1>11, <1>12, <1>13, <1>14, <1>15, <1>16, <1>17, <1>18, <1>19, <1>20, <1>21, <1>22, <1>23, <1>24
  DEF Next, Boot, Serve, StopSequence

\* store.New and main's deferred Close: whichever way the process ends by
\* itself, its pool is closed.
THEOREM PoolTheorem == Spec => []NoPoolLeftOpen
<1>1. Init => PoolInv
  BY DEF Init, PoolInv, NoPoolLeftOpen, Running
<1> QED
  BY <1>1, PoolStep, PTL DEF Spec, PoolInv

----------------------------------------------------------------------------
(* What shutdown waits for.                                                *)

\* GracefulStop has seen every stream end, and Close every query.
Quiet ==
  /\ main = "close" => pool = "closing"
  /\ main \in {"close", "stopped"} => goneAway
  /\ main \in {"close", "stopped"} => \A s \in Streams : stream[s] # "open"
  /\ main = "stopped" => \A c \in Calls : call[c] # "query"

\* Once a server is being stopped it stays stopped, and what main waits for can only go:
\* streams once GracefulStop's last GOAWAY is sent, queries under Close.
WaitsShrink ==
  /\ HttpStopped => HttpStopped'
  /\ GrpcStopped => GrpcStopped'
  /\ goneAway => goneAway' /\ \A s \in Streams : stream'[s] = "open" => stream[s] = "open"
  /\ main = "close" => \A c \in Calls : call'[c] = "query" => call[c] = "query"

\* A server that told its peers to go away takes in no stream, and a closing pool hands out no connection.
LEMMA QuietStep ==
  TypeOK /\ Quiet /\ [Next]_vars => Quiet' /\ WaitsShrink
<1> SUFFICES ASSUME TypeOK, Quiet, [Next]_vars PROVE Quiet' /\ WaitsShrink
  OBVIOUS
<1> USE DEF Quiet, WaitsShrink, HttpStopped, GrpcStopped, Active, envVars, serverVars, peerVars
<1>1. CASE Configure
  BY <1>1 DEF Configure
<1>2. CASE OpenPool
  BY <1>2 DEF OpenPool
<1>3. CASE PingFails
  BY <1>3 DEF PingFails
<1>4. CASE StartServing
  BY <1>4 DEF StartServing
<1>5. CASE GrpcListen
  BY <1>5 DEF GrpcListen
<1>6. CASE GrpcSend
  BY <1>6 DEF GrpcSend
<1>7. CASE HttpListen
  BY <1>7 DEF HttpListen
<1>8. CASE HttpSend
  BY <1>8 DEF HttpSend
<1>9. CASE GrpcServeReturns
  BY <1>9 DEF GrpcServeReturns
<1>10. CASE HttpServeReturns
  BY <1>10 DEF HttpServeReturns
<1>11. CASE SelectSignal
  BY <1>11 DEF SelectSignal
<1>12. CASE SelectError
  BY <1>12 DEF SelectError
<1>13. CASE HttpShutdownReturns
  BY <1>13 DEF HttpShutdownReturns
<1>24. CASE FinalGoAway
  BY <1>24 DEF FinalGoAway
<1>14. CASE GracefulStopReturns
  BY <1>14 DEF GracefulStopReturns
<1>15. CASE CloseReturns
  BY <1>15 DEF CloseReturns
<1>16. CASE Signal
  BY <1>16 DEF Signal
<1>17. CASE Expire
  BY <1>17 DEF Expire
<1>18. CASE \E s \in Streams : StreamOpens(s)
  BY <1>18 DEF StreamOpens, TypeOK, Running
<1>19. CASE \E s \in Streams : StreamEnds(s)
  BY <1>19 DEF StreamEnds, TypeOK, Running
<1>20. CASE \E c \in Calls : CallBegins(c)
  BY <1>20 DEF CallBegins, Goto, TypeOK, Running
<1>21. CASE \E c \in Calls : QueryReturns(c)
  BY <1>21 DEF QueryReturns, Goto, TypeOK, Running
<1>22. CASE \E c \in Calls : WorkerAnswers(c)
  BY <1>22 DEF WorkerAnswers, Goto, TypeOK, Running
<1>23. CASE UNCHANGED vars
  BY <1>23 DEF vars
<1> QED
  BY <1>1, <1>2, <1>3, <1>4, <1>5, <1>6, <1>7, <1>8, <1>9, <1>10, <1>11, <1>12, <1>13, <1>14, <1>15, <1>16, <1>17, <1>18, <1>19, <1>20, <1>21, <1>22, <1>23, <1>24
  DEF Next, Boot, Serve, StopSequence

\* main.go: what GracefulStop and Close wait for can only go away, once the workers are told
\* to, so that only a stream its worker never ends, or a query the database never answers,
\* holds shutdown up for good; and when main returns no worker's stream is open and no
\* query is running.
THEOREM StopWaitsShrink == Spec => []Quiet /\ [][WaitsShrink]_vars
<1>1. Init => Quiet
  BY DEF Init, Quiet
<1>2. TypeOK /\ Quiet /\ [Next]_vars => Quiet' /\ [WaitsShrink]_vars
  BY QuietStep
<1> QED
  BY <1>1, <1>2, TypeCorrect, PTL DEF Spec
==============================================================================
