---------------------------- MODULE WorkerStream ----------------------------
(***************************************************************************)
(* control-plane/internal/workers: the registry of connected workers, the  *)
(* WorkerSession stream (its pump goroutine and its Recv loop), and the    *)
(* calls that send a Command and wait for the correlated reply.            *)
(*                                                                         *)
(* A request is one call of Link, ListFriends or SubmitGuardCode; it is    *)
(* its own request_id (128 random bits in the code).  A stream is one call *)
(* of WorkerSession, that is one connection of one worker process.         *)
(***************************************************************************)
EXTENDS Naturals, Sequences

CONSTANTS Requests,       \* calls, each with its own request_id
          Kind,           \* what each call is
          Streams,        \* worker connections
          QueueCap,       \* capacity of Worker.send, 8 in the code
          MaxChallenges,  \* bound on the QR challenges (rotations) of a link
          None            \* Go's nil

Kinds == {"qr", "credentials", "friends", "code"}

ASSUME ConstAssumption ==
  /\ Kind \in [Requests -> Kinds]
  /\ QueueCap \in Nat \ {0}
  /\ MaxChallenges \in Nat
  /\ None \notin Requests \cup Streams

VARIABLES
  current,   \* Registry.current
  conn,      \* per stream: "none", "open", "broken" (ctx done), "closed" (returned)
  queue,     \* per stream: the buffered channel Worker.send
  pump,      \* per stream: the pump goroutine, "run" or "exited"
  cmds,      \* per stream: commands on the wire to the worker
  events,    \* per stream: events on the wire to the control plane
  recv,      \* per stream: where the Recv loop is, and for which request
  job,       \* per stream and request: the worker's handler thread
  asked,     \* per request: prompts (guard or challenge) the worker has sent
  caller,    \* per request: where the call is
  handle,    \* per request: the *Worker that Current() returned to Send
  outcome,   \* per request: what the call returns
  expired,   \* requests whose context is done
  pending,   \* keys of pendingFriends.chans / pendingLinks.{chans,guards,challenges}
  replies    \* per request: results in its reply channel, capacity 1

connVars   == <<conn, queue, pump, cmds>>
workerVars == <<job, asked>>
callVars   == <<caller, handle, outcome, expired, pending>>
vars == <<current, connVars, events, recv, workerVars, callVars, replies>>

----------------------------------------------------------------------------
(* Events of the stream.  StatusUpdate stands for every event that handle  *)
(* only logs.                                                              *)

Ready     == [type |-> "ready",  req |-> None]
Status    == [type |-> "status", req |-> None]
Prompt(r) == [type |-> "prompt", req |-> r]    \* SteamGuardRequired, SteamQrChallenge
Result(r) == [type |-> "result", req |-> r]    \* FriendsResult, LinkResult

Event == [type : {"ready", "status", "prompt", "result"}, req : Requests \cup {None}]

IsLink(r)  == Kind[r] \in {"qr", "credentials"}
Awaits(r)  == Kind[r] # "code"          \* SubmitGuardCode waits for no reply
Elems(seq) == {seq[i] : i \in DOMAIN seq}

RecvPcs   == {"recv", "deliver", "callback"}
CallerPcs == {"idle", "lookup", "send", "wait", "leaving", "returned", "reported"}
Outcomes  == {"none", "no_worker", "ctx", "result", "sent", "rand_failed"}

InRecv == [pc |-> "recv", req |-> None]

TypeOK ==
  /\ current \in Streams \cup {None}
  /\ conn \in [Streams -> {"none", "open", "broken", "closed"}]
  /\ queue \in [Streams -> Seq(Requests)]
  /\ \A s \in Streams : Len(queue[s]) <= QueueCap
  /\ pump \in [Streams -> {"run", "exited"}]
  /\ cmds \in [Streams -> Seq(Requests)]
  /\ events \in [Streams -> Seq(Event)]
  /\ recv \in [Streams -> [pc : RecvPcs, req : Requests \cup {None}]]
  /\ job \in [Streams -> [Requests -> {"none", "running", "answered"}]]
  /\ asked \in [Requests -> Nat]
  /\ caller \in [Requests -> CallerPcs]
  /\ handle \in [Requests -> Streams \cup {None}]
  /\ outcome \in [Requests -> Outcomes]
  /\ expired \in SUBSET Requests
  /\ pending \in SUBSET Requests
  /\ replies \in [Requests -> {0, 1}]

Init ==
  /\ current = None
  /\ conn = [s \in Streams |-> "none"]
  /\ queue = [s \in Streams |-> <<>>]
  /\ pump = [s \in Streams |-> "run"]
  /\ cmds = [s \in Streams |-> <<>>]
  /\ events = [s \in Streams |-> <<>>]
  /\ recv = [s \in Streams |-> InRecv]
  /\ job = [s \in Streams |-> [r \in Requests |-> "none"]]
  /\ asked = [r \in Requests |-> 0]
  /\ caller = [r \in Requests |-> "idle"]
  /\ handle = [r \in Requests |-> None]
  /\ outcome = [r \in Requests |-> "none"]
  /\ expired = {}
  /\ pending = {}
  /\ replies = [r \in Requests |-> 0]

----------------------------------------------------------------------------
(* The worker process: agent.py and grpc_client.py.                        *)

\* run: the stream opens; Ready is the first event, then the status update.
Dial(s) ==
  /\ conn[s] = "none"
  /\ conn' = [conn EXCEPT ![s] = "open"]
  /\ events' = [events EXCEPT ![s] = <<Ready, Status>>]
  /\ UNCHANGED <<current, queue, pump, cmds, recv, workerVars, callVars, replies>>

\* The process dies or the network drops it: the stream's context is done and
\* the commands on the wire are lost.  The worker never reconnects a stream.
Break(s) ==
  /\ conn[s] = "open"
  /\ conn' = [conn EXCEPT ![s] = "broken"]
  /\ cmds' = [cmds EXCEPT ![s] = <<>>]
  /\ UNCHANGED <<current, queue, pump, events, recv, workerVars, callVars, replies>>

\* dispatch: a thread per LinkAccount / ListFriends.  What a guard code does to
\* the waiting login is GuardHandoff's subject; it sends no event by itself.
WorkerDispatch(s) ==
  /\ conn[s] = "open"
  /\ cmds[s] # <<>>
  /\ cmds' = [cmds EXCEPT ![s] = Tail(@)]
  /\ job' = IF Awaits(Head(cmds[s]))
              THEN [job EXCEPT ![s][Head(cmds[s])] = "running"]
              ELSE job
  /\ UNCHANGED <<current, conn, queue, pump, events, recv, asked, callVars, replies>>

\* Faulty: an interim prompt is reported as a LinkResult.
PromptAsResult(s, r) ==
  /\ conn[s] = "open"
  /\ job[s][r] = "running"
  /\ IsLink(r) /\ asked[r] < MaxChallenges
  /\ asked' = [asked EXCEPT ![r] = @ + 1]
  /\ events' = [events EXCEPT ![s] = Append(@, Result(r))]
  /\ UNCHANGED <<current, connVars, recv, job, callVars, replies>>

\* Faulty: the QR code is still rotated after the result was sent.
PromptAfterAnswer(s, r) ==
  /\ conn[s] = "open"
  /\ job[s][r] # "none"
  /\ Kind[r] = "qr" /\ asked[r] < MaxChallenges
  /\ asked' = [asked EXCEPT ![r] = @ + 1]
  /\ events' = [events EXCEPT ![s] = Append(@, Prompt(r))]
  /\ UNCHANGED <<current, connVars, recv, job, callVars, replies>>

\* on_guard, at most once per credentials login; on_challenge, again on each
\* rotation of the QR code.
WorkerPrompt(s, r) ==
  /\ conn[s] = "open"
  /\ job[s][r] = "running"
  /\ \/ Kind[r] = "qr" /\ asked[r] < MaxChallenges
     \/ Kind[r] = "credentials" /\ asked[r] = 0
  /\ asked' = [asked EXCEPT ![r] = @ + 1]
  /\ events' = [events EXCEPT ![s] = Append(@, Prompt(r))]
  /\ UNCHANGED <<current, connVars, recv, job, callVars, replies>>

\* The handler thread ends in exactly one result event, an error one included.
WorkerAnswer(s, r) ==
  /\ conn[s] = "open"
  /\ job[s][r] = "running"
  /\ job' = [job EXCEPT ![s][r] = "answered"]
  /\ events' = [events EXCEPT ![s] = Append(@, Result(r))]
  /\ UNCHANGED <<current, connVars, recv, asked, callVars, replies>>

----------------------------------------------------------------------------
(* WorkerSession: the pump goroutine.                                      *)

CtxDone(s) == conn[s] \in {"broken", "closed"}

PumpSend(s) ==
  /\ pump[s] = "run"
  /\ conn[s] = "open"
  /\ queue[s] # <<>>
  /\ queue' = [queue EXCEPT ![s] = Tail(@)]
  /\ cmds' = [cmds EXCEPT ![s] = Append(@, Head(queue[s]))]
  /\ UNCHANGED <<current, conn, pump, events, recv, workerVars, callVars, replies>>

\* select may pick a command although ctx is done: stream.Send fails, the
\* command is gone.
PumpSendFails(s) ==
  /\ pump[s] = "run"
  /\ CtxDone(s)
  /\ queue[s] # <<>>
  /\ queue' = [queue EXCEPT ![s] = Tail(@)]
  /\ pump' = [pump EXCEPT ![s] = "exited"]
  /\ UNCHANGED <<current, conn, cmds, events, recv, workerVars, callVars, replies>>

PumpCtxDone(s) ==
  /\ pump[s] = "run"
  /\ CtxDone(s)
  /\ pump' = [pump EXCEPT ![s] = "exited"]
  /\ UNCHANGED <<current, conn, queue, cmds, events, recv, workerVars, callVars, replies>>

----------------------------------------------------------------------------
(* WorkerSession: the Recv loop.  An event still buffered when the stream  *)
(* breaks may be received or lost.                                         *)

CanRecv(s, type) ==
  /\ conn[s] \in {"open", "broken"}
  /\ recv[s].pc = "recv"
  /\ events[s] # <<>>
  /\ Head(events[s]).type = type

\* register: the newest worker replaces any other.
RecvReady(s) ==
  /\ CanRecv(s, "ready")
  /\ events' = [events EXCEPT ![s] = Tail(@)]
  /\ current' = s
  /\ UNCHANGED <<connVars, recv, workerVars, callVars, replies>>

RecvLogged(s) ==
  /\ CanRecv(s, "status")
  /\ events' = [events EXCEPT ![s] = Tail(@)]
  /\ UNCHANGED <<current, connVars, recv, workerVars, callVars, replies>>

\* The first half of deliver / guard / challenge: look the request up under the
\* lock, release the lock; a request that is no longer pending is dropped.
Lookup(s, r, pc) ==
  /\ events' = [events EXCEPT ![s] = Tail(@)]
  /\ recv' = IF r \in pending THEN [recv EXCEPT ![s] = [pc |-> pc, req |-> r]] ELSE recv
  /\ UNCHANGED <<current, connVars, workerVars, callVars, replies>>

RecvResult(s) == CanRecv(s, "result") /\ Lookup(s, Head(events[s]).req, "deliver")

\* Faulty: a prompt is routed to the reply channel.
PromptToChannel(s) == CanRecv(s, "prompt") /\ Lookup(s, Head(events[s]).req, "deliver")

RecvPrompt(s) == CanRecv(s, "prompt") /\ Lookup(s, Head(events[s]).req, "callback")

\* Faulty: the result is dropped when no receiver is ready.
DeliverDrops(s) ==
  /\ recv[s].pc = "deliver"
  /\ recv' = [recv EXCEPT ![s] = InRecv]
  /\ UNCHANGED <<current, connVars, events, workerVars, callVars, replies>>

\* ch <- res: blocks the Recv loop while the channel is full.
Deliver(s) ==
  /\ recv[s].pc = "deliver"
  /\ replies[recv[s].req] = 0
  /\ replies' = [replies EXCEPT ![recv[s].req] = 1]
  /\ recv' = [recv EXCEPT ![s] = InRecv]
  /\ UNCHANGED <<current, connVars, events, workerVars, callVars>>

\* cb(...): the callback runs on the Recv goroutine and returns.
Callback(s) ==
  /\ recv[s].pc = "callback"
  /\ recv' = [recv EXCEPT ![s] = InRecv]
  /\ UNCHANGED <<current, connVars, events, workerVars, callVars, replies>>

\* Faulty: the session returns without unregistering its worker.
EndKeepsCurrent(s) ==
  /\ conn[s] = "broken"
  /\ recv[s].pc = "recv"
  /\ conn' = [conn EXCEPT ![s] = "closed"]
  /\ events' = [events EXCEPT ![s] = <<>>]
  /\ UNCHANGED <<current, queue, pump, cmds, recv, workerVars, callVars, replies>>

\* Faulty: unregister clears current whoever it is.
EndEvictsAnyone(s) ==
  /\ conn[s] = "broken"
  /\ recv[s].pc = "recv"
  /\ conn' = [conn EXCEPT ![s] = "closed"]
  /\ events' = [events EXCEPT ![s] = <<>>]
  /\ current' = None
  /\ UNCHANGED <<queue, pump, cmds, recv, workerVars, callVars, replies>>

\* Faulty: the session returns while an event is still being handled.
EndDuringHandle(s) ==
  /\ conn[s] = "broken"
  /\ conn' = [conn EXCEPT ![s] = "closed"]
  /\ events' = [events EXCEPT ![s] = <<>>]
  /\ current' = IF current = s THEN None ELSE current
  /\ UNCHANGED <<queue, pump, cmds, recv, workerVars, callVars, replies>>

\* Recv returns EOF or an error: the session returns and the deferred unregister
\* runs.  Whatever was still buffered is dropped.
RecvEnd(s) ==
  /\ conn[s] = "broken"
  /\ recv[s].pc = "recv"
  /\ conn' = [conn EXCEPT ![s] = "closed"]
  /\ events' = [events EXCEPT ![s] = <<>>]
  /\ current' = IF current = s THEN None ELSE current
  /\ UNCHANGED <<queue, pump, cmds, recv, workerVars, callVars, replies>>

----------------------------------------------------------------------------
(* The callers: Link, ListFriends, SubmitGuardCode and Registry.Send.      *)

\* Where a call that cannot go on continues: the deferred remove, if there is one.
Leave(r) == IF Awaits(r) THEN "leaving" ELSE "returned"

\* make the reply channel, add it to the pending map (nothing for a code).
Start(r) ==
  /\ caller[r] = "idle"
  /\ caller' = [caller EXCEPT ![r] = "lookup"]
  /\ pending' = IF Awaits(r) THEN pending \cup {r} ELSE pending
  /\ UNCHANGED <<current, connVars, events, recv, workerVars, handle, outcome, expired, replies>>

\* newRequestID fails before anything is registered.
StartFails(r) ==
  /\ caller[r] = "idle"
  /\ Kind[r] = "friends"
  /\ caller' = [caller EXCEPT ![r] = "returned"]
  /\ outcome' = [outcome EXCEPT ![r] = "rand_failed"]
  /\ UNCHANGED <<current, connVars, events, recv, workerVars, handle, expired,
                 pending, replies>>

\* Send, first half: w := r.Current(), under the lock.
SendLookup(r) ==
  /\ caller[r] = "lookup"
  /\ \/ /\ current # None
        /\ handle' = [handle EXCEPT ![r] = current]
        /\ caller' = [caller EXCEPT ![r] = "send"]
        /\ UNCHANGED outcome
     \/ /\ current = None
        /\ outcome' = [outcome EXCEPT ![r] = "no_worker"]
        /\ caller' = [caller EXCEPT ![r] = Leave(r)]
        /\ UNCHANGED handle
  /\ UNCHANGED <<current, connVars, events, recv, workerVars, expired, pending, replies>>

\* Faulty: the queue is not bounded.
SendUnbounded(r) ==
  /\ caller[r] = "send"
  /\ queue' = [queue EXCEPT ![handle[r]] = Append(@, r)]
  /\ caller' = [caller EXCEPT ![r] = IF Awaits(r) THEN "wait" ELSE "returned"]
  /\ outcome' = IF Awaits(r) THEN outcome ELSE [outcome EXCEPT ![r] = "sent"]
  /\ UNCHANGED <<current, conn, pump, cmds, events, recv, workerVars, handle, expired,
                 pending, replies>>

\* Send, second half: w.send <- cmd, which waits for room and for nothing else.
SendEnqueue(r) ==
  /\ caller[r] = "send"
  /\ Len(queue[handle[r]]) < QueueCap
  /\ queue' = [queue EXCEPT ![handle[r]] = Append(@, r)]
  /\ caller' = [caller EXCEPT ![r] = IF Awaits(r) THEN "wait" ELSE "returned"]
  /\ outcome' = IF Awaits(r) THEN outcome ELSE [outcome EXCEPT ![r] = "sent"]
  /\ UNCHANGED <<current, conn, pump, cmds, events, recv, workerVars, handle, expired,
                 pending, replies>>

\* linkTimeout passes, or the HTTP client of a friends request goes away.
Expire(r) ==
  /\ Awaits(r)
  /\ caller[r] \in {"lookup", "send", "wait"}
  /\ r \notin expired
  /\ expired' = expired \cup {r}
  /\ UNCHANGED <<current, connVars, events, recv, workerVars, caller, handle, outcome,
                 pending, replies>>

\* Faulty: the context is looked at only once a reply is there.
CtxAfterReply(r) ==
  /\ caller[r] = "wait"
  /\ r \in expired
  /\ replies[r] = 1
  /\ outcome' = [outcome EXCEPT ![r] = "ctx"]
  /\ caller' = [caller EXCEPT ![r] = "leaving"]
  /\ UNCHANGED <<current, connVars, events, recv, workerVars, handle, expired,
                 pending, replies>>

\* select { case <-ctx.Done() ... }
WaitCtxDone(r) ==
  /\ caller[r] = "wait"
  /\ r \in expired
  /\ outcome' = [outcome EXCEPT ![r] = "ctx"]
  /\ caller' = [caller EXCEPT ![r] = "leaving"]
  /\ UNCHANGED <<current, connVars, events, recv, workerVars, handle, expired,
                 pending, replies>>

\* Faulty: the end of the session is taken for a result.
WaitClosed(r) ==
  /\ caller[r] = "wait"
  /\ replies[r] = 1 \/ conn[handle[r]] = "closed"
  /\ replies' = [replies EXCEPT ![r] = 0]
  /\ outcome' = [outcome EXCEPT ![r] = "result"]
  /\ caller' = [caller EXCEPT ![r] = "leaving"]
  /\ UNCHANGED <<current, connVars, events, recv, workerVars, handle, expired, pending>>

\* select { case res := <-ch ... }
WaitResult(r) ==
  /\ caller[r] = "wait"
  /\ replies[r] = 1
  /\ replies' = [replies EXCEPT ![r] = 0]
  /\ outcome' = [outcome EXCEPT ![r] = "result"]
  /\ caller' = [caller EXCEPT ![r] = "leaving"]
  /\ UNCHANGED <<current, connVars, events, recv, workerVars, handle, expired, pending>>

\* The deferred remove.
Remove(r) ==
  /\ caller[r] = "leaving"
  /\ pending' = pending \ {r}
  /\ caller' = [caller EXCEPT ![r] = "returned"]
  /\ UNCHANGED <<current, connVars, events, recv, workerVars, handle, outcome, expired, replies>>

\* The StartLink goroutine: exactly one of OnLinked / OnError.
Report(r) ==
  /\ IsLink(r)
  /\ caller[r] = "returned"
  /\ caller' = [caller EXCEPT ![r] = "reported"]
  /\ UNCHANGED <<current, connVars, events, recv, workerVars, handle, outcome, expired,
                 pending, replies>>

----------------------------------------------------------------------------
WorkerNext(s)  == Dial(s) \/ Break(s) \/ WorkerDispatch(s)
                    \/ \E r \in Requests : WorkerPrompt(s, r) \/ WorkerAnswer(s, r)
PumpNext(s)    == PumpSend(s) \/ PumpSendFails(s) \/ PumpCtxDone(s)
SessionNext(s) == RecvReady(s) \/ RecvLogged(s) \/ RecvResult(s) \/ RecvPrompt(s)
                    \/ Deliver(s) \/ RecvEnd(s)
CallerNext(r)  == SendLookup(r) \/ SendEnqueue(r) \/ WaitCtxDone(r) \/ WaitResult(r)
                    \/ Remove(r) \/ Report(r)

Next ==
  \/ \E s \in Streams : WorkerNext(s) \/ PumpNext(s) \/ SessionNext(s) \/ Callback(s)
  \/ \E r \in Requests : Start(r) \/ StartFails(r) \/ Expire(r) \/ CallerNext(r)

Spec == Init /\ [][Next]_vars

\* The goroutines of the control plane run: the pump, the Recv loop and the
\* callers.  Nothing is assumed of the worker, of the clock, of new calls, nor
\* of a prompt callback, which writes to browsers without a deadline.
Fairness ==
  /\ \A s \in Streams : WF_vars(PumpNext(s)) /\ WF_vars(SessionNext(s))
  /\ \A r \in Requests : WF_vars(CallerNext(r))

FairSpec == Spec /\ Fairness
----------------------------------------------------------------------------
(* Safety *)

\* deliver's "ch <- res" outside the lock never blocks the Recv loop: whenever the
\* loop holds a looked-up channel, that channel's one slot is free, because a
\* request is sent to one worker once and answered at most once ("non-blocking;
\* the channel is buffered", friends.go and link.go).
DeliverNeverBlocks ==
  \A s \in Streams : recv[s].pc = "deliver" => replies[recv[s].req] = 0

\* A guard or challenge callback about to run on the Recv goroutine belongs to a
\* link that has no result yet: its Link call is still running or gave up on its
\* context.  Prompts and results of a link stay in the order the worker sent them
\* through wire, lookup, unlock and callback.
PromptsPrecedeResult ==
  \A s \in Streams :
    recv[s].pc = "callback" =>
      /\ outcome[recv[s].req] \in {"none", "ctx"}
      /\ replies[recv[s].req] = 0

\* A call that returns a result returns the answer to its own command, given by
\* the worker whose handle Send took, whatever worker is current by then.
ResultsAreAnswers ==
  \A r \in Requests :
    (outcome[r] = "result" \/ replies[r] = 1) =>
      /\ handle[r] # None
      /\ job[handle[r]][r] = "answered"

\* Where the command or the answer of a call can be: queued for its worker, on the
\* wire, being worked on, on the wire back, held by the Recv loop, or in its channel.
UnderWay(r) ==
  LET s == handle[r]
  IN  \/ r \in Elems(queue[s]) \cup Elems(cmds[s])
      \/ job[s][r] = "running"
      \/ Result(r) \in Elems(events[s])
      \/ recv[s] = [pc |-> "deliver", req |-> r]
      \/ replies[r] = 1

\* A call that waits on a stream that is up waits for something: no interleaving of
\* the queue, the pump, the worker, the Recv loop and deliver, which work on it under
\* different locks, drops its command or its answer.
NothingLost ==
  \A r \in Requests : caller[r] = "wait" /\ conn[handle[r]] = "open" => UnderWay(r)

\* The registry never offers a worker whose session has returned: the deferred
\* unregister leaves no dangling current.
CurrentIsLive == current # None => conn[current] \in {"open", "broken"}

(* Action properties *)

\* A worker stops being current only because its own session ended or because a
\* worker that had not been registered yet takes its place: a stale session that
\* ends after a newer one connected does not evict the newer one.
StaleSessionEvictsNobody ==
  [][current # None /\ current' # current =>
       \/ conn'[current] = "closed"
       \/ current' # None /\ \E e \in Elems(events[current']) : e.type = "ready"]_vars

\* A call waits on a session that has ended and has no reply in its channel.
Orphaned(r) == caller[r] = "wait" /\ conn[handle[r]] = "closed" /\ replies[r] = 0

\* Such a call is never answered any more, also when the worker comes back on a new
\* stream: nothing is resent and unregister fails no pending call, so only the
\* call's context can end it.
OrphansOnlyTimeOut ==
  [][\A r \in Requests : Orphaned(r) => Orphaned(r)' \/ outcome'[r] = "ctx"]_vars

(* The promise to the callers, read off the calls and the workers' threads: a command *)
(* being worked on is lost once the stream of its worker breaks.                      *)

Call == [r \in Requests |-> IF caller[r] = "idle" THEN "idle"
                            ELSE IF outcome[r] = "none" THEN "open" ELSE outcome[r]]
Work == [r \in Requests |->
           IF handle[r] = None THEN "none"
           ELSE IF job[handle[r]][r] = "running" /\ conn[handle[r]] # "open" THEN "lost"
           ELSE job[handle[r]][r]]

Calls == INSTANCE CallContract WITH call <- Call, work <- Work, due <- expired

\* A command runs on one worker at most once, a call returns a result only if it ran to
\* its end, and the context's error only if its context is done: also for several
\* calls, connections that replace each other, and answers that come too late.
ImplementsCalls == Calls!Spec

(* Liveness *)

Blocked(r) == caller[r] = "send" /\ Len(queue[handle[r]]) = QueueCap

\* A call whose context is done returns, unless it is stuck for ever in
\* Registry.Send on the full queue of one worker.
ExpiredCallsReturn ==
  \A r \in Requests :
    (r \in expired) ~> (caller[r] \in {"returned", "reported"} \/ []Blocked(r))

\* A result on a stream that stays up ends its call, unless a prompt callback never
\* returns and so holds up every event behind it.
AnswersReachCallers ==
  \A r \in Requests, s \in Streams :
    (Result(r) \in Elems(events[s]))
      ~> \/ caller[r] \in {"returned", "reported"}
         \/ conn[s] # "open"
         \/ [](recv[s].pc = "callback")

(* Claims of comments that the code does not keep *)

\* router.go on LinkCallbacks: OnQrChallenge or OnGuard "may fire before the
\* terminal callback; then exactly one of OnLinked / OnError is called".
PromptBeforeTerminal ==
  \A s \in Streams : recv[s].pc = "callback" => caller[recv[s].req] # "reported"

\* link.go and friends.go: the call returns "the context error on timeout".
TimeoutHonoured ==
  \A r \in Requests : (r \in expired) ~> (caller[r] \in {"returned", "reported"})
=============================================================================
