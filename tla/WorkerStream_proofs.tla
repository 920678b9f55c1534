------------------------- MODULE WorkerStream_proofs -------------------------
(***************************************************************************)
(* Proofs about WorkerStream for every set of calls and connections and    *)
(* every queue capacity.                                                   *)
(***************************************************************************)
EXTENDS WorkerStream, TLAPS

----------------------------------------------------------------------------
(* Sequences seen through the set of their elements.                       *)

Inj(seq) == \A i, j \in DOMAIN seq : seq[i] = seq[j] => i = j

\* Nothing of a request follows its result.
ResultLast(seq) ==
  \A i, j \in DOMAIN seq : i < j /\ seq[i].type = "result" => seq[j].req # seq[i].req

\* Taking the head of a queue: what is left is a subset, and in a queue without
\* duplicates the head is gone.
LEMMA TailLemma ==
  ASSUME NEW S, NEW q \in Seq(S), q # <<>>
  PROVE  /\ Head(q) \in S
         /\ Head(q) \in Elems(q)
         /\ Tail(q) \in Seq(S)
         /\ Len(Tail(q)) = Len(q) - 1
         /\ Elems(Tail(q)) \subseteq Elems(q)
         /\ Inj(q) => Inj(Tail(q)) /\ Head(q) \notin Elems(Tail(q))
  <1>1. /\ Len(q) \in Nat \ {0}
        /\ Head(q) = q[1]
        /\ DOMAIN q = 1..Len(q)
        /\ Tail(q) \in Seq(S)
        /\ Len(Tail(q)) = Len(q) - 1
        /\ DOMAIN Tail(q) = 1..(Len(q) - 1)
        /\ \A i \in DOMAIN Tail(q) : Tail(q)[i] = q[i + 1]
        /\ \A i \in DOMAIN Tail(q) : i + 1 \in DOMAIN q
    OBVIOUS
  <1>2. Head(q) \in S /\ Head(q) \in Elems(q)
    BY <1>1 DEF Elems
  <1>3. Elems(Tail(q)) \subseteq Elems(q)
    BY <1>1 DEF Elems
  <1>4. Inj(q) => Inj(Tail(q)) /\ Head(q) \notin Elems(Tail(q))
    BY <1>1 DEF Inj, Elems
  <1> QED BY <1>1, <1>2, <1>3, <1>4

\* Appending adds one element, and keeps a queue without duplicates so if the
\* element was not in it.
LEMMA AppendLemma ==
  ASSUME NEW S, NEW q \in Seq(S), NEW x \in S
  PROVE  /\ Append(q, x) \in Seq(S)
         /\ Len(Append(q, x)) = Len(q) + 1
         /\ Elems(Append(q, x)) = Elems(q) \cup {x}
         /\ Inj(q) /\ x \notin Elems(q) => Inj(Append(q, x))
  <1>1. /\ Len(q) \in Nat
        /\ DOMAIN q = 1..Len(q)
        /\ Append(q, x) \in Seq(S)
        /\ Len(Append(q, x)) = Len(q) + 1
        /\ DOMAIN Append(q, x) = 1..(Len(q) + 1)
        /\ \A i \in 1..Len(q) : Append(q, x)[i] = q[i]
        /\ Append(q, x)[Len(q) + 1] = x
    OBVIOUS
  <1>2. Elems(Append(q, x)) = Elems(q) \cup {x}
    <2>1. ASSUME NEW e \in Elems(Append(q, x)) PROVE e \in Elems(q) \cup {x}
      BY <1>1 DEF Elems
    <2>2. ASSUME NEW e \in Elems(q) \cup {x} PROVE e \in Elems(Append(q, x))
      BY <1>1 DEF Elems
    <2> QED BY <2>1, <2>2
  <1>3. Inj(q) /\ x \notin Elems(q) => Inj(Append(q, x))
    BY <1>1 DEF Inj, Elems
  <1> QED BY <1>1, <1>2, <1>3

\* The Recv loop takes an event: if it is a result, nothing of its request is left.
LEMMA ResultLastTail ==
  ASSUME NEW S, NEW q \in Seq(S), q # <<>>, ResultLast(q)
  PROVE  /\ ResultLast(Tail(q))
         /\ Head(q).type = "result" => \A e \in Elems(Tail(q)) : e.req # Head(q).req
  <1>1. /\ Len(q) \in Nat \ {0}
        /\ Head(q) = q[1]
        /\ DOMAIN q = 1..Len(q)
        /\ DOMAIN Tail(q) = 1..(Len(q) - 1)
        /\ \A i \in DOMAIN Tail(q) : Tail(q)[i] = q[i + 1]
        /\ \A i \in DOMAIN Tail(q) : i + 1 \in DOMAIN q /\ 1 < i + 1
    OBVIOUS
  <1>2. ResultLast(Tail(q))
    BY <1>1 DEF ResultLast
  <1>3. Head(q).type = "result" => \A e \in Elems(Tail(q)) : e.req # Head(q).req
    BY <1>1 DEF ResultLast, Elems
  <1> QED BY <1>2, <1>3

\* The worker sends an event of a request that has no result on the wire.
LEMMA ResultLastAppend ==
  ASSUME NEW S, NEW q \in Seq(S), NEW x \in S, ResultLast(q),
         \A e \in Elems(q) : e.type = "result" => e.req # x.req
  PROVE  ResultLast(Append(q, x))
  <1>1. /\ Len(q) \in Nat
        /\ DOMAIN q = 1..Len(q)
        /\ DOMAIN Append(q, x) = 1..(Len(q) + 1)
        /\ \A i \in 1..Len(q) : Append(q, x)[i] = q[i]
        /\ Append(q, x)[Len(q) + 1] = x
    OBVIOUS
  <1> QED BY <1>1 DEF ResultLast, Elems

\* The elements of a sequence over S are in S.
LEMMA ElemsLemma ==
  ASSUME NEW S, NEW q \in Seq(S)
  PROVE  Elems(q) \subseteq S
  BY DEF Elems

\* The empty wire, and the wire of a stream that was just dialled.
LEMMA EmptyLemma ==
  /\ Elems(<<>>) = {} /\ Inj(<<>>) /\ ResultLast(<<>>)
  /\ Elems(<<Ready, Status>>) = {Ready, Status} /\ ResultLast(<<Ready, Status>>)
  <1>1. DOMAIN <<Ready, Status>> = {1, 2}
    OBVIOUS
  <1>2. Elems(<<Ready, Status>>) = {Ready, Status}
    BY <1>1 DEF Elems
  <1>3. ResultLast(<<Ready, Status>>)
    BY <1>1 DEF ResultLast, Ready, Status
  <1> QED BY <1>2, <1>3 DEF Elems, Inj, ResultLast

----------------------------------------------------------------------------
(* The inductive invariant.                                                *)

\* The call has handed its command to the queue of handle[r].
Past(r) == caller[r] \in {"wait", "leaving", "returned", "reported"}

\* The call has no result yet, neither in its channel nor taken.
Fresh(r) == replies[r] = 0 /\ outcome[r] # "result"

\* handle[r] is set once, by the lookup, and only a call that got one can send.
HandleInv ==
  \A r \in Requests :
    /\ caller[r] \in {"idle", "lookup"} => handle[r] = None /\ outcome[r] = "none"
    /\ caller[r] \in {"send", "wait"} => handle[r] # None
    /\ Awaits(r) /\ handle[r] # None => outcome[r] \in {"none", "ctx", "result"}

\* A command is in one place: once in the queue or once on the wire of the one
\* stream it was sent to, and only before the worker took it up.
CommandInv ==
  \A s \in Streams :
    /\ Inj(queue[s]) /\ Inj(cmds[s])
    /\ \A r \in Elems(queue[s]) :
         handle[r] = s /\ Past(r) /\ job[s][r] = "none" /\ r \notin Elems(cmds[s])
    /\ \A r \in Elems(cmds[s]) : handle[r] = s /\ Past(r) /\ job[s][r] = "none"

\* Only the worker a command was sent to works on it.
JobInv ==
  \A s \in Streams, r \in Requests :
    job[s][r] # "none" => handle[r] = s /\ Past(r) /\ Awaits(r)

\* Prompts and results on the wire, and the one the Recv loop holds, belong to
\* calls without a result.
EventInv ==
  \A s \in Streams :
    /\ ResultLast(events[s])
    /\ \A e \in Elems(events[s]) :
         e.type \in {"prompt", "result"} =>
           /\ e.req \in Requests
           /\ job[s][e.req] = "answered" \/ (e.type = "prompt" /\ job[s][e.req] = "running")
           /\ Fresh(e.req)
    /\ recv[s].pc = "deliver" =>
         /\ recv[s].req \in Requests
         /\ job[s][recv[s].req] = "answered"
         /\ Fresh(recv[s].req)
         /\ \A e \in Elems(events[s]) : e.req # recv[s].req
    /\ recv[s].pc = "callback" =>
         /\ recv[s].req \in Requests
         /\ job[s][recv[s].req] # "none"
         /\ Fresh(recv[s].req)

\* A session that has returned holds no looked-up channel or callback.
SessionInv == \A s \in Streams : conn[s] = "closed" => recv[s].pc = "recv"

IndInv ==
  /\ TypeOK
  /\ HandleInv
  /\ CommandInv
  /\ JobInv
  /\ EventInv
  /\ SessionInv
  /\ ResultsAreAnswers
  /\ CurrentIsLive

----------------------------------------------------------------------------
(* Type correctness.                                                       *)

\* An event with a request is one of the two constructors.
LEMMA EventTypes ==
  /\ Ready \in Event /\ Status \in Event
  /\ \A r \in Requests : Prompt(r) \in Event /\ Result(r) \in Event
  /\ InRecv \in [pc : RecvPcs, req : Requests \cup {None}]
  BY DEF Ready, Status, Prompt, Result, Event, InRecv, RecvPcs

\* Every step keeps every variable in its type.
LEMMA TypeStep ==
  ASSUME TypeOK, [Next]_vars
  PROVE  TypeOK'
  <1> USE ConstAssumption, EventTypes DEF TypeOK, connVars, workerVars, callVars
  <1>0. CASE UNCHANGED vars
    BY <1>0 DEF vars
  <1>1. ASSUME NEW s \in Streams, Dial(s) PROVE TypeOK'
    BY <1>1 DEF Dial
  <1>2. ASSUME NEW s \in Streams, Break(s) PROVE TypeOK'
    BY <1>2 DEF Break
  <1>3. ASSUME NEW s \in Streams, WorkerDispatch(s) PROVE TypeOK'
    BY <1>3, TailLemma DEF WorkerDispatch
  <1>4. ASSUME NEW s \in Streams, PumpSend(s) PROVE TypeOK'
    <2>1. /\ queue[s] \in Seq(Requests) /\ queue[s] # <<>> /\ cmds[s] \in Seq(Requests)
          /\ queue' = [queue EXCEPT ![s] = Tail(queue[s])]
          /\ cmds' = [cmds EXCEPT ![s] = Append(cmds[s], Head(queue[s]))]
      BY <1>4 DEF PumpSend
    <2>2. /\ Tail(queue[s]) \in Seq(Requests) /\ Len(Tail(queue[s])) <= QueueCap
          /\ Append(cmds[s], Head(queue[s])) \in Seq(Requests)
      <3>1. Len(queue[s]) \in Nat /\ Len(queue[s]) <= QueueCap
        BY <2>1
      <3>2. Tail(queue[s]) \in Seq(Requests) /\ Len(Tail(queue[s])) = Len(queue[s]) - 1
        BY <2>1
      <3> QED BY <2>1, <3>1, <3>2
    <2>3. /\ queue' \in [Streams -> Seq(Requests)] /\ cmds' \in [Streams -> Seq(Requests)]
          /\ \A t \in Streams : Len(queue'[t]) <= QueueCap
      BY <2>1, <2>2
    <2> QED BY <1>4, <2>3 DEF PumpSend
  <1>5. ASSUME NEW s \in Streams, PumpSendFails(s) PROVE TypeOK'
    BY <1>5, TailLemma, SMTT(60) DEF PumpSendFails
  <1>6. ASSUME NEW s \in Streams, PumpCtxDone(s) PROVE TypeOK'
    BY <1>6 DEF PumpCtxDone
  <1>7. ASSUME NEW s \in Streams, RecvReady(s) PROVE TypeOK'
    BY <1>7, TailLemma DEF RecvReady, CanRecv
  <1>8. ASSUME NEW s \in Streams, RecvLogged(s) PROVE TypeOK'
    BY <1>8, TailLemma DEF RecvLogged, CanRecv
  <1>9. ASSUME NEW s \in Streams, RecvResult(s) PROVE TypeOK'
    BY <1>9, TailLemma DEF RecvResult, CanRecv, Lookup, RecvPcs
  <1>10. ASSUME NEW s \in Streams, RecvPrompt(s) PROVE TypeOK'
    BY <1>10, TailLemma DEF RecvPrompt, CanRecv, Lookup, RecvPcs
  <1>11. ASSUME NEW s \in Streams, Deliver(s) PROVE TypeOK'
    BY <1>11 DEF Deliver
  <1>12. ASSUME NEW s \in Streams, Callback(s) PROVE TypeOK'
    BY <1>12 DEF Callback
  <1>13. ASSUME NEW s \in Streams, RecvEnd(s) PROVE TypeOK'
    BY <1>13 DEF RecvEnd
  <1>14. ASSUME NEW s \in Streams, NEW r \in Requests, WorkerPrompt(s, r) PROVE TypeOK'
    <2>1. Append(events[s], Prompt(r)) \in Seq(Event) /\ asked[r] + 1 \in Nat
      OBVIOUS
    <2>2. events' \in [Streams -> Seq(Event)] /\ asked' \in [Requests -> Nat]
      BY <1>14, <2>1 DEF WorkerPrompt
    <2> QED BY <1>14, <2>2 DEF WorkerPrompt
  <1>15. ASSUME NEW s \in Streams, NEW r \in Requests, WorkerAnswer(s, r) PROVE TypeOK'
    BY <1>15, AppendLemma DEF WorkerAnswer
  <1>16. ASSUME NEW r \in Requests, Start(r) PROVE TypeOK'
    BY <1>16 DEF Start, CallerPcs
  <1>17. ASSUME NEW r \in Requests, StartFails(r) PROVE TypeOK'
    BY <1>17 DEF StartFails, CallerPcs, Outcomes
  <1>18. ASSUME NEW r \in Requests, SendLookup(r) PROVE TypeOK'
    <2>1. CASE current # None
      <3>1. current \in Streams /\ handle' = [handle EXCEPT ![r] = current]
        BY <1>18, <2>1 DEF SendLookup
      <3>2. handle' \in [Requests -> Streams \cup {None}]
        BY <3>1
      <3>3. caller' \in [Requests -> CallerPcs] /\ outcome' = outcome
        <4>1. caller' = [caller EXCEPT ![r] = "send"] /\ outcome' = outcome
          BY <1>18, <2>1 DEF SendLookup
        <4> QED BY <4>1 DEF CallerPcs
      <3> QED BY <1>18, <3>2, <3>3 DEF SendLookup
    <2>2. CASE current = None
      <3>1. caller' = [caller EXCEPT ![r] = Leave(r)] /\ Leave(r) \in CallerPcs
        BY <1>18, <2>2 DEF SendLookup, Leave, CallerPcs
      <3>2. outcome' \in [Requests -> Outcomes] /\ handle' = handle
        BY <1>18, <2>2 DEF SendLookup, Outcomes
      <3>3. caller' \in [Requests -> CallerPcs]
        BY <3>1
      <3> QED BY <1>18, <3>2, <3>3 DEF SendLookup
    <2> QED BY <2>1, <2>2
  <1>19. ASSUME NEW r \in Requests, SendEnqueue(r) PROVE TypeOK'
    <2>1. caller' \in [Requests -> CallerPcs] /\ outcome' \in [Requests -> Outcomes]
      BY <1>19 DEF SendEnqueue, CallerPcs, Outcomes
    <2>2. ASSUME NEW s \in Streams
          PROVE  queue'[s] \in Seq(Requests) /\ Len(queue'[s]) <= QueueCap
      <3>1. CASE s = handle[r]
        BY <1>19, <3>1, AppendLemma DEF SendEnqueue
      <3>2. CASE s # handle[r]
        BY <1>19, <3>2 DEF SendEnqueue
      <3> QED BY <3>1, <3>2
    <2>3. queue' \in [Streams -> Seq(Requests)]
      BY <1>19, <2>2 DEF SendEnqueue
    <2> QED BY <1>19, <2>1, <2>2, <2>3 DEF SendEnqueue
  <1>20. ASSUME NEW r \in Requests, Expire(r) PROVE TypeOK'
    BY <1>20 DEF Expire
  <1>21. ASSUME NEW r \in Requests, WaitCtxDone(r) PROVE TypeOK'
    BY <1>21 DEF WaitCtxDone, CallerPcs, Outcomes
  <1>22. ASSUME NEW r \in Requests, WaitResult(r) PROVE TypeOK'
    BY <1>22 DEF WaitResult, CallerPcs, Outcomes
  <1>23. ASSUME NEW r \in Requests, Remove(r) PROVE TypeOK'
    BY <1>23 DEF Remove, CallerPcs
  <1>24. ASSUME NEW r \in Requests, Report(r) PROVE TypeOK'
    BY <1>24 DEF Report, CallerPcs
  <1> QED
    BY <1>0, <1>1, <1>2, <1>3, <1>4, <1>5, <1>6, <1>7, <1>8, <1>9, <1>10, <1>11, <1>12,
       <1>13, <1>14, <1>15, <1>16, <1>17, <1>18, <1>19, <1>20, <1>21, <1>22, <1>23,
       <1>24 DEF Next, WorkerNext, PumpNext, SessionNext, CallerNext

----------------------------------------------------------------------------
(* The inductive step.                                                     *)

\* Every step preserves the inductive invariant.
LEMMA IndStep ==
  ASSUME IndInv, [Next]_vars
  PROVE  IndInv'
  <1> USE ConstAssumption DEF connVars, workerVars, callVars
  <1>t. TypeOK /\ TypeOK'
    BY TypeStep DEF IndInv
  <1>q. \A t \in Streams : Elems(queue[t]) \subseteq Requests /\ Elems(cmds[t]) \subseteq Requests
    BY <1>t, ElemsLemma DEF TypeOK
  <1>h. handle \in [Requests -> Streams \cup {None}]
    BY <1>t DEF TypeOK
  <1>0. CASE UNCHANGED vars
    BY <1>0, <1>t DEF vars, IndInv, HandleInv, CommandInv, JobInv, EventInv, SessionInv,
       Past, Fresh, ResultsAreAnswers, CurrentIsLive
  <1>1. ASSUME NEW s \in Streams, Dial(s) PROVE IndInv'
    <2>1. EventInv'
      <3>1. /\ Elems(events'[s]) = {Ready, Status} /\ ResultLast(events'[s])
            /\ \A t \in Streams : t # s => events'[t] = events[t]
            /\ UNCHANGED <<recv, job, replies, outcome>>
        BY <1>1, <1>t, EmptyLemma DEF Dial, TypeOK
      <3> QED BY <3>1 DEF Ready, Status, IndInv, EventInv, Fresh
    <2>2. SessionInv'
      BY <1>1, <1>t DEF Dial, Ready, Status, TypeOK, IndInv, SessionInv
    <2>3. CurrentIsLive'
      BY <1>1, <1>t DEF Dial, Ready, Status, TypeOK, IndInv, CurrentIsLive
    <2>4. HandleInv' /\ CommandInv' /\ JobInv' /\ ResultsAreAnswers'
      BY <1>1, <1>t DEF Dial, Ready, Status, IndInv, HandleInv, CommandInv, Past, JobInv,
         ResultsAreAnswers
    <2> QED BY <1>t, <2>1, <2>2, <2>3, <2>4 DEF IndInv
  <1>2. ASSUME NEW s \in Streams, Break(s) PROVE IndInv'
    <2>1. CommandInv'
      BY <1>2, <1>t, EmptyLemma DEF Break, TypeOK, IndInv, CommandInv, Past
    <2>2. SessionInv'
      BY <1>2, <1>t DEF Break, TypeOK, IndInv, SessionInv
    <2>3. CurrentIsLive'
      BY <1>2, <1>t DEF Break, TypeOK, IndInv, CurrentIsLive
    <2>4. HandleInv' /\ JobInv' /\ EventInv' /\ ResultsAreAnswers'
      BY <1>2, <1>t DEF Break, IndInv, HandleInv, JobInv, Past, EventInv, Fresh,
         ResultsAreAnswers
    <2> QED BY <1>t, <2>1, <2>2, <2>3, <2>4 DEF IndInv
  <1>3. ASSUME NEW s \in Streams, WorkerDispatch(s) PROVE IndInv'
    <2> DEFINE h == Head(cmds[s])
    <2>h. /\ h \in Requests /\ h \in Elems(cmds[s])
          /\ handle[h] = s /\ Past(h) /\ job[s][h] = "none"
      BY <1>3, <1>t, TailLemma, SMTT(60) DEF WorkerDispatch, TypeOK, IndInv, CommandInv
    <2>j. \A t \in Streams, q \in Requests :
            job'[t][q] = IF t = s /\ q = h /\ Awaits(h) THEN "running" ELSE job[t][q]
      BY <1>3, <1>t, <2>h, SMTT(60) DEF WorkerDispatch, TypeOK
    <2>u. UNCHANGED <<caller, handle, events, recv, replies, outcome>>
      BY <1>3 DEF WorkerDispatch
    <2> HIDE DEF h
    <2>1. CommandInv'
      <3>1. /\ queue' = queue
            /\ Inj(cmds'[s]) /\ Elems(cmds'[s]) \subseteq Elems(cmds[s]) /\ h \notin Elems(cmds'[s])
            /\ \A t \in Streams : t # s => cmds'[t] = cmds[t]
        BY <1>3, <1>t, TailLemma DEF h, WorkerDispatch, TypeOK, IndInv, CommandInv
      <3> QED BY <1>q, <2>h, <2>j, <2>u, <3>1 DEF IndInv, CommandInv, Past
    <2>2. JobInv'
      BY <1>t, <2>h, <2>j, <2>u DEF IndInv, JobInv, Past
    <2>3. EventInv'
      BY <2>h, <2>j, <2>u DEF IndInv, EventInv, Fresh
    <2>4. ResultsAreAnswers'
      BY <1>h, <2>h, <2>j, <2>u DEF IndInv, ResultsAreAnswers
    <2>5. HandleInv' /\ SessionInv' /\ CurrentIsLive'
      BY <1>3, <1>t DEF WorkerDispatch, IndInv, HandleInv, SessionInv, CurrentIsLive
    <2> QED BY <1>t, <2>1, <2>2, <2>3, <2>4, <2>5 DEF IndInv
  <1>4. ASSUME NEW s \in Streams, PumpSend(s) PROVE IndInv'
    <2> DEFINE h == Head(queue[s])
    <2>h. h \in Requests /\ h \in Elems(queue[s]) /\ h \notin Elems(cmds[s])
      BY <1>4, <1>t, TailLemma DEF PumpSend, TypeOK, IndInv, CommandInv
    <2>1. CommandInv'
      <3>1. /\ Inj(queue'[s]) /\ h \notin Elems(queue'[s])
            /\ Elems(queue'[s]) \subseteq Elems(queue[s])
        BY <1>4, <1>t, TailLemma DEF PumpSend, TypeOK, IndInv, CommandInv
      <3>2. Inj(cmds'[s]) /\ Elems(cmds'[s]) = Elems(cmds[s]) \cup {h}
        BY <1>4, <1>t, <2>h, AppendLemma DEF PumpSend, TypeOK, IndInv, CommandInv
      <3>3. /\ \A t \in Streams : t # s => queue'[t] = queue[t] /\ cmds'[t] = cmds[t]
            /\ UNCHANGED <<caller, handle, job>>
        BY <1>4, <1>t DEF PumpSend, TypeOK
      <3> HIDE DEF h
      <3> QED BY <2>h, <3>1, <3>2, <3>3 DEF IndInv, CommandInv, Past
    <2>2. HandleInv' /\ JobInv' /\ EventInv' /\ SessionInv' /\ ResultsAreAnswers' /\ CurrentIsLive'
      BY <1>4, <1>t, SMTT(60) DEF PumpSend, IndInv, HandleInv, JobInv, Past, EventInv, Fresh,
         SessionInv, ResultsAreAnswers, CurrentIsLive
    <2> QED BY <1>t, <2>1, <2>2 DEF IndInv
  <1>5. ASSUME NEW s \in Streams, PumpSendFails(s) PROVE IndInv'
    <2>1. CommandInv'
      BY <1>5, <1>t, TailLemma, SMTT(60) DEF PumpSendFails, CtxDone, TypeOK, IndInv, CommandInv, Past
    <2>2. HandleInv' /\ JobInv' /\ EventInv' /\ SessionInv' /\ ResultsAreAnswers' /\ CurrentIsLive'
      BY <1>5, <1>t DEF PumpSendFails, CtxDone, IndInv, HandleInv, JobInv, Past,
         EventInv, Fresh, SessionInv, ResultsAreAnswers, CurrentIsLive
    <2> QED BY <1>t, <2>1, <2>2 DEF IndInv
  <1>6. ASSUME NEW s \in Streams, PumpCtxDone(s) PROVE IndInv'
    <2>1. HandleInv' /\ CommandInv' /\ JobInv' /\ EventInv' /\ SessionInv' /\ ResultsAreAnswers' /\ CurrentIsLive'
      BY <1>6, <1>t DEF PumpCtxDone, CtxDone, IndInv, HandleInv, CommandInv, Past,
         JobInv, EventInv, Fresh, SessionInv, ResultsAreAnswers, CurrentIsLive
    <2> QED BY <1>t, <2>1 DEF IndInv
  <1>7. ASSUME NEW s \in Streams, RecvReady(s) PROVE IndInv'
    <2>1. EventInv'
      <3>1. /\ events[s] \in Seq(Event) /\ events[s] # <<>> /\ ResultLast(events[s])
            /\ events'[s] = Tail(events[s])
            /\ \A t \in Streams : t # s => events'[t] = events[t]
            /\ UNCHANGED <<recv, job, replies, outcome>>
        BY <1>7, <1>t DEF RecvReady, CanRecv, TypeOK, IndInv, EventInv
      <3>2. ResultLast(events'[s]) /\ Elems(events'[s]) \subseteq Elems(events[s])
        BY <3>1, TailLemma, ResultLastTail
      <3> QED BY <3>1, <3>2 DEF IndInv, EventInv, Fresh
    <2>2. CurrentIsLive'
      BY <1>7, <1>t DEF RecvReady, CanRecv, TypeOK, IndInv, CurrentIsLive
    <2>3. HandleInv' /\ CommandInv' /\ JobInv' /\ SessionInv' /\ ResultsAreAnswers'
      BY <1>7, <1>t DEF RecvReady, IndInv, HandleInv, CommandInv, Past, JobInv,
         SessionInv, ResultsAreAnswers
    <2> QED BY <1>t, <2>1, <2>2, <2>3 DEF IndInv
  <1>8. ASSUME NEW s \in Streams, RecvLogged(s) PROVE IndInv'
    <2>1. EventInv'
      <3>1. /\ events[s] \in Seq(Event) /\ events[s] # <<>> /\ ResultLast(events[s])
            /\ events'[s] = Tail(events[s])
            /\ \A t \in Streams : t # s => events'[t] = events[t]
            /\ UNCHANGED <<recv, job, replies, outcome>>
        BY <1>8, <1>t DEF RecvLogged, CanRecv, TypeOK, IndInv, EventInv
      <3>2. ResultLast(events'[s]) /\ Elems(events'[s]) \subseteq Elems(events[s])
        BY <3>1, TailLemma, ResultLastTail
      <3> QED BY <3>1, <3>2 DEF IndInv, EventInv, Fresh
    <2>2. HandleInv' /\ CommandInv' /\ JobInv' /\ SessionInv' /\ ResultsAreAnswers' /\ CurrentIsLive'
      BY <1>8, <1>t DEF RecvLogged, IndInv, HandleInv, CommandInv, Past, JobInv,
         SessionInv, ResultsAreAnswers, CurrentIsLive
    <2> QED BY <1>t, <2>1, <2>2 DEF IndInv
  <1>9. ASSUME NEW s \in Streams, RecvResult(s) PROVE IndInv'
    <2>1. EventInv'
      <3> DEFINE h == Head(events[s])
      <3>1. /\ h \in Elems(events[s]) /\ h.type = "result"
            /\ ResultLast(events'[s]) /\ Elems(events'[s]) \subseteq Elems(events[s])
            /\ \A e \in Elems(events'[s]) : e.req # h.req
        <4>1. /\ events[s] \in Seq(Event) /\ events[s] # <<>> /\ h.type = "result"
              /\ events'[s] = Tail(events[s]) /\ ResultLast(events[s])
          BY <1>9, <1>t DEF RecvResult, CanRecv, Lookup, TypeOK, IndInv, EventInv
        <4> QED BY <4>1, TailLemma, ResultLastTail
      <3>2. /\ recv[s].pc = "recv"
            /\ recv'[s] \in {recv[s], [pc |-> "deliver", req |-> h.req]}
            /\ \A t \in Streams : t # s => recv'[t] = recv[t] /\ events'[t] = events[t]
            /\ UNCHANGED <<job, replies, outcome>>
        BY <1>9, <1>t DEF RecvResult, CanRecv, Lookup, TypeOK
      <3> HIDE DEF h
      <3> QED BY <3>1, <3>2 DEF IndInv, EventInv, Fresh
    <2>2. SessionInv'
      BY <1>9, <1>t DEF RecvResult, CanRecv, Lookup, TypeOK, IndInv, SessionInv
    <2>3. HandleInv' /\ CommandInv' /\ JobInv' /\ ResultsAreAnswers' /\ CurrentIsLive'
      BY <1>9, <1>t DEF RecvResult, Lookup, IndInv, HandleInv, CommandInv, Past, JobInv,
         ResultsAreAnswers, CurrentIsLive
    <2> QED BY <1>t, <2>1, <2>2, <2>3 DEF IndInv
  <1>10. ASSUME NEW s \in Streams, RecvPrompt(s) PROVE IndInv'
    <2>1. EventInv'
      <3> DEFINE h == Head(events[s])
      <3>1. /\ events[s] \in Seq(Event) /\ events[s] # <<>> /\ h.type = "prompt"
            /\ events'[s] = Tail(events[s]) /\ ResultLast(events[s])
        BY <1>10, <1>t DEF RecvPrompt, CanRecv, Lookup, TypeOK, IndInv, EventInv
      <3>2. /\ h \in Elems(events[s])
            /\ ResultLast(events'[s]) /\ Elems(events'[s]) \subseteq Elems(events[s])
        BY <3>1, TailLemma, ResultLastTail
      <3>3. /\ recv[s].pc = "recv"
            /\ recv'[s] \in {recv[s], [pc |-> "callback", req |-> h.req]}
            /\ \A t \in Streams : t # s => recv'[t] = recv[t] /\ events'[t] = events[t]
            /\ UNCHANGED <<job, replies, outcome>>
        BY <1>10, <1>t DEF RecvPrompt, CanRecv, Lookup, TypeOK
      <3> HIDE DEF h
      <3> QED BY <3>1, <3>2, <3>3 DEF IndInv, EventInv, Fresh
    <2>2. SessionInv'
      BY <1>10, <1>t DEF RecvPrompt, CanRecv, Lookup, TypeOK, IndInv, SessionInv
    <2>3. HandleInv' /\ CommandInv' /\ JobInv' /\ ResultsAreAnswers' /\ CurrentIsLive'
      BY <1>10, <1>t DEF RecvPrompt, Lookup, IndInv, HandleInv, CommandInv, Past, JobInv,
         ResultsAreAnswers, CurrentIsLive
    <2> QED BY <1>t, <2>1, <2>2, <2>3 DEF IndInv
  <1>11. ASSUME NEW s \in Streams, Deliver(s) PROVE IndInv'
    <2>1. EventInv'
      BY <1>11, <1>t DEF Deliver, InRecv, TypeOK, IndInv, EventInv, Fresh, JobInv,
         ResultsAreAnswers
    <2>2. SessionInv'
      BY <1>11, <1>t DEF Deliver, InRecv, TypeOK, IndInv, SessionInv
    <2>3. ResultsAreAnswers'
      <3>1. /\ recv[s].req \in Requests /\ job[s][recv[s].req] = "answered"
            /\ handle[recv[s].req] = s
        BY <1>11 DEF Deliver, IndInv, EventInv, JobInv
      <3> QED BY <1>11, <1>t, <3>1 DEF Deliver, TypeOK, IndInv, ResultsAreAnswers
    <2>4. HandleInv' /\ CommandInv' /\ JobInv' /\ CurrentIsLive'
      BY <1>11, <1>t DEF Deliver, InRecv, IndInv, HandleInv, CommandInv, Past, JobInv,
         CurrentIsLive
    <2> QED BY <1>t, <2>1, <2>2, <2>3, <2>4 DEF IndInv
  <1>12. ASSUME NEW s \in Streams, Callback(s) PROVE IndInv'
    <2>1. EventInv'
      BY <1>12, <1>t, SMTT(60) DEF Callback, InRecv, TypeOK, IndInv, EventInv, Fresh, JobInv,
         ResultsAreAnswers
    <2>2. SessionInv'
      BY <1>12, <1>t DEF Callback, InRecv, TypeOK, IndInv, SessionInv
    <2>3. HandleInv' /\ CommandInv' /\ JobInv' /\ ResultsAreAnswers' /\ CurrentIsLive'
      BY <1>12, <1>t DEF Callback, InRecv, IndInv, HandleInv, CommandInv, Past, JobInv,
         ResultsAreAnswers, CurrentIsLive
    <2> QED BY <1>t, <2>1, <2>2, <2>3 DEF IndInv
  <1>13. ASSUME NEW s \in Streams, RecvEnd(s) PROVE IndInv'
    <2>1. EventInv'
      BY <1>13, <1>t, EmptyLemma DEF RecvEnd, TypeOK, IndInv, EventInv, Fresh
    <2>2. SessionInv'
      BY <1>13, <1>t DEF RecvEnd, TypeOK, IndInv, SessionInv
    <2>3. CurrentIsLive'
      BY <1>13, <1>t DEF RecvEnd, TypeOK, IndInv, CurrentIsLive
    <2>4. HandleInv' /\ CommandInv' /\ JobInv' /\ ResultsAreAnswers'
      BY <1>13, <1>t DEF RecvEnd, IndInv, HandleInv, CommandInv, Past, JobInv,
         ResultsAreAnswers
    <2> QED BY <1>t, <2>1, <2>2, <2>3, <2>4 DEF IndInv
  <1>14. ASSUME NEW s \in Streams, NEW r \in Requests, WorkerPrompt(s, r) PROVE IndInv'
    <2>1. EventInv'
      <3>1. Fresh(r) /\ job[s][r] = "running" /\ handle[r] = s
        BY <1>14, <1>t DEF WorkerPrompt, TypeOK, IndInv, JobInv, ResultsAreAnswers, Fresh
      <3>2. \A e \in Elems(events[s]) : e.type = "result" => e.req # r
        BY <3>1 DEF IndInv, EventInv
      <3>3. Prompt(r) \in Event /\ Prompt(r).req = r /\ Prompt(r).type = "prompt"
        BY EventTypes DEF Prompt
      <3>4. ResultLast(events'[s]) /\ Elems(events'[s]) = Elems(events[s]) \cup {Prompt(r)}
        <4>1. /\ events[s] \in Seq(Event) /\ ResultLast(events[s])
              /\ events'[s] = Append(events[s], Prompt(r))
          BY <1>14, <1>t DEF WorkerPrompt, TypeOK, IndInv, EventInv
        <4> QED BY <4>1, <3>2, <3>3, AppendLemma, ResultLastAppend
      <3>5. /\ \A t \in Streams : t # s => events'[t] = events[t]
            /\ UNCHANGED <<recv, replies, outcome>>
        BY <1>14, <1>t DEF WorkerPrompt, TypeOK
      <3>6. recv[s].pc = "deliver" => recv[s].req # r
        BY <3>1 DEF IndInv, EventInv
      <3>7. job' = job
        BY <1>14 DEF WorkerPrompt
      <3> QED BY <3>1, <3>3, <3>4, <3>5, <3>6, <3>7, SMTT(60) DEF IndInv, EventInv, Fresh
    <2>2. HandleInv' /\ CommandInv' /\ JobInv' /\ SessionInv' /\ ResultsAreAnswers' /\ CurrentIsLive'
      BY <1>14, <1>t DEF WorkerPrompt, Prompt, IndInv, HandleInv, CommandInv, Past,
         JobInv, SessionInv, ResultsAreAnswers, CurrentIsLive
    <2> QED BY <1>t, <2>1, <2>2 DEF IndInv
  <1>15. ASSUME NEW s \in Streams, NEW r \in Requests, WorkerAnswer(s, r) PROVE IndInv'
    <2>1. CommandInv'
      BY <1>15, <1>t, AppendLemma, ResultLastAppend, SMTT(30) DEF WorkerAnswer, Result, TypeOK,
         IndInv, CommandInv, Past
    <2>2. JobInv'
      BY <1>15, <1>t DEF WorkerAnswer, Result, TypeOK, IndInv, JobInv, Past, CommandInv
    <2>3. EventInv'
      <3>1. Fresh(r) /\ job[s][r] = "running" /\ handle[r] = s
        BY <1>15, <1>t DEF WorkerAnswer, TypeOK, IndInv, JobInv, ResultsAreAnswers, Fresh
      <3>2. \A e \in Elems(events[s]) : e.type = "result" => e.req # r
        BY <3>1 DEF IndInv, EventInv
      <3>3. Result(r) \in Event /\ Result(r).req = r /\ Result(r).type = "result"
        BY EventTypes DEF Result
      <3>4. ResultLast(events'[s]) /\ Elems(events'[s]) = Elems(events[s]) \cup {Result(r)}
        <4>1. /\ events[s] \in Seq(Event) /\ ResultLast(events[s])
              /\ events'[s] = Append(events[s], Result(r))
          BY <1>15, <1>t DEF WorkerAnswer, TypeOK, IndInv, EventInv
        <4> QED BY <4>1, <3>2, <3>3, AppendLemma, ResultLastAppend
      <3>5. /\ \A t \in Streams : t # s => events'[t] = events[t]
            /\ UNCHANGED <<recv, replies, outcome>>
        BY <1>15, <1>t DEF WorkerAnswer, TypeOK
      <3>6. recv[s].pc = "deliver" => recv[s].req # r
        BY <3>1 DEF IndInv, EventInv
      <3>7. \A t \in Streams, q \in Requests :
              job'[t][q] = IF t = s /\ q = r THEN "answered" ELSE job[t][q]
        BY <1>15, <1>t DEF WorkerAnswer, TypeOK
      <3> QED BY <3>1, <3>3, <3>4, <3>5, <3>6, <3>7, SMTT(60) DEF IndInv, EventInv, Fresh
    <2>4. ResultsAreAnswers'
      BY <1>15, <1>t DEF WorkerAnswer, Result, TypeOK, IndInv, ResultsAreAnswers, JobInv,
         EventInv, CommandInv, Fresh
    <2>5. HandleInv' /\ SessionInv' /\ CurrentIsLive'
      BY <1>15, <1>t DEF WorkerAnswer, Result, IndInv, HandleInv, SessionInv, CurrentIsLive
    <2> QED BY <1>t, <2>1, <2>2, <2>3, <2>4, <2>5 DEF IndInv
  <1>16. ASSUME NEW r \in Requests, Start(r) PROVE IndInv'
    <2>1. HandleInv'
      BY <1>16, <1>t DEF Start, TypeOK, IndInv, HandleInv
    <2>2. CommandInv'
      BY <1>16, <1>t DEF Start, TypeOK, IndInv, CommandInv, Past
    <2>3. JobInv'
      BY <1>16, <1>t DEF Start, TypeOK, IndInv, JobInv, Past, CommandInv
    <2>4. EventInv' /\ SessionInv' /\ ResultsAreAnswers' /\ CurrentIsLive'
      BY <1>16, <1>t DEF Start, IndInv, EventInv, Fresh, SessionInv, ResultsAreAnswers,
         CurrentIsLive
    <2> QED BY <1>t, <2>1, <2>2, <2>3, <2>4 DEF IndInv
  <1>17. ASSUME NEW r \in Requests, StartFails(r) PROVE IndInv'
    <2>1. HandleInv'
      BY <1>17, <1>t DEF StartFails, TypeOK, IndInv, HandleInv
    <2>2. CommandInv'
      BY <1>17, <1>t DEF StartFails, TypeOK, IndInv, CommandInv, Past
    <2>3. JobInv'
      BY <1>17, <1>t DEF StartFails, TypeOK, IndInv, JobInv, Past, CommandInv
    <2>4. EventInv'
      BY <1>17, <1>t DEF StartFails, TypeOK, IndInv, EventInv, Fresh, JobInv,
         ResultsAreAnswers
    <2>5. ResultsAreAnswers'
      BY <1>17, <1>t DEF StartFails, TypeOK, IndInv, ResultsAreAnswers, JobInv, EventInv,
         CommandInv, Fresh
    <2>6. SessionInv' /\ CurrentIsLive'
      BY <1>17, <1>t DEF StartFails, IndInv, SessionInv, CurrentIsLive
    <2> QED BY <1>t, <2>1, <2>2, <2>3, <2>4, <2>5, <2>6 DEF IndInv
  <1>18. ASSUME NEW r \in Requests, SendLookup(r) PROVE IndInv'
    <2>c. /\ caller[r] = "lookup" /\ handle[r] = None
          /\ \/ current # None /\ handle'[r] = current /\ caller'[r] = "send" /\ outcome' = outcome
             \/ caller'[r] = Leave(r) /\ handle' = handle /\ outcome'[r] = "no_worker"
          /\ \A q \in Requests : q # r => /\ caller'[q] = caller[q]
                                         /\ handle'[q] = handle[q]
                                         /\ outcome'[q] = outcome[q]
      BY <1>18, <1>t DEF SendLookup, TypeOK, IndInv, HandleInv
    <2>l. Leave(r) \in {"leaving", "returned"}
      BY DEF Leave
    <2>1. HandleInv'
      BY <2>c, <2>l DEF IndInv, HandleInv
    <2>2. CommandInv'
      <3>1. UNCHANGED <<queue, cmds, job>>
        BY <1>18 DEF SendLookup
      <3> QED BY <1>q, <2>c, <3>1 DEF IndInv, CommandInv, Past
    <2>3. JobInv'
      <3>1. UNCHANGED job
        BY <1>18 DEF SendLookup
      <3> QED BY <2>c, <3>1 DEF IndInv, JobInv, Past
    <2>4. EventInv'
      BY <1>18, <1>t DEF SendLookup, Leave, TypeOK, IndInv, EventInv, Fresh, HandleInv,
         JobInv, ResultsAreAnswers
    <2>5. ResultsAreAnswers'
      BY <1>18, <1>t DEF SendLookup, Leave, TypeOK, IndInv, ResultsAreAnswers, HandleInv,
         JobInv, EventInv, CommandInv, Fresh
    <2>6. SessionInv' /\ CurrentIsLive'
      BY <1>18, <1>t DEF SendLookup, Leave, IndInv, SessionInv, CurrentIsLive
    <2> QED BY <1>t, <2>1, <2>2, <2>3, <2>4, <2>5, <2>6 DEF IndInv
  <1>19. ASSUME NEW r \in Requests, SendEnqueue(r) PROVE IndInv'
    <2>1. HandleInv'
      BY <1>19, <1>t DEF SendEnqueue, TypeOK, IndInv, HandleInv
    <2>2. CommandInv'
      <3> DEFINE s == handle[r]
      <3>1. s \in Streams /\ caller[r] = "send"
        BY <1>19, <1>h DEF SendEnqueue, IndInv, HandleInv
      <3>2. r \notin Elems(queue[s]) /\ r \notin Elems(cmds[s]) /\ job[s][r] = "none"
        BY <1>t, <3>1 DEF TypeOK, IndInv, CommandInv, JobInv, Past
      <3>3. Inj(queue'[s]) /\ Elems(queue'[s]) = Elems(queue[s]) \cup {r}
        <4>1. queue[s] \in Seq(Requests) /\ queue'[s] = Append(queue[s], r) /\ Inj(queue[s])
          BY <1>19, <1>t, <3>1 DEF SendEnqueue, TypeOK, IndInv, CommandInv
        <4> QED BY <4>1, <3>2, AppendLemma
      <3>4. /\ \A t \in Streams : t # s => queue'[t] = queue[t]
            /\ \A q \in Requests : q # r => caller'[q] = caller[q]
            /\ caller'[r] \in {"wait", "returned"}
            /\ UNCHANGED <<cmds, handle, job>>
        BY <1>19, <1>t DEF SendEnqueue, TypeOK
      <3>5. handle[r] = s
        OBVIOUS
      <3> HIDE DEF s
      <3> QED BY <1>q, <3>1, <3>2, <3>3, <3>4, <3>5 DEF IndInv, CommandInv, Past
    <2>3. JobInv'
      BY <1>19, <1>t DEF SendEnqueue, TypeOK, IndInv, JobInv, Past, HandleInv, CommandInv
    <2>4. EventInv'
      BY <1>19, <1>t, AppendLemma DEF SendEnqueue, TypeOK, IndInv, EventInv, Fresh,
         HandleInv, JobInv, ResultsAreAnswers
    <2>5. ResultsAreAnswers'
      BY <1>19, <1>t DEF SendEnqueue, TypeOK, IndInv, ResultsAreAnswers, HandleInv,
         JobInv, EventInv, CommandInv, Fresh
    <2>6. SessionInv' /\ CurrentIsLive'
      BY <1>19, <1>t DEF SendEnqueue, IndInv, SessionInv, CurrentIsLive
    <2> QED BY <1>t, <2>1, <2>2, <2>3, <2>4, <2>5, <2>6 DEF IndInv
  <1>20. ASSUME NEW r \in Requests, Expire(r) PROVE IndInv'
    <2>1. HandleInv' /\ CommandInv' /\ JobInv' /\ EventInv' /\ SessionInv' /\ ResultsAreAnswers' /\ CurrentIsLive'
      BY <1>20, <1>t DEF Expire, IndInv, HandleInv, CommandInv, Past, JobInv, EventInv,
         Fresh, SessionInv, ResultsAreAnswers, CurrentIsLive
    <2> QED BY <1>t, <2>1 DEF IndInv
  <1>21. ASSUME NEW r \in Requests, WaitCtxDone(r) PROVE IndInv'
    <2>1. HandleInv'
      BY <1>21, <1>t DEF WaitCtxDone, TypeOK, IndInv, HandleInv
    <2>2. CommandInv'
      BY <1>21, <1>t DEF WaitCtxDone, TypeOK, IndInv, CommandInv, Past
    <2>3. JobInv'
      BY <1>21, <1>t DEF WaitCtxDone, TypeOK, IndInv, JobInv, Past, CommandInv
    <2>4. EventInv'
      BY <1>21, <1>t DEF WaitCtxDone, TypeOK, IndInv, EventInv, Fresh, JobInv,
         ResultsAreAnswers
    <2>5. ResultsAreAnswers'
      BY <1>21, <1>t DEF WaitCtxDone, TypeOK, IndInv, ResultsAreAnswers, JobInv,
         EventInv, CommandInv, Fresh
    <2>6. SessionInv' /\ CurrentIsLive'
      BY <1>21, <1>t DEF WaitCtxDone, IndInv, SessionInv, CurrentIsLive
    <2> QED BY <1>t, <2>1, <2>2, <2>3, <2>4, <2>5, <2>6 DEF IndInv
  <1>22. ASSUME NEW r \in Requests, WaitResult(r) PROVE IndInv'
    <2>1. HandleInv'
      BY <1>22, <1>t DEF WaitResult, TypeOK, IndInv, HandleInv
    <2>2. CommandInv'
      BY <1>22, <1>t DEF WaitResult, TypeOK, IndInv, CommandInv, Past
    <2>3. JobInv'
      BY <1>22, <1>t DEF WaitResult, TypeOK, IndInv, JobInv, Past, CommandInv
    <2>4. EventInv'
      BY <1>22, <1>t DEF WaitResult, TypeOK, IndInv, EventInv, Fresh, JobInv,
         ResultsAreAnswers
    <2>5. ResultsAreAnswers'
      BY <1>22, <1>t DEF WaitResult, TypeOK, IndInv, ResultsAreAnswers, JobInv, EventInv,
         CommandInv, Fresh
    <2>6. SessionInv' /\ CurrentIsLive'
      BY <1>22, <1>t DEF WaitResult, IndInv, SessionInv, CurrentIsLive
    <2> QED BY <1>t, <2>1, <2>2, <2>3, <2>4, <2>5, <2>6 DEF IndInv
  <1>23. ASSUME NEW r \in Requests, Remove(r) PROVE IndInv'
    <2>1. HandleInv'
      BY <1>23, <1>t DEF Remove, TypeOK, IndInv, HandleInv
    <2>2. CommandInv'
      BY <1>23, <1>t DEF Remove, TypeOK, IndInv, CommandInv, Past
    <2>3. JobInv'
      BY <1>23, <1>t DEF Remove, TypeOK, IndInv, JobInv, Past, CommandInv
    <2>4. EventInv' /\ SessionInv' /\ ResultsAreAnswers' /\ CurrentIsLive'
      BY <1>23, <1>t DEF Remove, IndInv, EventInv, Fresh, SessionInv, ResultsAreAnswers,
         CurrentIsLive
    <2> QED BY <1>t, <2>1, <2>2, <2>3, <2>4 DEF IndInv
  <1>24. ASSUME NEW r \in Requests, Report(r) PROVE IndInv'
    <2>1. HandleInv'
      BY <1>24, <1>t DEF Report, TypeOK, IndInv, HandleInv
    <2>2. CommandInv'
      BY <1>24, <1>t DEF Report, TypeOK, IndInv, CommandInv, Past
    <2>3. JobInv'
      BY <1>24, <1>t DEF Report, TypeOK, IndInv, JobInv, Past, CommandInv
    <2>4. EventInv' /\ SessionInv' /\ ResultsAreAnswers' /\ CurrentIsLive'
      BY <1>24, <1>t DEF Report, IndInv, EventInv, Fresh, SessionInv, ResultsAreAnswers,
         CurrentIsLive
    <2> QED BY <1>t, <2>1, <2>2, <2>3, <2>4 DEF IndInv
  <1> QED
    BY <1>0, <1>1, <1>2, <1>3, <1>4, <1>5, <1>6, <1>7, <1>8, <1>9, <1>10, <1>11, <1>12,
       <1>13, <1>14, <1>15, <1>16, <1>17, <1>18, <1>19, <1>20, <1>21, <1>22, <1>23,
       <1>24 DEF Next, WorkerNext, PumpNext, SessionNext, CallerNext

----------------------------------------------------------------------------
(* The theorems.                                                           *)

\* No command, event or reply exists before the first connection and the first call.
LEMMA IndInit == Init => IndInv
  <1> SUFFICES ASSUME Init PROVE IndInv
    OBVIOUS
  <1> USE ConstAssumption, EmptyLemma DEF Init
  <1>1. TypeOK
    BY EventTypes DEF TypeOK, CallerPcs, Outcomes
  <1>2. HandleInv /\ JobInv /\ SessionInv /\ ResultsAreAnswers /\ CurrentIsLive
    BY DEF HandleInv, JobInv, SessionInv, ResultsAreAnswers, CurrentIsLive, InRecv
  <1>3. CommandInv /\ EventInv
    BY DEF CommandInv, EventInv, InRecv
  <1> QED BY <1>1, <1>2, <1>3 DEF IndInv

\* The inductive invariant holds in every reachable state of the control plane.
THEOREM Invariance == Spec => []IndInv
  <1>1. IndInv /\ [Next]_vars => IndInv'
    BY IndStep
  <1> QED BY IndInit, <1>1, PTL DEF Spec

\* Every variable of the workers package keeps its type.
THEOREM TypeCorrect == Spec => []TypeOK
  <1>1. IndInv => TypeOK
    BY DEF IndInv
  <1> QED BY Invariance, <1>1, PTL

\* The Recv loop is never blocked by a full reply channel, for any number of calls
\* and connections.
THEOREM DeliverTheorem == Spec => []DeliverNeverBlocks
  <1>1. IndInv => DeliverNeverBlocks
    BY DEF IndInv, EventInv, Fresh, DeliverNeverBlocks
  <1> QED BY Invariance, <1>1, PTL

\* A prompt callback runs only for a link without a result.
THEOREM PromptTheorem == Spec => []PromptsPrecedeResult
  <1>1. IndInv => PromptsPrecedeResult
    <2> SUFFICES ASSUME IndInv, NEW s \in Streams, recv[s].pc = "callback"
                 PROVE  /\ outcome[recv[s].req] \in {"none", "ctx"}
                        /\ replies[recv[s].req] = 0
      BY DEF PromptsPrecedeResult
    <2>1. /\ recv[s].req \in Requests
          /\ job[s][recv[s].req] # "none"
          /\ Fresh(recv[s].req)
      BY DEF IndInv, EventInv
    <2>2. Awaits(recv[s].req) /\ handle[recv[s].req] # None
      BY <2>1, ConstAssumption DEF IndInv, JobInv
    <2> QED BY <2>1, <2>2 DEF IndInv, HandleInv, Fresh
  <1> QED BY Invariance, <1>1, PTL

\* A call returns only the answer to its own command from the worker it was sent to.
THEOREM AnswerTheorem == Spec => []ResultsAreAnswers
  <1>1. IndInv => ResultsAreAnswers
    BY DEF IndInv
  <1> QED BY Invariance, <1>1, PTL

\* The registry's current worker has a session that has not returned.
THEOREM CurrentTheorem == Spec => []CurrentIsLive
  <1>1. IndInv => CurrentIsLive
    BY DEF IndInv
  <1> QED BY Invariance, <1>1, PTL

\* A step leaves an orphaned call orphaned, unless the call gives up on its context.
LEMMA OrphanStep ==
  ASSUME IndInv, Next, NEW q \in Requests, Orphaned(q)
  PROVE  Orphaned(q)' \/ outcome'[q] = "ctx"
  <1> USE ConstAssumption DEF connVars, workerVars, callVars
  <1>o. /\ caller[q] = "wait" /\ conn[handle[q]] = "closed" /\ replies[q] = 0
        /\ handle[q] \in Streams \cup {None}
    BY DEF Orphaned, IndInv, TypeOK
  <1>c. handle[q] # None
    BY <1>o DEF IndInv, HandleInv
  <1>1. ASSUME NEW s \in Streams, Dial(s)
         PROVE  Orphaned(q)' \/ outcome'[q] = "ctx"
    BY <1>1, <1>o, <1>c DEF Dial, IndInv, TypeOK, Orphaned
  <1>2. ASSUME NEW s \in Streams, Break(s)
         PROVE  Orphaned(q)' \/ outcome'[q] = "ctx"
    BY <1>2, <1>o, <1>c DEF Break, IndInv, TypeOK, Orphaned
  <1>3. ASSUME NEW s \in Streams, WorkerDispatch(s)
         PROVE  Orphaned(q)' \/ outcome'[q] = "ctx"
    BY <1>3, <1>o, <1>c DEF WorkerDispatch, IndInv, TypeOK, Orphaned
  <1>4. ASSUME NEW s \in Streams, PumpSend(s)
         PROVE  Orphaned(q)' \/ outcome'[q] = "ctx"
    BY <1>4, <1>o, <1>c DEF PumpSend, IndInv, TypeOK, Orphaned
  <1>5. ASSUME NEW s \in Streams, PumpSendFails(s)
         PROVE  Orphaned(q)' \/ outcome'[q] = "ctx"
    BY <1>5, <1>o, <1>c DEF PumpSendFails, IndInv, TypeOK, Orphaned
  <1>6. ASSUME NEW s \in Streams, PumpCtxDone(s)
         PROVE  Orphaned(q)' \/ outcome'[q] = "ctx"
    BY <1>6, <1>o, <1>c DEF PumpCtxDone, IndInv, TypeOK, Orphaned
  <1>7. ASSUME NEW s \in Streams, RecvReady(s)
         PROVE  Orphaned(q)' \/ outcome'[q] = "ctx"
    BY <1>7, <1>o, <1>c DEF RecvReady, IndInv, TypeOK, Orphaned
  <1>8. ASSUME NEW s \in Streams, RecvLogged(s)
         PROVE  Orphaned(q)' \/ outcome'[q] = "ctx"
    BY <1>8, <1>o, <1>c DEF RecvLogged, IndInv, TypeOK, Orphaned
  <1>9. ASSUME NEW s \in Streams, RecvResult(s)
         PROVE  Orphaned(q)' \/ outcome'[q] = "ctx"
    BY <1>9, <1>o, <1>c DEF RecvResult, Lookup, IndInv, TypeOK, Orphaned
  <1>10. ASSUME NEW s \in Streams, RecvPrompt(s)
         PROVE  Orphaned(q)' \/ outcome'[q] = "ctx"
    BY <1>10, <1>o, <1>c DEF RecvPrompt, Lookup, IndInv, TypeOK, Orphaned
  <1>11. ASSUME NEW s \in Streams, Deliver(s)
         PROVE  Orphaned(q)' \/ outcome'[q] = "ctx"
    <2>1. recv[s].req # q
      BY <1>11, <1>o DEF Deliver, IndInv, EventInv, JobInv, SessionInv
    <2> QED BY <1>11, <1>o, <2>1 DEF Deliver, IndInv, TypeOK, Orphaned
  <1>12. ASSUME NEW s \in Streams, Callback(s)
         PROVE  Orphaned(q)' \/ outcome'[q] = "ctx"
    BY <1>12, <1>o, <1>c DEF Callback, IndInv, TypeOK, Orphaned
  <1>13. ASSUME NEW s \in Streams, RecvEnd(s)
         PROVE  Orphaned(q)' \/ outcome'[q] = "ctx"
    BY <1>13, <1>o, <1>c DEF RecvEnd, IndInv, TypeOK, Orphaned
  <1>14. ASSUME NEW s \in Streams, NEW r \in Requests, WorkerPrompt(s, r)
         PROVE  Orphaned(q)' \/ outcome'[q] = "ctx"
    BY <1>14, <1>o, <1>c DEF WorkerPrompt, IndInv, TypeOK, Orphaned
  <1>15. ASSUME NEW s \in Streams, NEW r \in Requests, WorkerAnswer(s, r)
         PROVE  Orphaned(q)' \/ outcome'[q] = "ctx"
    BY <1>15, <1>o, <1>c DEF WorkerAnswer, IndInv, TypeOK, Orphaned
  <1>16. ASSUME NEW r \in Requests, Start(r)
         PROVE  Orphaned(q)' \/ outcome'[q] = "ctx"
    BY <1>16, <1>o, <1>c DEF Start, IndInv, TypeOK, Orphaned
  <1>17. ASSUME NEW r \in Requests, StartFails(r)
         PROVE  Orphaned(q)' \/ outcome'[q] = "ctx"
    BY <1>17, <1>o, <1>c DEF StartFails, IndInv, TypeOK, Orphaned
  <1>18. ASSUME NEW r \in Requests, SendLookup(r)
         PROVE  Orphaned(q)' \/ outcome'[q] = "ctx"
    BY <1>18, <1>o, <1>c DEF SendLookup, IndInv, TypeOK, Orphaned
  <1>19. ASSUME NEW r \in Requests, SendEnqueue(r)
         PROVE  Orphaned(q)' \/ outcome'[q] = "ctx"
    BY <1>19, <1>o, <1>c DEF SendEnqueue, IndInv, TypeOK, Orphaned
  <1>20. ASSUME NEW r \in Requests, Expire(r)
         PROVE  Orphaned(q)' \/ outcome'[q] = "ctx"
    BY <1>20, <1>o, <1>c DEF Expire, IndInv, TypeOK, Orphaned
  <1>21. ASSUME NEW r \in Requests, WaitCtxDone(r)
         PROVE  Orphaned(q)' \/ outcome'[q] = "ctx"
    BY <1>21, <1>o, <1>c DEF WaitCtxDone, IndInv, TypeOK, Orphaned
  <1>22. ASSUME NEW r \in Requests, WaitResult(r)
         PROVE  Orphaned(q)' \/ outcome'[q] = "ctx"
    BY <1>22, <1>o, <1>c DEF WaitResult, IndInv, TypeOK, Orphaned
  <1>23. ASSUME NEW r \in Requests, Remove(r)
         PROVE  Orphaned(q)' \/ outcome'[q] = "ctx"
    BY <1>23, <1>o, <1>c DEF Remove, IndInv, TypeOK, Orphaned
  <1>24. ASSUME NEW r \in Requests, Report(r)
         PROVE  Orphaned(q)' \/ outcome'[q] = "ctx"
    BY <1>24, <1>o, <1>c DEF Report, IndInv, TypeOK, Orphaned
  <1> QED
    BY <1>1, <1>2, <1>3, <1>4, <1>5, <1>6, <1>7, <1>8, <1>9, <1>10, <1>11, <1>12, <1>13,
       <1>14, <1>15, <1>16, <1>17, <1>18, <1>19, <1>20, <1>21, <1>22, <1>23,
       <1>24 DEF Next, WorkerNext, PumpNext, SessionNext, CallerNext

\* A call whose session has ended can only time out: no later connection answers it.
THEOREM OrphanTheorem == Spec => OrphansOnlyTimeOut
  <1>1. IndInv /\ [Next]_vars =>
          [\A r \in Requests : Orphaned(r) => Orphaned(r)' \/ outcome'[r] = "ctx"]_vars
    BY OrphanStep
  <1> QED BY Invariance, <1>1, PTL DEF Spec, OrphansOnlyTimeOut

\* Only the end of its own session, or a newly registered worker, ends a worker's
\* being current.
THEOREM StaleSessionTheorem == Spec => StaleSessionEvictsNobody
  <1>1. ASSUME IndInv, Next, current # None, current' # current
        PROVE  \/ conn'[current] = "closed"
               \/ current' # None /\ \E e \in Elems(events[current']) : e.type = "ready"
    <2>1. PICK s \in Streams : RecvReady(s) \/ RecvEnd(s)
      BY <1>1 DEF Next, WorkerNext, PumpNext, SessionNext, CallerNext, Lookup,
         Dial, Break, WorkerDispatch, PumpSend, PumpSendFails, PumpCtxDone, RecvLogged,
         RecvResult, RecvPrompt, Deliver, Callback, WorkerPrompt, WorkerAnswer, Start,
         StartFails, SendLookup, SendEnqueue, Expire, WaitCtxDone, WaitResult, Remove,
         Report
    <2>2. CASE RecvReady(s)
      <3>1. /\ events[s] \in Seq(Event) /\ events[s] # <<>> /\ Head(events[s]).type = "ready"
            /\ current' = s
        BY <2>2, <1>1 DEF RecvReady, CanRecv, IndInv, TypeOK
      <3>2. Head(events[s]) \in Elems(events[s])
        BY <3>1, TailLemma
      <3> QED BY <3>1, <3>2, ConstAssumption
    <2>3. CASE RecvEnd(s)
      BY <2>3, <1>1, SMTT(60) DEF RecvEnd, IndInv, TypeOK
    <2> QED BY <2>1, <2>2, <2>3
  <1>2. IndInv /\ [Next]_vars =>
          [current # None /\ current' # current =>
             \/ conn'[current] = "closed"
             \/ current' # None /\ \E e \in Elems(events[current']) : e.type = "ready"]_vars
    BY <1>1
  <1> QED BY Invariance, <1>2, PTL DEF Spec, StaleSessionEvictsNobody

----------------------------------------------------------------------------
(* Nothing is lost on a stream that is up.                                 *)

\* A call that waits can be answered: deliver finds it, it has not returned, and its
\* worker was dialled.
WaitInv ==
  \A r \in Requests :
    /\ caller[r] \in {"lookup", "send", "wait"} /\ Awaits(r) => r \in pending
    /\ caller[r] = "wait" => Awaits(r)
    /\ caller[r] \in {"send", "wait"} => outcome[r] = "none"
    /\ handle[r] # None => conn[handle[r]] # "none"

\* An element of a queue is its head or left behind by taking the head.
LEMMA HeadOrTail ==
  ASSUME NEW S, NEW q \in Seq(S), q # <<>>, NEW e \in Elems(q)
  PROVE  e = Head(q) \/ e \in Elems(Tail(q))
  <1>1. /\ Len(q) \in Nat \ {0}
        /\ Head(q) = q[1]
        /\ DOMAIN q = 1..Len(q)
        /\ DOMAIN Tail(q) = 1..(Len(q) - 1)
        /\ \A i \in DOMAIN Tail(q) : Tail(q)[i] = q[i + 1]
    OBVIOUS
  <1>2. PICK i \in 1..Len(q) : e = q[i]
    BY <1>1 DEF Elems
  <1>3. i # 1 => i - 1 \in DOMAIN Tail(q) /\ Tail(q)[i - 1] = e
    BY <1>1, <1>2
  <1> QED BY <1>1, <1>2, <1>3 DEF Elems

\* Every step keeps the calls that wait pending.
LEMMA WaitStep ==
  ASSUME IndInv, WaitInv, [Next]_vars
  PROVE  WaitInv'
  <1> USE ConstAssumption
      DEF IndInv, TypeOK, WaitInv, CurrentIsLive, HandleInv, connVars, workerVars, callVars
  <1>1. CASE UNCHANGED <<caller, pending, handle, outcome, conn>>
    BY <1>1
  <1>2. ASSUME NEW s \in Streams, Dial(s) \/ Break(s) \/ RecvEnd(s) PROVE WaitInv'
    BY <1>2 DEF Dial, Break, RecvEnd
  <1>3. ASSUME NEW r \in Requests, Start(r) \/ StartFails(r) PROVE WaitInv'
    BY <1>3 DEF Start, StartFails
  <1>4. ASSUME NEW r \in Requests, SendLookup(r) PROVE WaitInv'
    <2>1. /\ caller[r] = "lookup" /\ UNCHANGED <<pending, conn>>
          /\ \/ /\ current # None
                /\ handle' = [handle EXCEPT ![r] = current]
                /\ caller' = [caller EXCEPT ![r] = "send"] /\ outcome' = outcome
             \/ /\ caller' = [caller EXCEPT ![r] = Leave(r)] /\ handle' = handle
                /\ outcome' = [outcome EXCEPT ![r] = "no_worker"]
      BY <1>4 DEF SendLookup
    <2>2. Leave(r) \in {"leaving", "returned"}
      BY DEF Leave
    <2>3. ASSUME NEW q \in Requests PROVE WaitInv!(q)'
      <3>1. CASE q = r
        BY <2>1, <2>2, <3>1
      <3>2. CASE q # r
        BY <2>1, <3>2
      <3> QED BY <3>1, <3>2
    <2> QED BY <2>3
  <1>5. ASSUME NEW r \in Requests, SendEnqueue(r) PROVE WaitInv'
    <2>1. /\ caller[r] = "send" /\ UNCHANGED <<pending, handle, conn>>
          /\ caller' = [caller EXCEPT ![r] = IF Awaits(r) THEN "wait" ELSE "returned"]
          /\ outcome' = IF Awaits(r) THEN outcome ELSE [outcome EXCEPT ![r] = "sent"]
      BY <1>5 DEF SendEnqueue
    <2>2. ASSUME NEW q \in Requests PROVE WaitInv!(q)'
      <3>1. CASE q = r
        BY <2>1, <3>1 DEF Awaits
      <3>2. CASE q # r
        <4>1. caller'[q] = caller[q] /\ outcome'[q] = outcome[q]
          BY <2>1, <3>2
        <4> QED BY <2>1, <4>1 DEF Awaits
      <3> QED BY <3>1, <3>2
    <2> QED BY <2>2
  <1>6. ASSUME NEW r \in Requests, WaitCtxDone(r) \/ WaitResult(r) \/ Report(r) PROVE WaitInv'
    BY <1>6 DEF WaitCtxDone, WaitResult, Report
  <1>7. ASSUME NEW r \in Requests, Remove(r) PROVE WaitInv'
    BY <1>7 DEF Remove
  <1> QED
    BY <1>1, <1>2, <1>3, <1>4, <1>5, <1>6, <1>7
    DEF Next, WorkerNext, PumpNext, SessionNext, CallerNext, vars, WorkerDispatch, PumpSend,
        PumpSendFails, PumpCtxDone, RecvReady, RecvLogged, RecvResult, RecvPrompt, Lookup, Deliver,
        Callback, WorkerPrompt, WorkerAnswer, Expire

\* A step is one of a stream that leaves the calls and the connections alone, one that
\* moves a connection, or one of a call, which moves no connection.
LEMMA StepCases ==
  ASSUME Next
  PROVE  \/ UNCHANGED <<caller, handle, conn>>
         \/ \E s \in Streams : Dial(s) \/ Break(s) \/ RecvEnd(s)
         \/ \E r \in Requests : Start(r) \/ StartFails(r) \/ SendLookup(r) \/ SendEnqueue(r)
         \/ \E r \in Requests : WaitCtxDone(r) \/ WaitResult(r) \/ Remove(r) \/ Report(r)
  <1> DEFINE Same == UNCHANGED <<caller, handle, conn>>
  <1>1. ASSUME NEW s \in Streams, WorkerDispatch(s) \/ PumpSend(s) \/ PumpSendFails(s) \/ PumpCtxDone(s)
        PROVE  Same
    BY <1>1 DEF WorkerDispatch, PumpSend, PumpSendFails, PumpCtxDone, callVars, connVars
  <1>2. ASSUME NEW s \in Streams, NEW r \in Requests, WorkerPrompt(s, r) \/ WorkerAnswer(s, r)
        PROVE  Same
    BY <1>2 DEF WorkerPrompt, WorkerAnswer, callVars, connVars
  <1>3. ASSUME NEW s \in Streams,
               RecvReady(s) \/ RecvLogged(s) \/ RecvResult(s) \/ RecvPrompt(s) \/ Deliver(s) \/ Callback(s)
        PROVE  Same
    BY <1>3 DEF RecvReady, RecvLogged, RecvResult, RecvPrompt, Lookup, Deliver, Callback,
                callVars, connVars
  <1>4. ASSUME NEW r \in Requests, Expire(r) PROVE Same
    BY <1>4 DEF Expire, connVars
  <1> HIDE DEF Same
  <1>5. CASE \E s \in Streams : WorkerNext(s) \/ PumpNext(s) \/ SessionNext(s) \/ Callback(s)
    <2>1. PICK s \in Streams : WorkerNext(s) \/ PumpNext(s) \/ SessionNext(s) \/ Callback(s)
      BY <1>5
    <2>2. \/ Same
          \/ Dial(s) \/ Break(s) \/ RecvEnd(s)
      BY <2>1, <1>1, <1>2, <1>3 DEF WorkerNext, PumpNext, SessionNext
    <2> QED BY <2>2 DEF Same
  <1>6. CASE \E r \in Requests : Start(r) \/ StartFails(r) \/ Expire(r) \/ CallerNext(r)
    BY <1>6, <1>4 DEF CallerNext, Same
  <1> QED BY <1>5, <1>6 DEF Next

\* A call comes to wait by queueing its command, and waits until then for the same
\* worker.
LEMMA WaitsSince ==
  ASSUME IndInv, WaitInv, Next, NEW q \in Requests, caller'[q] = "wait",
         conn'[handle'[q]] = "open"
  PROVE  /\ handle'[q] = handle[q] /\ handle[q] \in Streams
         /\ \/ SendEnqueue(q)
            \/ caller[q] = "wait" /\ conn[handle[q]] = "open"
  <1>t. /\ TypeOK
        /\ caller[q] = "wait" => handle[q] \in Streams /\ conn[handle[q]] # "none"
    <2>1. TypeOK /\ handle \in [Requests -> Streams \cup {None}]
      BY DEF IndInv, TypeOK
    <2> QED BY <2>1 DEF IndInv, HandleInv, WaitInv
  <1>g. ASSUME handle'[q] = handle[q], caller[q] = "wait", conn' = conn
        PROVE  /\ handle'[q] = handle[q] /\ handle[q] \in Streams
               /\ caller[q] = "wait" /\ conn[handle[q]] = "open"
    BY <1>g, <1>t
  <1>1. CASE UNCHANGED <<caller, handle, conn>>
    BY <1>1, <1>g
  <1>2. ASSUME NEW s \in Streams, Dial(s) \/ Break(s) \/ RecvEnd(s)
        PROVE  /\ handle'[q] = handle[q] /\ handle[q] \in Streams
               /\ caller[q] = "wait" /\ conn[handle[q]] = "open"
    <2>1. /\ UNCHANGED <<caller, handle>>
          /\ \/ conn[s] = "none" /\ conn' = [conn EXCEPT ![s] = "open"]
             \/ conn' = [conn EXCEPT ![s] = "broken"]
             \/ conn' = [conn EXCEPT ![s] = "closed"]
      BY <1>2 DEF Dial, Break, RecvEnd, callVars
    <2>2. handle[q] \in Streams /\ conn[handle[q]] # "none" /\ conn'[handle[q]] = "open"
      BY <1>t, <2>1
    <2>3. conn \in [Streams -> {"none", "open", "broken", "closed"}]
      BY <1>t DEF TypeOK
    <2>4. conn[handle[q]] = "open"
      BY <2>1, <2>2, <2>3
    <2> QED BY <2>1, <2>2, <2>4
  <1>3. ASSUME NEW r \in Requests, Start(r) \/ StartFails(r) \/ SendLookup(r) \/ SendEnqueue(r)
        PROVE  /\ handle'[q] = handle[q] /\ handle[q] \in Streams
               /\ \/ SendEnqueue(q)
                  \/ caller[q] = "wait" /\ conn[handle[q]] = "open"
    <2>1. caller \in [Requests -> CallerPcs] /\ handle \in [Requests -> Streams \cup {None}]
      BY <1>t DEF TypeOK
    <2>2. CASE Start(r) \/ StartFails(r)
      <3>1. UNCHANGED <<handle, conn>> /\ \E c : c # "wait" /\ caller' = [caller EXCEPT ![r] = c]
        BY <2>2 DEF Start, StartFails, connVars
      <3>2. caller[q] = "wait"
        BY <3>1, <2>1
      <3> QED BY <3>1, <3>2, <1>g
    <2>3. CASE SendLookup(r)
      <3>1. /\ conn' = conn
            /\ \E c, h : /\ c # "wait" /\ caller' = [caller EXCEPT ![r] = c]
                         /\ handle' = h /\ h \in {handle, [handle EXCEPT ![r] = current]}
        BY <2>3 DEF SendLookup, Leave, connVars
      <3>2. q # r /\ caller[q] = "wait" /\ handle'[q] = handle[q]
        BY <3>1, <2>1
      <3> QED BY <3>1, <3>2, <1>g
    <2>4. CASE SendEnqueue(r)
      <3>1. /\ caller[r] = "send" /\ UNCHANGED <<handle, conn>>
            /\ \E c : caller' = [caller EXCEPT ![r] = c]
        BY <2>4 DEF SendEnqueue
      <3>2. CASE q = r
        <4>1. handle[q] # None
          BY <3>1, <3>2 DEF IndInv, HandleInv
        <4> QED BY <2>1, <2>4, <3>1, <3>2, <4>1
      <3>3. CASE q # r
        BY <2>1, <3>1, <3>3, <1>g
      <3> QED BY <3>2, <3>3
    <2> QED BY <1>3, <2>2, <2>3, <2>4
  <1>4. ASSUME NEW r \in Requests, WaitCtxDone(r) \/ WaitResult(r) \/ Remove(r) \/ Report(r)
        PROVE  /\ handle'[q] = handle[q] /\ handle[q] \in Streams
               /\ caller[q] = "wait" /\ conn[handle[q]] = "open"
    <2>1. UNCHANGED <<handle, conn>> /\ \E c : c # "wait" /\ caller' = [caller EXCEPT ![r] = c]
      BY <1>4 DEF WaitCtxDone, WaitResult, Remove, Report, connVars
    <2>2. caller[q] = "wait"
      BY <2>1, <1>t DEF TypeOK
    <2> QED BY <2>1, <2>2, <1>g
  <1> QED BY <1>1, <1>2, <1>3, <1>4, StepCases

\* What is under way for a waiting call stays so at every hand-over.
LEMMA NothingStep ==
  ASSUME IndInv, WaitInv, NothingLost, Next, NEW q \in Requests, caller'[q] = "wait",
         conn'[handle'[q]] = "open"
  PROVE  UnderWay(q)'
  <1> DEFINE s == handle[q]
  <1> USE ConstAssumption DEF connVars, workerVars, callVars
  <1>t. TypeOK
    BY DEF IndInv
  <1>s. handle'[q] = s /\ s \in Streams
    BY WaitsSince
  <1>e. CASE SendEnqueue(q)
    <2>1. queue[s] \in Seq(Requests) /\ queue'[s] = Append(queue[s], q)
      BY <1>e, <1>s, <1>t DEF SendEnqueue, TypeOK
    <2>2. q \in Elems(queue'[s])
      BY <2>1, AppendLemma
    <2> QED BY <1>s, <2>2 DEF UnderWay
  <1> SUFFICES ASSUME ~SendEnqueue(q) PROVE UnderWay(q)'
    BY <1>e
  <1>w. caller[q] = "wait" /\ conn[s] = "open" /\ UnderWay(q) /\ q \in pending
    BY WaitsSince DEF NothingLost, WaitInv
  <1>u. \/ q \in Elems(queue[s]) \cup Elems(cmds[s])
        \/ job[s][q] = "running"
        \/ Result(q) \in Elems(events[s])
        \/ recv[s] = [pc |-> "deliver", req |-> q]
        \/ replies[q] = 1
    BY <1>w DEF UnderWay
  <1> HIDE DEF s
  <1>g. ASSUME \/ q \in Elems(queue'[s]) \cup Elems(cmds'[s])
               \/ job'[s][q] = "running"
               \/ Result(q) \in Elems(events'[s])
               \/ recv'[s] = [pc |-> "deliver", req |-> q]
               \/ replies'[q] = 1
        PROVE  UnderWay(q)'
    BY <1>g, <1>s DEF UnderWay
  <1>0. ASSUME queue'[s] = queue[s], cmds'[s] = cmds[s], job'[s] = job[s],
               events'[s] = events[s], recv'[s] = recv[s], replies'[q] = replies[q]
        PROVE  UnderWay(q)'
    BY <1>0, <1>u, <1>g
  <1>1. ASSUME NEW t \in Streams, Dial(t) \/ Break(t) \/ PumpSendFails(t) \/ RecvEnd(t)
        PROVE  UnderWay(q)'
    <2>1. t # s
      BY <1>1, <1>s, <1>t, <1>w DEF Dial, Break, PumpSendFails, CtxDone, RecvEnd, TypeOK
    <2>2. /\ UNCHANGED <<job, recv, replies>>
          /\ queue'[s] = queue[s] /\ cmds'[s] = cmds[s] /\ events'[s] = events[s]
      BY <1>1, <1>s, <1>t, <2>1 DEF Dial, Break, PumpSendFails, RecvEnd, TypeOK
    <2> QED BY <1>0, <2>2
  <1>2. ASSUME NEW t \in Streams, WorkerDispatch(t) PROVE UnderWay(q)'
    <2>1. /\ cmds[t] \in Seq(Requests) /\ cmds[t] # <<>>
          /\ cmds' = [cmds EXCEPT ![t] = Tail(@)]
          /\ UNCHANGED <<queue, events, recv, replies>>
          /\ \A u \in Streams, r \in Requests :
               job'[u][r] = IF u = t /\ r = Head(cmds[t]) /\ Awaits(r) THEN "running" ELSE job[u][r]
      <3>1. /\ cmds[t] \in Seq(Requests) /\ cmds[t] # <<>>
            /\ cmds' = [cmds EXCEPT ![t] = Tail(@)]
            /\ UNCHANGED <<queue, events, recv, replies>>
        BY <1>2, <1>t DEF WorkerDispatch, TypeOK
      <3>2. Head(cmds[t]) \in Requests
        BY <3>1, TailLemma
      <3>3. CASE Awaits(Head(cmds[t]))
        <4>1. job' = [job EXCEPT ![t][Head(cmds[t])] = "running"]
          BY <1>2, <3>3 DEF WorkerDispatch
        <4>2. job \in [Streams -> [Requests -> {"none", "running", "answered"}]]
          BY <1>t DEF TypeOK
        <4> QED BY <3>1, <3>2, <3>3, <4>1, <4>2
      <3>4. CASE ~Awaits(Head(cmds[t]))
        BY <1>2, <3>1, <3>4 DEF WorkerDispatch
      <3> QED BY <3>3, <3>4
    <2>2. Awaits(q)
      BY <1>w DEF WaitInv
    <2>3. q \in Elems(cmds[s]) => q \in Elems(cmds'[s]) \/ job'[s][q] = "running"
      <3>1. CASE s # t
        BY <1>s, <1>t, <2>1, <3>1 DEF TypeOK
      <3>2. CASE s = t /\ q = Head(cmds[t])
        BY <1>s, <2>1, <2>2, <3>2
      <3>3. CASE s = t /\ q # Head(cmds[t])
        <4>1. cmds'[t] = Tail(cmds[t])
          BY <1>t, <2>1 DEF TypeOK
        <4> QED BY <2>1, <3>3, <4>1, HeadOrTail
      <3> QED BY <3>1, <3>2, <3>3
    <2>4. job[s][q] = "running" => job'[s][q] = "running"
      BY <1>s, <2>1
    <2> QED BY <1>g, <1>u, <2>1, <2>3, <2>4
  <1>3. ASSUME NEW t \in Streams, PumpSend(t) PROVE UnderWay(q)'
    <2>1. /\ queue[t] \in Seq(Requests) /\ queue[t] # <<>> /\ cmds[t] \in Seq(Requests)
          /\ queue' = [queue EXCEPT ![t] = Tail(@)]
          /\ cmds' = [cmds EXCEPT ![t] = Append(@, Head(queue[t]))]
          /\ UNCHANGED <<job, events, recv, replies>>
      BY <1>3, <1>t DEF PumpSend, TypeOK
    <2>2. Head(queue[t]) \in Requests
      BY <2>1, TailLemma
    <2>3. Elems(Append(cmds[t], Head(queue[t]))) = Elems(cmds[t]) \cup {Head(queue[t])}
      BY <2>1, <2>2, AppendLemma
    <2>4. q \in Elems(queue[s]) \cup Elems(cmds[s]) => q \in Elems(queue'[s]) \cup Elems(cmds'[s])
      BY <1>s, <1>t, <2>1, <2>3, HeadOrTail DEF TypeOK
    <2> QED BY <1>g, <1>u, <2>1, <2>4
  <1>4. ASSUME NEW t \in Streams, RecvReady(t) \/ RecvLogged(t) \/ RecvPrompt(t)
        PROVE  UnderWay(q)'
    <2>1. /\ events[t] \in Seq(Event) /\ events[t] # <<>> /\ Head(events[t]).type # "result"
          /\ events' = [events EXCEPT ![t] = Tail(@)] /\ recv[t].pc = "recv"
          /\ \A u \in Streams : u # t => recv'[u] = recv[u]
          /\ UNCHANGED <<queue, cmds, job, replies>>
      BY <1>4, <1>t DEF RecvReady, RecvLogged, RecvPrompt, CanRecv, Lookup, TypeOK
    <2>2. Result(q) \in Elems(events[s]) => Result(q) \in Elems(events'[s])
      BY <1>s, <1>t, <2>1, HeadOrTail DEF TypeOK, Result
    <2>3. recv[s] = [pc |-> "deliver", req |-> q] => recv'[s] = recv[s]
      BY <1>s, <2>1
    <2> QED BY <1>g, <1>u, <2>1, <2>2, <2>3
  <1>5. ASSUME NEW t \in Streams, RecvResult(t) PROVE UnderWay(q)'
    <2>1. /\ events[t] \in Seq(Event) /\ events[t] # <<>>
          /\ events' = [events EXCEPT ![t] = Tail(@)] /\ recv[t].pc = "recv"
          /\ \A u \in Streams : u # t => recv'[u] = recv[u]
          /\ Head(events[t]).req = q => recv'[t] = [pc |-> "deliver", req |-> q]
          /\ UNCHANGED <<queue, cmds, job, replies>>
      BY <1>5, <1>t, <1>w DEF RecvResult, CanRecv, Lookup, TypeOK
    <2>2. Result(q) \in Elems(events[s]) =>
            Result(q) \in Elems(events'[s]) \/ recv'[s] = [pc |-> "deliver", req |-> q]
      BY <1>s, <1>t, <2>1, HeadOrTail DEF TypeOK, Result
    <2>3. recv[s] = [pc |-> "deliver", req |-> q] => recv'[s] = recv[s]
      BY <1>s, <2>1
    <2> QED BY <1>g, <1>u, <2>1, <2>2, <2>3
  <1>6. ASSUME NEW t \in Streams, Deliver(t) PROVE UnderWay(q)'
    <2>1. /\ recv' = [recv EXCEPT ![t] = InRecv]
          /\ replies' = [replies EXCEPT ![recv[t].req] = 1]
          /\ UNCHANGED <<queue, cmds, job, events>>
      BY <1>6 DEF Deliver
    <2>2. replies[q] = 1 => replies'[q] = 1
      BY <1>t, <2>1 DEF TypeOK
    <2>3. recv[s] = [pc |-> "deliver", req |-> q] => recv'[s] = recv[s] \/ replies'[q] = 1
      BY <1>s, <1>t, <2>1 DEF TypeOK
    <2> QED BY <1>g, <1>u, <2>1, <2>2, <2>3
  <1>7. ASSUME NEW t \in Streams, Callback(t) PROVE UnderWay(q)'
    <2>1. recv[s] = [pc |-> "deliver", req |-> q] => recv'[s] = recv[s]
      BY <1>7, <1>s, <1>t DEF Callback, TypeOK
    <2> QED BY <1>7, <1>g, <1>u, <2>1 DEF Callback
  <1>8. ASSUME NEW t \in Streams, NEW r \in Requests, WorkerPrompt(t, r) \/ WorkerAnswer(t, r)
        PROVE  UnderWay(q)'
    <2>1. /\ events[t] \in Seq(Event) /\ UNCHANGED <<queue, cmds, recv, replies>>
          /\ \/ events' = [events EXCEPT ![t] = Append(@, Prompt(r))] /\ job' = job
             \/ /\ events' = [events EXCEPT ![t] = Append(@, Result(r))]
                /\ job' = [job EXCEPT ![t][r] = "answered"]
      BY <1>8, <1>t DEF WorkerPrompt, WorkerAnswer, TypeOK
    <2>2. /\ Elems(Append(events[t], Prompt(r))) = Elems(events[t]) \cup {Prompt(r)}
          /\ Elems(Append(events[t], Result(r))) = Elems(events[t]) \cup {Result(r)}
      BY <2>1, EventTypes, AppendLemma
    <2>3. Result(q) \in Elems(events[s]) => Result(q) \in Elems(events'[s])
      BY <1>s, <1>t, <2>1, <2>2 DEF TypeOK
    <2>4. job[s][q] = "running" => job'[s][q] = "running" \/ Result(q) \in Elems(events'[s])
      <3>1. CASE s = t /\ q = r
        <4>1. Result(q) \in Elems(events'[s]) \/ job' = job
          BY <1>t, <2>1, <2>2, <3>1 DEF TypeOK
        <4> QED BY <4>1
      <3>2. CASE ~(s = t /\ q = r)
        <4>1. job'[s][q] = job[s][q]
          BY <1>s, <1>t, <2>1, <3>2 DEF TypeOK
        <4> QED BY <4>1
      <3> QED BY <3>1, <3>2
    <2> QED BY <1>g, <1>u, <2>1, <2>3, <2>4
  <1>9. ASSUME NEW r \in Requests, SendEnqueue(r) PROVE UnderWay(q)'
    <2>1. /\ queue' = [queue EXCEPT ![handle[r]] = Append(@, r)] /\ handle[r] \in Streams
          /\ UNCHANGED <<cmds, job, events, recv, replies>>
      BY <1>9, <1>t DEF SendEnqueue, TypeOK, IndInv, HandleInv
    <2>2. queue[handle[r]] \in Seq(Requests)
      BY <1>t, <2>1 DEF TypeOK
    <2>3. Elems(Append(queue[handle[r]], r)) = Elems(queue[handle[r]]) \cup {r}
      BY <2>2, AppendLemma
    <2>4. q \in Elems(queue[s]) => q \in Elems(queue'[s])
      BY <1>s, <1>t, <2>1, <2>3 DEF TypeOK
    <2> QED BY <1>g, <1>u, <2>1, <2>4
  <1>10. ASSUME NEW r \in Requests, WaitResult(r) PROVE UnderWay(q)'
    <2>1. r # q
      BY <1>10, <1>t DEF WaitResult, TypeOK
    <2> QED BY <1>10, <1>0, <1>t, <2>1 DEF WaitResult, TypeOK
  <1>11. CASE UNCHANGED <<queue, cmds, job, events, recv, replies>>
    BY <1>11, <1>0
  <1> QED
    BY <1>1, <1>2, <1>3, <1>4, <1>5, <1>6, <1>7, <1>8, <1>9, <1>10, <1>11
    DEF Next, WorkerNext, PumpNext, SessionNext, CallerNext, PumpCtxDone, Start, StartFails,
        SendLookup, Expire, WaitCtxDone, Remove, Report

\* A waiting call's command or answer is always somewhere between the two, as long as
\* its stream is up, for any number of calls, connections and queue places.
THEOREM NothingLostTheorem == Spec => []NothingLost
  <1>1. Init => WaitInv /\ NothingLost
    BY DEF Init, WaitInv, NothingLost
  <1>2. IndInv /\ WaitInv /\ [Next]_vars => WaitInv'
    BY WaitStep
  <1>3. IndInv /\ WaitInv /\ NothingLost /\ [Next]_vars => NothingLost'
    <2>1. IndInv /\ WaitInv /\ NothingLost /\ Next => NothingLost'
      BY NothingStep DEF NothingLost
    <2>2. NothingLost /\ UNCHANGED vars => NothingLost'
      BY DEF NothingLost, UnderWay, vars, connVars, workerVars, callVars
    <2> QED BY <2>1, <2>2
  <1> QED BY <1>1, <1>2, <1>3, Invariance, PTL DEF Spec

----------------------------------------------------------------------------
(* WorkerStream implements CallContract.                                   *)

\* What leaves the contract's variables alone.
LEMMA CallStutters == UNCHANGED <<caller, outcome>> => Call' = Call
  BY DEF Call

\* ... and the commands.
LEMMA WorkStutters == UNCHANGED <<handle, job, conn>> => Work' = Work
  BY DEF Work

\* A call that moves by itself.
LEMMA CallMoves ==
  ASSUME NEW r \in Requests, NEW c, Call'[r] = c,
         \A q \in Requests : q # r => Call'[q] = Call[q]
  PROVE  Call' = [Call EXCEPT ![r] = c]
  BY DEF Call

\* A command that moves by itself.
LEMMA WorkMoves ==
  ASSUME NEW r \in Requests, NEW w, Work'[r] = w,
         \A q \in Requests : q # r => Work'[q] = Work[q]
  PROVE  Work' = [Work EXCEPT ![r] = w]
  <1>1. Work = [q \in Requests |-> Work[q]] /\ Work' = [q \in Requests |-> Work'[q]]
    BY DEF Work
  <1> QED BY <1>1

\* The worker named by a call's handle is the only one that knows its command.
LEMMA WorkIs ==
  ASSUME IndInv, NEW r \in Requests
  PROVE  /\ caller[r] \in {"idle", "lookup", "send"} \/ ~Awaits(r) => Work[r] = "none"
         /\ \A s \in Streams : job[s][r] = "none" /\ handle[r] = s => Work[r] = "none"
         /\ \A s \in Streams : job[s][r] = "running" /\ conn[s] = "open" => Work[r] = "running"
         /\ \A s \in Streams : job[s][r] = "answered" => Work[r] = "answered"
  <1> USE ConstAssumption
  <1>1. /\ handle[r] \in Streams \cup {None}
        /\ \A s \in Streams : job[s][r] \in {"none", "running", "answered"}
        /\ \A s \in Streams : job[s][r] # "none" => handle[r] = s /\ Past(r) /\ Awaits(r)
    BY DEF IndInv, TypeOK, JobInv
  <1>2. handle[r] = None => Work[r] = "none"
    BY DEF Work
  <1>3. ASSUME NEW s \in Streams, handle[r] = s
        PROVE  Work[r] = IF job[s][r] = "running" /\ conn[s] # "open" THEN "lost" ELSE job[s][r]
    <2>1. s # None
      OBVIOUS
    <2> QED BY <1>3, <2>1 DEF Work
  <1>4. caller[r] \in {"idle", "lookup", "send"} \/ ~Awaits(r) => Work[r] = "none"
    <2>1. CASE handle[r] = None
      BY <1>2, <2>1
    <2>2. CASE handle[r] \in Streams
      <3>1. caller[r] \in {"idle", "lookup", "send"} \/ ~Awaits(r) => job[handle[r]][r] = "none"
        BY <1>1, <2>2 DEF Past
      <3> QED BY <1>3, <2>2, <3>1
    <2> QED BY <1>1, <2>1, <2>2
  <1>5. \A s \in Streams : job[s][r] = "none" /\ handle[r] = s => Work[r] = "none"
    BY <1>3
  <1>6. \A s \in Streams : job[s][r] = "running" /\ conn[s] = "open" => Work[r] = "running"
    BY <1>1, <1>3
  <1>7. \A s \in Streams : job[s][r] = "answered" => Work[r] = "answered"
    BY <1>1, <1>3
  <1> QED BY <1>4, <1>5, <1>6, <1>7

\* Every step of the callers, the registry, the streams and the workers is a step of
\* the contract, or none.
LEMMA CallsStep ==
  ASSUME IndInv, WaitInv, Next
  PROVE  Calls!Next \/ UNCHANGED <<Call, Work, expired>>
  <1> USE ConstAssumption DEF connVars, workerVars, callVars, Calls!SetCall, Calls!SetWork
  <1>t. TypeOK
    BY DEF IndInv
  <1>1. ASSUME NEW s \in Streams, Dial(s) \/ RecvEnd(s) PROVE UNCHANGED <<Call, Work, expired>>
    <2>1. UNCHANGED <<caller, outcome, expired, handle, job>>
      BY <1>1 DEF Dial, RecvEnd
    <2>2. \A t \in Streams : conn[t] # "none" => (conn'[t] = "open" <=> conn[t] = "open")
      BY <1>1, <1>t DEF Dial, RecvEnd, TypeOK
    <2>3. \A r \in Requests : handle[r] # None => handle[r] \in Streams /\ conn[handle[r]] # "none"
      BY <1>t DEF TypeOK, WaitInv
    <2>4. Work' = Work
      BY <2>1, <2>2, <2>3 DEF Work
    <2> QED BY <2>1, <2>4, CallStutters
  <1>2. ASSUME NEW s \in Streams, Break(s) PROVE Calls!Next
    <2> DEFINE gone == {r \in Requests : handle[r] = s /\ job[s][r] = "running"}
    <2>1. /\ conn[s] = "open" /\ conn'[s] = "broken"
          /\ \A t \in Streams : t # s => conn'[t] = conn[t]
          /\ UNCHANGED <<caller, outcome, expired, handle, job>>
      BY <1>2, <1>t DEF Break, TypeOK
    <2>2. \A r \in gone : Work[r] = "running"
      BY <2>1, WorkIs
    <2>3. \A r \in Requests : Work'[r] = IF r \in gone THEN "lost" ELSE Work[r]
      BY <1>t, <2>1 DEF Work, TypeOK
    <2>4. Work' = [r \in Requests |-> IF r \in gone THEN "lost" ELSE Work[r]]
      <3>1. Work' = [r \in Requests |-> Work'[r]]
        BY DEF Work
      <3> QED BY <2>3, <3>1
    <2>5. Calls!Lose(gone)
      BY <2>1, <2>2, <2>4, CallStutters DEF Calls!Lose
    <2> QED BY <2>5 DEF Calls!Next
  <1>3. ASSUME NEW s \in Streams, WorkerDispatch(s)
        PROVE  Calls!Next \/ UNCHANGED <<Call, Work, expired>>
    <2> DEFINE h == Head(cmds[s])
    <2>1. /\ h \in Requests /\ handle[h] = s /\ job[s][h] = "none" /\ Past(h)
          /\ conn[s] = "open" /\ conn' = conn
          /\ UNCHANGED <<caller, outcome, expired, handle>>
          /\ job' = IF Awaits(h) THEN [job EXCEPT ![s][h] = "running"] ELSE job
      BY <1>3, <1>t, TailLemma, SMTT(60) DEF WorkerDispatch, TypeOK, IndInv, CommandInv
    <2> HIDE DEF h
    <2>2. CASE ~Awaits(h)
      BY <2>1, <2>2, CallStutters, WorkStutters
    <2>3. CASE Awaits(h)
      <3>1. job'[s][h] = "running" /\ \A q \in Requests, t \in Streams :
                                        q # h => job'[t][q] = job[t][q]
        BY <1>t, <2>1, <2>3 DEF TypeOK
      <3>2. Work' = [Work EXCEPT ![h] = "running"]
        <4>1. Work'[h] = "running"
          BY <2>1, <3>1 DEF Work
        <4>2. \A q \in Requests : q # h => Work'[q] = Work[q]
          BY <1>t, <2>1, <3>1 DEF Work, TypeOK
        <4> QED BY <2>1, <4>1, <4>2, WorkMoves
      <3>3. Call[h] \in {"open", "ctx"}
        <4>1. outcome[h] \in {"none", "ctx"} /\ caller[h] # "idle"
          BY <2>1, <2>3 DEF Past, IndInv, HandleInv, ResultsAreAnswers
        <4> QED BY <2>1, <4>1 DEF Call
      <3>4. Work[h] = "none"
        BY <2>1, WorkIs
      <3>5. Calls!Run(h)
        BY <2>1, <3>2, <3>3, <3>4, CallStutters DEF Calls!Run
      <3> QED BY <2>1, <3>5 DEF Calls!Next
    <2> QED BY <2>2, <2>3
  <1>4. ASSUME NEW s \in Streams, NEW r \in Requests, WorkerAnswer(s, r) PROVE Calls!Next
    <2>1. /\ job[s][r] = "running" /\ conn[s] = "open" /\ handle[r] = s
          /\ job'[s][r] = "answered"
          /\ \A q \in Requests, t \in Streams : q # r => job'[t][q] = job[t][q]
          /\ UNCHANGED <<caller, outcome, expired, handle, conn>>
      BY <1>4, <1>t DEF WorkerAnswer, TypeOK, IndInv, JobInv
    <2>2. Work'[r] = "answered"
      BY <2>1 DEF Work
    <2>3. \A q \in Requests : q # r => Work'[q] = Work[q]
      BY <1>t, <2>1 DEF Work, TypeOK
    <2>4. Calls!Finish(r)
      BY <2>1, <2>2, <2>3, WorkMoves, WorkIs, CallStutters DEF Calls!Finish
    <2> QED BY <2>4 DEF Calls!Next
  <1>5. ASSUME NEW r \in Requests, Start(r) PROVE Calls!Next
    <2>1. /\ caller[r] = "idle" /\ outcome[r] = "none" /\ caller'[r] = "lookup"
          /\ \A q \in Requests : q # r => caller'[q] = caller[q]
          /\ UNCHANGED <<outcome, expired, handle, job, conn>>
      BY <1>5, <1>t DEF Start, TypeOK, IndInv, HandleInv
    <2>2. Call[r] = "idle" /\ Call'[r] = "open" /\ \A q \in Requests : q # r => Call'[q] = Call[q]
      BY <2>1 DEF Call
    <2>3. Calls!Begin(r)
      BY <2>1, <2>2, CallMoves, WorkStutters DEF Calls!Begin
    <2> QED BY <2>3 DEF Calls!Next
  <1>6. ASSUME NEW r \in Requests, StartFails(r) PROVE Calls!Next
    <2>1. /\ caller[r] = "idle" /\ caller'[r] = "returned" /\ outcome'[r] = "rand_failed"
          /\ \A q \in Requests : q # r => caller'[q] = caller[q] /\ outcome'[q] = outcome[q]
          /\ UNCHANGED <<expired, handle, job, conn>>
      BY <1>6, <1>t DEF StartFails, TypeOK
    <2>2. /\ Call[r] = "idle" /\ Call'[r] = "rand_failed"
          /\ \A q \in Requests : q # r => Call'[q] = Call[q]
      BY <2>1 DEF Call
    <2>3. Work[r] = "none"
      BY <2>1, WorkIs
    <2>4. Calls!Refuse(r)
      BY <2>1, <2>2, <2>3, CallMoves, WorkStutters DEF Calls!Refuse
    <2> QED BY <2>4 DEF Calls!Next
  <1>7. ASSUME NEW r \in Requests, SendLookup(r)
        PROVE  Calls!Next \/ UNCHANGED <<Call, Work, expired>>
    <2>1. caller[r] = "lookup" /\ handle[r] = None /\ outcome[r] = "none"
      BY <1>7 DEF SendLookup, IndInv, HandleInv
    <2>2. CASE /\ current # None /\ handle' = [handle EXCEPT ![r] = current]
               /\ caller' = [caller EXCEPT ![r] = "send"] /\ outcome' = outcome
      <3>1. UNCHANGED <<job, conn, expired>>
        BY <1>7 DEF SendLookup
      <3>2. \A q \in Requests : Call'[q] = Call[q]
        BY <1>t, <2>1, <2>2 DEF Call, TypeOK
      <3>3. \A s \in Streams : job[s][r] = "none"
        BY <1>t, <2>1 DEF IndInv, JobInv, Past, TypeOK
      <3>4. \A q \in Requests : Work'[q] = Work[q]
        BY <1>t, <2>1, <2>2, <3>1, <3>3 DEF Work, TypeOK
      <3>5. Call' = Call /\ Work' = Work
        BY <3>2, <3>4 DEF Call, Work
      <3> QED BY <3>1, <3>5
    <2>3. CASE /\ outcome' = [outcome EXCEPT ![r] = "no_worker"]
               /\ caller' = [caller EXCEPT ![r] = Leave(r)] /\ handle' = handle
      <3>1. UNCHANGED <<job, conn, expired>> /\ Leave(r) # "idle"
        BY <1>7 DEF SendLookup, Leave
      <3>2. /\ Call[r] = "open" /\ Call'[r] = "no_worker"
            /\ \A q \in Requests : q # r => Call'[q] = Call[q]
        BY <1>t, <2>1, <2>3, <3>1 DEF Call, TypeOK
      <3>3. Work[r] = "none"
        BY <2>1, WorkIs
      <3>4. Calls!Refuse(r)
        BY <2>3, <3>1, <3>2, <3>3, CallMoves, WorkStutters DEF Calls!Refuse
      <3> QED BY <3>4 DEF Calls!Next
    <2> QED BY <1>7, <2>2, <2>3 DEF SendLookup
  <1>8. ASSUME NEW r \in Requests, SendEnqueue(r)
        PROVE  Calls!Next \/ UNCHANGED <<Call, Work, expired>>
    <2>1. /\ caller[r] = "send" /\ outcome[r] = "none" /\ caller'[r] \in {"wait", "returned"}
          /\ \A q \in Requests : q # r => caller'[q] = caller[q]
          /\ UNCHANGED <<job, conn, handle, expired>>
      BY <1>8, <1>t DEF SendEnqueue, TypeOK, WaitInv
    <2>2. CASE outcome' = outcome
      <3>1. \A q \in Requests : Call'[q] = Call[q]
        BY <2>1, <2>2 DEF Call
      <3>2. Call' = Call
        BY <3>1 DEF Call
      <3> QED BY <2>1, <3>2, WorkStutters
    <2>3. CASE outcome' = [outcome EXCEPT ![r] = "sent"]
      <3>1. /\ Call[r] = "open" /\ Call'[r] = "sent"
            /\ \A q \in Requests : q # r => Call'[q] = Call[q]
        BY <1>t, <2>1, <2>3 DEF Call, TypeOK
      <3>2. Work[r] = "none"
        BY <2>1, WorkIs
      <3>3. Calls!Relay(r)
        BY <2>1, <3>1, <3>2, CallMoves, WorkStutters DEF Calls!Relay
      <3> QED BY <3>3 DEF Calls!Next
    <2> QED BY <1>8, <2>2, <2>3 DEF SendEnqueue
  <1>9. ASSUME NEW r \in Requests, Expire(r) PROVE Calls!Next
    <2>1. /\ caller[r] \in {"lookup", "send", "wait"} /\ outcome[r] = "none"
          /\ expired' = expired \cup {r}
          /\ UNCHANGED <<caller, outcome, handle, job, conn>>
      BY <1>9 DEF Expire, IndInv, HandleInv, WaitInv
    <2>2. Call[r] = "open"
      BY <2>1 DEF Call
    <2>3. Calls!Expire(r)
      BY <2>1, <2>2, CallStutters, WorkStutters DEF Calls!Expire
    <2> QED BY <2>3 DEF Calls!Next
  <1>10. ASSUME NEW r \in Requests, WaitCtxDone(r) PROVE Calls!Next
    <2>1. /\ caller[r] = "wait" /\ outcome[r] = "none" /\ r \in expired
          /\ caller'[r] = "leaving" /\ outcome'[r] = "ctx"
          /\ \A q \in Requests : q # r => caller'[q] = caller[q] /\ outcome'[q] = outcome[q]
          /\ UNCHANGED <<handle, job, conn, expired>>
      BY <1>10, <1>t DEF WaitCtxDone, TypeOK, WaitInv
    <2>2. Call[r] = "open" /\ Call'[r] = "ctx" /\ \A q \in Requests : q # r => Call'[q] = Call[q]
      BY <2>1 DEF Call
    <2>3. Calls!GiveUp(r)
      BY <2>1, <2>2, CallMoves, WorkStutters DEF Calls!GiveUp
    <2> QED BY <2>3 DEF Calls!Next
  <1>11. ASSUME NEW r \in Requests, WaitResult(r) PROVE Calls!Next
    <2>1. /\ caller[r] = "wait" /\ outcome[r] = "none" /\ replies[r] = 1
          /\ caller'[r] = "leaving" /\ outcome'[r] = "result"
          /\ \A q \in Requests : q # r => caller'[q] = caller[q] /\ outcome'[q] = outcome[q]
          /\ UNCHANGED <<handle, job, conn, expired>>
      BY <1>11, <1>t DEF WaitResult, TypeOK, WaitInv
    <2>2. /\ Call[r] = "open" /\ Call'[r] = "result"
          /\ \A q \in Requests : q # r => Call'[q] = Call[q]
      BY <2>1 DEF Call
    <2>3. Work[r] = "answered"
      <3>1. handle[r] \in Streams /\ job[handle[r]][r] = "answered"
        BY <1>t, <2>1 DEF TypeOK, IndInv, ResultsAreAnswers
      <3> QED BY <3>1, WorkIs
    <2>4. Calls!Return(r)
      BY <2>1, <2>2, <2>3, CallMoves, WorkStutters DEF Calls!Return
    <2> QED BY <2>4 DEF Calls!Next
  <1>12. ASSUME NEW r \in Requests, Remove(r) \/ Report(r)
         PROVE  UNCHANGED <<Call, Work, expired>>
    <2>1. /\ caller[r] # "idle" /\ caller'[r] # "idle"
          /\ \A q \in Requests : q # r => caller'[q] = caller[q]
          /\ UNCHANGED <<outcome, handle, job, conn, expired>>
      BY <1>12, <1>t DEF Remove, Report, TypeOK
    <2>2. Call' = Call
      BY <2>1 DEF Call
    <2> QED BY <2>1, <2>2, WorkStutters
  <1>13. CASE UNCHANGED <<caller, outcome, expired, handle, job, conn>>
    BY <1>13, CallStutters, WorkStutters
  <1> QED
    BY <1>1, <1>2, <1>3, <1>4, <1>5, <1>6, <1>7, <1>8, <1>9, <1>10, <1>11, <1>12, <1>13
    DEF Next, WorkerNext, PumpNext, SessionNext, CallerNext, PumpSend, PumpSendFails, PumpCtxDone,
        RecvReady, RecvLogged, RecvResult, RecvPrompt, Lookup, Deliver, Callback, WorkerPrompt

\* For any number of calls and of connections that replace each other, a command runs
\* at most once, a result is that of a command run to its end, and a context error
\* comes only from a context that is done.
THEOREM CallsTheorem == Spec => ImplementsCalls
  <1>1. Init => WaitInv /\ Calls!Init
    <2>1. Init => WaitInv
      BY DEF Init, WaitInv
    <2>2. Init => Call = [r \in Requests |-> "idle"] /\ Work = [r \in Requests |-> "none"]
      BY DEF Init, Call, Work
    <2> QED BY <2>1, <2>2 DEF Init, Calls!Init
  <1>2. IndInv /\ WaitInv /\ [Next]_vars => WaitInv'
    BY WaitStep
  <1>3. IndInv /\ WaitInv /\ [Next]_vars => [Calls!Next]_<<Call, Work, expired>>
    <2>1. UNCHANGED vars => UNCHANGED <<Call, Work, expired>>
      BY CallStutters, WorkStutters DEF vars, connVars, workerVars, callVars
    <2> QED BY <2>1, CallsStep
  <1> QED BY <1>1, <1>2, <1>3, Invariance, PTL DEF Spec, ImplementsCalls, Calls!Spec

----------------------------------------------------------------------------
(* What CallContract is worth to a caller.                                 *)

\* A result is that of a command that ran to its end, a context error has a context
\* that is done, and a command refused, relayed or not asked for runs nowhere.
Promise ==
  \A r \in Requests :
    /\ Call[r] = "result" => Work[r] = "answered"
    /\ Call[r] = "ctx" => r \in expired
    /\ Call[r] \notin {"open", "result", "ctx"} => Work[r] = "none"

\* A call returns once, and a command that ran, or was lost, never runs again.
Once ==
  \A r \in Requests :
    /\ Call[r] \notin {"idle", "open"} => Call'[r] = Call[r]
    /\ Work[r] # "none" => Work'[r] # "none"
    /\ Work[r] \in {"answered", "lost"} => Work'[r] = Work[r]

\* Every step of the contract keeps what it promised before.
LEMMA PromiseStep ==
  ASSUME Promise, [Calls!Next]_<<Call, Work, expired>>
  PROVE  Promise' /\ Once
  <1> DEFINE Kept(r) == /\ Call[r] \notin {"idle", "open"} => Call'[r] = Call[r]
                        /\ Work[r] # "none" => Work'[r] # "none"
                        /\ Work[r] \in {"answered", "lost"} => Work'[r] = Work[r]
                        /\ Call'[r] = "result" => Work'[r] = "answered"
                        /\ Call'[r] = "ctx" => r \in expired'
                        /\ Call'[r] \notin {"open", "result", "ctx"} => Work'[r] = "none"
  <1>d. DOMAIN Call = Requests /\ DOMAIN Work = Requests
    BY DEF Call, Work
  <1> SUFFICES ASSUME NEW r \in Requests PROVE Kept(r)
    BY DEF Promise, Once
  <1>p. /\ Call[r] = "result" => Work[r] = "answered"
        /\ Call[r] = "ctx" => r \in expired
        /\ Call[r] \notin {"open", "result", "ctx"} => Work[r] = "none"
    BY DEF Promise
  <1> USE <1>d, <1>p DEF Calls!SetCall, Calls!SetWork
  <1>1. ASSUME NEW q \in Requests, Calls!Begin(q) \/ Calls!Refuse(q) PROVE Kept(r)
    BY <1>1 DEF Calls!Begin, Calls!Refuse
  <1>2. ASSUME NEW q \in Requests, Calls!Return(q) \/ Calls!GiveUp(q) \/ Calls!Relay(q)
        PROVE  Kept(r)
    BY <1>2 DEF Calls!Return, Calls!GiveUp, Calls!Relay
  <1>3. ASSUME NEW q \in Requests, Calls!Expire(q) PROVE Kept(r)
    BY <1>3 DEF Calls!Expire
  <1>4. ASSUME NEW q \in Requests, Calls!Run(q) \/ Calls!Finish(q) PROVE Kept(r)
    BY <1>4 DEF Calls!Run, Calls!Finish
  <1>5. ASSUME NEW gone \in SUBSET Requests, Calls!Lose(gone) PROVE Kept(r)
    BY <1>5 DEF Calls!Lose
  <1>6. CASE UNCHANGED <<Call, Work, expired>>
    BY <1>6
  <1> QED BY <1>1, <1>2, <1>3, <1>4, <1>5, <1>6 DEF Calls!Next

\* Link, ListFriends and SubmitGuardCode, to their callers: whatever streams break and
\* are replaced, a call returns once, a result only for a command that one worker ran to
\* its end, and no command runs twice, also when its call timed out and it was lost.
THEOREM PromiseTheorem == Spec => []Promise /\ [][Once]_<<Call, Work, expired>>
  <1>1. Calls!Init => Promise
    BY DEF Calls!Init, Promise
  <1>2. Promise /\ [Calls!Next]_<<Call, Work, expired>> => Promise' /\ [Once]_<<Call, Work, expired>>
    BY PromiseStep
  <1>3. Spec => Calls!Init /\ [][Calls!Next]_<<Call, Work, expired>>
    BY CallsTheorem DEF ImplementsCalls, Calls!Spec
  <1> QED BY <1>1, <1>2, <1>3, PTL

----------------------------------------------------------------------------
(* Why a timeout need not end a call: Send on the queue of a stream that is over. *)

\* The queue is full and nothing takes commands from it any more.
Stuck(r) == Blocked(r) /\ pump[handle[r]] = "exited"

\* No step makes room, whoever sends, times out or connects.
LEMMA StuckStep ==
  ASSUME IndInv, [Next]_vars, NEW r \in Requests, Stuck(r)
  PROVE  Stuck(r)'
  <1> DEFINE s == handle[r]
  <1>t. /\ TypeOK /\ s \in Streams /\ caller[r] = "send"
        /\ Len(queue[s]) = QueueCap /\ pump[s] = "exited"
    BY ConstAssumption DEF IndInv, TypeOK, HandleInv, Stuck, Blocked
  <1>g. ASSUME caller'[r] = "send", handle'[r] = s, queue'[s] = queue[s], pump'[s] = pump[s]
        PROVE  Stuck(r)'
    BY <1>g, <1>t DEF Stuck, Blocked
  <1> HIDE DEF s
  <1> USE <1>t, <1>g DEF connVars, workerVars, callVars
  <1>1. ASSUME NEW t \in Streams, WorkerNext(t) PROVE Stuck(r)'
    BY <1>1 DEF s, WorkerNext, Dial, Break, WorkerDispatch, WorkerPrompt, WorkerAnswer
  <1>2. ASSUME NEW t \in Streams, PumpNext(t) PROVE Stuck(r)'
    <2>1. t # s /\ UNCHANGED <<caller, handle>>
      BY <1>2 DEF PumpNext, PumpSend, PumpSendFails, PumpCtxDone
    <2>2. queue'[s] = queue[s] /\ pump'[s] = pump[s]
      BY <1>2, <2>1 DEF PumpNext, PumpSend, PumpSendFails, PumpCtxDone, TypeOK
    <2> QED BY <2>1, <2>2 DEF s
  <1>3. ASSUME NEW t \in Streams, SessionNext(t) \/ Callback(t) PROVE Stuck(r)'
    BY <1>3 DEF s, SessionNext, RecvReady, RecvLogged, RecvResult, RecvPrompt, Lookup, Deliver,
                RecvEnd, Callback
  <1>4. ASSUME NEW q \in Requests, SendEnqueue(q) PROVE Stuck(r)'
    <2>1. /\ q # r /\ handle[q] # s /\ UNCHANGED <<handle, pump>>
          /\ queue' = [queue EXCEPT ![handle[q]] = Append(@, q)]
          /\ caller' = [caller EXCEPT ![q] = IF Awaits(q) THEN "wait" ELSE "returned"]
      BY <1>4 DEF s, SendEnqueue, TypeOK
    <2>2. queue'[s] = queue[s] /\ caller'[r] = caller[r]
      BY <2>1 DEF TypeOK
    <2> QED BY <2>1, <2>2 DEF s
  <1>5. ASSUME NEW q \in Requests, SendLookup(q) PROVE Stuck(r)'
    <2>1. /\ caller[q] = "lookup" /\ UNCHANGED <<queue, pump>>
          /\ \E c : caller' = [caller EXCEPT ![q] = c]
          /\ handle' \in {handle, [handle EXCEPT ![q] = current]}
      BY <1>5 DEF SendLookup
    <2>2. caller'[r] = caller[r] /\ handle'[r] = handle[r]
      BY <2>1 DEF TypeOK
    <2> QED BY <2>1, <2>2 DEF s
  <1>6. ASSUME NEW q \in Requests,
               \/ Start(q) \/ StartFails(q) \/ Expire(q)
               \/ WaitCtxDone(q) \/ WaitResult(q) \/ Remove(q) \/ Report(q)
        PROVE  Stuck(r)'
    <2>1. /\ UNCHANGED <<handle, queue, pump>>
          /\ \/ caller' = caller
             \/ caller[q] # "send" /\ \E c : caller' = [caller EXCEPT ![q] = c]
      BY <1>6 DEF Start, StartFails, Expire, WaitCtxDone, WaitResult, Remove, Report
    <2>2. caller'[r] = caller[r]
      BY <2>1 DEF TypeOK
    <2> QED BY <2>1, <2>2 DEF s
  <1>7. CASE UNCHANGED vars
    BY <1>7 DEF s, vars
  <1> QED BY <1>1, <1>2, <1>3, <1>4, <1>5, <1>6, <1>7 DEF Next, CallerNext

\* Registry.Send waits for room and not for the context: a call in front of the full
\* queue of a stream whose pump is gone stays there for ever, whatever times out and
\* whichever worker connects.  TimeoutHonoured fails by this.
THEOREM StuckForEver ==
  ASSUME NEW r \in Requests
  PROVE  Spec => [](Stuck(r) => []Stuck(r))
  <1>1. IndInv /\ [Next]_vars => (Stuck(r) => Stuck(r)')
    BY StuckStep
  <1> QED BY <1>1, Invariance, PTL DEF Spec

----------------------------------------------------------------------------
(* What an answer on the wire can count on: AnswersReachCallers without its *)
(* fairness.                                                                *)

\* The i-th event of the stream is the answer to r.
InLine(s, r, i) == i \in DOMAIN events[s] /\ events[s][i] = Result(r)

\* The Recv loop takes the answer: it holds r's channel, unless r is no longer pending.
TakenUp(s, r) == r \in pending => recv'[s] = [pc |-> "deliver", req |-> r]

Nearer(s, r, i) ==
  \/ InLine(s, r, i)'
  \/ i > 1 /\ InLine(s, r, i - 1)'
  \/ i = 1 /\ TakenUp(s, r)

\* What taking the head, and appending, do to a place in a queue.
LEMMA PlaceLemma ==
  ASSUME NEW S, NEW q \in Seq(S), NEW x \in S, NEW i \in DOMAIN q
  PROVE  /\ i \in DOMAIN Append(q, x) /\ Append(q, x)[i] = q[i]
         /\ i \in Nat /\ q # <<>>
         /\ i = 1 => q[i] = Head(q)
         /\ i # 1 => i > 1 /\ i - 1 \in DOMAIN Tail(q) /\ Tail(q)[i - 1] = q[i]
  <1>1. /\ Len(q) \in Nat /\ DOMAIN q = 1..Len(q)
        /\ i \in Nat /\ i >= 1 /\ i <= Len(q) /\ q # <<>>
        /\ Head(q) = q[1]
        /\ DOMAIN Append(q, x) = 1..(Len(q) + 1)
        /\ \A j \in 1..Len(q) : Append(q, x)[j] = q[j]
    OBVIOUS
  <1>2. /\ DOMAIN Tail(q) = 1..(Len(q) - 1)
        /\ \A j \in DOMAIN Tail(q) : Tail(q)[j] = q[j + 1]
    BY <1>1
  <1>3. ASSUME i # 1
        PROVE  i > 1 /\ i - 1 \in DOMAIN Tail(q) /\ Tail(q)[i - 1] = q[i]
    <2>1. i - 1 \in 1..(Len(q) - 1) /\ (i - 1) + 1 = i
      BY <1>1, <1>3
    <2> QED BY <1>1, <1>2, <1>3, <2>1
  <1> QED BY <1>1, <1>3

\* An event before an answer does not overtake it, nor does the Recv loop drop one.
LEMMA InLineStep ==
  ASSUME IndInv, WaitInv, [Next]_vars, NEW s \in Streams, NEW r \in Requests,
         NEW i, InLine(s, r, i), conn'[s] # "closed"
  PROVE  Nearer(s, r, i)
  <1>t. TypeOK /\ events[s] \in Seq(Event)
    BY DEF IndInv, TypeOK
  <1>i. i \in DOMAIN events[s] /\ events[s][i] = Result(r)
    BY DEF InLine
  <1>e. Ready \in Event /\ Status \in Event /\ \A q \in Requests : Prompt(q) \in Event /\ Result(q) \in Event
    BY EventTypes
  <1>p. /\ i \in Nat /\ events[s] # <<>>
        /\ i = 1 => Head(events[s]) = Result(r)
        /\ i # 1 => i > 1 /\ i - 1 \in DOMAIN Tail(events[s]) /\ Tail(events[s])[i - 1] = Result(r)
    BY <1>e, <1>i, <1>t, PlaceLemma
  <1>s. ASSUME events'[s] = events[s] PROVE Nearer(s, r, i)
    BY <1>i, <1>s DEF Nearer, InLine, Result
  <1>a. ASSUME NEW x \in Event, events'[s] = Append(events[s], x) PROVE Nearer(s, r, i)
    <2>1. i \in DOMAIN Append(events[s], x) /\ Append(events[s], x)[i] = events[s][i]
      BY <1>i, <1>t, PlaceLemma
    <2> QED BY <1>a, <1>i, <2>1 DEF Nearer, InLine, Result
  <1>h. ASSUME events'[s] = Tail(events[s]), i = 1 => TakenUp(s, r) PROVE Nearer(s, r, i)
    <2>1. CASE i = 1
      BY <1>h, <2>1 DEF Nearer
    <2>2. CASE i # 1
      BY <1>h, <1>p, <2>2 DEF Nearer, InLine, Result
    <2> QED BY <2>1, <2>2
  <1>d. conn[s] # "none"
    <2>1. Result(r) \in Elems(events[s])
      BY <1>i DEF Elems
    <2>2. job[s][r] = "answered"
      BY <2>1 DEF IndInv, EventInv, Result
    <2>3. handle[r] = s
      BY <2>2 DEF IndInv, JobInv
    <2> QED BY <2>3, ConstAssumption DEF WaitInv
  <1> USE <1>t
  <1>1. ASSUME NEW t \in Streams, Dial(t) \/ RecvEnd(t) PROVE Nearer(s, r, i)
    <2>1. t # s /\ \E seq : events' = [events EXCEPT ![t] = seq]
      <3>1. CASE Dial(t)
        BY <1>d, <3>1 DEF Dial
      <3>2. CASE RecvEnd(t)
        <4>1. conn' = [conn EXCEPT ![t] = "closed"] /\ events' = [events EXCEPT ![t] = <<>>]
          BY <3>2 DEF RecvEnd
        <4>2. t # s
          BY <4>1 DEF TypeOK
        <4> QED BY <4>1, <4>2
      <3> QED BY <1>1, <3>1, <3>2
    <2>2. events'[s] = events[s]
      BY <2>1 DEF TypeOK
    <2> QED BY <1>s, <2>2
  <1>2. ASSUME NEW t \in Streams, NEW q \in Requests, WorkerPrompt(t, q) \/ WorkerAnswer(t, q)
        PROVE  Nearer(s, r, i)
    <2>1. \E x \in Event : events' = [events EXCEPT ![t] = Append(@, x)]
      BY <1>2, <1>e DEF WorkerPrompt, WorkerAnswer
    <2>2. events'[s] = events[s] \/ \E x \in Event : events'[s] = Append(events[s], x)
      BY <2>1 DEF TypeOK
    <2> QED BY <1>a, <1>s, <2>2
  <1>3. ASSUME NEW t \in Streams, RecvReady(t) \/ RecvLogged(t) \/ RecvPrompt(t)
        PROVE  Nearer(s, r, i)
    <2>1. events' = [events EXCEPT ![t] = Tail(@)] /\ Head(events[t]).type # "result"
      BY <1>3 DEF RecvReady, RecvLogged, RecvPrompt, CanRecv, Lookup
    <2>2. CASE t = s
      <3>1. i # 1
        BY <1>p, <2>1, <2>2 DEF Result
      <3>2. events'[s] = Tail(events[s])
        BY <2>1, <2>2 DEF TypeOK
      <3> QED BY <1>h, <3>1, <3>2
    <2>3. CASE t # s
      BY <1>s, <2>1, <2>3 DEF TypeOK
    <2> QED BY <2>2, <2>3
  <1>4. ASSUME NEW t \in Streams, RecvResult(t) PROVE Nearer(s, r, i)
    <2>1. /\ events' = [events EXCEPT ![t] = Tail(@)]
          /\ recv' = IF Head(events[t]).req \in pending
                       THEN [recv EXCEPT ![t] = [pc |-> "deliver", req |-> Head(events[t]).req]]
                       ELSE recv
      BY <1>4 DEF RecvResult, Lookup
    <2>2. CASE t = s
      <3>1. i = 1 => Head(events[t]).req = r
        BY <1>p, <2>2 DEF Result
      <3>2. events'[s] = Tail(events[s]) /\ (i = 1 => TakenUp(s, r))
        BY <2>1, <2>2, <3>1 DEF TypeOK, TakenUp
      <3> QED BY <1>h, <3>2
    <2>3. CASE t # s
      BY <1>s, <2>1, <2>3 DEF TypeOK
    <2> QED BY <2>2, <2>3
  <1>5. CASE UNCHANGED events
    BY <1>5, <1>s
  <1>6. ASSUME NEW t \in Streams, WorkerDispatch(t) \/ Break(t) \/ PumpNext(t) \/ Deliver(t) \/ Callback(t)
        PROVE  UNCHANGED events
    BY <1>6 DEF WorkerDispatch, Break, PumpNext, PumpSend, PumpSendFails, PumpCtxDone, Deliver, Callback
  <1>7. ASSUME NEW q \in Requests, Start(q) \/ StartFails(q) \/ Expire(q) \/ CallerNext(q)
        PROVE  UNCHANGED events
    BY <1>7 DEF Start, StartFails, Expire, CallerNext, SendLookup, SendEnqueue, WaitCtxDone, WaitResult,
                Remove, Report
  <1>8. UNCHANGED vars => UNCHANGED events
    BY DEF vars
  <1> QED BY <1>1, <1>2, <1>3, <1>4, <1>5, <1>6, <1>7, <1>8 DEF Next, WorkerNext, SessionNext

\* As long as the session lasts, an answer on its wire keeps its place or moves up by one,
\* whatever else the worker sends, and from the front it goes to the caller's channel,
\* unless the caller is gone: AnswersReachCallers only needs the Recv loop to run.
THEOREM AnswersAdvance ==
  Spec => [][\A s \in Streams, r \in Requests :
               conn'[s] # "closed" => \A i \in DOMAIN events[s] : InLine(s, r, i) => Nearer(s, r, i)]_vars
  <1>1. IndInv /\ WaitInv /\ [Next]_vars =>
          [\A s \in Streams, r \in Requests :
             conn'[s] # "closed" => \A i \in DOMAIN events[s] : InLine(s, r, i) => Nearer(s, r, i)]_vars
    BY InLineStep
  <1>2. Init => WaitInv
    BY DEF Init, WaitInv
  <1>3. IndInv /\ WaitInv /\ [Next]_vars => WaitInv'
    BY WaitStep
  <1> QED BY <1>1, <1>2, <1>3, Invariance, PTL DEF Spec
=============================================================================
