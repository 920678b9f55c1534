--------------------------- MODULE Spectate_proofs ---------------------------
(***************************************************************************)
(* The worker's state machine implements the control plane's, and its      *)
(* reports follow it, for any number of commands.                          *)
(***************************************************************************)
EXTENDS Spectate, SequenceTheorems, TLAPS

\* The session's name of a worker's event.
EventOf ==
  [ev \in {"STREAM_CONNECTED", "START_SPECTATE", "STREAM_STARTED", "STOP_SPECTATE",
           "FATAL_ERROR", "CLEANUP_DONE"} |->
     IF ev = "START_SPECTATE" THEN "START"
     ELSE IF ev = "STOP_SPECTATE" THEN "STOP"
     ELSE IF ev = "CLEANUP_DONE" THEN "WORKER_IDLE" ELSE ev]

\* The two tables agree on every edge, those no code takes yet included: a
\* worker's edge is the session's edge of the same event, except the one that
\* connects the worker, which is no change of a session.
LEMMA TablesAgree ==
  ASSUME NEW s \in States, NEW ev, NEW t \in States, <<s, ev, t>> \in TRANSITIONS
  PROVE  \/ SessionOf[s] = SessionOf[t]
         \/ <<SessionOf[s], EventOf[ev], SessionOf[t]>> \in Session!transitions
BY DEF TRANSITIONS, Session!transitions, SessionOf, States, EventOf

\* What an advance does to the state and to the outbox.
LEMMA AdvanceType ==
  ASSUME TypeOK, NEW ev, NEW q \in Seq(WorkerEvents), Advance(ev, q)
  PROVE  state' \in States /\ outbox' \in Seq(WorkerEvents)
<1>1. CASE \E s \in States : state' = s /\ outbox' = Append(q, s)
  <2>1. PICK s \in States : state' = s /\ outbox' = Append(q, s)
    BY <1>1
  <2>2. s \in WorkerEvents
    BY DEF WorkerEvents
  <2> QED
    BY <2>1, <2>2
<1>2. CASE UNCHANGED state /\ outbox' = q
  BY <1>2 DEF TypeOK
<1> QED
  BY <1>1, <1>2 DEF Advance

\* Commands, refusals and reports keep the types.
LEMMA TypeStep == TypeOK /\ [Next]_vars => TypeOK'
<1> SUFFICES ASSUME TypeOK, [Next]_vars PROVE TypeOK'
  OBVIOUS
<1> USE MaxAssumption DEF TypeOK
<1>1. CASE Run
  <2>1. Append(outbox, "ready") \in Seq(WorkerEvents)
    BY DEF WorkerEvents
  <2> QED
    BY <1>1, <2>1, AdvanceType DEF Run
<1>2. CASE OnStartSpectate
  BY <1>2, AdvanceType DEF OnStartSpectate, Dispatch
<1>3. CASE OnStopSpectate
  BY <1>3, AdvanceType DEF OnStopSpectate, Dispatch
<1>4. CASE OnOther
  BY <1>4 DEF OnOther, Dispatch
<1>5. CASE Transmit
  BY <1>5 DEF Transmit
<1>6. CASE StreamEnds
  BY <1>6 DEF StreamEnds
<1>7. CASE \E c \in Commands : Send(c)
  BY <1>7 DEF Send
<1>8. CASE UNCHANGED vars
  BY <1>8 DEF vars
<1> QED
  BY <1>1, <1>2, <1>3, <1>4, <1>5, <1>6, <1>7, <1>8 DEF Next

\* Every reachable state is well typed.
THEOREM TypeCorrect == Spec => []TypeOK
<1>1. Init => TypeOK
  BY MaxAssumption DEF Init, TypeOK, States
<1> QED
  BY <1>1, TypeStep, PTL DEF Spec

----------------------------------------------------------------------------

\* An advance is a step of the session's machine, or leaves it alone.
LEMMA AdvanceRefines ==
  ASSUME TypeOK, NEW ev, NEW q, Advance(ev, q)
  PROVE  [Session!Next]_(SessionOf[state])
<1>1. CASE \E s \in States : <<state, ev, s>> \in TRANSITIONS /\ state' = s
  <2>1. PICK s \in States : <<state, ev, s>> \in TRANSITIONS /\ state' = s
    BY <1>1
  <2>2. \/ SessionOf[state'] = SessionOf[state]
        \/ <<SessionOf[state], EventOf[ev], SessionOf[state']>> \in Session!transitions
    BY <2>1, TablesAgree DEF TypeOK
  <2>3. CASE <<SessionOf[state], EventOf[ev], SessionOf[state']>> \in Session!transitions
    <3>1. EventOf[ev] \in Session!Events
      BY <2>3 DEF Session!transitions, Session!Events
    <3>2. SessionOf[state'] \in Session!States
      BY <2>3 DEF Session!transitions, Session!States
    <3>3. Session!Apply(EventOf[ev])
      BY <2>3, <3>2 DEF Session!Apply
    <3> QED
      BY <3>1, <3>3 DEF Session!Next
  <2> QED
    BY <2>2, <2>3
<1>2. CASE UNCHANGED state
  BY <1>2
<1> QED
  BY <1>1, <1>2 DEF Advance

\* state_machine.py implements state.go: whatever commands arrive, in
\* whatever order, the worker's state changes only as a session's may.
THEOREM RefinementTheorem == Spec => ImplementsSession
<1>1. Init => Session!Init
  BY DEF Init, Session!Init, SessionOf, States
<1>2. TypeOK /\ [Next]_vars => [Session!Next]_(SessionOf[state])
  <2> SUFFICES ASSUME TypeOK, [Next]_vars PROVE [Session!Next]_(SessionOf[state])
    OBVIOUS
  <2>1. CASE Run
    BY <2>1, AdvanceRefines DEF Run
  <2>2. CASE OnStartSpectate
    BY <2>2, AdvanceRefines DEF OnStartSpectate
  <2>3. CASE OnStopSpectate
    BY <2>3, AdvanceRefines DEF OnStopSpectate
  <2>4. CASE UNCHANGED state
    BY <2>4
  <2> QED
    BY <2>1, <2>2, <2>3, <2>4
    DEF Next, OnOther, Transmit, StreamEnds, Send, vars
<1> QED
  BY <1>1, <1>2, TypeCorrect, PTL DEF Spec, ImplementsSession, Session!Spec
----------------------------------------------------------------------------

\* A report appended to the outbox is appended to the reports.
LEMMA ReportLast ==
  ASSUME NEW S, NEW r \in Seq(S), NEW o \in Seq(S), NEW x \in S
  PROVE  r \o Append(o, x) = Append(r \o o, x)
OBVIOUS

\* Sending the head of the outbox leaves the reports as they are.
LEMMA MoveHead ==
  ASSUME NEW S, NEW r \in Seq(S), NEW o \in Seq(S), o # <<>>
  PROVE  Append(r, Head(o)) \o Tail(o) = r \o o
OBVIOUS

\* Before it runs, the agent has reported nothing.
FollowInv ==
  /\ agent = "start" => state = "STOPPED" /\ outbox = <<>> /\ received = <<>>
  /\ ReportsFollow

\* An edge taken in the loop puts one more report behind the others.
LEMMA AdvanceFollows ==
  ASSUME TypeOK, ReportsFollow, agent = "run", NEW ev, Advance(ev, outbox),
         UNCHANGED <<agent, received>>
  PROVE  ReportsFollow'
<1>1. Reports \in Seq(WorkerEvents)
  BY DEF TypeOK, Reports
<1>2. CASE \E s \in States : /\ <<state, ev, s>> \in TRANSITIONS
                             /\ state' = s /\ outbox' = Append(outbox, s)
  <2>1. PICK s \in States : /\ <<state, ev, s>> \in TRANSITIONS
                            /\ state' = s /\ outbox' = Append(outbox, s)
    BY <1>2
  <2>2. s \in WorkerEvents
    BY DEF WorkerEvents
  <2>3. Reports' = Append(Reports, s)
    BY <2>1, <2>2, ReportLast DEF TypeOK, Reports
  <2>4. /\ Len(Reports') = Len(Reports) + 1
        /\ \A i \in 1..Len(Reports) : Reports'[i] = Reports[i]
        /\ Reports'[Len(Reports) + 1] = s
    BY <1>1, <2>2, <2>3
  <2>5. \E tr \in TRANSITIONS : tr[1] = Reports[Len(Reports)] /\ tr[3] = s
    BY <2>1 DEF ReportsFollow
  <2>6. /\ Len(Reports) \in Nat /\ Len(Reports) >= 2
        /\ Reports[1] = "ready" /\ Reports[2] = "IDLE"
        /\ \A i \in 2..Len(Reports) - 1 :
             \E tr \in TRANSITIONS : tr[1] = Reports[i] /\ tr[3] = Reports[i + 1]
    BY <1>1 DEF ReportsFollow
  <2>7. ASSUME NEW i \in 2..Len(Reports)
        PROVE  \E tr \in TRANSITIONS : tr[1] = Reports'[i] /\ tr[3] = Reports'[i + 1]
    <3>1. CASE i = Len(Reports)
      BY <3>1, <2>4, <2>5, <2>6
    <3>2. CASE i \in 2..Len(Reports) - 1
      <4>1. i \in 1..Len(Reports) /\ i + 1 \in 1..Len(Reports)
        BY <3>2, <2>6
      <4> QED
        BY <4>1, <3>2, <2>4, <2>6
    <3> QED
      BY <3>1, <3>2, <2>6
  <2>8. (Len(Reports') - 1) = Len(Reports) /\ Reports'[1] = "ready" /\ Reports'[2] = "IDLE"
        /\ Len(Reports') >= 2 /\ Reports'[Len(Reports')] = state'
    BY <2>1, <2>4, <2>6
  <2> QED
    BY <2>7, <2>8 DEF ReportsFollow
<1>3. CASE UNCHANGED state /\ outbox' = outbox
  BY <1>3 DEF ReportsFollow, Reports
<1> QED
  BY <1>2, <1>3 DEF Advance

\* Every step keeps the reports a path through the table.
LEMMA FollowStep == TypeOK /\ FollowInv /\ [Next]_vars => FollowInv'
<1> SUFFICES ASSUME TypeOK, FollowInv, [Next]_vars PROVE FollowInv'
  OBVIOUS
<1>1. CASE Run
  <2>1. <<"STOPPED", "STREAM_CONNECTED", "IDLE">> \in TRANSITIONS /\ "IDLE" \in States
    BY DEF TRANSITIONS, States
  <2>2. \A s : <<"STOPPED", "STREAM_CONNECTED", s>> \in TRANSITIONS => s = "IDLE"
    BY DEF TRANSITIONS
  <2>3. state' = "IDLE" /\ outbox' = Append(Append(<<>>, "ready"), "IDLE")
    BY <1>1, <2>1, <2>2 DEF Run, Advance, Undefined, FollowInv
  <2>4. received' = <<>> /\ agent' = "run"
    BY <1>1 DEF Run, FollowInv
  <2>5. outbox' \in Seq(WorkerEvents) /\ <<>> \o outbox' = outbox'
    BY TypeStep, ConcatEmptySeq DEF TypeOK
  <2>6. /\ Len(Reports') = 2 /\ Reports'[1] = "ready" /\ Reports'[2] = "IDLE"
        /\ 2..Len(Reports') - 1 = {}
    <3>1. "ready" \in WorkerEvents /\ "IDLE" \in WorkerEvents /\ <<>> \in Seq(WorkerEvents)
      BY <2>1 DEF WorkerEvents
    <3>2. LET q == Append(<<>>, "ready") IN
            q \in Seq(WorkerEvents) /\ Len(q) = 1 /\ q[1] = "ready"
      BY <3>1, AppendProperties
    <3>3. Len(outbox') = 2 /\ outbox'[1] = "ready" /\ outbox'[2] = "IDLE"
      BY <2>3, <3>1, <3>2, AppendProperties
    <3>4. Reports' = outbox'
      BY <2>4, <2>5 DEF Reports
    <3>5. 2..2 - 1 = {}
      OBVIOUS
    <3> QED
      BY <3>3, <3>4, <3>5
  <2>7. ReportsFollow'
    BY <2>3, <2>6 DEF ReportsFollow
  <2> QED
    BY <2>4, <2>7 DEF FollowInv
<1>2. CASE OnStartSpectate
  BY <1>2, AdvanceFollows DEF OnStartSpectate, Dispatch, FollowInv
<1>3. CASE OnStopSpectate
  BY <1>3, AdvanceFollows DEF OnStopSpectate, Dispatch, FollowInv
<1>4. CASE Transmit
  <2>1. Reports' = Reports
    BY <1>4, MoveHead DEF Transmit, Reports, TypeOK
  <2> QED
    BY <1>4, <2>1 DEF Transmit, FollowInv, ReportsFollow
<1>5. CASE StreamEnds
  BY <1>5 DEF StreamEnds, FollowInv, ReportsFollow, Reports
<1>6. CASE UNCHANGED <<agent, state, outbox, received>>
  BY <1>6 DEF FollowInv, ReportsFollow, Reports
<1>7. CASE OnOther
  BY <1>6, <1>7 DEF OnOther, Dispatch
<1>8. CASE \E c \in Commands : Send(c)
  BY <1>6, <1>8 DEF Send
<1>9. CASE UNCHANGED vars
  BY <1>6, <1>9 DEF vars
<1> QED
  BY <1>1, <1>2, <1>3, <1>4, <1>5, <1>7, <1>8, <1>9 DEF Next

\* The control plane can follow every worker by its StatusUpdates alone,
\* WorkerReady first, whatever commands it sent.
THEOREM ReportsTheorem == Spec => []ReportsFollow
<1>1. Init => FollowInv
  BY DEF Init, FollowInv, ReportsFollow
<1> QED
  BY <1>1, FollowStep, TypeCorrect, PTL DEF Spec, FollowInv

----------------------------------------------------------------------------
(* Why StoppingEnds fails.                                                 *)

\* The edges that some code takes: the rest of _TRANSITIONS waits for the pipeline.
Wired == state \in {"STOPPED", "IDLE", "STARTING", "STOPPING"} /\ FollowInv

\* A worker that is stopping stays so and has nothing more to report.
StaysStopping == state = "STOPPING" => state' = "STOPPING" /\ Reports' = Reports

\* The commands take the edges to STARTING and STOPPING, and none out of STOPPING.
LEMMA WiredStep == TypeOK /\ Wired /\ [Next]_vars => Wired' /\ StaysStopping
<1> SUFFICES ASSUME TypeOK, Wired, [Next]_vars PROVE Wired' /\ StaysStopping
  OBVIOUS
<1>0. FollowInv'
  BY FollowStep DEF Wired
<1>1. CASE Run
  <2>1. state = "STOPPED"
    BY <1>1 DEF Run, Wired, FollowInv
  <2>2. state' \in {"STOPPED", "IDLE"}
    BY <1>1, <2>1 DEF Run, Advance, TRANSITIONS
  <2> QED
    BY <1>0, <2>1, <2>2 DEF Wired, StaysStopping
<1>2. CASE OnStartSpectate \/ OnStopSpectate
  <2>1. received' = received
    BY <1>2 DEF OnStartSpectate, OnStopSpectate, Dispatch
  <2>2. PICK ev \in {"START_SPECTATE", "STOP_SPECTATE"} : Advance(ev, outbox)
    BY <1>2 DEF OnStartSpectate, OnStopSpectate
  <2>3. \/ /\ state # "STOPPING"
           /\ state' \in {"STARTING", "STOPPING"}
        \/ state' = state /\ outbox' = outbox
    BY <2>2 DEF Advance, TRANSITIONS, Wired
  <2> QED
    BY <1>0, <2>1, <2>3 DEF Wired, StaysStopping, Reports
<1>3. CASE Transmit
  <2>1. Reports' = Reports
    BY <1>3, MoveHead DEF Transmit, Reports, TypeOK
  <2> QED
    BY <1>0, <1>3, <2>1 DEF Transmit, Wired, StaysStopping
<1>4. CASE UNCHANGED <<state, outbox, received>>
  BY <1>0, <1>4 DEF Wired, StaysStopping, Reports
<1> QED
  BY <1>1, <1>2, <1>3, <1>4 DEF Next, StreamEnds, OnOther, Dispatch, Send, vars

\* agent.py as it stands never spectates, and STOP_SPECTATE leaves it in STOPPING: no
\* sequence of commands gets it back to IDLE or makes it report anything more.
THEOREM StoppingLasts == Spec => [](state # "SPECTATING") /\ [][StaysStopping]_vars
<1>1. Init => Wired
  BY DEF Init, Wired, FollowInv, ReportsFollow
<1>2. TypeOK /\ Wired /\ [Next]_vars => Wired' /\ [StaysStopping]_vars
  BY WiredStep
<1>3. Wired => state # "SPECTATING"
  BY DEF Wired
<1> QED
  BY <1>1, <1>2, <1>3, TypeCorrect, PTL DEF Spec
==============================================================================
