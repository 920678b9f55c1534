------------------------------- MODULE Spectate -------------------------------
(***************************************************************************)
(* worker/agent.py, grpc_client.py and state_machine.py: the worker's      *)
(* state machine, driven by the commands of the stream, and the            *)
(* StatusUpdates it reports.  The spectate pipeline is not written, so no  *)
(* code raises STREAM_STARTED, FATAL_ERROR or CLEANUP_DONE.                *)
(*                                                                         *)
(* A command is the name of its oneof's case.  "other" stands for those    *)
(* handled off the command thread or relayed to Steam, and for the unknown *)
(* ones: none of them touches the state.                                   *)
(***************************************************************************)
EXTENDS Naturals, Sequences

CONSTANTS MaxCommands    \* commands the control plane sends

ASSUME MaxAssumption == MaxCommands \in Nat

VARIABLES
  agent,     \* Agent.run: "start", "run" in the command loop, "over"
  state,     \* Agent.state
  commands,  \* commands on the stream
  sent,      \* commands sent so far
  outbox,    \* GrpcClient._outbox
  received   \* events the control plane received

vars == <<agent, state, commands, sent, outbox, received>>

States   == {"STOPPED", "STARTING", "IDLE", "SPECTATING", "STOPPING"}
Commands == {"start_spectate", "stop_spectate", "other"}
WorkerEvents == {"ready"} \cup States     \* a state stands for its StatusUpdate

TypeOK ==
  /\ agent \in {"start", "run", "over"}
  /\ state \in States
  /\ commands \in Seq(Commands)
  /\ sent \in 0..MaxCommands
  /\ outbox \in Seq(WorkerEvents) /\ received \in Seq(WorkerEvents)

\* Faulty: stopping while starting skips the teardown.
TRANSITIONSToIdle ==
  { <<"STOPPED",  "STREAM_CONNECTED", "IDLE">>,
    <<"IDLE",     "START_SPECTATE",   "STARTING">>,
    <<"STARTING", "STOP_SPECTATE",    "IDLE">> }

\* _TRANSITIONS.
TRANSITIONS ==
  { <<"STOPPED",    "STREAM_CONNECTED", "IDLE">>,
    <<"IDLE",       "START_SPECTATE",   "STARTING">>,
    <<"STARTING",   "STREAM_STARTED",   "SPECTATING">>,
    <<"STARTING",   "STOP_SPECTATE",    "STOPPING">>,
    <<"STARTING",   "FATAL_ERROR",      "STOPPING">>,
    <<"SPECTATING", "STOP_SPECTATE",    "STOPPING">>,
    <<"SPECTATING", "FATAL_ERROR",      "STOPPING">>,
    <<"STOPPING",   "CLEANUP_DONE",     "IDLE">> }

----------------------------------------------------------------------------

Init ==
  /\ agent = "start" /\ state = "STOPPED"
  /\ commands = <<>> /\ sent = 0
  /\ outbox = <<>> /\ received = <<>>

Undefined(ev) == \A s \in States : <<state, ev, s>> \notin TRANSITIONS

\* A worker that is up but idle has no session; otherwise it is where its
\* session is.
SessionOf ==
  [s \in States |-> IF s \in {"STOPPED", "IDLE"} THEN "OFF"
                    ELSE IF s = "SPECTATING" THEN "WATCHING" ELSE s]

\* _advance: an undefined edge is logged; a taken one is reported.  queue is
\* the outbox the report goes behind.
Advance(ev, queue) ==
  \/ \E s \in States :
       <<state, ev, s>> \in TRANSITIONS /\ state' = s /\ outbox' = Append(queue, s)
  \/ /\ Undefined(ev)
     /\ UNCHANGED state /\ outbox' = queue

\* Faulty: the transition comes before WorkerReady.
ReportsThenReady ==
  /\ agent = "start"
  /\ agent' = "run"
  /\ state' = "IDLE" /\ outbox' = <<"IDLE", "ready">>
  /\ UNCHANGED <<commands, sent, received>>

\* Agent.run: WorkerReady, STREAM_CONNECTED, then the command loop.
Run ==
  /\ agent = "start"
  /\ agent' = "run"
  /\ Advance("STREAM_CONNECTED", Append(outbox, "ready"))
  /\ UNCHANGED <<commands, sent, received>>

\* The control plane sends any command at any time (external: the session
\* handlers are not written).
Send(c) ==
  /\ agent = "run" /\ sent < MaxCommands
  /\ commands' = Append(commands, c)
  /\ sent' = sent + 1
  /\ UNCHANGED <<agent, state, outbox, received>>

\* The loop takes a command off the stream and runs its handler.
Dispatch(c) ==
  /\ agent = "run" /\ commands # <<>> /\ Head(commands) = c
  /\ commands' = Tail(commands)
  /\ UNCHANGED <<agent, sent, received>>

\* _on_start_spectate, _on_stop_spectate.
OnStartSpectate == Dispatch("start_spectate") /\ Advance("START_SPECTATE", outbox)
OnStopSpectate  == Dispatch("stop_spectate") /\ Advance("STOP_SPECTATE", outbox)

\* The other handlers, and UnknownCommand.
OnOther == Dispatch("other") /\ UNCHANGED <<state, outbox>>

\* _requests: gRPC's thread puts the outbox on the stream, in order.
Transmit ==
  /\ agent = "run" /\ outbox # <<>>
  /\ received' = Append(received, Head(outbox))
  /\ outbox' = Tail(outbox)
  /\ UNCHANGED <<agent, state, commands, sent>>

\* The stream ends, and with it the process.
StreamEnds ==
  /\ agent = "run"
  /\ agent' = "over"
  /\ UNCHANGED <<state, commands, sent, outbox, received>>

Next ==
  \/ Run \/ OnStartSpectate \/ OnStopSpectate \/ OnOther \/ Transmit \/ StreamEnds
  \/ \E c \in Commands : Send(c)

Spec == Init /\ [][Next]_vars

\* The loop and gRPC's thread run on; the stream need not end.
FairSpec ==
  Spec /\ WF_vars(Run \/ OnStartSpectate \/ OnStopSpectate \/ OnOther) /\ WF_vars(Transmit)

----------------------------------------------------------------------------
(* Properties.                                                             *)

Session == INSTANCE SessionMachine WITH session <- SessionOf[state]

\* The worker implements the control plane's machine: every change of its
\* state is an edge of the session's, or none.
ImplementsSession == Session!Spec

\* What the control plane hears, and what is still to be sent.
Reports == received \o outbox

\* The control plane can follow the worker by its reports: WorkerReady first,
\* every report one edge from the one before, the last one the current state,
\* whichever commands were refused in between.
ReportsFollow ==
  agent # "start" =>
    /\ Len(Reports) >= 2 /\ Reports[1] = "ready" /\ Reports[2] = "IDLE"
    /\ \A i \in 2..Len(Reports) - 1 :
         \E tr \in TRANSITIONS : tr[1] = Reports[i] /\ tr[3] = Reports[i + 1]
    /\ Reports[Len(Reports)] = state

(* A claim of a comment that the code does not keep *)

\* state_machine.py: STOPPING --cleanup_done--> IDLE.
StoppingEnds == state = "STOPPING" ~> state = "IDLE" \/ agent = "over"
==============================================================================
