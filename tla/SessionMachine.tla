---------------------------- MODULE SessionMachine ----------------------------
(***************************************************************************)
(* control-plane/internal/sessions/state.go: the life of a spectating      *)
(* session as the control plane sees it.  Pure transition logic; a worker  *)
(* shows the same life (see Spectate).                                     *)
(***************************************************************************)
VARIABLE session

States == {"OFF", "STARTING", "WATCHING", "STOPPING"}
Events == {"START", "STREAM_STARTED", "STOP", "FATAL_ERROR", "WORKER_IDLE"}

\* The full edge set.
transitions ==
  { <<"OFF",      "START",          "STARTING">>,
    <<"STARTING", "STREAM_STARTED", "WATCHING">>,
    <<"STARTING", "STOP",           "STOPPING">>,
    <<"STARTING", "FATAL_ERROR",    "STOPPING">>,
    <<"WATCHING", "STOP",           "STOPPING">>,
    <<"WATCHING", "FATAL_ERROR",    "STOPPING">>,
    <<"STOPPING", "WORKER_IDLE",    "OFF">> }

Init == session = "OFF"

\* Next(cur, ev): an undefined edge is an InvalidTransitionError and leaves
\* the state.
Apply(ev) ==
  \/ \E s \in States : <<session, ev, s>> \in transitions /\ session' = s
  \/ /\ \A s \in States : <<session, ev, s>> \notin transitions
     /\ UNCHANGED session

Next == \E ev \in Events : Apply(ev)

Spec == Init /\ [][Next]_session
==============================================================================
