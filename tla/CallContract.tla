---------------------------- MODULE CallContract ----------------------------
(***************************************************************************)
(* What control-plane/internal/workers promises to the callers of Link,    *)
(* ListFriends and SubmitGuardCode (friends.go, link.go, registry.go): the *)
(* command runs on a worker at most once, a result is returned only for a  *)
(* command that was run to its end, and a call fails with the context      *)
(* error only if its context is done.  A worker that is lost takes the     *)
(* commands it runs with it, several at a time, and nothing runs again.    *)
(***************************************************************************)
CONSTANT Requests

VARIABLES
  call,  \* per request: "idle", "open", or what the call returned: "result", "ctx",
         \* "sent", "no_worker" or "rand_failed"
  work,  \* per request: its command, "none" yet, "running", "answered" or "lost"
  due    \* requests whose context is done

Init ==
  /\ call = [r \in Requests |-> "idle"]
  /\ work = [r \in Requests |-> "none"]
  /\ due = {}

SetCall(r, c) == call' = [call EXCEPT ![r] = c] /\ UNCHANGED <<work, due>>
SetWork(r, w) == work' = [work EXCEPT ![r] = w] /\ UNCHANGED <<call, due>>

\* The caller: it asks, or cannot; a refused command never runs.
Begin(r)  == call[r] = "idle" /\ SetCall(r, "open")
Refuse(r) == /\ call[r] \in {"idle", "open"} /\ work[r] = "none"
             /\ \E e \in {"no_worker", "rand_failed"} : SetCall(r, e)

\* The caller stops waiting: with the answer, for its context, or at once for a
\* command that has no answer.
Return(r) == call[r] = "open" /\ work[r] = "answered" /\ SetCall(r, "result")
GiveUp(r) == call[r] = "open" /\ r \in due /\ SetCall(r, "ctx")
Relay(r)  == call[r] = "open" /\ work[r] = "none" /\ SetCall(r, "sent")

Expire(r) == call[r] = "open" /\ due' = due \cup {r} /\ UNCHANGED <<call, work>>

\* The worker: it may still take up a command whose caller gave up.
Run(r)    == call[r] \in {"open", "ctx"} /\ work[r] = "none" /\ SetWork(r, "running")
Finish(r) == work[r] = "running" /\ SetWork(r, "answered")

\* A worker is gone, with what it was running.
Lose(gone) ==
  /\ \A r \in gone : work[r] = "running"
  /\ work' = [r \in Requests |-> IF r \in gone THEN "lost" ELSE work[r]]
  /\ UNCHANGED <<call, due>>

Next ==
  \/ \E r \in Requests : \/ Begin(r) \/ Refuse(r) \/ Return(r) \/ GiveUp(r) \/ Relay(r)
                         \/ Expire(r) \/ Run(r) \/ Finish(r)
  \/ \E gone \in SUBSET Requests : Lose(gone)

Spec == Init /\ [][Next]_<<call, work, due>>
=============================================================================
