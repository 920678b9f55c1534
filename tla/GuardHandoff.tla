---------------------------- MODULE GuardHandoff ----------------------------
(***************************************************************************)
(* worker/steam_client.py: credentials logins, one thread each, and the    *)
(* single Steam Guard slot (_guard_event, _guard_code) that hands a code   *)
(* from the command-stream thread to a waiting login.                      *)
(*                                                                         *)
(* A step is what happens between two points at which another thread can   *)
(* run: the code is stored and taken under _guard_lock, but the event is   *)
(* set and cleared outside it.                                             *)
(***************************************************************************)
EXTENDS Naturals, FiniteSets

CONSTANTS Logins,      \* LinkAccount commands with credentials
          MaxSubmits,  \* bound on the codes a user submits for one login
          None

ASSUME ConstAssumption ==
  /\ MaxSubmits \in Nat
  /\ None \notin Logins

\* The n-th code submitted for a login.
Code == [login : Logins, n : 1..MaxSubmits]

ASSUME NoneIsNoCode == None \notin Code

VARIABLES
  event,     \* _guard_event's flag
  slot,      \* _guard_code
  storing,   \* submit_guard_code has stored a code and not yet set the event
  pc,        \* per login: where its thread is
  got,       \* per login: the code _wait_for_guard_code took from the slot
  used,      \* per login: the code sent to Steam
  asked,     \* logins whose SteamGuardRequired event was sent
  sent,      \* per login: codes submitted so far
  result,    \* per login: what its LinkResult reports
  inTurn     \* so far one login at a time, and one code for each prompt

vars == <<event, slot, storing, pc, got, used, asked, sent, result, inTurn>>

Pcs == {"idle", "begin", "wait", "blocked", "take", "clear", "update", "poll", "done"}
Results == {"none", "linked", "invalid", "no_code", "empty", "timeout", "steam_error"}

TypeOK ==
  /\ event \in BOOLEAN /\ storing \in BOOLEAN /\ inTurn \in BOOLEAN
  /\ slot \in Code \cup {None}
  /\ pc \in [Logins -> Pcs]
  /\ got \in [Logins -> Code \cup {None}]
  /\ used \in [Logins -> Code \cup {None}]
  /\ asked \in SUBSET Logins
  /\ sent \in [Logins -> 0..MaxSubmits]
  /\ result \in [Logins -> Results]

Init ==
  /\ event = FALSE /\ slot = None /\ storing = FALSE
  /\ pc = [l \in Logins |-> "idle"]
  /\ got = [l \in Logins |-> None]
  /\ used = [l \in Logins |-> None]
  /\ asked = {}
  /\ sent = [l \in Logins |-> 0]
  /\ result = [l \in Logins |-> "none"]
  /\ inTurn = TRUE

----------------------------------------------------------------------------
InFlight(l) == pc[l] \notin {"idle", "done"}

Goto(l, at) == pc' = [pc EXCEPT ![l] = at]

\* The thread raises or returns: _link_account sends its one LinkResult.
Finish(l, res) ==
  /\ Goto(l, "done")
  /\ result' = [result EXCEPT ![l] = res]

\* _on_link_account: a thread per command, whatever else is in flight.
StartLogin(l) ==
  /\ pc[l] = "idle"
  /\ Goto(l, "begin")
  /\ inTurn' = (inTurn /\ \A m \in Logins : ~InFlight(m))
  /\ UNCHANGED <<event, slot, storing, got, used, asked, sent, result>>

\* BeginAuthSessionViaCredentials: refused, no code wanted, or a code wanted,
\* which is announced before the thread waits for it.
Begin(l) ==
  /\ pc[l] = "begin"
  /\ \/ \E res \in {"invalid", "steam_error"} : Finish(l, res) /\ UNCHANGED asked
     \/ Goto(l, "poll") /\ UNCHANGED <<asked, result>>
     \/ Goto(l, "wait") /\ asked' = asked \cup {l} /\ UNCHANGED result
  /\ UNCHANGED <<event, slot, storing, got, used, sent>>

\* _guard_event.wait: returns at once if the flag is up, else blocks.
Wait(l) ==
  /\ pc[l] = "wait"
  /\ Goto(l, IF event THEN "take" ELSE "blocked")
  /\ UNCHANGED <<event, slot, storing, got, used, asked, sent, result>>

\* Faulty: the wait has no timeout.
WaitForever(l) ==
  /\ pc[l] = "blocked"
  /\ event
  /\ Finish(l, "no_code")
  /\ UNCHANGED <<event, slot, storing, got, used, asked, sent>>

\* GUARD_CODE_TIMEOUT_SECONDS passed.
WaitTimeout(l) ==
  /\ pc[l] = "blocked"
  /\ Finish(l, "no_code")
  /\ UNCHANGED <<event, slot, storing, got, used, asked, sent>>

\* Faulty: the slot is read and not emptied.
TakeKeepsCode(l) ==
  /\ pc[l] = "take"
  /\ got' = [got EXCEPT ![l] = slot]
  /\ Goto(l, "clear")
  /\ UNCHANGED <<event, slot, storing, used, asked, sent, result>>

\* Under _guard_lock: take the code and empty the slot.
Take(l) ==
  /\ pc[l] = "take"
  /\ got' = [got EXCEPT ![l] = slot]
  /\ slot' = None
  /\ Goto(l, "clear")
  /\ UNCHANGED <<event, storing, used, asked, sent, result>>

\* Faulty: the event stays set after a code was taken.
ClearForgotten(l) ==
  /\ pc[l] = "clear"
  /\ \/ got[l] = None /\ Finish(l, "empty")
     \/ got[l] # None /\ Goto(l, "update") /\ UNCHANGED result
  /\ UNCHANGED <<event, slot, storing, got, used, asked, sent>>

\* After the lock: clear the event; no code is an error.
Clear(l) ==
  /\ pc[l] = "clear"
  /\ event' = FALSE
  /\ \/ got[l] = None /\ Finish(l, "empty")
     \/ got[l] # None /\ Goto(l, "update") /\ UNCHANGED result
  /\ UNCHANGED <<slot, storing, got, used, asked, sent>>

\* UpdateAuthSessionWithSteamGuardCode; whether Steam liked the code is not
\* looked at.
Update(l) ==
  /\ pc[l] = "update"
  /\ used' = [used EXCEPT ![l] = got[l]]
  /\ \/ Goto(l, "poll") /\ UNCHANGED result
     \/ Finish(l, "steam_error")
  /\ UNCHANGED <<event, slot, storing, got, asked, sent>>

\* _poll_to_refresh_token: Steam issues a token once the login is confirmed, by a
\* code of this login if one was wanted; or the deadline passes.
Poll(l) ==
  /\ pc[l] = "poll"
  /\ \/ /\ l \in asked => used[l].login = l
        /\ Finish(l, "linked")
     \/ \E res \in {"timeout", "steam_error"} : Finish(l, res)
  /\ UNCHANGED <<event, slot, storing, got, used, asked, sent>>

----------------------------------------------------------------------------
(* submit_guard_code, on the command-stream thread.  The request_id of the *)
(* command is not looked at, and the code may come before the LinkAccount  *)
(* of its login, or without it: workers/link.go sends a code to the worker *)
(* that is current, which need not be the one that runs the login.         *)

SubmitStore(l) ==
  /\ ~storing
  /\ sent[l] < MaxSubmits
  /\ sent' = [sent EXCEPT ![l] = @ + 1]
  /\ slot' = [login |-> l, n |-> sent[l] + 1]
  /\ storing' = TRUE
  /\ inTurn' = (inTurn /\ l \in asked /\ sent[l] = 0)
  /\ UNCHANGED <<event, pc, got, used, asked, result>>

\* _guard_event.set wakes every thread blocked in wait.
SubmitSet ==
  /\ storing
  /\ storing' = FALSE
  /\ event' = TRUE
  /\ pc' = [l \in Logins |-> IF pc[l] = "blocked" THEN "take" ELSE pc[l]]
  /\ UNCHANGED <<slot, got, used, asked, sent, result, inTurn>>

----------------------------------------------------------------------------
Thread(l) == /\ \/ Begin(l) \/ Wait(l) \/ WaitTimeout(l) \/ Take(l) \/ Clear(l)
                \/ Update(l) \/ Poll(l)
             /\ UNCHANGED inTurn

Next ==
  \/ \E l \in Logins : StartLogin(l) \/ SubmitStore(l) \/ Thread(l)
  \/ SubmitSet

Spec == Init /\ [][Next]_vars

\* Threads run, and their waits and polls have deadlines.
FairSpec == Spec /\ (\A l \in Logins : WF_vars(Thread(l))) /\ WF_vars(SubmitSet)

----------------------------------------------------------------------------
\* A code reaches at most one login: taking it and emptying the slot are one
\* critical section, although both sides touch the event outside of it.
CodeUsedOnce ==
  \A l, m \in Logins : got[l] # None /\ got[l] = got[m] => l = m

NobodyGaveUp == \A l \in Logins : result[l] # "no_code"

\* As long as logins come one at a time, as agent.py:178-179 assumes, and users
\* send one code for each prompt, a code serves the login it was sent for and no
\* login wakes up to an empty slot, until one gives up waiting: a code that loses
\* the race with that timeout stays in the slot, and the next login finds it.
RoutedUnlessGivenUp ==
  inTurn /\ NobodyGaveUp =>
    \A l \in Logins : /\ used[l] # None => used[l].login = l
                      /\ result[l] # "empty"

\* Every login thread ends in a LinkResult: no order of prompts, codes and
\* timeouts leaves one waiting for ever.
EveryLoginAnswers == \A l \in Logins : (pc[l] = "begin") ~> (pc[l] = "done")
=============================================================================
