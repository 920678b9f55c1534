------------------------- MODULE GuardHandoff_proofs -------------------------
(* Proofs about GuardHandoff for any number of logins and submitted codes.   *)
EXTENDS GuardHandoff, TLAPS

\* A code is numbered by the submissions for its login so far, so that a stored
\* code differs from every code taken before.
Numbered(c) == c # None => c.n <= sent[c.login]

IndInv ==
  /\ TypeOK
  /\ CodeUsedOnce
  /\ Numbered(slot)
  /\ \A l \in Logins : Numbered(got[l]) /\ (slot # None => got[l] # slot)

\* The slot and the threads hold distinct codes, whatever the order of steps.
LEMMA IndStep ==
  ASSUME IndInv, [Next]_vars
  PROVE  IndInv'
  <1> USE ConstAssumption, NoneIsNoCode DEF IndInv, TypeOK, CodeUsedOnce, Numbered
  <1>0. CASE UNCHANGED vars
    BY <1>0 DEF vars
  <1>1. ASSUME NEW l \in Logins, StartLogin(l) PROVE IndInv'
    BY <1>1 DEF StartLogin, Goto, Pcs
  <1>2. ASSUME NEW l \in Logins, Begin(l), UNCHANGED inTurn PROVE IndInv'
    BY <1>2 DEF Begin, Finish, Goto, Pcs, Results
  <1>3. ASSUME NEW l \in Logins, Wait(l), UNCHANGED inTurn PROVE IndInv'
    BY <1>3 DEF Wait, Goto, Pcs
  <1>4. ASSUME NEW l \in Logins, WaitTimeout(l), UNCHANGED inTurn PROVE IndInv'
    BY <1>4 DEF WaitTimeout, Finish, Goto, Pcs, Results
  <1>5. ASSUME NEW l \in Logins, Take(l), UNCHANGED inTurn PROVE IndInv'
    BY <1>5 DEF Take, Goto, Pcs
  <1>6. ASSUME NEW l \in Logins, Clear(l), UNCHANGED inTurn PROVE IndInv'
    <2>1. /\ event' = FALSE /\ UNCHANGED <<slot, storing, inTurn, got, used, asked, sent>>
          /\ \E at \in Pcs : pc' = [pc EXCEPT ![l] = at]
          /\ result' = result \/ \E res \in Results : result' = [result EXCEPT ![l] = res]
      BY <1>6 DEF Clear, Finish, Goto, Pcs, Results
    <2>2. pc' \in [Logins -> Pcs] /\ result' \in [Logins -> Results]
      BY <2>1
    <2> QED BY <2>1, <2>2
  <1>7. ASSUME NEW l \in Logins, Update(l), UNCHANGED inTurn PROVE IndInv'
    <2>1. /\ UNCHANGED <<event, slot, storing, inTurn, got, asked, sent>>
          /\ used' = [used EXCEPT ![l] = got[l]]
          /\ \E at \in Pcs : pc' = [pc EXCEPT ![l] = at]
          /\ result' = result \/ \E res \in Results : result' = [result EXCEPT ![l] = res]
      BY <1>7 DEF Update, Finish, Goto, Pcs, Results
    <2>2. /\ pc' \in [Logins -> Pcs] /\ result' \in [Logins -> Results]
          /\ used' \in [Logins -> Code \cup {None}]
      BY <2>1
    <2> QED BY <2>1, <2>2
  <1>8. ASSUME NEW l \in Logins, Poll(l), UNCHANGED inTurn PROVE IndInv'
    BY <1>8 DEF Poll, Finish, Goto, Pcs, Results
  <1>9. ASSUME NEW l \in Logins, SubmitStore(l) PROVE IndInv'
    BY <1>9 DEF SubmitStore, Code
  <1>10. CASE SubmitSet
    BY <1>10 DEF SubmitSet, Pcs
  <1> QED
    BY <1>0, <1>1, <1>2, <1>3, <1>4, <1>5, <1>6, <1>7, <1>8, <1>9, <1>10 DEF Next, Thread

\* The initial state: an empty slot and no login.
LEMMA IndInit == Init => IndInv
  <1>1. Init => TypeOK
    <2>1. Init => event \in BOOLEAN /\ storing \in BOOLEAN /\ inTurn \in BOOLEAN
      BY Zenon DEF Init
    <2>2. Init => /\ pc \in [Logins -> Pcs]
                  /\ result \in [Logins -> Results]
                  /\ sent \in [Logins -> 0..MaxSubmits]
                  /\ got \in [Logins -> Code \cup {None}]
                  /\ used \in [Logins -> Code \cup {None}]
                  /\ slot \in Code \cup {None}
                  /\ asked \in SUBSET Logins
      BY ConstAssumption DEF Init, Pcs, Results
    <2> QED BY <2>1, <2>2 DEF TypeOK
  <1>2. Init => CodeUsedOnce /\ Numbered(slot) /\ \A l \in Logins : Numbered(got[l])
    BY DEF Init, CodeUsedOnce, Numbered
  <1>3. Init => slot = None
    BY DEF Init
  <1> QED BY <1>1, <1>2, <1>3 DEF IndInv

\* The slot and the codes, as every state of the worker has them.
THEOREM Invariance == Spec => []IndInv
  BY IndInit, IndStep, PTL DEF Spec

\* The slot, the event and the threads keep their types.
THEOREM TypeCorrect == Spec => []TypeOK
  BY Invariance, PTL DEF IndInv

\* A Steam Guard code reaches at most one login, for any number of concurrent
\* logins and of submissions.
THEOREM CodeUsedOnceTheorem == Spec => []CodeUsedOnce
  BY Invariance, PTL DEF IndInv

----------------------------------------------------------------------------
(* One login at a time, one code per prompt.                               *)

\* A code in the slot is for the login in flight, which has not taken one.
SlotInv ==
  /\ slot # None => slot.login \in Logins /\ pc[slot.login] \in {"wait", "blocked", "take"}
  /\ storing => slot # None /\ ~event
  /\ slot # None => storing \/ event
  /\ event => \E l \in Logins : pc[l] \in {"wait", "take", "clear"}

\* What a login in each position knows of the slot and of its own code.
LoginInv(l) ==
  /\ pc[l] \in {"idle", "begin"} => l \notin asked
  /\ l \notin asked => sent[l] = 0 /\ got[l] = None /\ used[l] = None
  /\ pc[l] \in {"wait", "blocked", "take", "clear"} => l \in asked
  /\ pc[l] = "wait" /\ event => slot # None /\ ~storing
  /\ pc[l] = "blocked" => ~event
  /\ pc[l] = "take" => slot # None /\ event /\ ~storing
  /\ pc[l] = "clear" => got[l] # None /\ slot = None /\ ~storing
  /\ pc[l] = "clear" => event
  /\ pc[l] = "update" => got[l] # None
  /\ l \in asked /\ pc[l] \in {"take", "clear", "update", "poll", "done"} => sent[l] = 1
  /\ got[l] # None => got[l].login = l
  /\ used[l] # None => used[l].login = l
  /\ result[l] # "empty"

OneInv == \A l, m \in Logins : InFlight(l) /\ InFlight(m) => l = m

RouteInv ==
  /\ \A l \in Logins : result[l] # "none" => pc[l] = "done"
  /\ \A l \in Logins : sent[l] \in {0, 1}
  /\ OneInv
  /\ NobodyGaveUp => SlotInv /\ \A l \in Logins : LoginInv(l)

\* The code in the slot is the one its user may send.
LEMMA SlotSent ==
  ASSUME IndInv, RouteInv, SlotInv, slot # None
  PROVE  sent[slot.login] = 1
  BY ConstAssumption, NoneIsNoCode DEF RouteInv, IndInv, TypeOK, Numbered, SlotInv, Code

\* Logins and codes that once were out of turn stay so.
LEMMA TurnStep == [Next]_vars => (inTurn' => inTurn)
  BY DEF Next, vars, StartLogin, SubmitStore, SubmitSet, Thread

\* In turn and until a login gives up, the slot serves the one in flight.
LEMMA RouteStep ==
  ASSUME IndInv, RouteInv, [Next]_vars, inTurn'
  PROVE  RouteInv'
  <1> USE ConstAssumption, NoneIsNoCode
      DEF IndInv, TypeOK, RouteInv, OneInv, SlotInv, LoginInv, InFlight, NobodyGaveUp, Pcs, Code
  <1>0. CASE UNCHANGED vars
    BY <1>0, ZenonT(60) DEF vars
  <1>1. ASSUME NEW l \in Logins, StartLogin(l) PROVE RouteInv'
    BY <1>1, ZenonT(60) DEF StartLogin, Goto
  <1>2. ASSUME NEW l \in Logins, Begin(l) PROVE RouteInv'
    BY <1>2 DEF Begin, Finish, Goto
  <1>3. ASSUME NEW l \in Logins, Wait(l) PROVE RouteInv'
    <2>1. NobodyGaveUp /\ event => sent[l] = 1
      <3> SUFFICES ASSUME NobodyGaveUp, event PROVE sent[l] = 1
        OBVIOUS
      <3>1. slot # None /\ slot.login = l
        BY <1>3 DEF Wait
      <3> QED
        BY <3>1, SlotSent
    <2> QED
      BY <1>3, <2>1 DEF Wait, Goto
  <1>4. ASSUME NEW l \in Logins, WaitTimeout(l) PROVE RouteInv'
    BY <1>4 DEF WaitTimeout, Finish, Goto, Results
  <1>5. ASSUME NEW l \in Logins, Take(l) PROVE RouteInv'
    BY <1>5 DEF Take, Goto
  <1>6. ASSUME NEW l \in Logins, Clear(l) PROVE RouteInv'
    BY <1>6, SMTT(60) DEF Clear, Finish, Goto
  <1>7. ASSUME NEW l \in Logins, Update(l) PROVE RouteInv'
    BY <1>7 DEF Update, Finish, Goto
  <1>8. ASSUME NEW l \in Logins, Poll(l) PROVE RouteInv'
    BY <1>8 DEF Poll, Finish, Goto
  <1>9. ASSUME NEW l \in Logins, SubmitStore(l) PROVE RouteInv'
    <2>1. sent[l] = 0 /\ l \in asked
      BY <1>9 DEF SubmitStore
    <2>2. /\ slot' \in Code /\ slot' # None /\ slot'.login = l /\ storing'
          /\ sent' = [sent EXCEPT ![l] = 1]
      BY <1>9, <2>1 DEF SubmitStore
    <2>3. UNCHANGED <<event, pc, got, used, asked, result>>
      BY <1>9 DEF SubmitStore
    <2>4. NobodyGaveUp => pc[l] \in {"wait", "blocked"} /\ ~event
      <3> SUFFICES ASSUME NobodyGaveUp PROVE pc[l] \in {"wait", "blocked"} /\ ~event
        OBVIOUS
      <3>1. pc[l] \in {"wait", "blocked"}
        BY <2>1
      <3>2. event => slot # None /\ slot.login = l
        BY <3>1
      <3> QED
        BY <2>1, <3>1, <3>2, SlotSent
    <2>5. OneInv' /\ \A m \in Logins : result'[m] # "none" => pc'[m] = "done"
      BY <2>3
    <2>6. \A m \in Logins : sent'[m] \in {0, 1}
      BY <2>2
    <2>7. NobodyGaveUp => \A m \in Logins : m # l => pc[m] \in {"idle", "done"}
      BY <2>4
    <2>8. NobodyGaveUp => SlotInv'
      BY <2>2, <2>3, <2>4
    <2>9. NobodyGaveUp => \A m \in Logins : LoginInv(m)'
      BY <2>1, <2>2, <2>3, <2>4, <2>7
    <2>10. NobodyGaveUp' => NobodyGaveUp
      BY <2>3
    <2> QED
      BY <2>5, <2>8, <2>9, <2>10, <2>6
  <1>10. CASE SubmitSet
    <2>1. /\ storing /\ ~storing' /\ event' = TRUE
          /\ pc' = [l \in Logins |-> IF pc[l] = "blocked" THEN "take" ELSE pc[l]]
          /\ UNCHANGED <<slot, got, used, asked, sent, result>>
      BY <1>10 DEF SubmitSet
    <2>2. NobodyGaveUp' => NobodyGaveUp
      BY <2>1
    <2>3. OneInv' /\ \A m \in Logins : result'[m] # "none" => pc'[m] = "done"
      BY <2>1
    <2>4. \A m \in Logins : sent'[m] \in {0, 1}
      BY <2>1
    <2>5. NobodyGaveUp => /\ slot # None /\ pc[slot.login] \in {"wait", "blocked"}
                          /\ sent[slot.login] = 1
      BY <2>1, SlotSent
    <2>6. NobodyGaveUp => \A m \in Logins : m # slot.login => pc[m] \in {"idle", "done"}
      BY <2>5
    <2>7. NobodyGaveUp => SlotInv'
      BY <2>1, <2>5
    <2>8. NobodyGaveUp => \A m \in Logins : LoginInv(m)'
      BY <2>1, <2>5, <2>6
    <2> QED
      BY <2>2, <2>3, <2>7, <2>8, <2>4
  <1> QED
    BY <1>0, <1>1, <1>2, <1>3, <1>4, <1>5, <1>6, <1>7, <1>8, <1>9, <1>10 DEF Next, Thread

\* A code serves the login it was sent for, until a login gives up waiting, for any
\* number of logins that come one at a time with one code for each prompt.
THEOREM RoutedTheorem == Spec => []RoutedUnlessGivenUp
  <1>1. Init => RouteInv
    BY NoneIsNoCode DEF Init, RouteInv, OneInv, SlotInv, LoginInv, InFlight
  <1>2. IndInv /\ (inTurn => RouteInv) /\ [Next]_vars => (inTurn => RouteInv)'
    BY RouteStep, TurnStep
  <1>3. (inTurn => RouteInv) => RoutedUnlessGivenUp
    BY DEF RouteInv, LoginInv, RoutedUnlessGivenUp
  <1> QED
    BY <1>1, <1>2, <1>3, Invariance, PTL DEF Spec

----------------------------------------------------------------------------
(* What a waiting login can count on: EveryLoginAnswers without its fairness *)

\* At most how many steps a thread has before it answers, from each position.
Left(at) ==
  CASE at = "idle"  -> 8 [] at = "begin"  -> 7 [] at = "wait" -> 6 [] at = "blocked" -> 5
    [] at = "take"  -> 4 [] at = "clear"  -> 3 [] at = "update" -> 2 [] at = "poll" -> 1
    [] OTHER -> 0

Advances(l) == /\ Left(pc'[l]) <= Left(pc[l])
               /\ Thread(l) => Left(pc'[l]) < Left(pc[l])

\* A step of one thread moves it towards its answer and leaves the others where they
\* are, except that a code lets the blocked ones go on.
LEMMA AdvanceStep ==
  ASSUME TypeOK, [Next]_vars, NEW l \in Logins
  PROVE  Advances(l)
  <1> USE DEF TypeOK, Pcs, Left
  <1>1. ASSUME NEW m \in Logins, Thread(m) PROVE Left(pc'[m]) < Left(pc[m])
    BY <1>1 DEF Thread, Begin, Wait, WaitTimeout, Take, Clear, Update, Poll, Finish, Goto
  <1>2. ASSUME NEW m \in Logins, Thread(m), m # l PROVE pc'[l] = pc[l]
    BY <1>2 DEF Thread, Begin, Wait, WaitTimeout, Take, Clear, Update, Poll, Finish, Goto
  <1>3. ASSUME NEW m \in Logins, StartLogin(m) \/ SubmitStore(m)
        PROVE  Left(pc'[l]) <= Left(pc[l])
    BY <1>3 DEF StartLogin, SubmitStore, Goto
  <1>4. SubmitSet => Left(pc'[l]) <= Left(pc[l])
    BY DEF SubmitSet
  <1>5. UNCHANGED vars => Left(pc'[l]) <= Left(pc[l])
    BY DEF vars
  <1>6. Left(pc'[l]) <= Left(pc[l])
    BY <1>1, <1>2, <1>3, <1>4, <1>5 DEF Next
  <1> QED
    BY <1>1, <1>6 DEF Advances

\* No interleaving of prompts, codes and timeouts sends a login back: each of its own
\* steps brings it nearer to its LinkResult and no step of another thread takes it
\* further away, so that a thread that is scheduled answers after at most eight steps.
THEOREM LoginsAdvance == Spec => [][\A l \in Logins : Advances(l)]_vars
  <1>1. TypeOK /\ [Next]_vars => [\A l \in Logins : Advances(l)]_vars
    BY AdvanceStep
  <1> QED
    BY <1>1, TypeCorrect, PTL DEF Spec
=============================================================================
