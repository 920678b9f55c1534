---------------------------- MODULE Friends_proofs ----------------------------
(***************************************************************************)
(* TLAPS proofs about Friends, for any users, accounts, rows and requests. *)
(***************************************************************************)
EXTENDS Friends, TLAPS

Bound     == {"check", "connect", "await", "refused", "granted", "read"}
Borrowing == {"connect", "await", "refused", "granted", "read"}

RowOK(i) ==
  /\ i \notin born => owner[i] = None
  /\ owner[i] = None => token[i] = None /\ steamId[i] = None
  /\ steamId[i] \in {token[i], None}

\* A request that went past its row keeps the row's id, and the token that
\* this row has for as long as it exists.
RequestOK(r) ==
  /\ hpc[r] \in {"idle", "ask"} => wpc[r] = "none"
  /\ hpc[r] = "idle" => rowner[r] = None
  /\ hpc[r] \in {"ask", "wait", "backfill"} \/ wpc[r] # "none" =>
       /\ hrow[r] \in born /\ htoken[r] # None
       /\ owner[hrow[r]] # None => token[hrow[r]] = htoken[r]
  /\ rowner[r] \in {htoken[r], None}
  /\ wpc[r] = "bind" \/ wpc[r] \in Bound => client # None
  /\ wpc[r] \in Bound => mine[r] # None
  /\ wpc[r] \in Borrowing => lent[r] # None

RowInv == TypeOK /\ (\A i \in Rows : RowOK(i)) /\ (\A r \in Requests : RequestOK(r))

\* What a thread that has the session to itself may rely on.
ThreadOK(r) ==
  /\ wpc[r] = "create" => client = None
  /\ wpc[r] \in Bound => mine[r] = client
  /\ wpc[r] \in Borrowing => lent[r] = client
  /\ wpc[r] = "granted" => session[client] \in {htoken[r], None}
  /\ wpc[r] = "read" => warm = htoken[r]
  /\ rfriends[r] \in {rowner[r], None}

\* The session is the one _steam_id names, unless a thread is about to say so;
\* a logon under way is that of the thread awaiting it.
ClientOK(c) ==
  /\ session[c] # None \/ logons[c] # {} => c = client
  /\ \A a \in logons[c] : \E r \in Requests : wpc[r] = "await" /\ htoken[r] = a
  /\ session[c] \in {warm, None}
       \/ \E r \in Requests : wpc[r] = "granted" /\ htoken[r] = session[c]

OneActive == \A q, r \in Requests : Active(q) /\ Active(r) => q = r

TurnInv ==
  ~disturbed => /\ OneActive
                /\ \A r \in Requests : ThreadOK(r)
                /\ \A c \in Clients : ClientOK(c)

\* No row is there and no request has begun.
LEMMA RowInvInit == Init => RowInv
<1> SUFFICES ASSUME Init PROVE RowInv
  OBVIOUS
<1>1. TypeOK
  BY DEF Init, TypeOK, HandlerPcs, ThreadPcs, Clients
<1>2. ASSUME NEW i \in Rows PROVE RowOK(i)
  BY DEF Init, RowOK
<1>3. ASSUME NEW r \in Requests PROVE RequestOK(r)
  BY DEF Init, RequestOK, Borrowing, Bound
<1>4. QED
  BY <1>1, <1>2, <1>3 DEF RowInv

\* No step separates a request from the row it read.
LEMMA RowInvNext ==
  ASSUME RowInv, [Next]_vars
  PROVE  RowInv'
<1> USE ConstAssumption DEF RowInv, TypeOK, RowOK, RequestOK, Borrowing, Bound, HandlerPcs, ThreadPcs, Clients, vars, rowVars, handlerVars, resultVars, threadVars, steamVars
<1>1. CASE \E u \in Users, i \in Rows : Create(u, i)
  BY <1>1 DEF Create
<1>2. CASE \E i \in Rows, a \in Accounts, id \in Accounts \cup {None} : Linked(i, a, id)
  BY <1>2 DEF Linked
<1>3. CASE \E i \in Rows : Delete(i)
  BY <1>3 DEF Delete
<1>4. CASE \E r \in Requests, u \in Users : Conflict(r, u)
  BY <1>4 DEF Conflict, SetHandler
<1>5. CASE \E r \in Requests, u \in Users, i \in Rows : Read(r, u, i)
  BY <1>5 DEF Read, SetHandler
<1>6. CASE \E r \in Requests : Ask(r)
  BY <1>6 DEF Ask, SetHandler
<1>7. CASE \E r \in Requests : ReceiveError(r)
  BY <1>7 DEF ReceiveError, SetHandler
<1>8. CASE \E r \in Requests : Receive(r)
  BY <1>8 DEF Receive, SetHandler
<1>9. CASE \E r \in Requests : GiveUp(r)
  BY <1>9 DEF GiveUp, SetHandler
<1>10. CASE \E r \in Requests : Respond(r)
  BY <1>10 DEF Respond, SetHandler, SetSteamID
<1>11. CASE \E r \in Requests : Ensure(r)
  BY <1>11 DEF Ensure, At, Goto
<1>12. CASE \E r \in Requests : CreateClient(r)
  BY <1>12 DEF CreateClient, At, Goto
<1>13. CASE \E r \in Requests : BindClient(r)
  BY <1>13 DEF BindClient, At, Goto
<1>14. CASE \E r \in Requests : CheckLogin(r)
  BY <1>14 DEF CheckLogin, At, Goto, AlreadyLoggedOn
<1>15. CASE \E r \in Requests : SendLogon(r)
  BY <1>15 DEF SendLogon, At, Goto
<1>16. CASE \E r \in Requests : PreLoginFails(r)
  BY <1>16 DEF PreLoginFails, At, Goto
<1>17. CASE \E r \in Requests : LogonTimesOut(r)
  BY <1>17 DEF LogonTimesOut, At, Goto
<1>18. CASE \E r \in Requests : LoginRefused(r)
  BY <1>18 DEF LoginRefused, At, Goto
<1>19. CASE \E r \in Requests : LoggedIn(r)
  BY <1>19 DEF LoggedIn, At, Goto
<1>20. CASE \E r \in Requests : ReadFriends(r)
  BY <1>20 DEF ReadFriends, At, Goto
<1>21. CASE \E r \in Requests : ReportFailure(r)
  BY <1>21 DEF ReportFailure, At, Goto
<1>22. CASE \E c \in Clients, a \in Accounts : CMGrants(c, a)
  BY <1>22 DEF CMGrants, Woken, At
<1>23. CASE \E c \in Clients, a \in Accounts : CMRefuses(c, a)
  BY <1>23 DEF CMRefuses, Woken, At
<1>24. CASE \E c \in Clients : CMDrops(c)
  BY <1>24 DEF CMDrops
<1>25. CASE UNCHANGED vars
  BY <1>25
<1>26. QED
  BY <1>1, <1>2, <1>3, <1>4, <1>5, <1>6, <1>7, <1>8, <1>9, <1>10, <1>11, <1>12, <1>13, <1>14, <1>15, <1>16, <1>17, <1>18, <1>19, <1>20, <1>21, <1>22, <1>23, <1>24, <1>25 DEF Next, RowNext, HandlerNext, ThreadNext, CMNext

\* RowInv, which both theorems about rows rest on.
LEMMA RowInvariance == Spec => []RowInv
BY RowInvInit, RowInvNext, PTL DEF Spec

\* Friends: every variable keeps its type.
THEOREM TypeCorrect == Spec => []TypeOK
<1>1. RowInv => TypeOK
  BY DEF RowInv
<1>2. QED
  BY <1>1, RowInvariance, PTL

\* Friends: a row's steam_id is the account of its token, or unknown.
THEOREM SteamIdTheorem == Spec => []SteamIdNamesToken
<1>1. RowInv => SteamIdNamesToken
  BY DEF RowInv, RowOK, SteamIdNamesToken
<1>2. QED
  BY <1>1, RowInvariance, PTL

\* No thread is active at first, and no client is logged on.
LEMMA TurnInvInit == Init => TurnInv
BY ConstAssumption, SMTT(60) DEF Init, TurnInv, OneActive, Active, ThreadOK, ClientOK, Borrowing, Bound

\* While threads take turns, each finds the session as the one before left it.
LEMMA TurnInvNext ==
  ASSUME RowInv, TurnInv, [Next]_vars
  PROVE  TurnInv'
<1> USE ConstAssumption DEF TurnInv, OneActive, Active, ThreadOK, ClientOK, RowInv, RequestOK, TypeOK, Borrowing, Bound, Clients, vars, rowVars, handlerVars, resultVars, threadVars, steamVars
<1>1. CASE \E u \in Users, i \in Rows : Create(u, i)
  BY <1>1 DEF Create
<1>2. CASE \E i \in Rows, a \in Accounts, id \in Accounts \cup {None} : Linked(i, a, id)
  BY <1>2 DEF Linked
<1>3. CASE \E i \in Rows : Delete(i)
  BY <1>3 DEF Delete
<1>4. CASE \E r \in Requests, u \in Users : Conflict(r, u)
  BY <1>4 DEF Conflict, SetHandler
<1>5. CASE \E r \in Requests, u \in Users, i \in Rows : Read(r, u, i)
  BY <1>5 DEF Read, SetHandler
<1>6. CASE \E r \in Requests : Ask(r)
  <2>1. PICK r \in Requests : Ask(r)
    BY <1>6
  <2>2. SUFFICES ASSUME ~disturbed' PROVE TurnInv'
    OBVIOUS
  <2>3. /\ \A q \in Requests : ThreadOK(q)
        /\ \A c \in Clients : ClientOK(c)
        /\ \A q \in Requests : ~Active(q)
        /\ wpc' = [wpc EXCEPT ![r] = "ensure"]
    BY <2>1, <2>2 DEF Ask
  <2>4. OneActive'
    BY <2>3
  <2>5. \A q \in Requests : ThreadOK(q)'
    BY <2>1, <2>3 DEF Ask, SetHandler
  <2>6. \A c \in Clients : ClientOK(c)'
    BY <2>1, <2>3 DEF Ask, SetHandler
  <2>7. QED
    BY <2>4, <2>5, <2>6
<1>7. CASE \E r \in Requests : ReceiveError(r)
  BY <1>7 DEF ReceiveError, SetHandler
<1>8. CASE \E r \in Requests : Receive(r)
  BY <1>8 DEF Receive, SetHandler
<1>9. CASE \E r \in Requests : GiveUp(r)
  BY <1>9 DEF GiveUp, SetHandler
<1>10. CASE \E r \in Requests : Respond(r)
  BY <1>10 DEF Respond, SetHandler, SetSteamID
<1>11. CASE \E r \in Requests : Ensure(r)
  BY <1>11 DEF Ensure, At, Goto
<1>12. CASE \E r \in Requests : CreateClient(r)
  BY <1>12 DEF CreateClient, At, Goto
<1>13. CASE \E r \in Requests : BindClient(r)
  BY <1>13 DEF BindClient, At, Goto
<1>14. CASE \E r \in Requests : CheckLogin(r)
  BY <1>14 DEF CheckLogin, At, Goto, AlreadyLoggedOn
<1>15. CASE \E r \in Requests : SendLogon(r)
  BY <1>15 DEF SendLogon, At, Goto
<1>16. CASE \E r \in Requests : PreLoginFails(r)
  BY <1>16 DEF PreLoginFails, At, Goto
<1>17. CASE \E r \in Requests : LogonTimesOut(r)
  BY <1>17 DEF LogonTimesOut, At, Goto
<1>18. CASE \E r \in Requests : LoginRefused(r)
  BY <1>18 DEF LoginRefused, At, Goto
<1>19. CASE \E r \in Requests : LoggedIn(r)
  BY <1>19 DEF LoggedIn, At, Goto
<1>20. CASE \E r \in Requests : ReadFriends(r)
  BY <1>20 DEF ReadFriends, At, Goto
<1>21. CASE \E r \in Requests : ReportFailure(r)
  BY <1>21 DEF ReportFailure, At, Goto
<1>22. CASE \E c \in Clients, a \in Accounts : CMGrants(c, a)
  BY <1>22 DEF CMGrants, Woken, At
<1>23. CASE \E c \in Clients, a \in Accounts : CMRefuses(c, a)
  BY <1>23 DEF CMRefuses, Woken, At
<1>24. CASE \E c \in Clients : CMDrops(c)
  BY <1>24 DEF CMDrops
<1>25. CASE UNCHANGED vars
  BY <1>25
<1>26. QED
  BY <1>1, <1>2, <1>3, <1>4, <1>5, <1>6, <1>7, <1>8, <1>9, <1>10, <1>11, <1>12, <1>13, <1>14, <1>15, <1>16, <1>17, <1>18, <1>19, <1>20, <1>21, <1>22, <1>23, <1>24, <1>25 DEF Next, RowNext, HandlerNext, ThreadNext, CMNext

\* Friends: with one list_friends thread at a time and no logon timing out,
\* a friend list is never reported for another account than its own.
THEOREM OwnFriendsTheorem == Spec => []OwnFriendsInTurn
<1>1. TurnInv => OwnFriendsInTurn
  BY DEF TurnInv, ThreadOK, OwnFriendsInTurn
<1>2. QED
  BY <1>1, RowInvariance, TurnInvInit, TurnInvNext, PTL DEF Spec
===============================================================================
