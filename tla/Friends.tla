------------------------------- MODULE Friends -------------------------------
(***************************************************************************)
(* GET /friends end to end: the handler in control-plane/internal/api, the *)
(* steam_accounts rows it reads and backfills, and the worker's threads on *)
(* the one warm python-steam session (worker/steam_client.py).             *)
(*                                                                         *)
(* A refresh token is named after the Steam account in its sub claim, and  *)
(* a friend list after the account whose friends it holds.  The stream in  *)
(* between is WorkerStream's concern, missing keys are KeySession's; here  *)
(* a command arrives and its answer comes back or is given up on.  A       *)
(* SteamClient is named after the request whose thread created it.         *)
(***************************************************************************)
EXTENDS Naturals

CONSTANTS Users, Accounts,
          Rows,      \* ids of steam_accounts rows
          Requests,  \* requests GET /friends
          None       \* NULL, "" and Python's None; as a friend list, the empty one

ASSUME ConstAssumption ==
  None \notin Users /\ None \notin Accounts /\ None \notin Rows /\ None \notin Requests

VARIABLES
  owner, token, steamId,   \* steam_accounts: user_id, refresh token, steam_id
  born,      \* row ids generated so far
  hpc,       \* per request: position of the handler
  hrow, htoken, hblank,    \* per request: the row it read, its token, steam_id = ""
  wpc,       \* per request: position of the worker thread
  mine,      \* per request: the client list_friends holds
  lent,      \* per request: the client login_with_token holds
  rowner, rfriends,        \* per request: owner_steam_id and friends of its FriendsResult
  client,    \* SteamSession._client
  warm,      \* SteamSession._steam_id
  session,   \* per client: the account the CM has it logged on as
  logons,    \* per client: accounts with a ClientLogon the CM has not answered
  disturbed  \* two threads were active at once, or a logon wait timed out

rowVars     == <<owner, token, steamId, born>>
handlerVars == <<hpc, hrow, htoken, hblank>>
resultVars  == <<rowner, rfriends>>
threadVars  == <<wpc, mine, lent, resultVars>>
steamVars   == <<client, warm, session, logons>>
vars == <<rowVars, handlerVars, threadVars, steamVars, disturbed>>

Clients == Requests

HandlerPcs == {"idle", "ask", "wait", "backfill", "done"}
ThreadPcs  == {"none", "ensure", "create", "bind", "check", "connect", "await",
               "refused", "granted", "read", "failed", "answered"}

TypeOK ==
  /\ owner \in [Rows -> Users \cup {None}]
  /\ token \in [Rows -> Accounts \cup {None}]
  /\ steamId \in [Rows -> Accounts \cup {None}]
  /\ born \in SUBSET Rows
  /\ hpc \in [Requests -> HandlerPcs]
  /\ hrow \in [Requests -> Rows \cup {None}]
  /\ htoken \in [Requests -> Accounts \cup {None}]
  /\ hblank \in [Requests -> BOOLEAN]
  /\ wpc \in [Requests -> ThreadPcs]
  /\ mine \in [Requests -> Clients \cup {None}]
  /\ lent \in [Requests -> Clients \cup {None}]
  /\ rowner \in [Requests -> Accounts \cup {None}]
  /\ rfriends \in [Requests -> Accounts \cup {None}]
  /\ client \in Clients \cup {None}
  /\ warm \in Accounts \cup {None}
  /\ session \in [Clients -> Accounts \cup {None}]
  /\ logons \in [Clients -> SUBSET Accounts]
  /\ disturbed \in BOOLEAN

Init ==
  /\ owner = [i \in Rows |-> None] /\ token = [i \in Rows |-> None]
  /\ steamId = [i \in Rows |-> None] /\ born = {}
  /\ hpc = [r \in Requests |-> "idle"]
  /\ hrow = [r \in Requests |-> None] /\ htoken = [r \in Requests |-> None]
  /\ hblank = [r \in Requests |-> FALSE]
  /\ wpc = [r \in Requests |-> "none"]
  /\ mine = [r \in Requests |-> None] /\ lent = [r \in Requests |-> None]
  /\ rowner = [r \in Requests |-> None] /\ rfriends = [r \in Requests |-> None]
  /\ client = None /\ warm = None
  /\ session = [c \in Clients |-> None] /\ logons = [c \in Clients |-> {}]
  /\ disturbed = FALSE

----------------------------------------------------------------------------
(* The rows, as AccountLink leaves them: pending, linked, deleted.         *)

\* POST /steam/accounts: a row without credentials.
Create(u, i) ==
  /\ \A j \in Rows : owner[j] # u
  /\ i \notin born
  /\ owner' = [owner EXCEPT ![i] = u]
  /\ born' = born \cup {i}
  /\ UNCHANGED <<token, steamId, handlerVars, threadVars, steamVars, disturbed>>

\* SaveRefreshToken: sets the id the LinkResult carries, which may be empty.
Linked(i, a, id) ==
  /\ owner[i] # None /\ token[i] = None
  /\ id \in {a, None}
  /\ token' = [token EXCEPT ![i] = a]
  /\ steamId' = [steamId EXCEPT ![i] = id]
  /\ UNCHANGED <<owner, born, handlerVars, threadVars, steamVars, disturbed>>

\* DELETE /steam/accounts/{id}.
Delete(i) ==
  /\ owner[i] # None
  /\ owner' = [owner EXCEPT ![i] = None]
  /\ token' = [token EXCEPT ![i] = None]
  /\ steamId' = [steamId EXCEPT ![i] = None]
  /\ UNCHANGED <<born, handlerVars, threadVars, steamVars, disturbed>>

----------------------------------------------------------------------------
(* The handler.                                                            *)

SetHandler(r, pc) == hpc' = [hpc EXCEPT ![r] = pc]

\* ListFriends reads the user's row and decrypts its token.
Read(r, u, i) ==
  /\ hpc[r] = "idle"
  /\ owner[i] = u /\ token[i] # None
  /\ hrow' = [hrow EXCEPT ![r] = i]
  /\ htoken' = [htoken EXCEPT ![r] = token[i]]
  /\ hblank' = [hblank EXCEPT ![r] = steamId[i] = None]
  /\ SetHandler(r, "ask")
  /\ UNCHANGED <<rowVars, threadVars, steamVars, disturbed>>

\* 409: no row, or one whose link is not complete.
Conflict(r, u) ==
  /\ hpc[r] = "idle"
  /\ \A i \in Rows : owner[i] = u => token[i] = None
  /\ SetHandler(r, "done")
  /\ UNCHANGED <<rowVars, hrow, htoken, hblank, threadVars, steamVars, disturbed>>

Active(q) == wpc[q] \notin {"none", "answered"}

\* friendsProvider.ListFriends sends the command; Agent starts a thread for it.
Ask(r) ==
  /\ hpc[r] = "ask"
  /\ SetHandler(r, "wait")
  /\ wpc' = [wpc EXCEPT ![r] = "ensure"]
  /\ disturbed' = (disturbed \/ \E q \in Requests : Active(q))
  /\ UNCHANGED <<rowVars, hrow, htoken, hblank, mine, lent, resultVars, steamVars>>

\* 502: the request's context is done, because the browser has gone.
GiveUp(r) ==
  /\ hpc[r] = "wait"
  /\ SetHandler(r, "done")
  /\ UNCHANGED <<rowVars, hrow, htoken, hblank, threadVars, steamVars, disturbed>>

\* 502: the FriendsResult carries an error.
ReceiveError(r) ==
  /\ hpc[r] = "wait" /\ wpc[r] = "answered" /\ rowner[r] = None
  /\ SetHandler(r, "done")
  /\ UNCHANGED <<rowVars, hrow, htoken, hblank, threadVars, steamVars, disturbed>>

Receive(r) ==
  /\ hpc[r] = "wait" /\ wpc[r] = "answered" /\ rowner[r] # None
  /\ SetHandler(r, "backfill")
  /\ UNCHANGED <<rowVars, hrow, htoken, hblank, threadVars, steamVars, disturbed>>

\* UPDATE steam_accounts SET steam_id WHERE id; no row is not an error here.
SetSteamID(i, id) ==
  steamId' = [steamId EXCEPT ![i] = IF owner[i] # None THEN id ELSE @]

\* Backfill the row that was read, then answer 200 with the list.
Respond(r) ==
  /\ hpc[r] = "backfill"
  /\ IF hblank[r] /\ rowner[r] # None
     THEN SetSteamID(hrow[r], rowner[r])
     ELSE UNCHANGED steamId
  /\ SetHandler(r, "done")
  /\ UNCHANGED <<owner, token, born, hrow, htoken, hblank, threadVars, steamVars, disturbed>>

----------------------------------------------------------------------------
(* The worker thread: SteamSession.list_friends and login_with_token.      *)

At(r, pc) == wpc[r] = pc
Goto(r, pc) == wpc' = [wpc EXCEPT ![r] = pc]

\* _ensure_client: is there a client?
Ensure(r) ==
  /\ At(r, "ensure")
  /\ Goto(r, IF client = None THEN "create" ELSE "bind")
  /\ UNCHANGED <<rowVars, handlerVars, mine, lent, resultVars, steamVars, disturbed>>

\* If not, create one, whatever other threads have done since.
CreateClient(r) ==
  /\ At(r, "create")
  /\ client' = r
  /\ Goto(r, "bind")
  /\ UNCHANGED <<rowVars, handlerVars, mine, lent, resultVars, warm, session, logons, disturbed>>

\* return self._client.
BindClient(r) ==
  /\ At(r, "bind")
  /\ mine' = [mine EXCEPT ![r] = client]
  /\ Goto(r, "check")
  /\ UNCHANGED <<rowVars, handlerVars, lent, resultVars, steamVars, disturbed>>

\* Faulty: whose session it is is not looked at.
AnyLogon(r) == session[client] # None

\* client.logged_on and self._steam_id == steam_id.
AlreadyLoggedOn(r) == session[client] # None /\ warm = htoken[r]

\* login_with_token takes the client anew; with the right session it returns.
CheckLogin(r) ==
  /\ At(r, "check")
  /\ lent' = [lent EXCEPT ![r] = client]
  /\ Goto(r, IF AlreadyLoggedOn(r) THEN "read" ELSE "connect")
  /\ UNCHANGED <<rowVars, handlerVars, mine, resultVars, steamVars, disturbed>>

\* _pre_login and the send of ClientLogon, which wait_msg follows.
SendLogon(r) ==
  /\ At(r, "connect")
  /\ logons' = [logons EXCEPT ![lent[r]] = @ \cup {htoken[r]}]
  /\ Goto(r, "await")
  /\ UNCHANGED <<rowVars, handlerVars, mine, lent, resultVars, client, warm, session, disturbed>>

\* _pre_login fails or raises.
PreLoginFails(r) ==
  /\ At(r, "connect")
  /\ Goto(r, "failed")
  /\ UNCHANGED <<rowVars, handlerVars, mine, lent, resultVars, steamVars, disturbed>>

\* wait_msg gives up after 30 seconds.
LogonTimesOut(r) ==
  /\ At(r, "await")
  /\ Goto(r, "failed")
  /\ disturbed' = TRUE
  /\ UNCHANGED <<rowVars, handlerVars, mine, lent, resultVars, steamVars>>

\* raise LoginError: the response was not OK.
LoginRefused(r) ==
  /\ At(r, "refused")
  /\ Goto(r, "failed")
  /\ UNCHANGED <<rowVars, handlerVars, mine, lent, resultVars, steamVars, disturbed>>

\* After client.sleep(0.5): self._steam_id = steam_id.
LoggedIn(r) ==
  /\ At(r, "granted")
  /\ warm' = htoken[r]
  /\ Goto(r, "read")
  /\ UNCHANGED <<rowVars, handlerVars, mine, lent, resultVars, client, session, logons, disturbed>>

\* Faulty: report the account the client is logged on as.
ReportsSession(r) ==
  /\ At(r, "read")
  /\ rowner' = [rowner EXCEPT ![r] = session[mine[r]]]
  /\ rfriends' = [rfriends EXCEPT ![r] = session[mine[r]]]
  /\ Goto(r, "answered")
  /\ UNCHANGED <<rowVars, handlerVars, mine, lent, steamVars, disturbed>>

\* friends_ok_event with the token's own id and the list the client holds,
\* which is empty when it has not arrived or the connection was lost.
ReadFriends(r) ==
  /\ At(r, "read")
  /\ rowner' = [rowner EXCEPT ![r] = htoken[r]]
  /\ \E f \in {session[mine[r]], None} : rfriends' = [rfriends EXCEPT ![r] = f]
  /\ Goto(r, "answered")
  /\ UNCHANGED <<rowVars, handlerVars, mine, lent, steamVars, disturbed>>

\* friends_error_event.
ReportFailure(r) ==
  /\ At(r, "failed")
  /\ Goto(r, "answered")
  /\ UNCHANGED <<rowVars, handlerVars, mine, lent, resultVars, steamVars, disturbed>>

----------------------------------------------------------------------------
(* Steam's connection managers (external).                                 *)

\* Threads in wait_msg on c: any ClientLogOnResponse of c wakes them.
Woken(c, pc) ==
  wpc' = [q \in Requests |-> IF At(q, "await") /\ lent[q] = c THEN pc ELSE wpc[q]]

CMGrants(c, a) ==
  /\ a \in logons[c]
  /\ logons' = [logons EXCEPT ![c] = @ \ {a}]
  /\ session' = [session EXCEPT ![c] = a]
  /\ Woken(c, "granted")
  /\ UNCHANGED <<rowVars, handlerVars, mine, lent, resultVars, client, warm, disturbed>>

\* A refusal leaves the session there was, or drops it.
CMRefuses(c, a) ==
  /\ a \in logons[c]
  /\ logons' = [logons EXCEPT ![c] = @ \ {a}]
  /\ \E s \in {session[c], None} : session' = [session EXCEPT ![c] = s]
  /\ Woken(c, "refused")
  /\ UNCHANGED <<rowVars, handlerVars, mine, lent, resultVars, client, warm, disturbed>>

\* The connection is lost, and with it what was sent on it.
CMDrops(c) ==
  /\ session[c] # None \/ logons[c] # {}
  /\ session' = [session EXCEPT ![c] = None]
  /\ logons' = [logons EXCEPT ![c] = {}]
  /\ UNCHANGED <<rowVars, handlerVars, threadVars, client, warm, disturbed>>

----------------------------------------------------------------------------

RowNext == \/ \E u \in Users, i \in Rows : Create(u, i)
           \/ \E i \in Rows, a \in Accounts, id \in Accounts \cup {None} : Linked(i, a, id)
           \/ \E i \in Rows : Delete(i)

HandlerNext(r) == \/ Ask(r) \/ ReceiveError(r) \/ Receive(r) \/ Respond(r)

ThreadNext(r) == \/ Ensure(r) \/ CreateClient(r) \/ BindClient(r) \/ CheckLogin(r)
                 \/ SendLogon(r) \/ PreLoginFails(r) \/ LogonTimesOut(r)
                 \/ LoginRefused(r) \/ LoggedIn(r) \/ ReadFriends(r) \/ ReportFailure(r)

CMNext(c) == (\E a \in Accounts : CMGrants(c, a) \/ CMRefuses(c, a)) \/ CMDrops(c)

Next ==
  \/ RowNext
  \/ \E r \in Requests, u \in Users : Conflict(r, u) \/ \E i \in Rows : Read(r, u, i)
  \/ \E r \in Requests : HandlerNext(r) \/ GiveUp(r) \/ ThreadNext(r)
  \/ \E c \in Clients : CMNext(c)

Spec == Init /\ [][Next]_vars

----------------------------------------------------------------------------
(* Properties.                                                             *)

\* The steam_id of a row is the account its stored refresh token logs on as
\* (or not known), although the backfill in ListFriends writes after waiting
\* for the worker, when the row may have been deleted and the user relinked
\* to another account.
SteamIdNamesToken == \A i \in Rows : steamId[i] \in {token[i], None}

\* As long as no two list_friends threads overlap and no logon times out, a
\* friend list belongs to the account it is reported for, however the users
\* take turns on the one warm session and whatever Steam drops or refuses.
OwnFriendsInTurn ==
  ~disturbed => \A r \in Requests : rfriends[r] \in {rowner[r], None}

(* Claims of comments and docs that the code does not keep *)

\* docs/grpc-contract.md of FriendsResult: owner_steam_id is the logged-in
\* account's own Steam ID.  Two threads share one client, and wait_msg takes
\* any logon response of the client for its own.
FriendsBelongToOwner == \A r \in Requests : rfriends[r] \in {rowner[r], None}

\* docs/worker.md: one in-process python-steam session.  _ensure_client
\* checks and creates without a lock.
OneWarmSession == \A c, d \in Clients : session[c] # None /\ session[d] # None => c = d
==============================================================================
