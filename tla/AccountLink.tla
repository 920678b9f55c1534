----------------------------- MODULE AccountLink -----------------------------
(***************************************************************************)
(* control-plane/internal/api: linking a Steam account.  The HTTP handlers *)
(* (add, submit a guard code, delete, log in, log out), the goroutine that *)
(* waits for the link's outcome, the key cache, the in-flight table        *)
(* linkReqs, the steam_accounts table, and a restart of the control plane, *)
(* which keeps the table and nothing else.                                 *)
(*                                                                         *)
(* An account id is generated by the database and never used twice, and    *)
(* startAccountLink runs once per id, so an account id also names its link *)
(* and its request_id.  A user's key is derived from the password and the  *)
(* stored salt, neither of which changes: the user names it.               *)
(***************************************************************************)
EXTENDS Naturals, Sequences

CONSTANTS Users, Accounts,
          Posts,     \* requests POST /steam/accounts
          Guards,    \* requests POST /steam/accounts/{id}/steamguard
          MaxRestarts,
          None

ASSUME ConstAssumption ==
  /\ None \notin Users \cup Accounts
  /\ MaxRestarts \in Nat

VARIABLES
  authed,    \* users with a JWT that verifies
  keys,      \* KeyCache: users with a live entry
  owner,     \* steam_accounts: user_id of each row, None if there is no row
  born,      \* account ids generated so far
  token,     \* steam_accounts: the key enc_refresh_token is encrypted under
  linkReqs,  \* accounts with an entry in Server.linkReqs
  link,      \* per account: the StartLink goroutine
  linkKey,   \* per account: the key its callbacks captured
  asked,     \* accounts whose OnGuard fired
  said,      \* per account: terminal events broadcast, an error told by its text
  post,      \* per add request: handler position, user and new account
  guard,     \* per guard request: handler position, user and account
  relayed,   \* codes given to the worker: user, account, and was it asked for
  restarts

authVars == <<authed, keys>>
rowVars  == <<owner, born, token>>
linkVars == <<linkReqs, link, linkKey, asked, said>>
reqVars  == <<post, guard, relayed>>
vars == <<authVars, rowVars, linkVars, reqVars, restarts>>

LinkPcs  == {"none", "running", "token", "failed", "save", "unsaved", "announce", "over",
             "lost", "cut"}
PostPcs  == {"idle", "key", "create", "setreq", "start", "done", "lost"}
GuardPcs == {"idle", "row", "req", "send", "done", "lost"}

PostState  == [pc : PostPcs, user : Users \cup {None}, acct : Accounts \cup {None}]
GuardState == [pc : GuardPcs, user : Users \cup {None}, acct : Accounts \cup {None}]

TypeOK ==
  /\ authed \in SUBSET Users /\ keys \in SUBSET Users
  /\ owner \in [Accounts -> Users \cup {None}]
  /\ born \in SUBSET Accounts
  /\ token \in [Accounts -> Users \cup {None}]
  /\ linkReqs \in SUBSET Accounts
  /\ link \in [Accounts -> LinkPcs]
  /\ linkKey \in [Accounts -> Users \cup {None}]
  /\ asked \in SUBSET Accounts
  /\ said \in [Accounts -> Seq({"linked", "error", "unstored"})]
  /\ post \in [Posts -> PostState]
  /\ guard \in [Guards -> GuardState]
  /\ relayed \in SUBSET [user : Users, acct : Accounts, asked : BOOLEAN]
  /\ restarts \in 0..MaxRestarts

Idle == [pc |-> "idle", user |-> None, acct |-> None]

Init ==
  /\ authed = {} /\ keys = {}
  /\ owner = [a \in Accounts |-> None]
  /\ born = {}
  /\ token = [a \in Accounts |-> None]
  /\ linkReqs = {}
  /\ link = [a \in Accounts |-> "none"]
  /\ linkKey = [a \in Accounts |-> None]
  /\ asked = {}
  /\ said = [a \in Accounts |-> <<>>]
  /\ post = [p \in Posts |-> Idle]
  /\ guard = [g \in Guards |-> Idle]
  /\ relayed = {}
  /\ restarts = 0

----------------------------------------------------------------------------
(* The accesses to shared state that the handlers are made of.             *)

RequireAuth(u) == u \in authed
KeyCached(u)   == u \in keys

SetLinkReq(a)   == linkReqs' = linkReqs \cup {a}
ClearLinkReq(a) == linkReqs' = linkReqs \ {a}

\* GetByUserID returns row a for user u.
IsRowOf(a, u) == owner[a] = u

\* INSERT of a row with a new id, refused by UNIQUE (user_id).
InsertRow(a, u) ==
  /\ \A b \in Accounts : owner[b] # u
  /\ a \notin born
  /\ owner' = [owner EXCEPT ![a] = u]
  /\ born' = born \cup {a}

\* UPDATE of the row, if it is still there.
SaveRefreshToken(a, key) ==
  /\ owner[a] # None
  /\ token' = [token EXCEPT ![a] = key]

\* DELETE, scoped by user_id.
DeleteRow(a, u) ==
  /\ owner[a] = u
  /\ owner' = [owner EXCEPT ![a] = None]
  /\ token' = [token EXCEPT ![a] = None]

----------------------------------------------------------------------------
(* Sessions of the web users: auth.go, keycache.go, jwt.go.                *)

\* Register and Login: cache the key, then issue the token.
Login(u) ==
  /\ keys' = keys \cup {u}
  /\ authed' = authed \cup {u}
  /\ UNCHANGED <<rowVars, linkVars, reqVars, restarts>>

\* Logout evicts the key; the token stays valid until it expires.
Logout(u) ==
  /\ RequireAuth(u)
  /\ keys' = keys \ {u}
  /\ UNCHANGED <<authed, rowVars, linkVars, reqVars, restarts>>

\* The TTL of both has passed; the two clocks start a moment apart.
TokenExpires(u) ==
  /\ u \in authed
  /\ authed' = authed \ {u}
  /\ UNCHANGED <<keys, rowVars, linkVars, reqVars, restarts>>

KeyExpires(u) ==
  /\ u \in keys
  /\ keys' = keys \ {u}
  /\ UNCHANGED <<authed, rowVars, linkVars, reqVars, restarts>>

----------------------------------------------------------------------------
(* AddSteamAccount, one step per access to shared state.                   *)

SetPost(p, pc, u, a) == post' = [post EXCEPT ![p] = [pc |-> pc, user |-> u, acct |-> a]]

\* requireAuth let the request in; an ill-formed body is refused with no effect.
PostBegin(p, u) ==
  /\ post[p].pc = "idle"
  /\ RequireAuth(u)
  /\ SetPost(p, "key", u, None)
  /\ UNCHANGED <<authVars, rowVars, linkVars, guard, relayed, restarts>>

\* keys.Get: the key is captured now; without it the answer is 401.
PostKey(p) ==
  /\ post[p].pc = "key"
  /\ SetPost(p, IF KeyCached(post[p].user) THEN "create" ELSE "done", post[p].user, None)
  /\ UNCHANGED <<authVars, rowVars, linkVars, guard, relayed, restarts>>

\* Create, refused by UNIQUE (user_id) if the user has a row.
PostCreate(p, a) ==
  /\ post[p].pc = "create"
  /\ InsertRow(a, post[p].user)
  /\ SetPost(p, "setreq", post[p].user, a)
  /\ UNCHANGED <<authVars, token, linkVars, guard, relayed, restarts>>

\* The row is inserted but the handler sees an error, the client having gone away
\* with the request's context: no link is started for it.
PostCreateUnseen(p, a) ==
  /\ post[p].pc = "create"
  /\ InsertRow(a, post[p].user)
  /\ SetPost(p, "done", post[p].user, None)
  /\ UNCHANGED <<authVars, token, linkVars, guard, relayed, restarts>>

\* 409 for a second row, 500 for a database error.
PostRefused(p) ==
  /\ post[p].pc = "create"
  /\ SetPost(p, "done", post[p].user, None)
  /\ UNCHANGED <<authVars, rowVars, linkVars, guard, relayed, restarts>>

\* startAccountLink: the table entry first, then the goroutine, then 201.
PostSetReq(p) ==
  /\ post[p].pc = "setreq"
  /\ SetLinkReq(post[p].acct)
  /\ SetPost(p, "start", post[p].user, post[p].acct)
  /\ UNCHANGED <<authVars, rowVars, link, linkKey, asked, said, guard, relayed, restarts>>

PostStart(p) ==
  /\ post[p].pc = "start"
  /\ link' = [link EXCEPT ![post[p].acct] = "running"]
  /\ linkKey' = [linkKey EXCEPT ![post[p].acct] = post[p].user]
  /\ SetPost(p, "done", post[p].user, post[p].acct)
  /\ UNCHANGED <<authVars, rowVars, linkReqs, asked, said, guard, relayed, restarts>>

----------------------------------------------------------------------------
(* The link goroutine and its callbacks.  WorkerStream details Link itself. *)

\* OnGuard: the browser is asked for a code (credentials logins only; a QR link
\* never gets here).
LinkAsks(a) ==
  /\ link[a] = "running"
  /\ a \notin asked
  /\ asked' = asked \cup {a}
  /\ UNCHANGED <<authVars, rowVars, linkReqs, link, linkKey, said, reqVars, restarts>>

\* Link returns: a token, or an error of the worker, the context or the registry.
LinkReturns(a) ==
  /\ link[a] = "running"
  /\ \E res \in {"token", "failed"} : link' = [link EXCEPT ![a] = res]
  /\ UNCHANGED <<authVars, rowVars, linkReqs, linkKey, asked, said, reqVars, restarts>>

Broadcast(a, ev) == said' = [said EXCEPT ![a] = Append(@, ev)]

\* Faulty: only success clears the table entry.
ErrorKeepsLinkReq(a) ==
  /\ link[a] = "failed"
  /\ link' = [link EXCEPT ![a] = "over"]
  /\ Broadcast(a, "error")
  /\ UNCHANGED <<authVars, rowVars, linkReqs, linkKey, asked, reqVars, restarts>>

\* OnError: clearLinkReq, broadcast the error.
OnError(a) ==
  /\ link[a] = "failed"
  /\ ClearLinkReq(a)
  /\ link' = [link EXCEPT ![a] = "over"]
  /\ Broadcast(a, "error")
  /\ UNCHANGED <<authVars, rowVars, linkKey, asked, reqVars, restarts>>

\* OnLinked, first: clearLinkReq.
OnLinked(a) ==
  /\ link[a] = "token"
  /\ ClearLinkReq(a)
  /\ link' = [link EXCEPT ![a] = "save"]
  /\ UNCHANGED <<authVars, rowVars, linkKey, asked, said, reqVars, restarts>>

\* Faulty: SaveRefreshToken inserts the row if it is gone.
PersistUpserts(a) ==
  /\ link[a] = "save"
  /\ token' = [token EXCEPT ![a] = linkKey[a]]
  /\ owner' = [owner EXCEPT ![a] = linkKey[a]]
  /\ link' = [link EXCEPT ![a] = "announce"]
  /\ UNCHANGED <<authVars, born, linkReqs, linkKey, asked, said, reqVars, restarts>>

\* Faulty: the link's token is kept for a row that may be gone.
PersistBlindly(a) ==
  /\ link[a] = "save"
  /\ token' = [token EXCEPT ![a] = linkKey[a]]
  /\ link' = [link EXCEPT ![a] = "announce"]
  /\ UNCHANGED <<authVars, owner, born, linkReqs, linkKey, asked, said, reqVars, restarts>>

\* persistRefreshToken: encrypt under the captured key and SaveRefreshToken, which
\* updates the row if it is still there.
PersistRefreshToken(a) ==
  /\ link[a] = "save"
  /\ SaveRefreshToken(a, linkKey[a])
  /\ link' = [link EXCEPT ![a] = "announce"]
  /\ UNCHANGED <<authVars, owner, born, linkReqs, linkKey, asked, said, reqVars, restarts>>

\* OnLinked, last: broadcast the success.
AnnounceLinked(a) ==
  /\ link[a] = "announce"
  /\ link' = [link EXCEPT ![a] = "over"]
  /\ Broadcast(a, "linked")
  /\ UNCHANGED <<authVars, rowVars, linkReqs, linkKey, asked, reqVars, restarts>>

\* Faulty: the error of persistRefreshToken is ignored.
PersistErrorIgnored(a) ==
  /\ link[a] = "save"
  /\ link' = [link EXCEPT ![a] = "announce"]
  /\ UNCHANGED <<authVars, rowVars, linkReqs, linkKey, asked, said, reqVars, restarts>>

\* Zero rows updated, or encryption or the database failed.  An error of the database
\* says nothing of the UPDATE ...
PersistFails(a) ==
  /\ link[a] = "save"
  /\ link' = [link EXCEPT ![a] = "unsaved"]
  /\ UNCHANGED <<authVars, rowVars, linkReqs, linkKey, asked, said, reqVars, restarts>>

\* ... which may take effect all the same, before the error is broadcast or after, as
\* may one that a restart has cut off.
SaveUnseen(a) ==
  /\ link[a] \in {"unsaved", "cut"} \/ said[a] = <<"unstored">>
  /\ SaveRefreshToken(a, linkKey[a])
  /\ UNCHANGED <<authVars, owner, born, linkVars, reqVars, restarts>>

\* Faulty: the error is logged and not broadcast.
PersistFailsSilently(a) ==
  /\ link[a] = "unsaved"
  /\ link' = [link EXCEPT ![a] = "over"]
  /\ UNCHANGED <<authVars, rowVars, linkReqs, linkKey, asked, said, reqVars, restarts>>

\* OnLinked, last: "could not store refresh token".
AnnounceUnstored(a) ==
  /\ link[a] = "unsaved"
  /\ link' = [link EXCEPT ![a] = "over"]
  /\ Broadcast(a, "unstored")
  /\ UNCHANGED <<authVars, rowVars, linkReqs, linkKey, asked, reqVars, restarts>>

----------------------------------------------------------------------------
(* SubmitAccountSteamGuard.                                                *)

SetGuard(g, pc, u, a) == guard' = [guard EXCEPT ![g] = [pc |-> pc, user |-> u, acct |-> a]]

GuardBegin(g, u, a) ==
  /\ guard[g].pc = "idle"
  /\ RequireAuth(u)
  /\ SetGuard(g, "row", u, a)
  /\ UNCHANGED <<authVars, rowVars, linkVars, post, relayed, restarts>>

\* Faulty: any row of the user authorizes any account in the path.
AuthorizeAnyRow(g) ==
  /\ guard[g].pc = "row"
  /\ SetGuard(g, IF \E a \in Accounts : owner[a] = guard[g].user THEN "req" ELSE "done",
              guard[g].user, guard[g].acct)
  /\ UNCHANGED <<authVars, rowVars, linkVars, post, relayed, restarts>>

\* GetByUserID: the account in the path must be this user's row, else 404; 500 if the
\* row cannot be read.
GuardAuthorize(g) ==
  /\ guard[g].pc = "row"
  /\ \/ IsRowOf(guard[g].acct, guard[g].user) /\ SetGuard(g, "req", guard[g].user, guard[g].acct)
     \/ SetGuard(g, "done", guard[g].user, guard[g].acct)
  /\ UNCHANGED <<authVars, rowVars, linkVars, post, relayed, restarts>>

\* getLinkReq, else 409.
GuardLookup(g) ==
  /\ guard[g].pc = "req"
  /\ SetGuard(g, IF guard[g].acct \in linkReqs THEN "send" ELSE "done",
              guard[g].user, guard[g].acct)
  /\ UNCHANGED <<authVars, rowVars, linkVars, post, relayed, restarts>>

\* links.SubmitGuardCode: 204.
GuardRelay(g) ==
  /\ guard[g].pc = "send"
  /\ relayed' = relayed \cup {[user |-> guard[g].user, acct |-> guard[g].acct,
                               asked |-> guard[g].acct \in asked]}
  /\ SetGuard(g, "done", guard[g].user, guard[g].acct)
  /\ UNCHANGED <<authVars, rowVars, linkVars, post, restarts>>

\* No worker: 502.
GuardNoWorker(g) ==
  /\ guard[g].pc = "send"
  /\ SetGuard(g, "done", guard[g].user, guard[g].acct)
  /\ UNCHANGED <<authVars, rowVars, linkVars, post, relayed, restarts>>

----------------------------------------------------------------------------
\* DeleteSteamAccount: scoped to the user's own row.  The link is not cancelled
\* and its table entry stays.
Delete(u, a) ==
  /\ RequireAuth(u)
  /\ DeleteRow(a, u)
  /\ UNCHANGED <<authVars, born, linkVars, reqVars, restarts>>

\* The control plane stops and starts again: only the database and the signed
\* tokens survive.
Restart ==
  /\ restarts < MaxRestarts
  /\ restarts' = restarts + 1
  /\ keys' = {} /\ linkReqs' = {}
  /\ link' = [a \in Accounts |-> CASE link[a] \in {"none", "over"} -> link[a]
                                   [] link[a] \in {"save", "unsaved", "cut"} -> "cut"
                                   [] OTHER -> "lost"]
  /\ post' = [p \in Posts |-> IF post[p].pc \in {"idle", "done"} THEN post[p]
                              ELSE [post[p] EXCEPT !.pc = "lost"]]
  /\ guard' = [g \in Guards |-> IF guard[g].pc \in {"idle", "done"} THEN guard[g]
                                ELSE [guard[g] EXCEPT !.pc = "lost"]]
  /\ UNCHANGED <<authed, rowVars, linkKey, asked, said, relayed>>

----------------------------------------------------------------------------
PostNext(p) == \/ PostKey(p) \/ PostRefused(p) \/ PostSetReq(p) \/ PostStart(p)
               \/ \E u \in Users : PostBegin(p, u)
               \/ \E a \in Accounts : PostCreate(p, a) \/ PostCreateUnseen(p, a)
GuardNext(g) == \/ GuardAuthorize(g) \/ GuardLookup(g) \/ GuardRelay(g) \/ GuardNoWorker(g)
                \/ \E u \in Users, a \in Accounts : GuardBegin(g, u, a)
Callbacks(a) == OnError(a) \/ OnLinked(a) \/ PersistRefreshToken(a) \/ PersistFails(a)
                  \/ AnnounceUnstored(a) \/ AnnounceLinked(a)

Next ==
  \/ \E u \in Users : Login(u) \/ Logout(u) \/ TokenExpires(u) \/ KeyExpires(u)
  \/ \E p \in Posts : PostNext(p)
  \/ \E g \in Guards : GuardNext(g)
  \/ \E a \in Accounts : LinkAsks(a) \/ LinkReturns(a) \/ Callbacks(a) \/ SaveUnseen(a)
  \/ \E u \in Users, a \in Accounts : Delete(u, a)
  \/ Restart

Spec == Init /\ [][Next]_vars

\* The goroutine goes on once Link has returned, and the database answers.
FairSpec == Spec /\ \A a \in Accounts : WF_vars(Callbacks(a))

----------------------------------------------------------------------------
\* linkReqs holds links that are not finished: setLinkReq before StartLink and
\* clearLinkReq at the start of either terminal callback leave no entry behind,
\* however soon the goroutine fails.
LinkReqsAreInFlight ==
  \A a \in linkReqs : link[a] \in {"none", "running", "token", "failed"}

\* A link announces at most one outcome, one if its goroutine is over, "linked" only
\* once the token is in its row, or the row deleted, and that the link itself failed
\* only if no token is ever stored.  (Of an error in storing the token the row says
\* nothing: it may be there.  And after either error the row stays, which refuses the
\* next attempt.)
AnnouncedIsStored ==
  \A a \in Accounts :
    /\ Len(said[a]) <= 1
    /\ link[a] = "over" => said[a] # <<>>
    /\ said[a] = <<"linked">> => token[a] # None \/ owner[a] = None
    /\ said[a] = <<"error">> => token[a] = None

\* A stored token is encrypted under the key of the row's user, although the key
\* is captured before the row exists and used after logins, logouts, deletions
\* and restarts.
TokensDecrypt ==
  \A a \in Accounts : token[a] # None => owner[a] = token[a]

\* A code relayed to the worker carries the request of a link that the same user
\* started, also if the account was deleted and added again meanwhile.
CodesReachOwnLink ==
  \A c \in relayed : linkKey[c.acct] \in {c.user, None}

\* A deleted account stays deleted: a link that completes later writes nothing.
DeletedStaysDeleted ==
  [][\A a \in born : owner[a] = None => owner'[a] = None /\ token'[a] = None]_vars

\* Once Link has returned, its outcome is announced, unless the control plane
\* restarts.
OutcomesAreAnnounced ==
  \A a \in Accounts :
    (link[a] \in {"token", "failed"}) ~> (said[a] # <<>> \/ link[a] \in {"lost", "cut"})

\* The promise to the browser, read off the tables and the events: which
\* outcome of a link it was told, and whether the row holds a token.
Row ==
  [a \in Accounts |-> IF a \notin born THEN "none"
                      ELSE IF owner[a] = None THEN "gone"
                      ELSE IF token[a] = None THEN "bare" ELSE "token"]
Status ==
  [a \in Accounts |-> IF said[a] = <<"linked">> THEN "linked"
                      ELSE IF said[a] = <<"error">> THEN "failed"
                      ELSE IF said[a] = <<"unstored">> THEN "unstored"
                      ELSE IF link[a] = "none" THEN "idle"
                      ELSE IF link[a] \in {"lost", "cut"} THEN "lost" ELSE "open"]

Contract == INSTANCE LinkContract WITH row <- Row, status <- Status, prompted <- asked

\* router.go's LinkCallbacks, end to end: prompts only while the link is open,
\* then at most one outcome: success if the token is stored, failure of the link if
\* none is or will be, and an error in storing it, from which nothing follows.
ImplementsContract == Contract!Spec

(* Claims of comments and messages that the code does not keep *)

\* steam_accounts.go: "could not store refresh token".  The UPDATE may have committed
\* and the connection been lost.
UnstoredMeansNoToken == \A a \in Accounts : said[a] = <<"unstored">> => token[a] = None

\* steam_accounts.go: 409 is answered when there is "no Steam Guard prompt in
\* progress".
CodesOnlyWhenAsked == \A c \in relayed : c.asked
=============================================================================
