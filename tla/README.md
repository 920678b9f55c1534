# A TLA+ model of dota-cuck

The program links a user's Steam account, lists the user's friends and (later) lets
the user watch a friend's Dota 2 match. A Go control plane serves the browser over
HTTP and a WebSocket and drives one Python worker over a gRPC stream; the worker
talks to Steam. This directory models the part of the program that exists beyond
stubs: the worker stream, the account link and what the browser hears of it, guard
codes, user sessions and keys, friend lists, shutdown, and the state machines.

## 1. Inventory

| Component | State | Operations | Talks to |
|---|---|---|---|
| Registry (`workers/registry.go`) | `current`, the connected worker; each worker's command queue (capacity 8) | register, unregister, Current, Send | WorkerSession, the calls |
| WorkerSession (`workers/server.go`) | one stream per connected worker; a pump goroutine and a Recv loop | pump a command, handle an event, end | Registry, pending maps, worker |
| Pending calls (`workers/link.go`, `friends.go`) | reply channels (capacity 1) and prompt callbacks by request_id | Link, ListFriends, SubmitGuardCode; deliver, guard, challenge | Registry; called by the Recv loop |
| Providers, wiring (`cmd/server/main.go`) | the StartLink goroutine, the 5 minute link timeout, shutdown | StartLink, SubmitGuardCode, ListFriends, main | api, workers |
| Account API (`api/steam_accounts.go`, `router.go`) | `linkReqs`: account to in-flight request | add, submit a code, list, delete; OnGuard, OnQrChallenge, OnLinked, OnError | store, key cache, providers, hub |
| Friends API (`api/friends.go`) | none of its own | list friends, backfill the Steam ID | store, key cache, provider |
| User sessions (`api/auth.go`, `middleware.go`, `auth/keycache.go`, `auth/jwt.go`) | derived keys by user, with a TTL; signed tokens held by browsers | register, log in, log out, verify | store |
| Store (`store/*.go`) | `users`, `steam_accounts` (one row per user) | create, save token, set Steam ID, delete, get | PostgreSQL |
| Hub (`api/ws.go`) | the set of WebSocket clients | add, remove, Broadcast | browsers |
| Worker agent (`worker/agent.py`, `grpc_client.py`) | outbox queue, worker state, one thread per command | dispatch, link, list friends, guard code | control plane, SteamSession |
| SteamSession (`worker/steam_client.py`) | guard slot (code and event), one warm CM client | QR link, credentials link, submit code, list friends, logout | Steam |
| Test databases (`internal/testdb`) | one database per test | New, cleanup | PostgreSQL |
| State machines (`sessions/state.go`, `worker/state_machine.py`) | a state | next state | - |
| Browser (`frontend/src`) | the linking dialog, WebSocket | add, show QR, enter code, show outcome | API, hub |

What is hard in it, and hardly reached by its tests: the Recv loop looks requests up
under a lock and acts on them after it; calls race their timeouts; worker
connections overlap; a link outlives the request, the key, the row and the process
that started it; two Python threads share one slot made of a variable and an event.
`PROJECT.json` lists these hazards at their lines, with the properties that cover
them.

What makes each part correct:

* stream: a reply reaches exactly the call it answers and never blocks the loop; a
  stale session evicts nobody; calls return;
* account link: a stored token its owner can decrypt, one announced outcome that agrees
  with the row as far as the code can know it, nothing written for a deleted account,
  codes sent only to the user's own link;
* guard slot: a code is used once, by the login it was meant for, and every login
  ends;
* user sessions: who holds a token gave the password, a valid token finds its key, what
  was encrypted opens under the key of a later login of the same release, a key ends with
  its token;
* friends: a list belongs to the account it is shown for, a row's Steam ID names the
  account of its token;
* push channel: an event is true when it arrives, a connected dialog hears its outcome,
  browsers that hang keep nobody out;
* shutdown: it ends, blocks no goroutine, and gives up worker streams last;
* state machines: the worker's is the session's, and its reports tell it.

## 2. Modules

| Module | Code | Composes or refines |
|---|---|---|
| `WorkerStream` | registry, WorkerSession, Link, ListFriends, the worker's dispatch | implements `CallContract` |
| `CallContract` | what Link, ListFriends and SubmitGuardCode promise their callers | |
| `GuardHandoff` | credentials login and guard slot of `steam_client.py` | |
| `AccountLink` | the account API, its table and callbacks, over the store and the key cache | implements `LinkContract` |
| `LinkContract` | what `LinkProvider`, `LinkCallbacks` and the store promise about a link | |
| `KeySession` | registration, login, tokens, key cache, encryption, with a clock | |
| `Friends` | `GET /friends` through the handler, the rows and the worker's warm session | |
| `LinkDialog` | page, WebSocket and link dialog of the browser, the Hub, the link's events | implements `LinkContract` |
| `Shutdown` | `main.go` and the pool, from boot to the end of the process | |
| `Spectate` | the worker's state machine, its commands and reports | implements `SessionMachine` |
| `SessionMachine` | `sessions/state.go` | |

`MC*` modules give TLC its instances and `*_proofs` modules hold the theorems.
Definitions commented "Faulty" are the mutants of `PROJECT.json`: no specification uses
them; each stands for a plausible bug that the property it is paired with detects.

### WorkerStream
`registry.go`, `server.go`, `link.go`, `friends.go`, the StartLink goroutine, and the
worker's `agent.py` and `grpc_client.py` as far as they produce events. A request is
one call and is its own request_id; a stream is one connection.

| State | Code |
|---|---|
| `current` | `Registry.current` |
| `conn`, `queue`, `pump` | stream context, `Worker.send`, the pump goroutine |
| `cmds`, `events` | the two directions of the stream |
| `recv` | the Recv loop: in Recv, before `ch <- res`, before `cb(...)` |
| `job`, `asked` | the worker's thread for a command, and its prompts |
| `caller`, `handle`, `outcome`, `expired` | the call: position, the `*Worker` it holds, result, context |
| `pending`, `replies` | the pending maps and the reply channels |

`Send` is two steps (Current under the lock, then the channel send), `deliver`,
`guard` and `challenge` are two (look up under the lock, act after it), and a call
returns through its deferred `remove`. `Break` may happen at any time; the commands
on the wire are lost, events already received by the transport may still be read.
Events that are only logged are one, `Status`. The contents of commands and results,
an error result included, make no difference to this layer.

`Call` and `Work` map the state to `CallContract`, where a call is open until it returns
and a command is not taken up, running, answered, or lost with its worker. A command runs
at most once, a result is that of a command that ran to its end, a call that fails for
its context has one that is done, and a refused command never runs. What the
contract leaves out (registry, queues, connections, callbacks) is what the
implementation must not let show.

### GuardHandoff
`steam_client.py`: the credentials login and the guard slot. The steps are the points
at which Python threads interleave: the code is stored and taken under the lock, the
event set and cleared outside it. `inTurn` records that logins came one at a time, which
is what a comment in `agent.py` assumes, and that every code was asked for and was the
first for its prompt. Steam is external: `Begin` and `Poll` choose among its
answers, and a login that wanted a code succeeds only with a code meant for it.

### AccountLink
The API layer. An account id is generated once and `startAccountLink` runs once per
id, so the id also names the link and its request_id; a user's key never changes, so
the user names it. Each handler is one step per access to shared state (key cache,
row, `linkReqs`, provider). `Restart` keeps the table and the signed tokens and drops
everything else. `LinkReturns` abstracts what WorkerStream details. `said` records the
terminal events broadcast for an account: "linked", "error" if the link itself failed, and
"unstored" for the error event whose text is "could not store refresh token".

`SaveRefreshToken` is the UPDATE and its answer. With `PersistRefreshToken` both succeed.
`PersistFails` is an error, which is certain only if encryption failed or no row was
updated: a connection lost after the commit looks the same. So after an error, or after a
restart that cut the call off (`link` is "cut"), `SaveUnseen` may carry the UPDATE out at
any time, before `AnnounceUnstored` broadcasts the error or long after, if the row is
still there. The same holds for the insert (`PostCreateUnseen`).

`Row` and `Status` map the state to `LinkContract`: an account is not there, bare, with
a token or gone; its link is idle, open, linked, failed, unstored or lost in a restart. The
contract lets success be announced only when the token is in its row, unless the row
is gone, and failure of the link only when it is not and never will be. Of a token that
could not be stored it promises nothing: it may be there. And it does not promise that a
link can be tried again: a failed link leaves its row, and the next attempt is refused
with 409. `KeySession` is where the key's clocks live; here token and key expire in any
order.

### KeySession
A tick is the resolution of the clock, `Sec` ticks are a second, to which JWT times are
cut. Digests, PHC strings and keys are records of what they are computed from, so that
two of them are equal exactly if the code's would be, short of collisions. A digest's
parameters are stored in its PHC string; the key's (`kdfParams`) are stored nowhere and
belong to the running release.

| State | Code |
|---|---|
| `users`, `sealed` | the users table; the key a stored refresh token is encrypted under |
| `entries` | `KeyCache.entries` |
| `params`, `kdfParams`, `secret` | cost parameters of the hash and of the key, and `JWT_SECRET`, of the running release |
| `lpc`, `claim`, `putAt`, `token` | a register or login request: position, accepted credentials, when it called Put, the JWT it returned |
| `cpc`, `caller`, `garbled` | an authenticated request: position, user, decryption failed |
| `wiped` | logins whose key a logout or restart took (history) |

Registration and login are three steps: the row is inserted or verified, `Put` caches
the key, `Issue` signs the token, each reading the clock for itself. Any two requests
overlap. `Restart` starts another release on the same database, with any parameters of
either kind and any secret. `StoredOpens` says which stored tokens the running release
can open: those sealed by a release with its `kdfParams`.

### Friends
A request is followed from the handler's read of the row to its answer. Between them the
worker runs one thread per request, with a step at every point where threads can
interleave: the check and the creation in `_ensure_client`, its return, the check of
`logged_on` and `_steam_id`, the logon, the wait, the write of `_steam_id`, the read of
`client.friends`. A client is named after the request whose thread created it, a token
after its account, a friend list after the account whose friends it holds. Steam
answers logons in any order, late or never, and drops connections. Rows are created,
linked and deleted meanwhile, as `AccountLink` would. `disturbed` records that two
threads overlapped or a logon wait timed out: what `OwnFriendsInTurn` excludes.

### LinkDialog
A socket is the page load that dials it. `hub` says where `ServeHTTP` is for it;
`saying` and `todo` where each broadcaster is in its snapshot of the clients. The
broadcasters are the goroutine of each link (outcomes) and the stream's receive loop
(challenges), which are the ones in the code. A page that is reloaded closes its socket,
but a connection that is stuck stays open for the server, and stays in the Hub. The
dialog's QR mode is modelled: `mode`, `status` and `shown` are the state hooks of
`AccountLink.jsx`, `page` and `loading` those of `Friends.jsx`. A list request may fail
for any user (401, 500, 502, no answer): the friends page is then up with an error, linked
or not (`LoadFails`), until its Refresh button or a reload asks again. Row and link are two
steps, `Insert` and `Accept`: the insert may commit and Create fail all the same, its
client gone, and then no link starts. The answer to the request may be lost. `attached`
(history) holds the users whose dialog was in the Hub, over a connection that was up,
when their link started, until that connection is lost or the page reloaded. A user's
next request is sent when the last one has been answered, also one whose page has gone:
a bound of the model, not of the browser.

How a link gets to its outcome is left to the modules above, except that storing the token
may fail, and take effect all the same (`PersistFails`, `SaveUnseen`, `AnnounceUnstored`,
as in `AccountLink`): what the browser is told then is what this module is about.
`ContractRow` and
`ContractStatus` show that the links of this module keep the contract of
`AccountLink`'s: what the browser side assumes of a link is what the API side does.

### Shutdown
`main` walks through boot, `select` and the three waits of shutdown. The goroutines of
gRPC and HTTP may fail to listen, stop serving, and send to `errCh`. A stream is open
until its worker dies; a call alternates between the database and the worker. Connections
outlive their listener: a request may come on one while `http.Server.Shutdown` waits for
it, or after Shutdown gave up, and a stream until `GracefulStop` has sent its last GOAWAY
(`FinalGoAway`). Nothing runs once `main` has returned.

### Spectate, SessionMachine
`Advance` is `Agent._advance`: the transition or the refusal, and the report behind what
the outbox holds. `SessionOf` maps the five worker states to the four of a session: a
worker that is stopped or idle has none. The session handlers are stubs, so `Send` lets
any command arrive in any state.

## 3. Runs

| Run | Instance | Result |
|---|---|---|
| `stream_safety` | a QR link (2 challenges) and a friends call, 2 connections, queue of 1 | 8 properties and `ImplementsCalls` hold |
| `stream_live` | a credentials link, a code and a friends call, 1 connection, queue of 1 | 2 liveness properties hold |
| `stream_timeout` | a friends call and a credentials link, queue of 1 | `TimeoutHonoured` violated |
| `guard` | 2 logins, 2 codes each, any order | 2 invariants, `EveryLoginAnswers` hold |
| `link_safety` | 2 users, 2 accounts, 2 adds, 1 code, 1 restart | 4 invariants hold |
| `link_live` | 1 user, 2 accounts, 2 adds, 1 code, 1 restart | 2 properties and `ImplementsContract` hold |
| `key_safety` | 1 name, 2 passwords, 2 logins, 2 requests, 2 releases with 2 choices of each parameter, 6 ticks of a third of a second | 5 invariants hold |
| `friends` | 2 users, 2 accounts, 2 rows, 2 requests | 2 invariants hold |
| `friends_owner` | the same | `FriendsBelongToOwner` violated |
| `dialog` | 1 browser, 2 page loads, 2 challenges | 2 invariants, 2 liveness properties and `ImplementsLinkContract` hold |
| `shutdown` | 2 streams, 2 calls | 3 invariants, `OnlyStreamsHoldItUp` hold |
| `spectate` | 4 commands | `ReportsFollow` and `ImplementsSession` hold |

Bounds. `QueueCap` is 1 instead of 8: what matters is that the queue can be full, and
one command fills it. Two streams are enough for an old and a new connection to
overlap; two challenges for a QR rotation. `MaxSubmits` 2 allows a second code for one
login. Two account ids allow delete and add again; two adds allow the race on the
unique index; one restart falls at any point. In KeySession the time to live is four
thirds of a second and no whole number of seconds, so that truncation shows, and six
ticks let a key cached at any of the first instants expire; two passwords let two
registrations of a name disagree, and of each kind of parameter two values let the
releases before and after the restart differ. In Friends two accounts and two requests are what it
takes to cross sessions, two rows are a row and its successor. In LinkDialog two page
loads are a socket and its successor, so that one client of the Hub can hang or be gone
while the other connects and listens. Four commands take the worker to every state it
can reach and twice into a refusal. The instances end (a finite number of requests is
made), so TLC's deadlock check is off. Symmetry is used only where invariants alone are
checked.

The two violations:

* `stream_timeout`: `Registry.Send` waits for room in the queue and for nothing else.
  A caller that got its `*Worker` just before the stream broke waits for ever when the
  queue is full, against "or the context error on timeout" (`link.go:83`).
  `ExpiredCallsReturn` is what holds instead.
* `friends_owner`: with two threads on the warm session, the friends of one account are
  returned under the id of another (`grpc-contract.md:64-66`). `OwnFriendsInTurn` says
  when they are not.

Further statements of comments and docs are kept beside the properties and are part of
no run, because TLC refutes them on the instance named when they are added to it; the
properties the runs check say what holds in their place, where something does.

| Statement | Instance | What happens |
|---|---|---|
| `PromptBeforeTerminal` (`router.go:56-58`) | `stream_safety` | a prompt callback, looked up before the link's timeout, runs after `OnError`; `PromptsPrecedeResult` holds |
| `CodesOnlyWhenAsked` (`steam_accounts.go:179`) | `link_safety` | a code is accepted for any link in flight, a QR link included; `CodesReachOwnLink` holds |
| `KeyNeverOutlivesToken` (`keycache.go:13-15`) | `key_safety` | the token's expiry is cut to whole seconds, the key's is not; `KeyOutlivesTokenBriefly` holds |
| `LaterLoginsDecrypt` (`crypto.go:47-49`) | `key_safety` | a release with other `kdfParams` derives another key, and what was stored does not open; `StoredOpens` holds |
| `UnstoredMeansNoToken` (`steam_accounts.go:108`) | `link_safety`, `dialog` | the UPDATE commits and its answer is lost: the browser is told that the token could not be stored, and it is; `AnnouncedIsStored` and `EventsAreTrue` hold |
| `OneWarmSession` (`worker.md:37`) | `friends` | two clients are created and logged on |
| `DialogResolves` (`AccountLink.jsx:12`) | `dialog` | the outcome passes a socket that is lost or not yet in the Hub; `HeardWhileConnected` holds |
| `RefusedOnlyIfLinked` (`steam_accounts.go:36`) | `dialog` | after a failed link every further attempt is refused as "already linked" |
| `ChallengeIsOwn` (`AccountLink.jsx:6-9`) | `dialog` with 2 users, 1 load | a dialog renders another user's challenge |
| `ShutdownCompletes` (`main.go:6-7`) | `shutdown` | GracefulStop waits for a connected worker; `OnlyStreamsHoldItUp` holds |
| `StoppingEnds` (`state_machine.py:14`) | `spectate` under `FairSpec` | nothing raises `CLEANUP_DONE` yet |

`RoutedUnlessGivenUp` needs both of its conditions. Without `inTurn` two concurrent logins
exchange their codes, because the worker ignores the request_id that is said to
correlate code and login (`link.go:106-107`); without `NobodyGaveUp` a code that comes
after its login gave up is given to the next one, although only one is in flight at a
time (`agent.py:178-179`).

Fairness. `WorkerStream`: weak fairness of the pump, of the Recv loop and of each
call, which are goroutines; none for the worker, for the network, for the clock
(`Expire`), nor for a prompt callback, because it writes to WebSockets without a
deadline. So `ExpiredCallsReturn` excepts a call stuck in `Send`, and
`AnswersReachCallers` a callback that never returns; without the exceptions they are
false. `GuardHandoff`: threads run, and the waits for a code and for Steam have
deadlines. `AccountLink`: the goroutine goes on once `Link` has returned. `LinkDialog`:
goroutines and the browser's event loop run, HTTP requests are answered, a link ends
(`linkTimeout`), and a write to an open connection whose peer reads returns; nothing is
assumed of users, and a write to a peer that has stopped reading need not return.
`Shutdown`: `main`, the goroutines, queries and the timer make progress; a worker need
not answer nor die, a listener need not fail. The other modules' properties need none.

## 4. Proofs

All theorems hold for every value of the constants under the assumptions of their
module: `ConstAssumption` (`None` is none of the other values, capacities and bounds are
naturals, the queue capacity is positive), `NoneIsNoCode`, `NoneAssumption`,
`MaxAssumption`, and in KeySession `KeyAssumption` (the time to live and the second are
positive).

**WorkerStream.** `DeliverNeverBlocks`, `PromptsPrecedeResult` and `ResultsAreAnswers`
rest on one fact that no component sees: a command exists in one place. `IndInv` says
it in parts. `HandleInv`: a call holds a handle exactly from `SendLookup` on.
`CommandInv`: the command is in the queue or on the wire of that stream only, once, and
then no thread has it. `JobInv`: threads run only for commands sent on their stream.
`EventInv`: events of a request come from its thread, a result is the last of them,
and its thread has answered. `SessionInv`: what the Recv loop holds was the first of
those events, so the channel is empty and later prompts do not exist. `Spec => []IndInv`
gives the invariants; the action properties `StaleSessionEvictsNobody` and
`OrphansOnlyTimeOut` follow from it step by step. Lemmas on sequences say what `Tail`
and `Append` do to elements, to duplicates and to "a result is last".

`NothingLost` says where a waiting call's command or answer is while its stream is up.
It needs `WaitInv`: a call that has not returned is in the pending map, so `deliver`
finds it; only a call that is owed an answer waits, and it has no outcome yet; and a
stream that a handle names has been dialled. `NothingStep` follows a command through the
steps that hand it on (`HeadOrTail`: taking the head of a queue leaves the others in
it). `CallsTheorem` is the refinement of `CallContract`: `WorkIs` says that the worker
named by a call's handle is the only one that knows its command, and `CallsStep` maps
every step of `Next`, several commands lost at once by `Break` included. `PromiseTheorem`
is what a caller gets from it: being about `CallContract` alone, it needs no fact about
queues and streams.

Two theorems say how far the liveness properties carry without fairness.
`AnswersAdvance`: an answer the transport has received keeps its place or moves up by one,
and from the front goes to its caller's channel, so that `AnswersReachCallers` only waits
for the Recv loop. `StuckForEver`: a call in front of the full queue of a stream whose
pump is gone is there in every later state, whatever its context, which is how
`TimeoutHonoured` fails and what `ExpiredCallsReturn` excepts.

**GuardHandoff.** `CodeUsedOnce` is inductive once it is known that a code in the slot
was taken by nobody, which holds because codes are numbered by submission.
`RoutedUnlessGivenUp` is proved from `inTurn => RouteInv`: at most one login is in
flight, each login has at most one code, and, until a login gives up, a code in the slot
is for the login that waits for it (`SlotInv`) and each position of a login says what
the slot and the event hold (`LoginInv`). `LoginsAdvance` is the part of
`EveryLoginAnswers` that needs no fairness: a login's own steps only bring it nearer to
its answer and no step of another thread takes it back.

**AccountLink.** The invariants about tokens and codes need to know who *owned* a row
that may be gone. `OwnedBy(u, a)` says that the row is `u`'s or gone, that the link's
captured key is `u`'s or not there yet, and that a handler about to start the link is
`u`'s. It is established by the insert or by `GuardAuthorize` and no step destroys it,
since a generated id never gets a second owner. `PostInv`, `LinkInv` and `GuardInv`
tie handlers, goroutines and requests to it; `LinkInv` has no token in the row of a link
before its UPDATE can be under way, so that one that takes effect late only ever meets an
error "unstored" or a restart. `DeletedStaysDeleted` follows from the same invariant.
`ContractTheorem` is the refinement: with `OverInv` (a link that is over was announced
once), every step is a step of `LinkContract` under `Row` and `Status`, or a stutter
(`ContractStep`); `SaveUnseen` is a `Store` the first time and a stutter after.
`OutcomesLast` follows from the contract alone: success and failure, once told, agree with
the row in every later state, no outcome is taken back, and the row of a link that failed
gets no token until it is deleted. It says nothing of the row where storing failed or a
restart cut the link off, because the code cannot know.

**KeySession.** `KeyInv`: what a row's hash, salt and the keys derived from it depend on,
so that (`VerifyLemma`) a password is accepted exactly if it made the row, whatever the
parameters of the running release. `KeyLemma` compares keys: those of one row are equal
exactly if their releases' `kdfParams` are, which is `StoredOpens`. `TimeInv`: how the expiry of a cached key relates to
the instant of `Put` and to the clock. `NumericDateLemma` (truncation loses less than
`Sec`) turns it into `KeyOutlivesTokenBriefly` and `TokensFindKeys`.

**Friends.** `RowInv`: a request that read a row keeps its id and the token the row has as
long as it exists, which is what makes a late backfill harmless. `TurnInv`: while
undisturbed one thread is active, the client's session is what `warm` says or none, and a
thread at `read` holds the session of its own token.

**LinkDialog.** `EventInv`: the row follows the link, what a broadcaster says and what a
browser has not handled is true, and no step makes it false again. `OutcomeNotLost`
needs `DialogInv`: a dialog that waits has chosen its mode, a socket of `attached` is in
the Hub and up, and the friends page has replaced its dialog only if the account is
linked. So a
dialog that waits has been waiting (`StillLinking`), and the outcome goes from link to
snapshot (`BroadcastReaches`), from there to the socket (`WriteArrives`), and does not
pass the dialog unseen (`HandleKeeps`). `ContractTheorem` is the refinement of
`LinkContract`. `FailedForGood`: after a failed link no further attempt starts another, which is how
`RefusedOnlyIfLinked` fails, and who began to link gets past the dialog only with a token.

**Shutdown.** `ErrBound`: each goroutine starts once and sends at most once. `OutliveStep`
and `PoolInv` follow `main` through its positions. `StopWaitsShrink` is the part of
`OnlyStreamsHoldItUp` that needs no fairness: after the last GOAWAY the streams, and under
Close the queries, that shutdown waits for can only go (`QuietStep`), and when `main`
returns no stream is open and no query runs.

**Spectate.** `TablesAgree` compares the two transition tables edge by edge, also those no
code takes yet; the refinement is that lemma step by step. `FollowInv` describes the
reports as a path through the table whose end is the current state; `MoveHead` and
`AdvanceFollows` say that sending and appending keep it one. `StoppingLasts`: no sequence of
commands takes the worker out of STOPPING, which is how `StoppingEnds` fails.

The type invariants are proved in every module. Only WorkerStream's is checked by a run
as well, where it bounds the queue.

Only model-checked: the liveness properties (`ExpiredCallsReturn`,
`AnswersReachCallers`, `EveryLoginAnswers`, `OutcomesAreAnnounced`, `HeardWhileConnected`,
`ConnectingNeverWaits`, `OnlyStreamsHoldItUp`), which need fairness
and are out of the prover's reach. Of their counterparts without fairness
`OutcomeNotLost` is a property of a run; `LoginsAdvance`, `AnswersAdvance`,
`StopWaitsShrink` and the other theorems that name no property of a run are stated in the
`*_proofs` modules only.

## 5. Not modelled

* Generated protobuf code and API docs; handlers that answer 501; DTOs, JSON, HTTP and
  swagger plumbing; `ListSteamAccounts`, which changes no state.
* The spectating stubs `dota_client.py` and `ffmpeg.py`, which only raise. The session
  machine has no driver, since the session handlers are stubs.
* Test databases (`internal/testdb`), which are no part of the running system.
* The bytes of cryptography, which `KeySession` treats symbolically, and malformed PHC
  strings.
* `SteamSession.logout` and `GrpcClient.close`, which nothing calls.
* In the browser: rendering, the login and watch pages, the credentials form and the
  guard modal, the buttons of the friends page but Refresh. The contents of friend lists.
* python-steam and Steam are external: their answers are chosen freely. A restart of the
  worker is a new stream in `WorkerStream` and does not occur in `Friends`.
* Deployment files.

A database operation is one atomic step that may fail. One that reports an error may have
taken effect all the same where its effect is told from its failure: the inserts of an
account and of a user, and the UPDATE of the token, which may do so at any later time. The
answers to a deletion and to the backfill of the Steam ID are not modelled, so each is its
effect alone. An insert that a restart cuts off takes effect before it or never.
QR challenges change nothing in
`AccountLink`, where token and key expire in any order.

## 6. Plan

In order of importance:

1. **LinkSystem**: `AccountLink` over `WorkerStream` and `GuardHandoff`, so that
   `LinkContract` is shown for the whole way from the browser's request to Steam. The
   contracts are there (`CallContract` below, `LinkContract` above); what is left is to
   let `AccountLink`'s `LinkReturns` be a call of `CallContract`.
2. **LinkDialog**: the credentials form and the guard modal.
3. **Pure functions**: `splitJWT`, `classify_confirmation`, `derive_status`, PHC parsing,
   against reference definitions over bounded inputs.
4. **Sessions**: the handlers that drive the session machine, once they are written.
