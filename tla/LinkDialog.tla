------------------------------ MODULE LinkDialog ------------------------------
(***************************************************************************)
(* The push channel and the dialog it drives: the Hub of                   *)
(* control-plane/internal/api/ws.go, the events a link broadcasts, and the *)
(* browser's page, WebSocket and link dialog (frontend/src).               *)
(*                                                                         *)
(* Each user has one browser and links by QR code.  A socket is the page   *)
(* load that dials it.  Broadcasts are made by a link's own goroutine and  *)
(* by the worker stream's receive loop, which delivers challenges.  How    *)
(* the link itself runs is AccountLink's and WorkerStream's concern; here  *)
(* it challenges, then succeeds or fails.                                  *)
(***************************************************************************)
EXTENDS Naturals, Sequences

CONSTANTS Users,
          Stream,         \* the receive loop, as a speaker
          MaxLoads,       \* bound on page loads of a browser
          MaxChallenges,  \* bound on QR challenges (rotations) of a link
          None

ASSUME ConstAssumption ==
  /\ Stream \notin Users /\ None \notin Users
  /\ MaxLoads \in Nat /\ MaxChallenges \in Nat

VARIABLES
  loads,     \* per user: page loads so far
  page,      \* per user: "blank", "dialog" (AccountLink), "friends"
  loading,   \* per user: GET /friends is under way
  mode,      \* per user: the dialog's mode, "choose" or "qr"
  status,    \* per user: the dialog's status
  shown,     \* per user: whose challenge the dialog renders
  post,      \* per user: POST /steam/accounts, "orphan" once the page has gone
  row,       \* per user: the steam_accounts row
  link,      \* per user: the link's goroutine
  asked,     \* per user: challenges issued
  wire,      \* per socket: "none", "dialing", "open", "gone"
  stalled,   \* sockets whose peer has stopped reading
  hub,       \* per socket: ServeHTTP, "none", "accepted", "joined", "left"
  attached,  \* history: users whose dialog's socket was up and in the Hub when
             \* the link started, and still is
  saying,    \* per speaker: the event it is broadcasting
  todo,      \* per speaker: clients of its snapshot not yet written to
  inbox      \* per socket: events the browser has not handled

dialogVars == <<loading, mode, status, shown>>
pageVars   == <<loads, page, dialogVars>>
linkVars   == <<row, link, asked>>
wireVars   == <<wire, stalled>>
hubVars    == <<hub, attached>>
castVars   == <<saying, todo>>
vars == <<pageVars, post, linkVars, wireVars, hubVars, castVars, inbox>>

Sockets  == Users \X (1..MaxLoads)
Speakers == Users \cup {Stream}
Events   == [type : {"qr", "linked", "error"}, of : Users]

AccountQrEvent(u)     == [type |-> "qr", of |-> u]
AccountLinkedEvent(u) == [type |-> "linked", of |-> u]
AccountErrorEvent(u)  == [type |-> "error", of |-> u]

ASSUME NoneAssumption == None \notin Events

Socket(u) == <<u, loads[u]>>    \* ws.js: socket
Clients   == {s \in Sockets : hub[s] = "joined"}
Connected(u) == Socket(u) \in Clients /\ wire[Socket(u)] = "open"

TypeOK ==
  /\ loads \in [Users -> 0..MaxLoads]
  /\ page \in [Users -> {"blank", "dialog", "friends"}]
  /\ loading \in [Users -> BOOLEAN]
  /\ mode \in [Users -> {"choose", "qr"}]
  /\ status \in [Users -> {"idle", "linking", "error"}]
  /\ shown \in [Users -> Users \cup {None}]
  /\ post \in [Users -> {"none", "sent", "orphan"}]
  /\ row \in [Users -> {"none", "pending", "linked"}]
  /\ link \in [Users -> {"none", "starting", "running", "saved", "unsaved",
                        "linked", "failed", "unstored"}]
  /\ asked \in [Users -> 0..MaxChallenges]
  /\ wire \in [Sockets -> {"none", "dialing", "open", "gone"}]
  /\ stalled \in SUBSET Sockets
  /\ hub \in [Sockets -> {"none", "accepted", "joined", "left"}]
  /\ attached \subseteq Users
  /\ saying \in [Speakers -> Events \cup {None}]
  /\ todo \in [Speakers -> SUBSET Sockets]
  /\ inbox \in [Sockets -> Seq(Events)]

Init ==
  /\ loads = [u \in Users |-> 0] /\ page = [u \in Users |-> "blank"]
  /\ loading = [u \in Users |-> FALSE] /\ mode = [u \in Users |-> "choose"]
  /\ status = [u \in Users |-> "idle"] /\ shown = [u \in Users |-> None]
  /\ post = [u \in Users |-> "none"]
  /\ row = [u \in Users |-> "none"] /\ link = [u \in Users |-> "none"]
  /\ asked = [u \in Users |-> 0]
  /\ wire = [s \in Sockets |-> "none"] /\ stalled = {}
  /\ hub = [s \in Sockets |-> "none"] /\ attached = {}
  /\ saying = [p \in Speakers |-> None] /\ todo = [p \in Speakers |-> {}]
  /\ inbox = [s \in Sockets |-> <<>>]

----------------------------------------------------------------------------
(* The page: App.jsx, Friends.jsx, AccountLink.jsx.                        *)

\* The page is (re)loaded: its socket closes, which the server does not learn of
\* while the connection is stuck; connect() dials another, Friends loads the list.
Mount(u) ==
  /\ loads[u] < MaxLoads
  /\ loads' = [loads EXCEPT ![u] = @ + 1]
  /\ page' = [page EXCEPT ![u] = "blank"]
  /\ loading' = [loading EXCEPT ![u] = TRUE]
  /\ mode' = [mode EXCEPT ![u] = "choose"]
  /\ status' = [status EXCEPT ![u] = "idle"]
  /\ shown' = [shown EXCEPT ![u] = None]
  /\ post' = [post EXCEPT ![u] = IF @ = "none" THEN @ ELSE "orphan"]
  /\ \E closed \in {{Socket(u)}, {Socket(u)} \ stalled} :
       /\ wire' = [s \in Sockets |-> IF s = <<u, loads[u] + 1>> THEN "dialing"
                                     ELSE IF s \in closed THEN "gone" ELSE wire[s]]
       /\ stalled' = stalled \ closed
  /\ inbox' = [s \in Sockets |-> IF s = Socket(u) THEN <<>> ELSE inbox[s]]
  /\ attached' = attached \ {u}
  /\ UNCHANGED <<linkVars, hub, castVars>>

\* GET /friends answers: 409 shows the dialog, 200 the list.
Load(u) ==
  /\ loading[u]
  /\ loading' = [loading EXCEPT ![u] = FALSE]
  /\ page' = [page EXCEPT ![u] = IF row[u] = "linked" THEN "friends" ELSE "dialog"]
  /\ UNCHANGED <<loads, mode, status, shown, post, linkVars, wireVars, hubVars, castVars, inbox>>

\* 401, 500, 502 or no answer, for any row: the error is shown in the dialog if that is
\* what is up, else on the friends page.
LoadFails(u) ==
  /\ loading[u]
  /\ loading' = [loading EXCEPT ![u] = FALSE]
  /\ page' = [page EXCEPT ![u] = IF @ = "dialog" THEN @ ELSE "friends"]
  /\ UNCHANGED <<loads, mode, status, shown, post, linkVars, wireVars, hubVars, castVars, inbox>>

\* The friends page's button, disabled while a list loads.
Refresh(u) ==
  /\ page[u] = "friends" /\ ~loading[u]
  /\ loading' = [loading EXCEPT ![u] = TRUE]
  /\ UNCHANGED <<loads, page, mode, status, shown, post, linkVars, wireVars, hubVars, castVars, inbox>>

\* startQr: the POST is sent once, from the choice of modes.
StartQr(u) ==
  /\ page[u] = "dialog" /\ mode[u] = "choose" /\ post[u] = "none"
  /\ mode' = [mode EXCEPT ![u] = "qr"]
  /\ status' = [status EXCEPT ![u] = "linking"]
  /\ post' = [post EXCEPT ![u] = "sent"]
  /\ UNCHANGED <<loads, page, loading, shown, linkVars, wireVars, hubVars, castVars, inbox>>

\* The next event, taken from the page's socket.
Event(u) == Head(inbox[Socket(u)])
Take(u) ==
  /\ loads[u] # 0 /\ inbox[Socket(u)] # <<>>
  /\ inbox' = [inbox EXCEPT ![Socket(u)] = Tail(@)]
  /\ UNCHANGED <<loads, page, mode, post, linkVars, wireVars, hubVars, castVars>>

\* The subscription of AccountLink looks at the event's scope, not its id.
ShowQr(u) ==
  /\ Take(u) /\ page[u] = "dialog" /\ Event(u).type = "qr"
  /\ shown' = [shown EXCEPT ![u] = Event(u).of]
  /\ UNCHANGED <<status, loading>>

Linked(u) ==
  /\ Take(u) /\ page[u] = "dialog" /\ Event(u).type = "linked"
  /\ status' = [status EXCEPT ![u] = "idle"]
  /\ loading' = [loading EXCEPT ![u] = TRUE]
  /\ UNCHANGED shown

ShowError(u) ==
  /\ Take(u) /\ page[u] = "dialog" /\ Event(u).type = "error"
  /\ status' = [status EXCEPT ![u] = "error"]
  /\ UNCHANGED <<loading, shown>>

\* No dialog is mounted.
Ignore(u) == Take(u) /\ page[u] # "dialog" /\ UNCHANGED <<status, loading, shown>>

Handle(u) == ShowQr(u) \/ Linked(u) \/ ShowError(u) \/ Ignore(u)

----------------------------------------------------------------------------
(* POST /steam/accounts and the link it starts: steam_accounts.go.         *)

Answer(u, st) ==
  /\ post' = [post EXCEPT ![u] = "none"]
  /\ status' = [status EXCEPT ![u] = IF post[u] = "sent" THEN st ELSE @]

\* Create commits the row.  The next request of the user is sent when this one is
\* answered, also one whose page has gone.
Insert(u) ==
  /\ post[u] # "none" /\ row[u] = "none"
  /\ row' = [row EXCEPT ![u] = "pending"]
  /\ link' = [link EXCEPT ![u] = "starting"]
  /\ UNCHANGED <<pageVars, post, asked, wireVars, hubVars, castVars, inbox>>

\* Faulty: the link starts before there is a row.
AcceptUnrecorded(u) ==
  /\ post[u] # "none" /\ row[u] = "none" /\ link[u] = "none"
  /\ link' = [link EXCEPT ![u] = "running"]
  /\ Answer(u, status[u])
  /\ UNCHANGED <<loads, page, loading, mode, shown, row, asked, wireVars, hubVars, castVars, inbox>>

\* startAccountLink, and 201, which changes nothing in the dialog unless it is lost.
Accept(u) ==
  /\ post[u] # "none" /\ link[u] = "starting"
  /\ link' = [link EXCEPT ![u] = "running"]
  /\ Answer(u, status[u]) \/ Answer(u, "error")
  /\ attached' = IF post[u] = "sent" /\ Connected(u) THEN attached \cup {u} ELSE attached
  /\ UNCHANGED <<loads, page, loading, mode, shown, row, asked, wireVars, hub, castVars, inbox>>

\* 409: the user has a row.
Refuse(u) ==
  /\ post[u] # "none" /\ row[u] # "none" /\ link[u] # "starting"
  /\ Answer(u, "error")
  /\ UNCHANGED <<loads, page, loading, mode, shown, linkVars, wireVars, hubVars, castVars, inbox>>

\* 401, 500 or no answer at all.  Create may fail, its client gone, although it
\* committed: the row is there and no link starts.
PostFails(u) ==
  /\ post[u] # "none"
  /\ link' = [link EXCEPT ![u] = IF @ = "starting" THEN "none" ELSE @]
  /\ Answer(u, "error")
  /\ UNCHANGED <<loads, page, loading, mode, shown, row, asked, wireVars, hubVars, castVars, inbox>>

Silent(p) == todo[p] = {}

\* Broadcast copies the set of clients under the lock.
Broadcast(p, ev) ==
  /\ saying' = [saying EXCEPT ![p] = IF Clients = {} THEN None ELSE ev]
  /\ todo' = [todo EXCEPT ![p] = Clients]

\* OnQrChallenge, called by the receive loop.
Challenge(u) ==
  /\ link[u] = "running" /\ asked[u] < MaxChallenges /\ Silent(Stream)
  /\ asked' = [asked EXCEPT ![u] = @ + 1]
  /\ Broadcast(Stream, AccountQrEvent(u))
  /\ UNCHANGED <<pageVars, post, row, link, wireVars, hubVars, inbox>>

\* OnLinked: the result came through the receive loop; store the token ...
Persist(u) ==
  /\ link[u] = "running" /\ Silent(Stream)
  /\ row' = [row EXCEPT ![u] = "linked"]
  /\ link' = [link EXCEPT ![u] = "saved"]
  /\ UNCHANGED <<pageVars, post, asked, wireVars, hubVars, castVars, inbox>>

\* Faulty: announce the result, store it later.
AnnounceUnsaved(u) ==
  /\ link[u] = "running" /\ Silent(Stream)
  /\ link' = [link EXCEPT ![u] = "linked"]
  /\ Broadcast(u, AccountLinkedEvent(u))
  /\ UNCHANGED <<pageVars, post, row, asked, wireVars, hubVars, inbox>>

\* ... and say so.
AnnounceLinked(u) ==
  /\ link[u] = "saved"
  /\ link' = [link EXCEPT ![u] = "linked"]
  /\ Broadcast(u, AccountLinkedEvent(u))
  /\ UNCHANGED <<pageVars, post, row, asked, wireVars, hubVars, inbox>>

\* OnError: no worker, an error of the worker, or linkTimeout.
LinkFails(u) ==
  /\ link[u] = "running"
  /\ link' = [link EXCEPT ![u] = "failed"]
  /\ Broadcast(u, AccountErrorEvent(u))
  /\ UNCHANGED <<pageVars, post, row, asked, wireVars, hubVars, inbox>>

\* OnLinked, with an error from SaveRefreshToken ...
PersistFails(u) ==
  /\ link[u] = "running" /\ Silent(Stream)
  /\ link' = [link EXCEPT ![u] = "unsaved"]
  /\ UNCHANGED <<pageVars, post, row, asked, wireVars, hubVars, castVars, inbox>>

\* ... which says nothing of the UPDATE: the database may carry it out all the same ...
SaveUnseen(u) ==
  /\ link[u] \in {"unsaved", "unstored"}
  /\ row' = [row EXCEPT ![u] = "linked"]
  /\ UNCHANGED <<pageVars, post, link, asked, wireVars, hubVars, castVars, inbox>>

\* ... and "could not store refresh token".
AnnounceUnstored(u) ==
  /\ link[u] = "unsaved"
  /\ link' = [link EXCEPT ![u] = "unstored"]
  /\ Broadcast(u, AccountErrorEvent(u))
  /\ UNCHANGED <<pageVars, post, row, asked, wireVars, hubVars, inbox>>

----------------------------------------------------------------------------
(* The Hub: ws.go.                                                         *)

\* Faulty: a failed write ends the broadcast.
WriteStopsAtError(p, s) ==
  /\ s \in todo[p]
  /\ wire[s] = "gone" \/ s \notin stalled
  /\ inbox' = [inbox EXCEPT ![s] = IF wire[s] = "open" THEN Append(@, saying[p]) ELSE @]
  /\ todo' = [todo EXCEPT ![p] = IF wire[s] = "gone" THEN {} ELSE @ \ {s}]
  /\ saying' = [saying EXCEPT ![p] = IF todo'[p] = {} THEN None ELSE @]
  /\ UNCHANGED <<pageVars, post, linkVars, wireVars, hubVars>>

\* One write of a broadcast: it fails on a connection that is gone and, having
\* no deadline, does not return while the peer does not read.
Write(p, s) ==
  /\ s \in todo[p]
  /\ wire[s] = "gone" \/ s \notin stalled
  /\ inbox' = [inbox EXCEPT ![s] = IF wire[s] = "open" THEN Append(@, saying[p]) ELSE @]
  /\ todo' = [todo EXCEPT ![p] = @ \ {s}]
  /\ saying' = [saying EXCEPT ![p] = IF todo'[p] = {} THEN None ELSE @]
  /\ UNCHANGED <<pageVars, post, linkVars, wireVars, hubVars>>

\* websocket.Accept: the browser's socket opens.
Upgrade(s) ==
  /\ wire[s] = "dialing"
  /\ wire' = [wire EXCEPT ![s] = "open"]
  /\ hub' = [hub EXCEPT ![s] = "accepted"]
  /\ UNCHANGED <<pageVars, post, linkVars, stalled, attached, castVars, inbox>>

\* Faulty: the lock is held while a broadcast writes.
JoinAfterWrites(s) ==
  /\ hub[s] = "accepted" /\ \A p \in Speakers : Silent(p)
  /\ hub' = [hub EXCEPT ![s] = "joined"]
  /\ UNCHANGED <<pageVars, post, linkVars, wireVars, attached, castVars, inbox>>

\* h.add, in the handler's goroutine.
Join(s) ==
  /\ hub[s] = "accepted"
  /\ hub' = [hub EXCEPT ![s] = "joined"]
  /\ UNCHANGED <<pageVars, post, linkVars, wireVars, attached, castVars, inbox>>

\* The read loop fails on the closed connection: h.remove.
Leave(s) ==
  /\ hub[s] = "joined" /\ wire[s] = "gone"
  /\ hub' = [hub EXCEPT ![s] = "left"]
  /\ UNCHANGED <<pageVars, post, linkVars, wireVars, attached, castVars, inbox>>

\* The connection is lost, or never made; what had arrived is still handled.
Lose(s) ==
  /\ wire[s] \in {"dialing", "open"}
  /\ wire' = [wire EXCEPT ![s] = "gone"]
  /\ stalled' = stalled \ {s}
  /\ attached' = {u \in attached : Socket(u) # s}
  /\ UNCHANGED <<pageVars, post, linkVars, hub, castVars, inbox>>

\* The browser sleeps or its network is gone: the connection is up, its buffers full.
Stall(s) ==
  /\ wire[s] = "open" /\ s \notin stalled
  /\ stalled' = stalled \cup {s}
  /\ UNCHANGED <<pageVars, post, linkVars, wire, hubVars, castVars, inbox>>

----------------------------------------------------------------------------

BrowserNext(u) == Mount(u) \/ StartQr(u) \/ Refresh(u)
PageNext(u)    == Load(u) \/ LoadFails(u)
PostNext(u)    == Insert(u) \/ Accept(u) \/ Refuse(u) \/ PostFails(u)
LinkNext(u)    == Persist(u) \/ AnnounceLinked(u) \/ LinkFails(u)
                    \/ PersistFails(u) \/ AnnounceUnstored(u)

Next ==
  \/ \E u \in Users : \/ BrowserNext(u) \/ PageNext(u) \/ Handle(u) \/ PostNext(u)
                      \/ Challenge(u) \/ LinkNext(u) \/ SaveUnseen(u)
  \/ \E p \in Speakers, s \in Sockets : Write(p, s)
  \/ \E s \in Sockets : Upgrade(s) \/ Join(s) \/ Leave(s) \/ Lose(s) \/ Stall(s)

Spec == Init /\ [][Next]_vars

\* Goroutines and the browser's event loop are scheduled, a request is
\* answered, and a link ends within linkTimeout.  Users owe nothing, nor does
\* the network beyond carrying what is written to an open connection.
Fairness ==
  /\ \A u \in Users : /\ WF_vars(PageNext(u)) /\ WF_vars(Handle(u))
                      /\ WF_vars(PostNext(u)) /\ WF_vars(LinkNext(u))
  /\ \A p \in Speakers, s \in Sockets : WF_vars(Write(p, s))
  /\ \A s \in Sockets : WF_vars(Upgrade(s)) /\ WF_vars(Join(s)) /\ WF_vars(Leave(s))

FairSpec == Spec /\ Fairness

----------------------------------------------------------------------------
(* Properties.                                                             *)

Linking(u)   == page[u] = "dialog" /\ status[u] = "linking"

OnItsWay(ev) == \/ \E p \in Speakers : saying[p] = ev
                \/ \E s \in Sockets : \E i \in DOMAIN inbox[s] : inbox[s][i] = ev

Outcomes(u) == {AccountLinkedEvent(u), AccountErrorEvent(u)}

\* What is on its way to any browser about a link is so, however late it arrives: the
\* list loads after account_linked.  An error is that of a link that has ended without
\* one; if the link itself failed, its row has no token and never will, and if the token
\* could not be stored, the error says no more than that the database gave one too.
EventsAreTrue ==
  \A u \in Users :
    /\ OnItsWay(AccountLinkedEvent(u)) => link[u] = "linked" /\ row[u] = "linked"
    /\ OnItsWay(AccountErrorEvent(u))  => \/ link[u] = "failed" /\ row[u] = "pending"
                                          \/ link[u] = "unstored"

\* The dialog that waits for a link that started while its socket was in the Hub will
\* learn how it ends: until then the outcome is still to come, or a broadcast has yet
\* to write it to this socket, or it is there to be handled.  No broadcast, stalled
\* browser, failed write or answer to a list request in between swallows it.
OutcomeNotLost ==
  \A u \in attached : Linking(u) =>
    \/ link[u] \in {"running", "saved", "unsaved"}
    \/ saying[u] \in Outcomes(u) /\ Socket(u) \in todo[u]
    \/ \E i \in DOMAIN inbox[Socket(u)] : inbox[Socket(u)][i] \in Outcomes(u)

\* A dialog whose socket was in the Hub when its request was sent, and that
\* keeps its connection, is resolved, whatever becomes of the connections of
\* others, unless some browser stops reading: Broadcast goes on after a write
\* that fails.
HeardWhileConnected ==
  \A u \in Users :
    Linking(u) /\ post[u] = "sent" /\ Connected(u)
      ~> ~Linking(u) \/ ~Connected(u) \/ stalled # {}

\* A browser that connects gets into the Hub although broadcasts may be stuck
\* in writes to browsers that do not read: they write without the lock.
ConnectingNeverWaits ==
  \A s \in Sockets : hub[s] = "accepted" ~> hub[s] # "accepted"

\* The contract AccountLink implements, as the dialogs see it: nothing is deleted here,
\* and the QR code asks for no other code.
ContractRow == [u \in Users |-> CASE row[u] = "none" -> "none"
                                  [] row[u] = "pending" -> "bare"
                                  [] OTHER -> "token"]
ContractStatus == [u \in Users |-> IF link[u] \in {"none", "starting"} THEN "idle"
                                   ELSE IF link[u] \in {"running", "saved", "unsaved"} THEN "open"
                                   ELSE link[u]]

Contract == INSTANCE LinkContract
              WITH Accounts <- Users, row <- ContractRow, status <- ContractStatus, prompted <- {}

\* One link per row, started once the row is there; success is announced to the browsers
\* only when the token is stored, a failure of the link only if none ever is, and an
\* error of storing it is told from both.
ImplementsLinkContract == Contract!Spec

(* Claims of comments and docs that the code does not keep *)

\* AccountLink.jsx: either way the terminal account_linked / error event
\* resolves the flow.  Nothing reconnects a lost socket, and events broadcast
\* before the socket is in the Hub are not kept.
DialogResolves == \A u \in Users : Linking(u) ~> ~Linking(u)

\* AccountLink.jsx: the worker pushes a steam_qr event whose challenge URL the
\* dialog that asked renders.  Every browser gets every event, and the dialog
\* does not compare ids.
ChallengeIsOwn == \A u \in Users : mode[u] = "qr" => shown[u] \in {u, None}

\* steam_accounts.go: "could not store refresh token".  The UPDATE may have committed and
\* the connection been lost: the dialog shows the error, the next page load the friends.
UnstoredMeansNoToken == \A u \in Users : link[u] = "unstored" => row[u] = "pending"

\* steam_accounts.go: 409 "account already linked".  The row is there from the
\* moment the link starts, and stays when it fails.
RefusedOnlyIfLinked ==
  [][\A u \in Users : Refuse(u) => row[u] = "linked" \/ link[u] = "running"]_vars
==============================================================================
