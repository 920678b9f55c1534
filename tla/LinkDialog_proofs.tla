-------------------------- MODULE LinkDialog_proofs --------------------------
(***************************************************************************)
(* TLAPS proofs about LinkDialog, for any users and any bounds.            *)
(***************************************************************************)
EXTENDS LinkDialog, TLAPS

\* What an event says about its link.
IsTrue(ev) ==
  /\ ev.type = "linked" => link[ev.of] = "linked" /\ row[ev.of] = "linked"
  /\ ev.type = "error"  => \/ link[ev.of] = "failed" /\ row[ev.of] = "pending"
                           \/ link[ev.of] = "unstored"

\* The row follows the link.
LinkOK(u) ==
  /\ row[u] = "none" => link[u] = "none"
  /\ link[u] \in {"starting", "running", "failed"} => row[u] = "pending"
  /\ link[u] \in {"saved", "linked"} => row[u] = "linked"

SpeakerOK(p) ==
  saying[p] # None => IsTrue(saying[p])

InboxOK(s) == \A i \in 1..Len(inbox[s]) : IsTrue(inbox[s][i])

\* A broadcast under way has an event to write.
TypeInv == TypeOK /\ \A p \in Speakers : todo[p] # {} => saying[p] # None

EventInv ==
  /\ \A u \in Users : LinkOK(u)
  /\ \A p \in Speakers : SpeakerOK(p)
  /\ \A s \in Sockets : InboxOK(s)

\* The elements of a tail.
LEMMA TailElements ==
  ASSUME NEW S, NEW q \in Seq(S), q # <<>>, NEW i \in 1..Len(Tail(q))
  PROVE  i + 1 \in 1..Len(q) /\ Tail(q)[i] = q[i + 1]
OBVIOUS

\* The constructors make events.
LEMMA EventTypes ==
  \A u \in Users : /\ AccountQrEvent(u) \in Events
                   /\ AccountLinkedEvent(u) \in Events
                   /\ AccountErrorEvent(u) \in Events
BY DEF AccountQrEvent, AccountLinkedEvent, AccountErrorEvent, Events

\* A broadcast keeps the types of its variables.
LEMMA BroadcastType ==
  ASSUME TypeInv, NEW p \in Speakers, NEW ev \in Events, Broadcast(p, ev)
  PROVE  /\ saying' \in [Speakers -> Events \cup {None}]
         /\ todo' \in [Speakers -> SUBSET Sockets]
         /\ \A q \in Speakers : todo'[q] # {} => saying'[q] # None
<1>1. Clients \in SUBSET Sockets
  BY DEF Clients
<1>2. QED
  BY <1>1, NoneAssumption DEF TypeInv, TypeOK, Broadcast

\* The receive loop and the links of users speak.
LEMMA SpeakersAre == Stream \in Speakers /\ \A u \in Users : u \in Speakers
BY DEF Speakers

\* The first state is well typed.
LEMMA InitType == Init => TypeInv
BY ConstAssumption DEF Init, TypeInv, TypeOK

\* Every step keeps the types.
LEMMA NextType ==
  ASSUME TypeInv, [Next]_vars
  PROVE  TypeInv'
<1> USE ConstAssumption DEF TypeInv, TypeOK, vars, pageVars, dialogVars, linkVars, wireVars, hubVars, castVars
<1>1. CASE \E u \in Users : Mount(u)
  BY <1>1 DEF Mount, Socket
<1>2. CASE \E u \in Users : StartQr(u)
  BY <1>2 DEF StartQr
<1>21. CASE \E u \in Users : Refresh(u)
  BY <1>21 DEF Refresh
<1>3. CASE \E u \in Users : Load(u)
  BY <1>3 DEF Load
<1>4. CASE \E u \in Users : LoadFails(u)
  BY <1>4 DEF LoadFails
<1>5. CASE \E u \in Users : Handle(u)
  <2>1. PICK u \in Users : Handle(u)
    BY <1>5
  <2>2. Socket(u) \in Sockets
    BY <2>1 DEF Handle, ShowQr, Linked, ShowError, Ignore, Take, Socket, Sockets
  <2>3. Take(u)
    BY <2>1 DEF Handle, ShowQr, Linked, ShowError, Ignore
  <2>7. inbox[Socket(u)] \in Seq(Events) /\ inbox[Socket(u)] # <<>>
    BY <2>2, <2>3 DEF Take
  <2>8. Tail(inbox[Socket(u)]) \in Seq(Events)
    BY <2>7
  <2>9. inbox' \in [Sockets -> Seq(Events)]
    BY <2>3, <2>8 DEF Take
  <2>4. Head(inbox[Socket(u)]) \in Events
    BY <2>1, <2>2 DEF Handle, ShowQr, Linked, ShowError, Ignore, Take
  <2>5. Event(u).of \in Users
    BY <2>4 DEF Event, Events
  <2>6. QED
    <3>1. CASE ShowQr(u)
      BY <3>1, <2>5, <2>9 DEF ShowQr, Take
    <3>2. CASE Linked(u)
      BY <3>2, <2>9 DEF Linked, Take
    <3>3. CASE ShowError(u)
      BY <3>3, <2>9 DEF ShowError, Take
    <3>4. CASE Ignore(u)
      BY <3>4, <2>9 DEF Ignore, Take
    <3>5. QED
      BY <2>1, <3>1, <3>2, <3>3, <3>4 DEF Handle
<1>6. CASE \E u \in Users : Accept(u)
  <2>1. PICK u \in Users : Accept(u)
    BY <1>6
  <2>2. /\ post' \in [Users -> {"none", "sent", "orphan"}]
        /\ status' \in [Users -> {"idle", "linking", "error"}]
    <3>1. PICK st \in {status[u], "error"} : Answer(u, st)
      BY <2>1 DEF Accept
    <3>2. QED
      BY <3>1 DEF Answer
  <2>3. link' \in [Users -> {"none", "starting", "running", "saved", "unsaved",
                             "linked", "failed", "unstored"}]
    BY <2>1 DEF Accept
  <2>4. attached' \subseteq Users
    BY <2>1 DEF Accept
  <2>5. QED
    BY <2>1, <2>2, <2>3, <2>4 DEF Accept
<1>61. CASE \E u \in Users : Insert(u)
  BY <1>61 DEF Insert
<1>7. CASE \E u \in Users : Refuse(u)
  BY <1>7 DEF Refuse, Answer
<1>8. CASE \E u \in Users : PostFails(u)
  BY <1>8 DEF PostFails, Answer
<1>9. CASE \E u \in Users : Challenge(u)
  BY <1>9, EventTypes, BroadcastType, SpeakersAre DEF Challenge, Silent
<1>10. CASE \E u \in Users : Persist(u)
  BY <1>10 DEF Persist, Silent
<1>11. CASE \E u \in Users : AnnounceLinked(u)
  BY <1>11, EventTypes, BroadcastType, SpeakersAre DEF AnnounceLinked
<1>12. CASE \E u \in Users : LinkFails(u)
  BY <1>12, EventTypes, BroadcastType, SpeakersAre DEF LinkFails
<1>22. CASE \E u \in Users : PersistFails(u)
  BY <1>22 DEF PersistFails, Silent
<1>23. CASE \E u \in Users : SaveUnseen(u)
  BY <1>23 DEF SaveUnseen
<1>24. CASE \E u \in Users : AnnounceUnstored(u)
  BY <1>24, EventTypes, BroadcastType, SpeakersAre DEF AnnounceUnstored
<1>13. CASE \E p \in Speakers, s \in Sockets : Write(p, s)
  BY <1>13 DEF Write
<1>14. CASE \E s \in Sockets : Upgrade(s)
  BY <1>14 DEF Upgrade
<1>15. CASE \E s \in Sockets : Join(s)
  BY <1>15 DEF Join
<1>16. CASE \E s \in Sockets : Leave(s)
  BY <1>16 DEF Leave
<1>17. CASE \E s \in Sockets : Lose(s)
  BY <1>17 DEF Lose
<1>18. CASE \E s \in Sockets : Stall(s)
  BY <1>18 DEF Stall
<1>19. CASE UNCHANGED vars
  BY <1>19
<1>20. QED
  BY <1>1, <1>2, <1>3, <1>4, <1>5, <1>6, <1>61, <1>7, <1>8, <1>9, <1>10, <1>11, <1>12, <1>13, <1>14, <1>15, <1>16, <1>17, <1>18, <1>19,
     <1>21, <1>22, <1>23, <1>24
     DEF Next, BrowserNext, PageNext, PostNext, LinkNext

\* Types, in every reachable state.
LEMMA TypeInvariance == Spec => []TypeInv
BY InitType, NextType, PTL DEF Spec

\* LinkDialog: every variable keeps its type.
THEOREM TypeCorrect == Spec => []TypeOK
<1>1. TypeInv => TypeOK
  BY DEF TypeInv
<1>2. QED
  BY <1>1, TypeInvariance, PTL

\* An empty inbox holds nothing.
LEMMA EmptyLemma == \A i \in 1..Len(<<>>) : FALSE
<1>1. Len(<<>>) = 0
  OBVIOUS
<1>2. QED
  BY <1>1

\* At first nothing is on its way.
LEMMA EventInvInit == Init => EventInv
<1>1. ASSUME Init, NEW s \in Sockets PROVE InboxOK(s)
  <2>1. inbox = [t \in Sockets |-> <<>>]
    BY <1>1, Zenon DEF Init
  <2>3. inbox[s] = <<>>
    BY <2>1, ZenonT(60)
  <2>4. QED
    BY <2>3, EmptyLemma, Zenon DEF InboxOK
<1>2. QED
  BY <1>1 DEF Init, EventInv, LinkOK, SpeakerOK

\* Every step keeps what is on its way true.
LEMMA EventInvNext ==
  ASSUME TypeInv, EventInv, [Next]_vars
  PROVE  EventInv'
<1> USE ConstAssumption DEF TypeInv, TypeOK, EventInv, LinkOK, SpeakerOK, InboxOK, IsTrue,
             vars, pageVars, dialogVars, linkVars, wireVars, hubVars, castVars
<1>1. CASE \E u \in Users : Mount(u)
  BY <1>1 DEF Mount, Socket
<1>2. CASE \E u \in Users : StartQr(u)
  BY <1>2 DEF StartQr
<1>21. CASE \E u \in Users : Refresh(u)
  BY <1>21 DEF Refresh
<1>3. CASE \E u \in Users : Load(u)
  BY <1>3 DEF Load
<1>4. CASE \E u \in Users : LoadFails(u)
  BY <1>4 DEF LoadFails
<1>5. CASE \E u \in Users : Handle(u)
  <2>1. PICK u \in Users : Handle(u)
    BY <1>5
  <2>2. Socket(u) \in Sockets
    BY <2>1 DEF Handle, ShowQr, Linked, ShowError, Ignore, Take, Socket, Sockets
  <2>3. Take(u)
    BY <2>1 DEF Handle, ShowQr, Linked, ShowError, Ignore
  <2>6. \A s \in Sockets : inbox'[s] = IF s = Socket(u) THEN Tail(inbox[s]) ELSE inbox[s]
    BY <2>2, <2>3 DEF Take
  <2>4. ASSUME NEW s \in Sockets, NEW i \in 1..Len(inbox'[s])
        PROVE  IsTrue(inbox[s][i])'
    <3>1. inbox[s] \in Seq(Events)
      OBVIOUS
    <3>2. \E j \in 1..Len(inbox[s]) : inbox'[s][i] = inbox[s][j]
      <4>1. CASE s = Socket(u)
        <5>1. inbox[s] # <<>> /\ inbox'[s] = Tail(inbox[s])
          BY <2>3, <2>6, <4>1 DEF Take
        <5>2. i + 1 \in 1..Len(inbox[s]) /\ inbox'[s][i] = inbox[s][i + 1]
          BY <3>1, <5>1, TailElements
        <5>3. QED
          BY <5>2
      <4>2. CASE s # Socket(u)
        BY <2>6, <4>2
      <4>3. QED
        BY <4>1, <4>2
    <3>3. QED
      BY <2>1, <3>2 DEF Handle, ShowQr, Linked, ShowError, Ignore, Take
  <2>5. UNCHANGED <<row, link, saying, todo>>
    BY <2>3 DEF Take
  <2>7. QED
    BY <2>4, <2>5, SMTT(60)
<1>6. CASE \E u \in Users : Accept(u)
  BY <1>6 DEF Accept, Answer
<1>61. CASE \E u \in Users : Insert(u)
  BY <1>61 DEF Insert
<1>7. CASE \E u \in Users : Refuse(u)
  BY <1>7 DEF Refuse, Answer
<1>8. CASE \E u \in Users : PostFails(u)
  BY <1>8 DEF PostFails, Answer
<1>9. CASE \E u \in Users : Challenge(u)
  BY <1>9, SMTT(60) DEF Challenge, Broadcast, Silent, AccountQrEvent
<1>10. CASE \E u \in Users : Persist(u)
  BY <1>10 DEF Persist, Silent
<1>11. CASE \E u \in Users : AnnounceLinked(u)
  BY <1>11, SMTT(60) DEF AnnounceLinked, Broadcast, AccountLinkedEvent
<1>12. CASE \E u \in Users : LinkFails(u)
  BY <1>12, SMTT(60) DEF LinkFails, Broadcast, AccountErrorEvent
<1>22. CASE \E u \in Users : PersistFails(u)
  BY <1>22 DEF PersistFails, Silent
<1>23. CASE \E u \in Users : SaveUnseen(u)
  BY <1>23 DEF SaveUnseen
<1>24. CASE \E u \in Users : AnnounceUnstored(u)
  BY <1>24, SMTT(60) DEF AnnounceUnstored, Broadcast, AccountErrorEvent
<1>13. CASE \E p \in Speakers, s \in Sockets : Write(p, s)
  BY <1>13 DEF Write
<1>14. CASE \E s \in Sockets : Upgrade(s)
  BY <1>14 DEF Upgrade
<1>15. CASE \E s \in Sockets : Join(s)
  BY <1>15 DEF Join
<1>16. CASE \E s \in Sockets : Leave(s)
  BY <1>16 DEF Leave
<1>17. CASE \E s \in Sockets : Lose(s)
  BY <1>17 DEF Lose
<1>18. CASE \E s \in Sockets : Stall(s)
  BY <1>18 DEF Stall
<1>19. CASE UNCHANGED vars
  BY <1>19
<1>20. QED
  BY <1>1, <1>2, <1>3, <1>4, <1>5, <1>6, <1>61, <1>7, <1>8, <1>9, <1>10, <1>11, <1>12, <1>13, <1>14, <1>15, <1>16, <1>17, <1>18, <1>19,
     <1>21, <1>22, <1>23, <1>24
     DEF Next, BrowserNext, PageNext, PostNext, LinkNext

\* LinkDialog: an account_linked or error event on its way to any browser is
\* true when it arrives, whenever that is.
THEOREM EventsTheorem == Spec => []EventsAreTrue
<1>1. ASSUME TypeInv, EventInv PROVE EventsAreTrue
  <2>1. ASSUME NEW e, OnItsWay(e), e # None PROVE IsTrue(e)
    <3>1. CASE \E p \in Speakers : saying[p] = e
      BY <1>1, <2>1, <3>1 DEF EventInv, SpeakerOK
    <3>2. CASE \E s \in Sockets : \E i \in DOMAIN inbox[s] : inbox[s][i] = e
      <4>1. PICK s \in Sockets : \E i \in DOMAIN inbox[s] : inbox[s][i] = e
        BY <3>2
      <4>2. DOMAIN inbox[s] = 1..Len(inbox[s])
        BY <1>1 DEF TypeInv, TypeOK
      <4>3. QED
        BY <1>1, <4>1, <4>2 DEF EventInv, InboxOK
    <3>3. QED
      BY <2>1, <3>1, <3>2 DEF OnItsWay
  <2>2. ASSUME NEW u \in Users
        PROVE  /\ OnItsWay(AccountLinkedEvent(u)) => IsTrue(AccountLinkedEvent(u))
               /\ OnItsWay(AccountErrorEvent(u)) => IsTrue(AccountErrorEvent(u))
    <3>1. AccountLinkedEvent(u) # None /\ AccountErrorEvent(u) # None
      BY EventTypes, NoneAssumption
    <3>2. QED
      BY <2>1, <3>1
  <2>3. ASSUME NEW u \in Users
        PROVE  /\ IsTrue(AccountLinkedEvent(u)) => link[u] = "linked" /\ row[u] = "linked"
               /\ IsTrue(AccountErrorEvent(u)) => \/ link[u] = "failed" /\ row[u] = "pending"
                                                  \/ link[u] = "unstored"
    BY DEF IsTrue, AccountLinkedEvent, AccountErrorEvent
  <2>4. QED
    BY <2>2, <2>3 DEF EventsAreTrue
<1>2. QED
  BY <1>1, EventInvInit, EventInvNext, TypeInvariance, PTL DEF Spec

----------------------------------------------------------------------------
(* No outcome is lost on its way to a dialog that was there from the start. *)

\* A dialog that waits has a mode, and the list replaces it only for a linked account.
PageInv(u) ==
  /\ status[u] = "linking" \/ post[u] = "sent" => mode[u] = "qr"
  /\ mode[u] = "qr" => page[u] = "dialog" \/ (page[u] = "friends" /\ row[u] = "linked")

\* attached means what it says.
AttachInv(u) ==
  u \in attached => /\ Socket(u) \in Sockets /\ Connected(u)
                    /\ mode[u] = "qr" /\ link[u] \notin {"none", "starting"}

Pending(u) == link[u] \in {"running", "saved", "unsaved"}
Unwritten(u) == saying[u] \in Outcomes(u) /\ Socket(u) \in todo[u]
Arrived(u) == \E i \in DOMAIN inbox[Socket(u)] : inbox[Socket(u)][i] \in Outcomes(u)

DialogInv == \A u \in Users : PageInv(u) /\ AttachInv(u)

\* An accepted link attaches its dialog.
LEMMA AcceptDialog ==
  ASSUME TypeInv, DialogInv, NEW u \in Users, Accept(u)
  PROVE  DialogInv'
<1>1. UNCHANGED <<loads, page, mode, row, hub, wire>>
  BY DEF Accept, wireVars
<1>2. attached' = IF post[u] = "sent" /\ Connected(u) THEN attached \cup {u} ELSE attached
  BY DEF Accept
<1>3. \A v \in Users : /\ status'[v] = "linking" => status[v] = "linking"
                       /\ post'[v] = "sent" => post[v] = "sent"
                       /\ link'[v] = IF v = u THEN "running" ELSE link[v]
  BY DEF Accept, Answer, TypeInv, TypeOK
<1>4. \A v \in Users : Socket(v)' = Socket(v) /\ (Connected(v)' <=> Connected(v))
  BY <1>1 DEF Socket, Connected, Clients
<1>5. ASSUME NEW v \in Users PROVE PageInv(v)'
  <2>1. PageInv(v)
    BY DEF DialogInv
  <2>2. QED
    BY <1>1, <1>3, <2>1 DEF PageInv
<1>6. ASSUME NEW v \in Users, v \in attached' PROVE AttachInv(v)'
  <2>1. CASE v \in attached
    <3>1. Socket(v) \in Sockets /\ Connected(v) /\ mode[v] = "qr" /\ link[v] \notin {"none", "starting"}
      BY <2>1 DEF DialogInv, AttachInv
    <3>2. Socket(v)' \in Sockets /\ Connected(v)' /\ mode'[v] = "qr"
      BY <1>1, <1>4, <3>1
    <3>3. link'[v] \notin {"none", "starting"}
      BY <1>3, <3>1
    <3>4. Sockets' = Sockets
      BY DEF Sockets
    <3>5. QED
      BY <3>2, <3>3, <3>4 DEF AttachInv
  <2>2. CASE v \notin attached
    <3>1. v = u /\ post[u] = "sent" /\ Connected(u)
      BY <1>2, <1>6, <2>2
    <3>2. mode[u] = "qr"
      BY <3>1 DEF DialogInv, PageInv
    <3>3. Socket(v) \in Sockets /\ Connected(v)' /\ mode'[v] = "qr"
      BY <1>1, <1>4, <3>1, <3>2 DEF Connected, Clients
    <3>4. link'[v] = "running" /\ Sockets' = Sockets
      BY <1>3, <3>1 DEF Sockets
    <3>5. QED
      BY <1>4, <3>3, <3>4 DEF AttachInv
  <2>3. QED
    BY <2>1, <2>2
<1>7. QED
  BY <1>5, <1>6 DEF DialogInv, AttachInv

\* Every step keeps DialogInv.
LEMMA DialogInvNext ==
  ASSUME TypeInv, EventInv, DialogInv, [Next]_vars
  PROVE  DialogInv'
<1> USE ConstAssumption DEF TypeInv, TypeOK, DialogInv, PageInv, AttachInv, EventInv, LinkOK,
             Connected, Clients, Socket, vars, pageVars, dialogVars, linkVars, wireVars, hubVars, castVars
<1>1. CASE \E u \in Users : Mount(u)
  BY <1>1 DEF Mount
<1>2. CASE \E u \in Users : StartQr(u)
  BY <1>2 DEF StartQr
<1>21. CASE \E u \in Users : Refresh(u)
  BY <1>21 DEF Refresh
<1>3. CASE \E u \in Users : Load(u)
  BY <1>3 DEF Load
<1>4. CASE \E u \in Users : LoadFails(u)
  BY <1>4 DEF LoadFails
<1>5. CASE \E u \in Users : Handle(u)
  BY <1>5 DEF Handle, ShowQr, Linked, ShowError, Ignore, Take
<1>6. CASE \E u \in Users : Accept(u)
  BY <1>6, AcceptDialog
<1>61. CASE \E u \in Users : Insert(u)
  BY <1>61 DEF Insert
<1>7. CASE \E u \in Users : Refuse(u)
  BY <1>7 DEF Refuse, Answer
<1>8. CASE \E u \in Users : PostFails(u)
  BY <1>8 DEF PostFails, Answer
<1>9. CASE \E u \in Users : Challenge(u)
  BY <1>9 DEF Challenge
<1>10. CASE \E u \in Users : Persist(u)
  BY <1>10 DEF Persist
<1>11. CASE \E u \in Users : AnnounceLinked(u)
  BY <1>11 DEF AnnounceLinked
<1>12. CASE \E u \in Users : LinkFails(u)
  BY <1>12 DEF LinkFails
<1>22. CASE \E u \in Users : PersistFails(u)
  BY <1>22 DEF PersistFails
<1>23. CASE \E u \in Users : SaveUnseen(u)
  BY <1>23 DEF SaveUnseen
<1>24. CASE \E u \in Users : AnnounceUnstored(u)
  BY <1>24 DEF AnnounceUnstored
<1>13. CASE \E p \in Speakers, s \in Sockets : Write(p, s)
  BY <1>13 DEF Write
<1>14. CASE \E s \in Sockets : Upgrade(s)
  BY <1>14 DEF Upgrade
<1>15. CASE \E s \in Sockets : Join(s)
  BY <1>15 DEF Join
<1>16. CASE \E s \in Sockets : Leave(s)
  BY <1>16 DEF Leave
<1>17. CASE \E s \in Sockets : Lose(s)
  BY <1>17 DEF Lose
<1>18. CASE \E s \in Sockets : Stall(s)
  BY <1>18 DEF Stall
<1>19. CASE UNCHANGED vars
  BY <1>19
<1>20. QED
  BY <1>1, <1>2, <1>3, <1>4, <1>5, <1>6, <1>61, <1>7, <1>8, <1>9, <1>10, <1>11, <1>12, <1>13, <1>14, <1>15, <1>16, <1>17, <1>18, <1>19,
     <1>21, <1>22, <1>23, <1>24
     DEF Next, BrowserNext, PageNext, PostNext, LinkNext

\* A dialog that waits, and whose socket is attached, has been waiting: no answer to a
\* list request brings it back.
LEMMA StillLinking ==
  ASSUME TypeInv, EventInv, DialogInv, Next, NEW u \in attached, u \in attached', Linking(u)'
  PROVE  Linking(u) /\ Socket(u)' = Socket(u)
<1> USE DEF Linking, vars, pageVars, dialogVars, Socket
<1>t. u \in Users /\ PageInv(u) /\ AttachInv(u) /\ LinkOK(u)
  BY DEF TypeInv, TypeOK, DialogInv, EventInv
<1>1. ASSUME NEW v \in Users, Mount(v) PROVE loads'[u] = loads[u] /\ Linking(u)
  <2>1. v # u
    BY <1>1 DEF Mount
  <2>2. QED
    BY <1>1, <1>t, <2>1 DEF Mount, TypeInv, TypeOK
<1>2. ASSUME NEW v \in Users, StartQr(v) PROVE loads'[u] = loads[u] /\ Linking(u)
  <2>1. v # u
    BY <1>2, <1>t DEF StartQr, AttachInv
  <2>2. QED
    BY <1>2, <1>t, <2>1 DEF StartQr, TypeInv, TypeOK
<1>3. ASSUME NEW v \in Users, PageNext(v) PROVE loads'[u] = loads[u] /\ Linking(u)
  <2>1. page'[u] = "dialog" => page[u] = "dialog" \/ row[u] # "linked"
    BY <1>3, <1>t DEF PageNext, Load, LoadFails, TypeInv, TypeOK
  <2>2. UNCHANGED <<loads, status, mode, row>>
    BY <1>3 DEF PageNext, Load, LoadFails, linkVars
  <2>3. page[u] \in {"blank", "dialog", "friends"}
    BY <1>t DEF TypeInv, TypeOK
  <2>4. QED
    BY <1>t, <2>1, <2>2, <2>3 DEF PageInv
<1>4. ASSUME NEW v \in Users, Handle(v) PROVE loads'[u] = loads[u] /\ Linking(u)
  BY <1>4, <1>t DEF Handle, ShowQr, Linked, ShowError, Ignore, Take, TypeInv, TypeOK
<1>5. ASSUME NEW v \in Users, PostNext(v) PROVE loads'[u] = loads[u] /\ Linking(u)
  BY <1>5, <1>t DEF PostNext, Insert, Accept, Refuse, PostFails, Answer, TypeInv, TypeOK
<1>6. ASSUME NEW v \in Users, Challenge(v) \/ LinkNext(v) \/ SaveUnseen(v) \/ Refresh(v)
      PROVE  loads'[u] = loads[u] /\ Linking(u)
  BY <1>6 DEF Challenge, LinkNext, Persist, AnnounceLinked, LinkFails, PersistFails, SaveUnseen,
              AnnounceUnstored, Refresh
<1>7. ASSUME NEW s \in Sockets,
             (\E p \in Speakers : Write(p, s)) \/ Upgrade(s) \/ Join(s) \/ Leave(s) \/ Lose(s) \/ Stall(s)
      PROVE  loads'[u] = loads[u] /\ Linking(u)
  BY <1>7 DEF Write, Upgrade, Join, Leave, Lose, Stall
<1>8. QED
  BY <1>1, <1>2, <1>3, <1>4, <1>5, <1>6, <1>7 DEF Next, BrowserNext

\* What a broadcast of the link itself reaches.
LEMMA BroadcastReaches ==
  ASSUME TypeInv, NEW u \in Users, NEW ev \in Outcomes(u), Broadcast(u, ev), Socket(u) \in Clients
  PROVE  saying'[u] \in Outcomes(u) /\ Socket(u) \in todo'[u]
<1>1. u \in Speakers
  BY SpeakersAre
<1>2. QED
  BY <1>1 DEF Broadcast, TypeInv, TypeOK

\* Writing to a socket leaves what is there, and adds what was said.
LEMMA WriteArrives ==
  ASSUME TypeInv, NEW u \in Users, Socket(u) \in Sockets, wire[Socket(u)] = "open",
         NEW p \in Speakers, NEW s \in Sockets, Write(p, s), Unwritten(u) \/ Arrived(u)
  PROVE  (Unwritten(u) \/ Arrived(u))'
<1> DEFINE t == Socket(u)
<1>1. /\ inbox[t] \in Seq(Events) /\ u \in Speakers /\ Stream # u
      /\ Socket(u)' = t /\ Outcomes(u)' = Outcomes(u)
  BY SpeakersAre, ConstAssumption
     DEF TypeInv, TypeOK, Write, pageVars, Socket, Outcomes, AccountLinkedEvent, AccountErrorEvent
<1>2. s \in todo[p] /\ saying[p] \in Events
  BY NoneAssumption DEF Write, TypeInv, TypeOK
<1>3. inbox'[t] = inbox[t] \/ inbox'[t] = Append(inbox[t], saying[p])
  BY DEF Write, TypeInv, TypeOK
<1>4. CASE Arrived(u)
  <2>1. PICK i \in 1..Len(inbox[t]) : inbox[t][i] \in Outcomes(u)
    BY <1>1, <1>4 DEF Arrived
  <2>2. i \in 1..Len(inbox'[t]) /\ inbox'[t][i] = inbox[t][i]
    BY <1>1, <1>2, <1>3, <2>1
  <2>3. DOMAIN inbox'[t] = 1..Len(inbox'[t])
    BY <1>1, <1>2, <1>3
  <2>4. QED
    BY <1>1, <2>1, <2>2, <2>3 DEF Arrived
<1>5. CASE Unwritten(u) /\ p = u /\ s = t
  <2>1. inbox'[t] = Append(inbox[t], saying[u])
    BY <1>5 DEF Write, TypeInv, TypeOK
  <2>2. Len(inbox'[t]) \in DOMAIN inbox'[t] /\ inbox'[t][Len(inbox'[t])] = saying[u]
    BY <1>1, <1>2, <1>5, <2>1
  <2>3. QED
    BY <1>1, <1>5, <2>2 DEF Arrived, Unwritten
<1>6. CASE Unwritten(u) /\ ~(p = u /\ s = t)
  <2>1. t \in todo'[u] /\ saying'[u] = saying[u]
    BY <1>1, <1>6 DEF Write, TypeInv, TypeOK, Unwritten
  <2>2. QED
    BY <1>1, <1>6, <2>1 DEF Unwritten
<1>7. QED
  BY <1>4, <1>5, <1>6

\* The dialog that waits does not overlook its outcome.
LEMMA HandleKeeps ==
  ASSUME TypeInv, NEW u \in Users, Handle(u), Arrived(u), Linking(u)'
  PROVE  Arrived(u)'
<1> DEFINE t == Socket(u)
<1>1. Take(u)
  BY DEF Handle, ShowQr, Linked, ShowError, Ignore
<1>2. t \in Sockets
  BY <1>1 DEF Take, Socket, Sockets, TypeInv, TypeOK
<1>3. inbox[t] \in Seq(Events) /\ inbox[t] # <<>> /\ inbox'[t] = Tail(inbox[t])
  BY <1>1, <1>2 DEF Take, TypeInv, TypeOK
<1>4. Event(u) \in Events
  BY <1>3 DEF Event
<1>5. Event(u) \notin Outcomes(u)
  <2>1. page[u] = "dialog" /\ status'[u] = "linking"
    BY <1>1 DEF Take, Linking
  <2>2. Event(u).type \notin {"linked", "error"}
    BY <2>1 DEF Handle, ShowQr, Linked, ShowError, Ignore, TypeInv, TypeOK
  <2>3. QED
    BY <2>2 DEF Outcomes, AccountLinkedEvent, AccountErrorEvent
<1>6. PICK i \in 1..Len(inbox[t]) : inbox[t][i] \in Outcomes(u)
  BY <1>3 DEF Arrived
<1>7. i # 1
  BY <1>3, <1>5, <1>6 DEF Event
<1>8. i - 1 \in DOMAIN inbox'[t] /\ inbox'[t][i - 1] = inbox[t][i]
  BY <1>3, <1>6, <1>7
<1>9. Socket(u)' = t /\ Outcomes(u)' = Outcomes(u)
  BY <1>1 DEF Take, Socket, Outcomes, AccountLinkedEvent, AccountErrorEvent
<1>10. QED
  BY <1>6, <1>8, <1>9 DEF Arrived

\* Every step keeps OutcomeNotLost: the four facts above, action by action.
LEMMA OutcomeNext ==
  ASSUME TypeInv, EventInv, DialogInv, OutcomeNotLost, Next
  PROVE  OutcomeNotLost'
<1> SUFFICES ASSUME NEW u \in attached', Linking(u)'
             PROVE  (Pending(u) \/ Unwritten(u) \/ Arrived(u))'
  BY DEF OutcomeNotLost, Pending, Unwritten, Arrived
<1>1. CASE u \notin attached
  <2>1. PICK v \in Users : Accept(v)
    BY <1>1 DEF Next, BrowserNext, Mount, StartQr, PageNext, Load, LoadFails, Handle, ShowQr, Linked,
         ShowError, Ignore, Take, PostNext, Insert, Refuse, PostFails, Challenge, LinkNext, Persist,
         AnnounceLinked, LinkFails, PersistFails, SaveUnseen, AnnounceUnstored, Refresh, Write, Upgrade, Join, Leave, Lose, Stall, hubVars
  <2>2. u = v
    BY <1>1, <2>1 DEF Accept
  <2>3. QED
    BY <2>1, <2>2 DEF Accept, Pending, TypeInv, TypeOK
<1>2. CASE u \in attached
  <2>1. /\ u \in Users /\ AttachInv(u)
        /\ Socket(u) \in Clients /\ Socket(u) \in Sockets /\ wire[Socket(u)] = "open"
    BY <1>2 DEF TypeInv, TypeOK, DialogInv, AttachInv, Connected
  <2>2. /\ Linking(u) /\ Socket(u)' = Socket(u) /\ Outcomes(u)' = Outcomes(u)
        /\ Pending(u) \/ Unwritten(u) \/ Arrived(u)
    BY <1>2, StillLinking DEF OutcomeNotLost, Pending, Unwritten, Arrived, Outcomes,
         AccountLinkedEvent, AccountErrorEvent
  <2>3. u \in Speakers /\ u # Stream
    BY <2>1, SpeakersAre, ConstAssumption
  <2> DEFINE Same == /\ link'[u] = link[u] /\ saying'[u] = saying[u] /\ todo'[u] = todo[u]
                     /\ inbox'[Socket(u)] = inbox[Socket(u)]
  <2>4. Same => (Pending(u) \/ Unwritten(u) \/ Arrived(u))'
    BY <2>2 DEF Pending, Unwritten, Arrived
  <2>5. ASSUME NEW v \in Users, Mount(v) PROVE Same
    <3>1. v # u
      BY <2>5 DEF Mount
    <3>2. Socket(v) # Socket(u)
      BY <3>1 DEF Socket
    <3>3. QED
      BY <2>1, <2>5, <3>2 DEF Mount, linkVars, castVars
  <2>6. ASSUME NEW v \in Users, StartQr(v) \/ Refresh(v) \/ PageNext(v) PROVE Same
    BY <2>6 DEF StartQr, Refresh, PageNext, Load, LoadFails, linkVars, castVars
  <2>7. ASSUME NEW v \in Users, Handle(v)
        PROVE  Same \/ Arrived(u)' \/ (~Arrived(u) /\ UNCHANGED <<link, saying, todo>>)
    <3>1. CASE v = u
      BY <2>7, <3>1, HandleKeeps DEF Handle, ShowQr, Linked, ShowError, Ignore, Take, linkVars, castVars
    <3>2. CASE v # u
      <4>1. Socket(v) # Socket(u)
        BY <3>2 DEF Socket
      <4>2. Take(v)
        BY <2>7 DEF Handle, ShowQr, Linked, ShowError, Ignore
      <4>3. inbox'[Socket(u)] = inbox[Socket(u)]
        BY <2>1, <4>1, <4>2 DEF Take, TypeInv, TypeOK
      <4>4. QED
        BY <4>2, <4>3 DEF Take, linkVars, castVars
    <3>3. QED
      BY <3>1, <3>2
  <2>8. ASSUME NEW v \in Users, PostNext(v) PROVE Same
    <3>1. UNCHANGED <<saying, todo, inbox>>
      BY <2>8 DEF PostNext, Insert, Accept, Refuse, PostFails, castVars
    <3>2. CASE v # u
      <4>1. link'[u] = link[u]
        BY <2>1, <2>8, <3>2 DEF PostNext, Insert, Accept, Refuse, PostFails, linkVars, TypeInv, TypeOK
      <4>2. QED
        BY <3>1, <4>1
    <3>3. CASE v = u
      <4>1. link[u] \notin {"none", "starting"} /\ row[u] # "none"
        BY <2>1, <1>2 DEF AttachInv, EventInv, LinkOK
      <4>2. Refuse(u) \/ PostFails(u)
        BY <2>8, <3>3, <4>1 DEF PostNext, Insert, Accept
      <4>3. QED
        BY <2>1, <3>1, <4>1, <4>2 DEF Refuse, PostFails, linkVars, TypeInv, TypeOK
    <3>4. QED
      BY <3>2, <3>3
  <2>9. ASSUME NEW v \in Users, Challenge(v) PROVE Same
    BY <2>3, <2>9 DEF Challenge, Broadcast, TypeInv, TypeOK
  <2>10. ASSUME NEW v \in Users, LinkNext(v) \/ SaveUnseen(v)
         PROVE  (Pending(u) \/ Unwritten(u) \/ Arrived(u))'
    <3> USE DEF LinkNext, Persist, AnnounceLinked, LinkFails, PersistFails, SaveUnseen, AnnounceUnstored
    <3>1. CASE v # u
      <4>1. link'[u] = link[u] /\ inbox' = inbox
        BY <2>1, <2>10, <3>1 DEF TypeInv, TypeOK
      <4>2. saying'[u] = saying[u] /\ todo'[u] = todo[u]
        <5>1. UNCHANGED castVars \/ \E ev \in Outcomes(v) : Broadcast(v, ev)
          BY <2>10 DEF Outcomes
        <5>2. QED
          BY <2>3, <3>1, <5>1, SpeakersAre DEF Broadcast, castVars, TypeInv, TypeOK
      <4>3. QED
        BY <2>4, <4>1, <4>2
    <3>2. CASE v = u /\ (Persist(u) \/ PersistFails(u))
      BY <2>1, <3>2 DEF Pending, TypeInv, TypeOK
    <3>3. CASE v = u /\ (AnnounceLinked(u) \/ LinkFails(u) \/ AnnounceUnstored(u))
      <4>1. PICK ev \in Outcomes(u) : Broadcast(u, ev)
        BY <3>3 DEF Outcomes
      <4>2. QED
        BY <2>1, <2>2, <4>1, BroadcastReaches DEF Unwritten
    <3>4. CASE v = u /\ SaveUnseen(u)
      BY <2>4, <3>4 DEF castVars
    <3>5. QED
      BY <2>10, <3>1, <3>2, <3>3, <3>4
  <2>11. ASSUME NEW p \in Speakers, NEW s \in Sockets, Write(p, s)
         PROVE  (Pending(u) \/ Unwritten(u) \/ Arrived(u))'
    <3>1. CASE Pending(u)
      BY <2>11, <3>1 DEF Write, Pending, linkVars
    <3>2. QED
      BY <2>1, <2>2, <2>11, <3>1, WriteArrives
  <2>12. ASSUME NEW s \in Sockets, Upgrade(s) \/ Join(s) \/ Leave(s) \/ Lose(s) \/ Stall(s)
         PROVE  Same
    BY <2>12 DEF Upgrade, Join, Leave, Lose, Stall, linkVars, castVars
  <2>13. ASSUME NEW v \in Users, Handle(v) PROVE (Pending(u) \/ Unwritten(u) \/ Arrived(u))'
    BY <2>2, <2>4, <2>7, <2>13 DEF Pending, Unwritten
  <2> HIDE DEF Same
  <2>14. QED
    BY <2>4, <2>5, <2>6, <2>8, <2>9, <2>10, <2>11, <2>12, <2>13 DEF Next, BrowserNext
<1>3. QED
  BY <1>1, <1>2

\* LinkDialog: a dialog attached when its link started, and since, learns how it ended.
THEOREM OutcomeTheorem == Spec => []OutcomeNotLost
<1>1. Init => DialogInv /\ OutcomeNotLost
  BY DEF Init, DialogInv, PageInv, AttachInv, OutcomeNotLost
<1>2. TypeInv /\ EventInv /\ DialogInv /\ OutcomeNotLost /\ [Next]_vars => OutcomeNotLost'
  <2>1. UNCHANGED vars /\ OutcomeNotLost => OutcomeNotLost'
    BY DEF OutcomeNotLost, vars, pageVars, dialogVars, linkVars, hubVars, castVars, Linking, Socket, Outcomes,
         AccountLinkedEvent, AccountErrorEvent
  <2>2. QED
    BY <2>1, OutcomeNext
<1>3. QED
  BY <1>1, <1>2, EventInvInit, EventInvNext, DialogInvNext, TypeInvariance, PTL DEF Spec

----------------------------------------------------------------------------
(* LinkDialog implements LinkContract.                                      *)

\* What leaves the contract's variables alone.
LEMMA RowStutters == UNCHANGED row => ContractRow' = ContractRow
BY DEF ContractRow

\* ... and its status.
LEMMA StatusStutters == UNCHANGED link => ContractStatus' = ContractStatus
BY DEF ContractStatus

\* One link changes its status.
LEMMA StatusMoves ==
  ASSUME TypeInv, NEW u \in Users, NEW l, link' = [link EXCEPT ![u] = l]
  PROVE  ContractStatus' = [ContractStatus EXCEPT ![u] =
           IF l \in {"none", "starting"} THEN "idle" ELSE IF l \in {"running", "saved", "unsaved"} THEN "open" ELSE l]
BY DEF ContractStatus, TypeInv, TypeOK

\* One row changes.
LEMMA RowMoves ==
  ASSUME TypeInv, NEW u \in Users, NEW r \in {"pending", "linked"}, row' = [row EXCEPT ![u] = r]
  PROVE  ContractRow' = [ContractRow EXCEPT ![u] = IF r = "pending" THEN "bare" ELSE "token"]
BY DEF ContractRow, TypeInv, TypeOK

\* A link that goes on within its status.
LEMMA StatusStays ==
  ASSUME TypeInv, NEW u \in Users, NEW l, link' = [link EXCEPT ![u] = l],
         {link[u], l} \subseteq {"none", "starting"} \/ {link[u], l} \subseteq {"running", "saved", "unsaved"}
  PROVE  ContractStatus' = ContractStatus
BY DEF ContractStatus, TypeInv, TypeOK

\* Every step is a step of the contract, or none.
LEMMA ContractStep ==
  ASSUME TypeInv, EventInv, Next
  PROVE  Contract!Next \/ UNCHANGED <<ContractRow, ContractStatus, {}>>
<1> USE DEF Contract!SetRow, Contract!SetStatus
<1>1. ASSUME NEW u \in Users, Insert(u) PROVE Contract!Next
  <2>1. row[u] = "none" /\ link[u] = "none"
    BY <1>1 DEF Insert, EventInv, LinkOK
  <2>2. ContractRow' = [ContractRow EXCEPT ![u] = "bare"]
    BY <1>1, RowMoves DEF Insert
  <2>3. ContractStatus' = ContractStatus
    BY <1>1, <2>1, StatusStays DEF Insert
  <2>4. Contract!Add(u)
    BY <2>1, <2>2, <2>3 DEF Contract!Add, ContractRow
  <2>5. QED
    BY <2>4 DEF Contract!Next
<1>2. ASSUME NEW u \in Users, Accept(u) PROVE Contract!Next
  <2>1. link[u] = "starting" /\ row[u] = "pending"
    BY <1>2 DEF Accept, EventInv, LinkOK
  <2>2. ContractRow' = ContractRow
    BY <1>2, RowStutters DEF Accept
  <2>3. ContractStatus' = [ContractStatus EXCEPT ![u] = "open"]
    BY <1>2, StatusMoves DEF Accept
  <2>4. Contract!Start(u)
    BY <2>1, <2>2, <2>3 DEF Contract!Start, ContractRow, ContractStatus
  <2>5. QED
    BY <2>4 DEF Contract!Next
<1>3. ASSUME NEW u \in Users, Persist(u) PROVE Contract!Next
  <2>1. link[u] = "running" /\ row[u] = "pending"
    BY <1>3 DEF Persist, EventInv, LinkOK
  <2>2. ContractRow' = [ContractRow EXCEPT ![u] = "token"]
    BY <1>3, RowMoves DEF Persist
  <2>3. ContractStatus' = ContractStatus
    BY <1>3, <2>1, StatusStays DEF Persist
  <2>4. Contract!Store(u)
    BY <2>1, <2>2, <2>3 DEF Contract!Store, ContractRow, ContractStatus
  <2>5. QED
    BY <2>4 DEF Contract!Next
<1>4. ASSUME NEW u \in Users, AnnounceLinked(u) PROVE Contract!Next
  <2>1. link[u] = "saved" /\ row[u] = "linked"
    BY <1>4 DEF AnnounceLinked, EventInv, LinkOK
  <2>2. ContractRow' = ContractRow
    BY <1>4, RowStutters DEF AnnounceLinked
  <2>3. ContractStatus' = [ContractStatus EXCEPT ![u] = "linked"]
    BY <1>4, StatusMoves DEF AnnounceLinked
  <2>4. Contract!Succeed(u)
    BY <2>1, <2>2, <2>3 DEF Contract!Succeed, ContractRow, ContractStatus
  <2>5. QED
    BY <2>4 DEF Contract!Next
<1>5. ASSUME NEW u \in Users, LinkFails(u) PROVE Contract!Next
  <2>1. link[u] = "running" /\ row[u] = "pending"
    BY <1>5 DEF LinkFails, EventInv, LinkOK
  <2>2. ContractRow' = ContractRow
    BY <1>5, RowStutters DEF LinkFails
  <2>3. ContractStatus' = [ContractStatus EXCEPT ![u] = "failed"]
    BY <1>5, StatusMoves DEF LinkFails
  <2>4. Contract!Fail(u)
    BY <2>1, <2>2, <2>3 DEF Contract!Fail, ContractRow, ContractStatus
  <2>5. QED
    BY <2>4 DEF Contract!Next
<1>51. ASSUME NEW u \in Users, PersistFails(u) PROVE UNCHANGED <<ContractRow, ContractStatus>>
  <2>1. link[u] = "running" /\ link' = [link EXCEPT ![u] = "unsaved"] /\ UNCHANGED row
    BY <1>51 DEF PersistFails
  <2>2. QED
    BY <2>1, RowStutters, StatusStays
<1>52. ASSUME NEW u \in Users, SaveUnseen(u)
       PROVE  Contract!Next \/ UNCHANGED <<ContractRow, ContractStatus>>
  <2>1. /\ row[u] \in {"pending", "linked"} /\ row' = [row EXCEPT ![u] = "linked"]
        /\ ContractStatus' = ContractStatus /\ ContractStatus[u] \in {"open", "unstored"}
    BY <1>52, StatusStutters DEF SaveUnseen, EventInv, LinkOK, TypeInv, TypeOK, ContractStatus
  <2>2. CASE row[u] = "pending"
    <3>1. ContractRow' = [ContractRow EXCEPT ![u] = "token"] /\ ContractRow[u] = "bare"
      BY <2>1, <2>2, RowMoves DEF ContractRow
    <3>2. Contract!Store(u)
      BY <2>1, <3>1 DEF Contract!Store
    <3>3. QED
      BY <3>2 DEF Contract!Next
  <2>3. CASE row[u] = "linked"
    <3>1. row' = row
      BY <2>1, <2>3 DEF TypeInv, TypeOK
    <3>2. QED
      BY <2>1, <3>1, RowStutters
  <2>4. QED
    BY <2>1, <2>2, <2>3
<1>53. ASSUME NEW u \in Users, AnnounceUnstored(u) PROVE Contract!Next
  <2>1. ContractRow' = ContractRow
    BY <1>53, RowStutters DEF AnnounceUnstored
  <2>2. ContractStatus' = [ContractStatus EXCEPT ![u] = "unstored"] /\ ContractStatus[u] = "open"
    BY <1>53, StatusMoves DEF AnnounceUnstored, ContractStatus
  <2>3. Contract!Unsure(u)
    BY <2>1, <2>2 DEF Contract!Unsure
  <2>4. QED
    BY <2>3 DEF Contract!Next
<1>6. ASSUME NEW u \in Users, PostFails(u) PROVE UNCHANGED <<ContractRow, ContractStatus>>
  <2>1. UNCHANGED row
    BY <1>6 DEF PostFails
  <2>2. CASE link[u] = "starting"
    <3>1. link' = [link EXCEPT ![u] = "none"]
      BY <1>6, <2>2 DEF PostFails
    <3>2. QED
      BY <2>1, <2>2, <3>1, RowStutters, StatusStays
  <2>3. CASE link[u] # "starting"
    <3>1. UNCHANGED link
      BY <1>6, <2>3 DEF PostFails, TypeInv, TypeOK
    <3>2. QED
      BY <2>1, <3>1, RowStutters, StatusStutters
  <2>4. QED
    BY <2>2, <2>3
<1>7. CASE UNCHANGED <<row, link>>
  BY <1>7, RowStutters, StatusStutters
<1>8. QED
  BY <1>1, <1>2, <1>3, <1>4, <1>5, <1>51, <1>52, <1>53, <1>6, <1>7
     DEF Next, BrowserNext, Mount, StartQr, Refresh, PageNext, Load, LoadFails, Handle, ShowQr, Linked, ShowError,
         Ignore, Take, PostNext, Refuse, Challenge, LinkNext, Write, Upgrade, Join, Leave, Lose, Stall,
         linkVars

\* LinkDialog: a link is started once, for a row that is there, and what is announced of
\* it agrees with the row, for any number of users, page loads and broadcasts.
THEOREM ContractTheorem == Spec => ImplementsLinkContract
<1>1. Init => Contract!Init
  BY DEF Init, Contract!Init, ContractRow, ContractStatus
<1>2. TypeInv /\ EventInv /\ [Next]_vars => [Contract!Next]_<<ContractRow, ContractStatus, {}>>
  <2>1. UNCHANGED vars => UNCHANGED <<ContractRow, ContractStatus, {}>>
    BY RowStutters, StatusStutters DEF vars, linkVars
  <2>2. QED
    BY <2>1, ContractStep
<1>3. QED
  BY <1>1, <1>2, EventInvInit, EventInvNext, TypeInvariance, PTL
     DEF Spec, ImplementsLinkContract, Contract!Spec

----------------------------------------------------------------------------
(* Why RefusedOnlyIfLinked fails, and what the page can be trusted for.    *)

\* The dialog that sent a request gives way to the friends page only once there is a
\* token.  (Who has linked nothing sees that page too, with an error, if the list could
\* not be asked for.)
ListNeedsLink == \A u \in Users : mode[u] = "qr" /\ page[u] = "friends" => row[u] = "linked"

\* A link that is over stays over, its row as it left it, or as the UPDATE does whose
\* error it announced.
OverForGood ==
  \A u \in Users :
    /\ link[u] \in {"linked", "failed"} => link'[u] = link[u] /\ row'[u] = row[u]
    /\ link[u] = "unstored" => link'[u] = link[u] /\ row'[u] \in {row[u], "linked"}

\* No step of a browser, a request or the Hub starts another link for the row.
LEMMA OverStep ==
  ASSUME TypeInv, EventInv, [Next]_vars
  PROVE  OverForGood
<1> DEFINE Kept(u) == link'[u] = link[u] /\ row'[u] = row[u]
           Late(u) == link[u] = "unstored" /\ link'[u] = link[u] /\ row'[u] = "linked"
<1> SUFFICES ASSUME NEW u \in Users, link[u] \in {"linked", "failed", "unstored"}
             PROVE  Kept(u) \/ Late(u)
  BY DEF OverForGood
<1> USE DEF TypeInv, TypeOK, linkVars
<1>1. row[u] # "none"
  BY DEF EventInv, LinkOK
<1>2. ASSUME NEW v \in Users, PostNext(v) PROVE Kept(u)
  BY <1>1, <1>2 DEF PostNext, Insert, Accept, Refuse, PostFails
<1>3. ASSUME NEW v \in Users, LinkNext(v) \/ Challenge(v) PROVE Kept(u)
  BY <1>3 DEF LinkNext, Persist, AnnounceLinked, LinkFails, PersistFails, AnnounceUnstored, Challenge
<1>4. ASSUME NEW v \in Users, SaveUnseen(v) PROVE Kept(u) \/ Late(u)
  BY <1>4 DEF SaveUnseen
<1>5. ASSUME NEW v \in Users, BrowserNext(v) \/ PageNext(v) \/ Handle(v) PROVE UNCHANGED linkVars
  BY <1>5 DEF BrowserNext, Mount, StartQr, Refresh, PageNext, Load, LoadFails,
              Handle, ShowQr, Linked, ShowError, Ignore, Take
<1>6. ASSUME NEW s \in Sockets,
             (\E p \in Speakers : Write(p, s)) \/ Upgrade(s) \/ Join(s) \/ Leave(s) \/ Lose(s) \/ Stall(s)
      PROVE  UNCHANGED linkVars
  BY <1>6 DEF Write, Upgrade, Join, Leave, Lose, Stall
<1>7. UNCHANGED linkVars => Kept(u)
  OBVIOUS
<1>8. QED
  BY <1>2, <1>3, <1>4, <1>5, <1>6, <1>7 DEF Next, vars

\* steam_accounts.go's 409 and Friends.jsx: who has begun to link sees the friends only
\* once the account is linked, and after a failed link no reload, request or event changes
\* that any more, for nothing in the browser deletes the row that every further attempt
\* is refused for.
THEOREM FailedForGood == Spec => []ListNeedsLink /\ [][OverForGood]_vars
<1>1. Init => EventInv /\ DialogInv
  BY EventInvInit DEF Init, DialogInv, PageInv, AttachInv
<1>2. EventInv /\ TypeInv /\ [Next]_vars => [OverForGood]_vars
  BY OverStep
<1>3. DialogInv => ListNeedsLink
  BY DEF DialogInv, PageInv, ListNeedsLink
<1>4. QED
  BY <1>1, <1>2, <1>3, EventInvNext, DialogInvNext, TypeInvariance, PTL DEF Spec
==============================================================================
