--------------------------- MODULE AccountLink_proofs ---------------------------
(***************************************************************************)
(* Proofs about AccountLink, for any set of users, account ids and         *)
(* requests and any number of restarts.                                    *)
(***************************************************************************)
EXTENDS AccountLink, TLAPS

\* The handler has created its row and not yet started the link.
Pending(p) == post[p].pc \in {"setreq", "start"}

\* A guard request that was found to be about its user's own row.
Authorized(g) == guard[g].pc \in {"req", "send"}

\* What is known of user u's right to account a once u owned its row: the row is
\* u's or gone, and the link, started or about to be, is u's.
OwnedBy(u, a) ==
  /\ a \in born
  /\ owner[a] \in {u, None}
  /\ linkKey[a] \in {u, None}
  /\ \A p \in Posts : Pending(p) /\ post[p].acct = a => post[p].user = u

\* Nothing is known of an id before the database generates it.
FreshInv ==
  \A a \in Accounts : a \notin born =>
    /\ owner[a] = None /\ token[a] = None
    /\ link[a] = "none" /\ linkKey[a] = None
    /\ a \notin linkReqs

\* The handler between Create and StartLink: it alone knows the id.
PostInv ==
  \A p \in Posts :
    /\ post[p].pc \in {"key", "create", "setreq", "start"} => post[p].user \in Users
    /\ Pending(p) =>
         /\ post[p].acct \in Accounts
         /\ OwnedBy(post[p].user, post[p].acct)
         /\ link[post[p].acct] = "none"
         /\ \A q \in Posts : Pending(q) /\ post[q].acct = post[p].acct => q = p

\* The goroutine and its row: the captured key is the first owner's, before the end of
\* the goroutine nothing is announced, and before an UPDATE may be under way nothing stored.
LinkInv ==
  \A a \in Accounts :
    /\ link[a] = "none" <=> linkKey[a] = None
    /\ linkKey[a] # None => owner[a] \in {linkKey[a], None}
    /\ link[a] # "over" => said[a] = <<>>
    /\ link[a] \in {"none", "running", "token", "failed", "save"} => token[a] = None
    /\ link[a] = "announce" => token[a] # None \/ owner[a] = None

\* Authorization, checked on the row, still holds when the code is sent.
GuardInv ==
  /\ \A g \in Guards : guard[g].pc # "idle" =>
       guard[g].user \in Users /\ guard[g].acct \in Accounts
  /\ \A g \in Guards : Authorized(g) => OwnedBy(guard[g].user, guard[g].acct)
  /\ \A c \in relayed : OwnedBy(c.user, c.acct)

IndInv ==
  /\ TypeOK
  /\ FreshInv /\ PostInv /\ LinkInv /\ GuardInv
  /\ LinkReqsAreInFlight
  /\ AnnouncedIsStored
  /\ TokensDecrypt

\* A link's announcements, one event long, told apart.
LEMMA SaidLemma ==
  /\ Len(<<>>) = 0 /\ <<>> # <<"linked">> /\ <<>> # <<"error">> /\ <<>> # <<"unstored">>
  /\ Append(<<>>, "linked") = <<"linked">>
  /\ Append(<<>>, "error") = <<"error">> /\ <<"error">> # <<"linked">>
  /\ Append(<<>>, "unstored") = <<"unstored">>
  /\ <<"unstored">> # <<"linked">> /\ <<"unstored">> # <<"error">>
  /\ Len(<<"error">>) = 1 /\ Len(<<"linked">>) = 1 /\ Len(<<"unstored">>) = 1
  OBVIOUS

\* Whether an account was asked for a code is a Boolean.
LEMMA InBoolean == ASSUME NEW S, NEW x PROVE (x \in S) \in BOOLEAN
  BY Z3

\* Every handler, callback and restart preserves the inductive invariant.
LEMMA IndStep ==
  ASSUME IndInv, [Next]_vars
  PROVE  IndInv'
  <1> USE ConstAssumption DEF IndInv, TypeOK, FreshInv, PostInv, LinkInv, GuardInv, OwnedBy,
        Pending, Authorized, LinkReqsAreInFlight, AnnouncedIsStored, TokensDecrypt,
        PostState, GuardState, PostPcs, GuardPcs, LinkPcs,
        authVars, rowVars, linkVars, reqVars, RequireAuth, KeyCached, SetLinkReq,
        ClearLinkReq, IsRowOf, InsertRow, SaveRefreshToken, DeleteRow
  <1>0. CASE UNCHANGED vars
    BY <1>0 DEF vars
  <1>1. ASSUME NEW u \in Users, Login(u) PROVE IndInv'
    BY <1>1 DEF Login
  <1>2. ASSUME NEW u \in Users, Logout(u) PROVE IndInv'
    BY <1>2 DEF Logout
  <1>3. ASSUME NEW u \in Users, TokenExpires(u) PROVE IndInv'
    BY <1>3 DEF TokenExpires
  <1>4. ASSUME NEW u \in Users, KeyExpires(u) PROVE IndInv'
    BY <1>4 DEF KeyExpires
  <1>5. ASSUME NEW p \in Posts, NEW u \in Users, PostBegin(p, u) PROVE IndInv'
    BY <1>5 DEF PostBegin, SetPost
  <1>6. ASSUME NEW p \in Posts, PostKey(p) PROVE IndInv'
    BY <1>6 DEF PostKey, SetPost
  <1>7. ASSUME NEW p \in Posts, NEW a \in Accounts, PostCreate(p, a) PROVE IndInv'
    <2>1. TypeOK'
      BY <1>7 DEF PostCreate, SetPost
    <2>2. FreshInv' /\ LinkInv'
      BY <1>7 DEF PostCreate, SetPost
    <2>3. PostInv'
      BY <1>7 DEF PostCreate, SetPost
    <2>4. GuardInv'
      BY <1>7 DEF PostCreate, SetPost
    <2>5. LinkReqsAreInFlight' /\ TokensDecrypt'
      BY <1>7 DEF PostCreate, SetPost
    <2>6. AnnouncedIsStored'
      <3>1. UNCHANGED <<said, token, link>> /\ said[a] = <<>>
        BY <1>7 DEF PostCreate, SetPost
      <3>2. \A b \in Accounts : b # a => owner'[b] = owner[b]
        BY <1>7 DEF PostCreate, SetPost
      <3>3. \A b \in Accounts : /\ said[b] = <<"linked">> => b # a
                                /\ Len(said[b]) <= 1
                                /\ link[b] = "over" => said[b] # <<>>
                                /\ said[b] = <<"linked">> => token[b] # None \/ owner[b] = None
                                /\ said[b] = <<"error">> => token[b] = None
        BY <3>1, SaidLemma
      <3> HIDE DEF IndInv, TypeOK, FreshInv, PostInv, LinkInv, GuardInv
      <3> QED BY <3>1, <3>2, <3>3
    <2> QED BY <2>1, <2>2, <2>3, <2>4, <2>5, <2>6
  <1>8. ASSUME NEW p \in Posts, NEW a \in Accounts, PostCreateUnseen(p, a) PROVE IndInv'
    <2>1. TypeOK'
      BY <1>8 DEF PostCreateUnseen, SetPost
    <2>2. FreshInv' /\ LinkInv'
      BY <1>8 DEF PostCreateUnseen, SetPost
    <2>3. PostInv'
      BY <1>8 DEF PostCreateUnseen, SetPost
    <2>4. GuardInv'
      BY <1>8 DEF PostCreateUnseen, SetPost
    <2>5. LinkReqsAreInFlight' /\ TokensDecrypt'
      BY <1>8 DEF PostCreateUnseen, SetPost
    <2>6. AnnouncedIsStored'
      <3>1. UNCHANGED <<said, token, link>> /\ said[a] = <<>>
        BY <1>8 DEF PostCreateUnseen, SetPost
      <3>2. \A b \in Accounts : b # a => owner'[b] = owner[b]
        BY <1>8 DEF PostCreateUnseen, SetPost
      <3>3. \A b \in Accounts : /\ said[b] = <<"linked">> => b # a
                                /\ Len(said[b]) <= 1
                                /\ link[b] = "over" => said[b] # <<>>
                                /\ said[b] = <<"linked">> => token[b] # None \/ owner[b] = None
                                /\ said[b] = <<"error">> => token[b] = None
        BY <3>1, SaidLemma
      <3> HIDE DEF IndInv, TypeOK, FreshInv, PostInv, LinkInv, GuardInv
      <3> QED BY <3>1, <3>2, <3>3
    <2> QED BY <2>1, <2>2, <2>3, <2>4, <2>5, <2>6
  <1>9. ASSUME NEW p \in Posts, PostRefused(p) PROVE IndInv'
    BY <1>9 DEF PostRefused, SetPost
  <1>10. ASSUME NEW p \in Posts, PostSetReq(p) PROVE IndInv'
    <2>1. TypeOK'
      BY <1>10 DEF PostSetReq, SetPost
    <2>2. FreshInv' /\ LinkInv'
      BY <1>10 DEF PostSetReq, SetPost
    <2>3. PostInv'
      BY <1>10 DEF PostSetReq, SetPost
    <2>4. GuardInv'
      BY <1>10 DEF PostSetReq, SetPost
    <2>5. LinkReqsAreInFlight' /\ TokensDecrypt'
      BY <1>10 DEF PostSetReq, SetPost
    <2>6. AnnouncedIsStored'
      BY <1>10, SaidLemma DEF PostSetReq, SetPost
    <2> QED BY <2>1, <2>2, <2>3, <2>4, <2>5, <2>6
  <1>11. ASSUME NEW p \in Posts, PostStart(p) PROVE IndInv'
    <2>1. TypeOK'
      BY <1>11 DEF PostStart, SetPost
    <2>2. FreshInv' /\ LinkInv'
      BY <1>11 DEF PostStart, SetPost
    <2>3. PostInv'
      BY <1>11 DEF PostStart, SetPost
    <2>4. GuardInv'
      BY <1>11 DEF PostStart, SetPost
    <2>5. LinkReqsAreInFlight' /\ TokensDecrypt'
      BY <1>11 DEF PostStart, SetPost
    <2>6. AnnouncedIsStored'
      BY <1>11, SaidLemma DEF PostStart, SetPost
    <2> QED BY <2>1, <2>2, <2>3, <2>4, <2>5, <2>6
  <1>12. ASSUME NEW a \in Accounts, LinkAsks(a) PROVE IndInv'
    BY <1>12 DEF LinkAsks
  <1>13. ASSUME NEW a \in Accounts, LinkReturns(a) PROVE IndInv'
    BY <1>13 DEF LinkReturns
  <1>14. ASSUME NEW a \in Accounts, OnError(a) PROVE IndInv'
    <2>1. TypeOK'
      BY <1>14 DEF OnError, Broadcast
    <2>2. FreshInv' /\ LinkInv'
      BY <1>14 DEF OnError, Broadcast
    <2>3. PostInv'
      BY <1>14 DEF OnError, Broadcast
    <2>4. GuardInv'
      BY <1>14 DEF OnError, Broadcast
    <2>5. LinkReqsAreInFlight' /\ TokensDecrypt'
      BY <1>14 DEF OnError, Broadcast
    <2>6. AnnouncedIsStored'
      <3>1. said' = [said EXCEPT ![a] = <<"error">>] /\ UNCHANGED <<owner, token>>
        BY <1>14, SaidLemma DEF OnError, Broadcast
      <3>2. /\ said'[a] = <<"error">>
            /\ \A b \in Accounts : b # a => said'[b] = said[b] /\ link'[b] = link[b]
        BY <1>14, <3>1 DEF OnError
      <3>3. token[a] = None
        BY <1>14 DEF OnError
      <3> QED BY <3>1, <3>2, <3>3, SaidLemma
    <2> QED BY <2>1, <2>2, <2>3, <2>4, <2>5, <2>6
  <1>15. ASSUME NEW a \in Accounts, OnLinked(a) PROVE IndInv'
    BY <1>15 DEF OnLinked
  <1>16. ASSUME NEW a \in Accounts, PersistRefreshToken(a) PROVE IndInv'
    <2>1. TypeOK'
      BY <1>16 DEF PersistRefreshToken
    <2>2. FreshInv' /\ LinkInv'
      BY <1>16 DEF PersistRefreshToken
    <2>3. PostInv'
      BY <1>16 DEF PersistRefreshToken
    <2>4. GuardInv'
      BY <1>16 DEF PersistRefreshToken
    <2>5. LinkReqsAreInFlight' /\ TokensDecrypt'
      BY <1>16 DEF PersistRefreshToken
    <2>6. AnnouncedIsStored'
      <3>1. said[a] = <<>> /\ link'[a] = "announce" /\ UNCHANGED <<said, owner>>
        BY <1>16 DEF PersistRefreshToken
      <3>2. \A b \in Accounts : b # a => link'[b] = link[b] /\ token'[b] = token[b]
        BY <1>16 DEF PersistRefreshToken
      <3> HIDE DEF IndInv, TypeOK, FreshInv, PostInv, LinkInv, GuardInv
      <3>3. AnnouncedIsStored
        BY DEF IndInv
      <3> QED BY <3>1, <3>2, <3>3, SaidLemma
    <2> QED BY <2>1, <2>2, <2>3, <2>4, <2>5, <2>6
  <1>17. ASSUME NEW a \in Accounts, AnnounceLinked(a) PROVE IndInv'
    <2>1. TypeOK'
      BY <1>17 DEF AnnounceLinked, Broadcast
    <2>2. FreshInv' /\ LinkInv'
      BY <1>17 DEF AnnounceLinked, Broadcast
    <2>3. PostInv'
      BY <1>17 DEF AnnounceLinked, Broadcast
    <2>4. GuardInv'
      BY <1>17 DEF AnnounceLinked, Broadcast
    <2>5. LinkReqsAreInFlight' /\ TokensDecrypt'
      BY <1>17 DEF AnnounceLinked, Broadcast
    <2>6. AnnouncedIsStored'
      <3>1. said' = [said EXCEPT ![a] = <<"linked">>] /\ UNCHANGED <<owner, token>>
        BY <1>17, SaidLemma DEF AnnounceLinked, Broadcast
      <3>2. /\ said'[a] = <<"linked">>
            /\ \A b \in Accounts : b # a => said'[b] = said[b] /\ link'[b] = link[b]
        BY <1>17, <3>1 DEF AnnounceLinked
      <3>3. token[a] # None \/ owner[a] = None
        BY <1>17 DEF AnnounceLinked
      <3> QED BY <3>1, <3>2, <3>3, SaidLemma
    <2> QED BY <2>1, <2>2, <2>3, <2>4, <2>5, <2>6
  <1>18. ASSUME NEW a \in Accounts, PersistFails(a) PROVE IndInv'
    BY <1>18 DEF PersistFails
  <1>26. ASSUME NEW a \in Accounts, SaveUnseen(a) PROVE IndInv'
    <2>1. TypeOK'
      BY <1>26, SaidLemma DEF SaveUnseen
    <2>2. FreshInv' /\ LinkInv'
      <3>1. /\ a \in born /\ owner[a] # None /\ linkKey[a] # None
            /\ link[a] \in {"unsaved", "cut", "over"}
        BY <1>26, SaidLemma DEF SaveUnseen
      <3>2. /\ token' = [token EXCEPT ![a] = linkKey[a]]
            /\ UNCHANGED <<owner, born, link, linkKey, linkReqs, said>>
        BY <1>26 DEF SaveUnseen
      <3>3. FreshInv'
        BY <3>1, <3>2
      <3>4. LinkInv'
        BY <3>1, <3>2
      <3> QED BY <3>3, <3>4
    <2>3. PostInv'
      BY <1>26 DEF SaveUnseen
    <2>4. GuardInv'
      BY <1>26 DEF SaveUnseen
    <2>5. LinkReqsAreInFlight' /\ TokensDecrypt'
      BY <1>26, SaidLemma DEF SaveUnseen
    <2>6. AnnouncedIsStored'
      <3>1. said[a] \in {<<>>, <<"unstored">>} /\ UNCHANGED <<said, owner, link>>
        BY <1>26, SaidLemma DEF SaveUnseen
      <3>2. \A b \in Accounts : b # a => token'[b] = token[b]
        BY <1>26 DEF SaveUnseen
      <3> HIDE DEF IndInv, TypeOK, FreshInv, PostInv, LinkInv, GuardInv
      <3>3. AnnouncedIsStored
        BY DEF IndInv
      <3> QED BY <3>1, <3>2, <3>3, SaidLemma
    <2> QED BY <2>1, <2>2, <2>3, <2>4, <2>5, <2>6
  <1>27. ASSUME NEW a \in Accounts, AnnounceUnstored(a) PROVE IndInv'
    <2>1. TypeOK'
      BY <1>27 DEF AnnounceUnstored, Broadcast
    <2>2. FreshInv' /\ LinkInv'
      BY <1>27 DEF AnnounceUnstored, Broadcast
    <2>3. PostInv'
      BY <1>27 DEF AnnounceUnstored, Broadcast
    <2>4. GuardInv'
      BY <1>27 DEF AnnounceUnstored, Broadcast
    <2>5. LinkReqsAreInFlight' /\ TokensDecrypt'
      BY <1>27 DEF AnnounceUnstored, Broadcast
    <2>6. AnnouncedIsStored'
      <3>1. said' = [said EXCEPT ![a] = <<"unstored">>] /\ UNCHANGED <<owner, token>>
        BY <1>27, SaidLemma DEF AnnounceUnstored, Broadcast
      <3>2. /\ said'[a] = <<"unstored">>
            /\ \A b \in Accounts : b # a => said'[b] = said[b] /\ link'[b] = link[b]
        BY <1>27, <3>1 DEF AnnounceUnstored
      <3> QED BY <3>1, <3>2, SaidLemma
    <2> QED BY <2>1, <2>2, <2>3, <2>4, <2>5, <2>6
  <1>19. ASSUME NEW g \in Guards, NEW u \in Users, NEW a \in Accounts, GuardBegin(g, u, a)
         PROVE  IndInv'
    BY <1>19, SMTT(60) DEF GuardBegin, SetGuard
  <1>20. ASSUME NEW g \in Guards, GuardAuthorize(g) PROVE IndInv'
    <2>1. guard[g].user \in Users /\ guard[g].acct \in Accounts
      BY <1>20 DEF GuardAuthorize
    <2>2. UNCHANGED <<authVars, rowVars, linkVars, post, relayed, restarts>>
      BY <1>20 DEF GuardAuthorize
    <2>3. CASE /\ IsRowOf(guard[g].acct, guard[g].user)
               /\ SetGuard(g, "req", guard[g].user, guard[g].acct)
      BY <2>1, <2>2, <2>3 DEF SetGuard
    <2>4. CASE SetGuard(g, "done", guard[g].user, guard[g].acct)
      BY <2>1, <2>2, <2>4 DEF SetGuard
    <2> QED BY <1>20, <2>3, <2>4 DEF GuardAuthorize
  <1>21. ASSUME NEW g \in Guards, GuardLookup(g) PROVE IndInv'
    BY <1>21 DEF GuardLookup, SetGuard
  <1>22. ASSUME NEW g \in Guards, GuardRelay(g) PROVE IndInv'
    <2>1. TypeOK'
      <3> DEFINE was == guard[g].acct \in asked
      <3>1. was \in BOOLEAN
        BY InBoolean
      <3>2. relayed' = relayed \cup
                            {[user |-> guard[g].user, acct |-> guard[g].acct, asked |-> was]}
        BY <1>22 DEF GuardRelay, SetGuard
      <3>3. guard[g].user \in Users /\ guard[g].acct \in Accounts
        BY <1>22 DEF GuardRelay, SetGuard
      <3> HIDE DEF was
      <3>4. relayed' \in SUBSET [user : Users, acct : Accounts, asked : BOOLEAN]
        BY <3>1, <3>2, <3>3
      <3> QED BY <1>22, <3>4 DEF GuardRelay, SetGuard
    <2>2. FreshInv' /\ LinkInv'
      BY <1>22 DEF GuardRelay, SetGuard
    <2>3. PostInv'
      BY <1>22 DEF GuardRelay, SetGuard
    <2>4. GuardInv'
      BY <1>22 DEF GuardRelay, SetGuard
    <2>5. LinkReqsAreInFlight' /\ TokensDecrypt'
      BY <1>22 DEF GuardRelay, SetGuard
    <2>6. AnnouncedIsStored'
      BY <1>22, SaidLemma DEF GuardRelay, SetGuard
    <2> QED BY <2>1, <2>2, <2>3, <2>4, <2>5, <2>6
  <1>23. ASSUME NEW g \in Guards, GuardNoWorker(g) PROVE IndInv'
    BY <1>23 DEF GuardNoWorker, SetGuard
  <1>24. ASSUME NEW u \in Users, NEW a \in Accounts, Delete(u, a) PROVE IndInv'
    <2>1. TypeOK'
      BY <1>24 DEF Delete
    <2>2. FreshInv' /\ LinkInv'
      BY <1>24 DEF Delete
    <2>3. PostInv'
      BY <1>24 DEF Delete
    <2>4. GuardInv'
      BY <1>24 DEF Delete
    <2>5. LinkReqsAreInFlight' /\ TokensDecrypt'
      BY <1>24 DEF Delete
    <2>6. AnnouncedIsStored'
      BY <1>24, SaidLemma DEF Delete
    <2> QED BY <2>1, <2>2, <2>3, <2>4, <2>5, <2>6
  <1>25. CASE Restart
    <2>1. TypeOK'
      <3>1. link' \in [Accounts -> LinkPcs] /\ restarts' \in 0..MaxRestarts
        BY <1>25 DEF Restart
      <3>2. post' \in [Posts -> PostState]
        BY <1>25 DEF Restart
      <3>3. guard' \in [Guards -> GuardState]
        <4>1. ASSUME NEW g \in Guards
              PROVE  [guard[g] EXCEPT !.pc = "lost"] \in GuardState
          OBVIOUS
        <4> QED BY <1>25, <4>1 DEF Restart
      <3> QED BY <1>25, <3>1, <3>2, <3>3 DEF Restart
    <2>2. FreshInv' /\ LinkInv'
      BY <1>25 DEF Restart
    <2>3. PostInv'
      BY <1>25 DEF Restart
    <2>4. GuardInv'
      BY <1>25 DEF Restart
    <2>5. LinkReqsAreInFlight' /\ TokensDecrypt'
      BY <1>25 DEF Restart
    <2>6. AnnouncedIsStored'
      BY <1>25, SaidLemma DEF Restart
    <2> QED BY <2>1, <2>2, <2>3, <2>4, <2>5, <2>6
  <1> QED
    BY <1>0, <1>1, <1>2, <1>3, <1>4, <1>5, <1>6, <1>7, <1>8, <1>9, <1>10, <1>11, <1>12,
       <1>13, <1>14, <1>15, <1>16, <1>17, <1>18, <1>19, <1>20, <1>21, <1>22, <1>23, <1>24, <1>25,
       <1>26, <1>27, ZenonT(60)
    DEF Next, PostNext, GuardNext, Callbacks

\* The initial state: no row, no link, no request.
LEMMA IndInit == Init => IndInv
  <1> SUFFICES ASSUME Init PROVE IndInv
    OBVIOUS
  <1>1. TypeOK
    BY ConstAssumption DEF Init, TypeOK, Idle, PostState, GuardState, PostPcs, GuardPcs, LinkPcs
  <1>2. FreshInv /\ PostInv /\ LinkInv /\ GuardInv
    BY DEF Init, Idle, FreshInv, PostInv, LinkInv, GuardInv, Pending, Authorized
  <1>3. LinkReqsAreInFlight /\ AnnouncedIsStored
    BY SaidLemma DEF Init, LinkReqsAreInFlight, AnnouncedIsStored
  <1>4. TokensDecrypt
    BY DEF Init, TokensDecrypt
  <1> QED BY <1>1, <1>2, <1>3, <1>4 DEF IndInv

\* The inductive invariant holds in every reachable state.
THEOREM Invariance == Spec => []IndInv
  BY IndInit, IndStep, PTL DEF Spec

\* The handlers, the goroutine and the tables keep their types.
THEOREM TypeCorrect == Spec => []TypeOK
  BY Invariance, PTL DEF IndInv

\* The table linkReqs never names a link that is over, for any number of
\* concurrent requests and restarts.
THEOREM LinkReqsTheorem == Spec => []LinkReqsAreInFlight
  BY Invariance, PTL DEF IndInv

\* A link announces one outcome at most, success only for a stored token, and that the
\* link failed only where none is ever stored, also with an UPDATE whose error was a lie.
THEOREM AnnouncedTheorem == Spec => []AnnouncedIsStored
  BY Invariance, PTL DEF IndInv

\* A stored refresh token is encrypted under its row's user's key.
THEOREM TokensTheorem == Spec => []TokensDecrypt
  BY Invariance, PTL DEF IndInv

\* A guard code only ever reaches a link of the user who sent it.
THEOREM CodesTheorem == Spec => []CodesReachOwnLink
  <1>1. IndInv => CodesReachOwnLink
    BY DEF IndInv, GuardInv, OwnedBy, CodesReachOwnLink
  <1> QED BY <1>1, Invariance, PTL

\* No step gives a deleted account its row or its token back.
LEMMA DeletedStep ==
  ASSUME IndInv, [Next]_vars, NEW a \in born, owner[a] = None
  PROVE  owner'[a] = None /\ token'[a] = None
  <1> USE ConstAssumption DEF IndInv, TypeOK, PostInv, LinkInv, TokensDecrypt,
        authVars, rowVars, linkVars, reqVars
  <1>0. a \in Accounts /\ token[a] = None
    OBVIOUS
  <1>1. ASSUME NEW p \in Posts, NEW b \in Accounts, PostCreate(p, b) \/ PostCreateUnseen(p, b)
        PROVE  owner'[a] = None /\ token'[a] = None
    BY <1>0, <1>1 DEF PostCreate, PostCreateUnseen, InsertRow
  <1>2. ASSUME NEW b \in Accounts, PersistRefreshToken(b) \/ SaveUnseen(b)
        PROVE  owner'[a] = None /\ token'[a] = None
    BY <1>0, <1>2 DEF PersistRefreshToken, SaveUnseen, SaveRefreshToken
  <1>3. ASSUME NEW u \in Users, NEW b \in Accounts, Delete(u, b)
        PROVE  owner'[a] = None /\ token'[a] = None
    BY <1>0, <1>3 DEF Delete, DeleteRow
  <1>4. CASE UNCHANGED <<owner, token>>
    BY <1>0, <1>4
  <1>5. \/ UNCHANGED <<owner, token>>
        \/ \E p \in Posts, b \in Accounts : PostCreate(p, b) \/ PostCreateUnseen(p, b)
        \/ \E b \in Accounts : PersistRefreshToken(b) \/ SaveUnseen(b)
        \/ \E u \in Users, b \in Accounts : Delete(u, b)
    BY DEF Next, PostNext, GuardNext, Callbacks, vars, Login, Logout, TokenExpires, KeyExpires,
       PostBegin, PostKey, PostRefused, PostSetReq, PostStart, LinkAsks, LinkReturns, OnError,
       OnLinked, AnnounceLinked, PersistFails, AnnounceUnstored, GuardBegin, GuardAuthorize,
       GuardLookup, GuardRelay, GuardNoWorker, Restart
  <1> QED BY <1>1, <1>2, <1>3, <1>4, <1>5

\* A deleted account stays deleted, whatever a link still in flight brings.
THEOREM DeletedTheorem == Spec => DeletedStaysDeleted
  <1>1. IndInv /\ [Next]_vars
          => [\A a \in born : owner[a] = None => owner'[a] = None /\ token'[a] = None]_vars
    BY DeletedStep
  <1> QED BY <1>1, Invariance, PTL DEF Spec, DeletedStaysDeleted
----------------------------------------------------------------------------
(* AccountLink implements LinkContract.                                    *)

\* A goroutine that is over has announced its outcome, and told only that.
OverInv ==
  \A a \in Accounts : link[a] = "over" => said[a] \in {<<"linked">>, <<"error">>, <<"unstored">>}

\* Only the last step of a goroutine ends it, and that step announces.
LEMMA OverStep == IndInv /\ OverInv /\ [Next]_vars => OverInv'
  <1> SUFFICES ASSUME IndInv, OverInv, [Next]_vars PROVE OverInv'
    OBVIOUS
  <1> USE DEF IndInv, TypeOK, LinkInv, PostInv, Pending, OverInv, authVars, rowVars, linkVars, reqVars
  <1>1. ASSUME NEW a \in Accounts, OnError(a) \/ AnnounceUnstored(a) PROVE OverInv'
    <2>1. said[a] = <<>>
      BY <1>1 DEF OnError, AnnounceUnstored
    <2>2. /\ \E e \in {<<"error">>, <<"unstored">>} : said' = [said EXCEPT ![a] = e]
          /\ link' = [link EXCEPT ![a] = "over"]
      BY <1>1, <2>1, SaidLemma DEF OnError, AnnounceUnstored, Broadcast
    <2> QED
      BY <2>2
  <1>2. ASSUME NEW a \in Accounts, AnnounceLinked(a) PROVE OverInv'
    BY <1>2, SaidLemma DEF AnnounceLinked, Broadcast
  <1>3. ASSUME NEW a \in Accounts, LinkReturns(a) \/ OnLinked(a) \/ PersistRefreshToken(a)
                               \/ PersistFails(a)
        PROVE  OverInv'
    BY <1>3 DEF LinkReturns, OnLinked, PersistRefreshToken, PersistFails
  <1>4. ASSUME NEW p \in Posts, PostStart(p) PROVE OverInv'
    BY <1>4 DEF PostStart
  <1>5. CASE Restart
    BY <1>5 DEF Restart
  <1>6. CASE UNCHANGED <<link, said>>
    BY <1>6
  <1> QED
    BY <1>1, <1>2, <1>3, <1>4, <1>5, <1>6
    DEF Next, PostNext, GuardNext, Callbacks, vars, Login, Logout, TokenExpires, KeyExpires,
        PostBegin, PostKey, PostCreate, PostCreateUnseen, PostRefused, PostSetReq, LinkAsks, SaveUnseen,
        GuardBegin, GuardAuthorize, GuardLookup, GuardRelay, GuardNoWorker, Delete

\* What leaves the contract's variables alone.
LEMMA RowStutters == UNCHANGED <<born, owner, token>> => Row' = Row
  BY DEF Row

\* ... and what leaves its status.
LEMMA StatusStutters == UNCHANGED <<link, said>> => Status' = Status
  BY DEF Status

\* The contract's reading of a row and of a link.
LEMMA RowIs ==
  ASSUME NEW a \in Accounts
  PROVE  /\ Row[a] = "none" <=> a \notin born
         /\ Row[a] = "gone" <=> a \in born /\ owner[a] = None
         /\ Row[a] = "bare" <=> a \in born /\ owner[a] # None /\ token[a] = None
         /\ Row[a] = "token" <=> a \in born /\ owner[a] # None /\ token[a] # None
  BY DEF Row

\* What each status says of the goroutine.
LEMMA StatusIs ==
  ASSUME IndInv, OverInv, NEW a \in Accounts
  PROVE  /\ link[a] = "none" => Status[a] = "idle"
         /\ link[a] \in {"running", "token", "failed", "save", "unsaved", "announce"}
              => Status[a] = "open"
         /\ link[a] \in {"lost", "cut"} => Status[a] = "lost"
         /\ link[a] = "over" => Status[a] \in {"linked", "failed", "unstored"}
         /\ said[a] = <<"unstored">> => Status[a] = "unstored"
  BY SaidLemma DEF Status, IndInv, LinkInv, OverInv

\* Every step of the handlers, callbacks and the restart is a step of the
\* contract, or none.
LEMMA ContractStep ==
  ASSUME IndInv, OverInv, [Next]_vars
  PROVE  [Contract!Next]_<<Row, Status, asked>>
  <1> USE DEF authVars, rowVars, linkVars, reqVars, Contract!SetRow, Contract!SetStatus
  <1>1. ASSUME NEW p \in Posts, NEW a \in Accounts, PostCreate(p, a) \/ PostCreateUnseen(p, a)
        PROVE  Contract!Next
    <2>1. a \notin born /\ token[a] = None /\ post[p].user # None
      BY <1>1, ConstAssumption
      DEF PostCreate, PostCreateUnseen, InsertRow, IndInv, FreshInv, PostInv
    <2>2. /\ born' = born \cup {a} /\ token' = token
          /\ owner' = [owner EXCEPT ![a] = post[p].user]
      BY <1>1 DEF PostCreate, PostCreateUnseen, InsertRow
    <2>3. Row' = [Row EXCEPT ![a] = "bare"]
      BY <2>1, <2>2 DEF Row, IndInv, TypeOK
    <2>4. Status' = Status /\ asked' = asked
      BY <1>1, StatusStutters DEF PostCreate, PostCreateUnseen
    <2>5. Contract!Add(a)
      BY <2>1, <2>3, <2>4, RowIs DEF Contract!Add
    <2> QED
      BY <2>5 DEF Contract!Next
  <1>2. ASSUME NEW a \in Accounts, PersistRefreshToken(a) PROVE Contract!Next
    <2>1. a \in born /\ owner[a] # None /\ token[a] = None /\ linkKey[a] # None
      BY <1>2 DEF PersistRefreshToken, SaveRefreshToken, IndInv, FreshInv, LinkInv
    <2>2. token' = [token EXCEPT ![a] = linkKey[a]] /\ UNCHANGED <<born, owner, said, asked>>
      BY <1>2 DEF PersistRefreshToken, SaveRefreshToken
    <2>3. Row' = [Row EXCEPT ![a] = "token"]
      BY <2>1, <2>2 DEF Row, IndInv, TypeOK
    <2>4. Status' = Status
      BY <1>2, <2>2 DEF Status, PersistRefreshToken, IndInv, TypeOK
    <2>5. Contract!Store(a)
      BY <1>2, <2>1, <2>2, <2>3, <2>4, RowIs, StatusIs DEF Contract!Store, PersistRefreshToken
    <2> QED
      BY <2>5 DEF Contract!Next
  <1>3. ASSUME NEW u \in Users, NEW a \in Accounts, Delete(u, a) PROVE Contract!Next
    <2>1. owner[a] # None /\ a \in born
      BY <1>3, ConstAssumption DEF Delete, DeleteRow, IndInv, FreshInv
    <2>2. owner' = [owner EXCEPT ![a] = None] /\ token' = [token EXCEPT ![a] = None]
      BY <1>3 DEF Delete, DeleteRow
    <2>3. Row' = [Row EXCEPT ![a] = "gone"]
      BY <1>3, <2>1, <2>2 DEF Row, Delete, IndInv, TypeOK
    <2>4. Status' = Status /\ asked' = asked
      BY <1>3, StatusStutters DEF Delete
    <2>5. Contract!Remove(a)
      BY <2>1, <2>3, <2>4, RowIs DEF Contract!Remove
    <2> QED
      BY <2>5 DEF Contract!Next
  <1>4. ASSUME NEW p \in Posts, PostStart(p) PROVE Contract!Next
    <2> DEFINE a == post[p].acct
    <2>1. a \in Accounts /\ a \in born /\ link[a] = "none" /\ said[a] = <<>>
      BY <1>4 DEF PostStart, IndInv, PostInv, Pending, OwnedBy, LinkInv
    <2>2. link' = [link EXCEPT ![a] = "running"] /\ said' = said
      BY <1>4 DEF PostStart
    <2> HIDE DEF a
    <2>3. Status' = [Status EXCEPT ![a] = "open"]
      <3>1. said'[a] = <<>> /\ link'[a] = "running"
        BY <2>1, <2>2 DEF IndInv, TypeOK
      <3>2. Status'[a] = "open"
        BY <2>1, <3>1, SaidLemma DEF Status
      <3>3. \A b \in Accounts : b # a => Status'[b] = Status[b]
        BY <2>2 DEF Status, IndInv, TypeOK
      <3>4. /\ Status' = [b \in Accounts |-> Status'[b]]
            /\ Status = [b \in Accounts |-> Status[b]]
        BY DEF Status
      <3> QED
        BY <3>2, <3>3, <3>4
    <2>4. Row' = Row /\ asked' = asked
      BY <1>4, RowStutters DEF PostStart
    <2>5. Contract!Start(a)
      BY <2>1, <2>3, <2>4, RowIs, StatusIs DEF Contract!Start
    <2> QED
      BY <2>1, <2>5 DEF Contract!Next
  <1>5. ASSUME NEW a \in Accounts, LinkAsks(a) PROVE Contract!Next
    <2>1. Row' = Row /\ Status' = Status
      BY <1>5, RowStutters, StatusStutters DEF LinkAsks
    <2>2. Contract!Prompt(a)
      BY <1>5, <2>1, StatusIs DEF Contract!Prompt, LinkAsks
    <2> QED
      BY <2>2 DEF Contract!Next
  <1>6. ASSUME NEW a \in Accounts, OnError(a) PROVE Contract!Next
    <2>1. /\ link[a] = "failed" /\ said[a] = <<>> /\ token[a] = None /\ a \in born
      BY <1>6 DEF OnError, IndInv, LinkInv, FreshInv
    <2>2. said' = [said EXCEPT ![a] = <<"error">>] /\ link' = [link EXCEPT ![a] = "over"]
      BY <1>6, <2>1, SaidLemma DEF OnError, Broadcast
    <2>3. Status' = [Status EXCEPT ![a] = "failed"]
      BY <2>1, <2>2, SaidLemma DEF Status, IndInv, TypeOK
    <2>4. Row' = Row /\ asked' = asked
      BY <1>6, RowStutters DEF OnError
    <2>5. Row[a] \in {"bare", "gone"}
      BY <2>1, RowIs
    <2>6. Contract!Fail(a)
      BY <2>1, <2>3, <2>4, <2>5, StatusIs DEF Contract!Fail
    <2> QED
      BY <2>6 DEF Contract!Next
  <1>11. ASSUME NEW a \in Accounts, AnnounceUnstored(a) PROVE Contract!Next
    <2>1. link[a] = "unsaved" /\ said[a] = <<>>
      BY <1>11 DEF AnnounceUnstored, IndInv, LinkInv
    <2>2. said' = [said EXCEPT ![a] = <<"unstored">>] /\ link' = [link EXCEPT ![a] = "over"]
      BY <1>11, <2>1, SaidLemma DEF AnnounceUnstored, Broadcast
    <2>3. Status' = [Status EXCEPT ![a] = "unstored"]
      BY <2>1, <2>2, SaidLemma DEF Status, IndInv, TypeOK
    <2>4. Row' = Row /\ asked' = asked
      BY <1>11, RowStutters DEF AnnounceUnstored
    <2>5. Contract!Unsure(a)
      BY <2>1, <2>3, <2>4, StatusIs DEF Contract!Unsure
    <2> QED
      BY <2>5 DEF Contract!Next
  <1>12. ASSUME NEW a \in Accounts, SaveUnseen(a) PROVE [Contract!Next]_<<Row, Status, asked>>
    <2>1. a \in born /\ owner[a] # None /\ linkKey[a] # None
      BY <1>12, SaidLemma DEF SaveUnseen, SaveRefreshToken, IndInv, FreshInv, LinkInv
    <2>2. token' = [token EXCEPT ![a] = linkKey[a]] /\ UNCHANGED <<born, owner, link, said, asked>>
      BY <1>12 DEF SaveUnseen, SaveRefreshToken
    <2>3. Row' = [Row EXCEPT ![a] = "token"]
      BY <2>1, <2>2 DEF Row, IndInv, TypeOK
    <2>4. Status' = Status
      BY <2>2, StatusStutters
    <2>5. Status[a] \in {"open", "unstored", "lost"}
      BY <1>12, StatusIs DEF SaveUnseen
    <2>6. Row[a] \in {"bare", "token"}
      BY <2>1, RowIs
    <2>7. CASE Row[a] = "bare"
      BY <2>2, <2>3, <2>4, <2>5, <2>7 DEF Contract!Store, Contract!Next
    <2>8. CASE Row[a] = "token"
      BY <2>2, <2>3, <2>4, <2>8 DEF Row
    <2> QED
      BY <2>6, <2>7, <2>8
  <1>7. ASSUME NEW a \in Accounts, AnnounceLinked(a) PROVE Contract!Next
    <2>1. /\ link[a] = "announce" /\ said[a] = <<>> /\ a \in born
          /\ token[a] # None \/ owner[a] = None
      BY <1>7 DEF AnnounceLinked, IndInv, LinkInv, FreshInv
    <2>2. said' = [said EXCEPT ![a] = <<"linked">>] /\ link' = [link EXCEPT ![a] = "over"]
      BY <1>7, <2>1, SaidLemma DEF AnnounceLinked, Broadcast
    <2>3. Status' = [Status EXCEPT ![a] = "linked"]
      BY <2>1, <2>2, SaidLemma DEF Status, IndInv, TypeOK
    <2>4. Row' = Row /\ asked' = asked
      BY <1>7, RowStutters DEF AnnounceLinked
    <2>5. Row[a] \in {"token", "gone"}
      BY <2>1, RowIs
    <2>6. Contract!Succeed(a)
      BY <2>1, <2>3, <2>4, <2>5, StatusIs DEF Contract!Succeed
    <2> QED
      BY <2>6 DEF Contract!Next
  <1>8. CASE Restart
    <2>1. Row' = Row /\ asked' = asked
      BY <1>8, RowStutters DEF Restart
    <2>2. /\ said' = said
          /\ \A a \in Accounts : IF link[a] \in {"none", "over"} THEN link'[a] = link[a]
                                ELSE link'[a] \in {"lost", "cut"}
      BY <1>8 DEF Restart
    <2>3. ASSUME NEW a \in Accounts
          PROVE  Status'[a] = IF Status[a] = "open" THEN "lost" ELSE Status[a]
      <3>1. CASE link[a] \in {"none", "over"}
        <4>1. link'[a] = link[a] /\ Status'[a] = Status[a]
          BY <2>2, <3>1 DEF Status
        <4> QED
          BY <3>1, <4>1, StatusIs
      <3>2. CASE link[a] \notin {"none", "over"}
        <4>1. link'[a] \in {"lost", "cut"} /\ said'[a] = <<>>
          BY <2>2, <3>2 DEF IndInv, LinkInv
        <4>2. Status'[a] = "lost"
          BY <4>1, SaidLemma DEF Status
        <4>3. link[a] \in {"running", "token", "failed", "save", "unsaved", "announce", "lost", "cut"}
          BY <3>2 DEF IndInv, TypeOK, LinkPcs
        <4> QED
          BY <4>2, <4>3, StatusIs
      <3> QED
        BY <3>1, <3>2
    <2>4. Status' = [a \in Accounts |-> IF Status[a] = "open" THEN "lost" ELSE Status[a]]
      <3>1. Status' = [a \in Accounts |-> Status'[a]]
        BY DEF Status
      <3> QED
        BY <2>3, <3>1
    <2> QED
      BY <2>1, <2>4 DEF Contract!Next, Contract!Crash
  <1>9. ASSUME NEW a \in Accounts, LinkReturns(a) \/ OnLinked(a) \/ PersistFails(a)
        PROVE  UNCHANGED <<Row, Status, asked>>
    <2>1. Row' = Row /\ asked' = asked
      BY <1>9, RowStutters DEF LinkReturns, OnLinked, PersistFails
    <2>2. /\ said' = said
          /\ \E l \in {"token", "failed", "save", "unsaved"} : link' = [link EXCEPT ![a] = l]
      BY <1>9 DEF LinkReturns, OnLinked, PersistFails
    <2>3. link[a] \in {"running", "token", "save"}
      BY <1>9 DEF LinkReturns, OnLinked, PersistFails
    <2>4. Status' = Status
      BY <2>2, <2>3 DEF Status, IndInv, TypeOK
    <2> QED
      BY <2>1, <2>4
  <1>10. UNCHANGED <<born, owner, token, link, said, asked>> => UNCHANGED <<Row, Status, asked>>
    BY RowStutters, StatusStutters
  <1> QED
    BY <1>1, <1>2, <1>3, <1>4, <1>5, <1>6, <1>7, <1>8, <1>9, <1>10, <1>11, <1>12
    DEF Next, PostNext, GuardNext, Callbacks, vars, Login, Logout, TokenExpires, KeyExpires,
        PostBegin, PostKey, PostRefused, PostSetReq,
        GuardBegin, GuardAuthorize, GuardLookup, GuardRelay, GuardNoWorker

\* The API keeps router.go's promise for LinkCallbacks, for any users, accounts
\* and concurrent requests, deletions and restarts: a link prompts only while
\* it is open, has one outcome at most, success is told of a stored token, failure of the
\* link where none is or will be, and of an error in storing one nothing follows.
THEOREM ContractTheorem == Spec => ImplementsContract
  <1>1. Init => OverInv /\ Contract!Init
    <2> SUFFICES ASSUME Init PROVE OverInv /\ Contract!Init
      OBVIOUS
    <2>1. OverInv
      BY DEF Init, OverInv
    <2>2. Row = [a \in Accounts |-> "none"]
      BY DEF Init, Row
    <2>3. Status = [a \in Accounts |-> "idle"]
      BY SaidLemma DEF Init, Status
    <2> QED
      BY <2>1, <2>2, <2>3 DEF Init, Contract!Init
  <1>2. IndInv /\ OverInv /\ [Next]_vars => [Contract!Next]_<<Row, Status, asked>>
    BY ContractStep
  <1> QED
    BY <1>1, <1>2, OverStep, Invariance, PTL DEF Spec, ImplementsContract, Contract!Spec

----------------------------------------------------------------------------
(* What LinkContract is worth to a browser.                                *)

\* What a browser was told of a link agrees with the row, and no row has a token that
\* no link of this account stored.
Agrees ==
  \A a \in Accounts :
    /\ Status[a] = "linked" => Row[a] \in {"token", "gone"}
    /\ Status[a] = "failed" => Row[a] \in {"bare", "gone"}
    /\ Status[a] = "idle" => Row[a] # "token"

\* An outcome is never taken back, a deleted row never returns, and a row whose link is
\* told to have failed gets no token until it is deleted.
Lasts ==
  \A a \in Accounts :
    /\ Status[a] \in {"linked", "failed", "unstored", "lost"} => Status'[a] = Status[a]
    /\ Row[a] = "gone" => Row'[a] = "gone"
    /\ Row[a] = "bare" /\ Status[a] = "failed" => Row'[a] \in {"bare", "gone"}

\* Every step of the contract keeps what the browser was told true.
LEMMA AgreesStep ==
  ASSUME Agrees, [Contract!Next]_<<Row, Status, asked>>
  PROVE  Agrees' /\ Lasts
  <1>d. DOMAIN Row = Accounts /\ DOMAIN Status = Accounts
    BY DEF Row, Status
  <1> DEFINE Kept(a) == /\ Status'[a] = "linked" => Row'[a] \in {"token", "gone"}
                        /\ Status'[a] = "failed" => Row'[a] \in {"bare", "gone"}
                        /\ Status'[a] = "idle" => Row'[a] # "token"
                        /\ Status[a] \in {"linked", "failed", "unstored", "lost"} => Status'[a] = Status[a]
                        /\ Row[a] = "gone" => Row'[a] = "gone"
                        /\ Row[a] = "bare" /\ Status[a] = "failed" => Row'[a] \in {"bare", "gone"}
  <1> SUFFICES ASSUME NEW a \in Accounts PROVE Kept(a)
    BY DEF Agrees, Lasts
  <1>a. /\ Status[a] = "linked" => Row[a] \in {"token", "gone"}
        /\ Status[a] = "failed" => Row[a] \in {"bare", "gone"}
        /\ Status[a] = "idle" => Row[a] # "token"
    BY DEF Agrees
  <1> USE <1>d, <1>a DEF Contract!SetRow, Contract!SetStatus
  <1>1. ASSUME NEW b \in Accounts, Contract!Add(b) \/ Contract!Store(b) \/ Contract!Remove(b)
        PROVE  Kept(a)
    BY <1>1 DEF Contract!Add, Contract!Store, Contract!Remove
  <1>2. ASSUME NEW b \in Accounts, Contract!Start(b) \/ Contract!Prompt(b) PROVE Kept(a)
    BY <1>2 DEF Contract!Start, Contract!Prompt
  <1>3. ASSUME NEW b \in Accounts, Contract!Succeed(b) \/ Contract!Fail(b) \/ Contract!Unsure(b)
        PROVE  Kept(a)
    BY <1>3 DEF Contract!Succeed, Contract!Fail, Contract!Unsure
  <1>4. CASE Contract!Crash
    BY <1>4 DEF Contract!Crash
  <1>5. CASE UNCHANGED <<Row, Status, asked>>
    BY <1>5
  <1> QED
    BY <1>1, <1>2, <1>3, <1>4, <1>5 DEF Contract!Next

\* What the API tells a browser stays true, through deletions, restarts and statements
\* that commit after their error: a link told to have failed never stores a token, and its
\* row stays without one until the user deletes it, which is why adding the account again
\* is refused until then (steam_accounts.go).  Of a token that could not be stored, and of
\* a link lost in a restart, it says only that this is what happened.
THEOREM OutcomesLast == Spec => []Agrees /\ [][Lasts]_<<Row, Status, asked>>
  <1>1. Contract!Init => Agrees
    BY DEF Contract!Init, Agrees
  <1>2. Agrees /\ [Contract!Next]_<<Row, Status, asked>> => Agrees' /\ [Lasts]_<<Row, Status, asked>>
    BY AgreesStep
  <1>3. Spec => Contract!Init /\ [][Contract!Next]_<<Row, Status, asked>>
    BY ContractTheorem DEF ImplementsContract, Contract!Spec
  <1> QED
    BY <1>1, <1>2, <1>3, PTL
=============================================================================
