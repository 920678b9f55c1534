-------------------------- MODULE KeySession_proofs --------------------------
(* Proofs about KeySession, for any users, requests, releases and lifetimes. *)
EXTENDS KeySession, TLAPS

USE DEF vars, serverVars, tableVars, loginVars, callVars

\* What a login knows from the moment it is accepted, and an authenticated request
\* from the moment it is let in.
Shape ==
  /\ \A r \in Logins :
       /\ lpc[r] \in {"put", "issue"} => claim[r] # None
       /\ lpc[r] = "idle" => claim[r] = None
       /\ token[r] # None => claim[r] # None /\ token[r].sub = claim[r].name /\ lpc[r] = "done"
       /\ claim[r] # None => claim[r] \in Claims
  /\ \A c \in Calls : cpc[c] \in {"logout", "seal", "open"} => caller[c] \in Names

TypeInv == TypeOK /\ Shape

\* Truncation to whole seconds loses less than a second.
LEMMA NumericDateLemma ==
  ASSUME NEW t \in Nat
  PROVE  /\ NumericDate(t) \in Nat
         /\ NumericDate(t) <= t
         /\ t < NumericDate(t) + Sec
<1>1. t % Sec \in 0..(Sec - 1)
  BY KeyAssumption
<1>2. t % Sec <= t
  BY KeyAssumption
<1> QED BY <1>1, <1>2, KeyAssumption DEF NumericDate

\* Types, and the shape of requests in each position.
LEMMA TypeInvariance == Spec => []TypeInv
<1> USE KeyAssumption, NoneAssumption DEF Salts, Keys, Hashes, Rows, Entries, Tokens, Claims
<1>1. Init => TypeInv
  BY SMTT(60) DEF Init, TypeInv, TypeOK, Shape
<1>2. TypeInv /\ [Next]_vars => TypeInv'
  <2> SUFFICES ASSUME TypeInv, [Next]_vars PROVE TypeInv'
    OBVIOUS
  <2> USE DEF TypeInv, TypeOK, Shape
  <2>1. CASE Tick
    BY <2>1 DEF Tick
  <2>2. ASSUME NEW r \in Logins, NEW n \in Names, NEW pw \in Passwords,
               Register(r, n, pw) \/ RegisterUnseen(r, n, pw)
        PROVE  TypeInv'
    <3> DEFINE cl == [name |-> n, pw |-> pw, salt |-> r]
               row == NewRow(pw, r)
    <3>1. row \in Rows /\ cl \in Claims
      BY DEF NewRow, Hash, EncodePHC, Digest
    <3>2. users' = [users EXCEPT ![n] = row]
      BY <2>2 DEF Register, RegisterUnseen
    <3>3. \/ lpc' = [lpc EXCEPT ![r] = "put"] /\ claim' = [claim EXCEPT ![r] = cl]
          \/ lpc' = [lpc EXCEPT ![r] = "done"] /\ claim' = claim
      BY <2>2 DEF Register, RegisterUnseen, Accept, Refuse
    <3>4. /\ lpc[r] = "idle"
          /\ UNCHANGED <<now, serverVars, sealed, entries, putAt, wiped, token, callVars>>
      BY <2>2 DEF Register, RegisterUnseen
    <3> HIDE DEF cl, row, Rows, Claims
    <3>5. TypeOK'
      BY <3>1, <3>2, <3>3, <3>4
    <3>6. Shape'
      BY <3>1, <3>3, <3>4
    <3> QED BY <3>5, <3>6
  <2>3. ASSUME NEW r \in Logins, NEW n \in Names, NEW pw \in Passwords,
               Login(r, n, pw) \/ LoginRefused(r, n, pw)
        PROVE  TypeInv'
    <3> DEFINE cl == [name |-> n, pw |-> pw, salt |-> users[n].salt]
    <3>1. users[n] # None => cl \in Claims
      OBVIOUS
    <3>2. \/ /\ lpc' = [lpc EXCEPT ![r] = "put"] /\ claim' = [claim EXCEPT ![r] = cl]
             /\ users[n] # None
          \/ lpc' = [lpc EXCEPT ![r] = "done"] /\ claim' = claim
      BY <2>3 DEF Login, LoginRefused, Accept, Refuse
    <3>3. /\ lpc[r] = "idle"
          /\ UNCHANGED <<now, serverVars, tableVars, entries, putAt, wiped, token, callVars>>
      BY <2>3 DEF Login, LoginRefused
    <3> HIDE DEF cl, Claims
    <3>4. TypeOK'
      BY <3>1, <3>2, <3>3, SMTT(60)
    <3>5. Shape'
      BY <3>1, <3>2, <3>3
    <3> QED BY <3>4, <3>5
  <2>4. ASSUME NEW r \in Logins, Put(r)
        PROVE  TypeInv'
    <3>1. Cached(r) \in Entries
      BY <2>4 DEF Put, Cached, DeriveKey
    <3> QED BY <2>4, <3>1 DEF Put
  <2>5. ASSUME NEW r \in Logins, Issue(r)
        PROVE  TypeInv'
    <3> DEFINE t == [sub |-> claim[r].name, secret |-> secret, exp |-> NumericDate(now + Ttl)]
    <3>1. t \in Tokens /\ t.sub = claim[r].name
      BY <2>5, NumericDateLemma DEF Issue
    <3>2. token' = [token EXCEPT ![r] = t]
      BY <2>5 DEF Issue
    <3> HIDE DEF t
    <3> QED BY <2>5, <3>1, <3>2 DEF Issue
  <2>6. ASSUME NEW c \in Calls, NEW r \in Logins, NEW op \in {"logout", "seal", "open"},
               CallBegin(c, r, op)
        PROVE  TypeInv'
    BY <2>6 DEF CallBegin, Valid
  <2>7. ASSUME NEW c \in Calls, Logout(c)
        PROVE  TypeInv'
    BY <2>7 DEF Logout, Answer
  <2>8. ASSUME NEW c \in Calls, GetMiss(c) \/ Seal(c) \/ Open(c)
        PROVE  TypeInv'
    BY <2>8 DEF GetMiss, Seal, Open, Live, Answer
  <2>9. ASSUME NEW p \in Params, NEW k \in Params, NEW s \in Secrets,
               Restart(p, k, s)
        PROVE  TypeInv'
    BY <2>9 DEF Restart
  <2>10. CASE UNCHANGED vars
    BY <2>10
  <2>11. ASSUME NEW r \in Logins, NEW n \in Names, RegisterTaken(r, n)
         PROVE  TypeInv'
    <3>1. /\ lpc' = [lpc EXCEPT ![r] = "done"]
          /\ lpc[r] = "idle"
          /\ UNCHANGED <<now, serverVars, tableVars, entries, claim, putAt, wiped, token, callVars>>
      BY <2>11 DEF RegisterTaken, Refuse
    <3> QED BY <3>1, SMTT(60)
  <2> QED BY <2>1, <2>2, <2>3, <2>4, <2>5, <2>6, <2>7, <2>8, <2>9, <2>10, <2>11 DEF Next
<1> QED BY <1>1, <1>2, PTL DEF Spec

\* Types of the tables, cache, tokens and requests.
THEOREM TypeCorrect == Spec => []TypeOK
BY TypeInvariance, PTL DEF TypeInv

----------------------------------------------------------------------------
(* Passwords and keys.  A row's hash was made from one password, with the   *)
(* parameters and salt it carries.  Whoever was accepted gave that password *)
(* and derives its key from the row's salt, so two keys of a user differ at *)
(* most in the parameters of the releases that derived them.                *)

HashOk(phc) == phc.digest = Digest(phc.digest.pw, phc.salt, phc.params)
OfRow(n, key) == key.pw = users[n].hash.digest.pw /\ key.salt = users[n].salt

KeyInv ==
  /\ \A n \in Names :
       /\ users[n] # None => HashOk(users[n].hash)
       /\ entries[n] # None => /\ users[n] # None /\ OfRow(n, entries[n].key)
                               /\ entries[n].key.params = kdfParams
       /\ sealed[n] # None => users[n] # None /\ OfRow(n, sealed[n])
  /\ \A r \in Logins : claim[r] # None =>
       /\ users[claim[r].name] # None
       /\ claim[r].pw = users[claim[r].name].hash.digest.pw
       /\ claim[r].salt = users[claim[r].name].salt
  /\ \A c \in Calls : cpc[c] = "open" => sealed[caller[c]] # None
  /\ restarts = 0 => /\ garbled = {}
                     /\ \A n \in Names : sealed[n] # None => sealed[n].params = kdfParams

\* Keys are equal when their three inputs are.
LEMMA KeyLemma ==
  ASSUME NEW k \in Keys, NEW l \in Keys, k.pw = l.pw, k.salt = l.salt
  PROVE  k = l <=> k.params = l.params
BY DEF Keys

\* A password is accepted exactly if it made the hash.
LEMMA VerifyLemma ==
  ASSUME NEW phc \in Hashes, NEW pw \in Passwords, HashOk(phc)
  PROVE  Verify(pw, phc) <=> pw = phc.digest.pw
BY DEF HashOk, Verify, Digest, Hashes

\* A new row is made from its password and its salt.
LEMMA NewRowLemma ==
  ASSUME NEW pw \in Passwords, NEW salt \in Salts, params \in Params
  PROVE  /\ NewRow(pw, salt) \in Rows
         /\ HashOk(NewRow(pw, salt).hash)
         /\ NewRow(pw, salt).hash.digest.pw = pw
         /\ NewRow(pw, salt).salt = salt
BY DEF NewRow, Hash, EncodePHC, Digest, HashOk, Rows, Hashes, Salts

\* KeyInv, which the theorems about what opens and verifies rest on.
LEMMA KeyInvariance == Spec => []KeyInv
<1> USE KeyAssumption, NoneAssumption
<1>1. Init => KeyInv
  BY DEF Init, KeyInv
<1>2. TypeInv /\ KeyInv /\ [Next]_vars => KeyInv'
  <2> SUFFICES ASSUME TypeInv, KeyInv, [Next]_vars PROVE KeyInv'
    OBVIOUS
  <2> USE DEF TypeInv, TypeOK, Shape, KeyInv, OfRow
  <2>1. CASE Tick
    BY <2>1 DEF Tick
  <2>2. ASSUME NEW r \in Logins, NEW n \in Names, NEW pw \in Passwords, users[n] = None,
               Register(r, n, pw) \/ RegisterUnseen(r, n, pw)
        PROVE  KeyInv'
    <3> DEFINE cl == [name |-> n, pw |-> pw, salt |-> r]
               row == NewRow(pw, r)
    <3>1. /\ row \in Rows /\ HashOk(row.hash) /\ row.hash.digest.pw = pw /\ row.salt = r
          /\ cl.name = n /\ cl.pw = pw /\ cl.salt = r
      BY NewRowLemma DEF Salts
    <3>2. users' = [users EXCEPT ![n] = row]
      BY <2>2 DEF Register, RegisterUnseen
    <3>3. claim' = [claim EXCEPT ![r] = cl] \/ claim' = claim
      BY <2>2 DEF Register, RegisterUnseen, Accept, Refuse
    <3>4. UNCHANGED <<serverVars, sealed, entries, callVars>>
      BY <2>2 DEF Register, RegisterUnseen
    <3> HIDE DEF cl, row
    <3>5. \A m \in Names : users[m] # None => users'[m] = users[m]
      BY <2>2, <3>2
    <3>6. \A s \in Logins : claim[s] # None => claim[s].name \in Names
      BY DEF Claims
    <3>7. \A m \in Names : m # n => users'[m] = users[m]
      BY <3>2
    <3>8. users'[n] = row /\ users'[n] # None
      BY <3>1, <3>2
    <3>9. \A m \in Names :
       /\ users'[m] # None => HashOk(users'[m].hash)
       /\ entries[m] # None => users'[m] # None /\ users'[m] = users[m]
       /\ sealed[m] # None => users'[m] # None /\ users'[m] = users[m]
      BY <2>2, <3>1, <3>5, <3>7, <3>8
    <3>10. \A s \in Logins : claim'[s] # None =>
       /\ users'[claim'[s].name] # None
       /\ claim'[s].pw = users'[claim'[s].name].hash.digest.pw
       /\ claim'[s].salt = users'[claim'[s].name].salt
      BY <2>2, <3>1, <3>3, <3>5, <3>6, <3>8
    <3> QED BY <3>4, <3>9, <3>10
  <2>3. ASSUME NEW r \in Logins, NEW n \in Names, NEW pw \in Passwords, Login(r, n, pw)
        PROVE  KeyInv'
    <3> DEFINE cl == [name |-> n, pw |-> pw, salt |-> users[n].salt]
    <3>1. users[n] # None /\ pw = users[n].hash.digest.pw
      BY <2>3, VerifyLemma DEF Login, Rows
    <3>2. claim' = [claim EXCEPT ![r] = cl] /\ UNCHANGED <<serverVars, users, sealed, entries, callVars>>
      BY <2>3 DEF Login, Accept
    <3>3. cl.name = n /\ cl.pw = pw /\ cl.salt = users[n].salt
      OBVIOUS
    <3> HIDE DEF cl
    <3> QED BY <3>1, <3>2, <3>3
  <2>4. ASSUME UNCHANGED <<serverVars, users, sealed, entries, claim, callVars>>
        PROVE  KeyInv'
    BY <2>4, SMTT(60)
  <2>5. ASSUME NEW r \in Logins, Put(r)
        PROVE  KeyInv'
    <3>1. /\ claim[r] # None /\ claim[r].name \in Names
          /\ OfRow(claim[r].name, Cached(r).key) /\ Cached(r).key.params = kdfParams
      BY <2>5 DEF Put, Cached, DeriveKey, Claims
    <3>2. entries' = [entries EXCEPT ![claim[r].name] = Cached(r)]
      BY <2>5 DEF Put
    <3> QED BY <2>5, <3>1, <3>2 DEF Put
  <2>6. ASSUME NEW c \in Calls, NEW r \in Logins, NEW op \in {"logout", "seal", "open"},
               CallBegin(c, r, op)
        PROVE  KeyInv'
    BY <2>6 DEF CallBegin, Valid
  <2>7. ASSUME NEW c \in Calls, Logout(c) \/ GetMiss(c)
        PROVE  KeyInv'
    BY <2>7 DEF Logout, GetMiss, Answer
  <2>8. ASSUME NEW c \in Calls, Seal(c)
        PROVE  KeyInv'
    <3> DEFINE m == caller[c]  k == entries[m].key
    <3>1. /\ m \in Names /\ entries[m] # None /\ users[m] # None
          /\ OfRow(m, k) /\ k.params = kdfParams /\ k \in Keys /\ k # None
      BY <2>8 DEF Seal, Live, Entries
    <3>2. /\ sealed' = [sealed EXCEPT ![m] = k] /\ \A d \in Calls : cpc'[d] = "open" => cpc[d] = "open"
          /\ UNCHANGED <<serverVars, users, entries, claim, caller, garbled>>
      BY <2>8 DEF Seal, Answer
    <3> HIDE DEF m, k
    <3> QED BY <3>1, <3>2
  <2>9. ASSUME NEW c \in Calls, Open(c)
        PROVE  KeyInv'
    <3>1. /\ caller[c] \in Names
          /\ sealed[caller[c]] \in Keys /\ entries[caller[c]].key \in Keys
          /\ entries[caller[c]] # None
      BY <2>9 DEF Open, Live, Entries
    <3>2. restarts = 0 => sealed[caller[c]] = entries[caller[c]].key
      BY <3>1, KeyLemma DEF Entries
    <3>3. restarts = 0 => garbled' = {}
      BY <2>9, <3>2 DEF Open
    <3> QED BY <2>9, <3>3 DEF Open, Answer
  <2>10. ASSUME NEW p \in Params, NEW k \in Params, NEW s \in Secrets,
               Restart(p, k, s)
         PROVE  KeyInv'
    BY <2>10 DEF Restart
  <2>11. ASSUME NEW r \in Logins, NEW n \in Names, NEW pw \in Passwords,
                LoginRefused(r, n, pw)
         PROVE  KeyInv'
    BY <2>4, <2>11 DEF LoginRefused, Refuse
  <2>12. ASSUME NEW r \in Logins, NEW n \in Names, RegisterTaken(r, n)
         PROVE  KeyInv'
    BY <2>4, <2>12 DEF RegisterTaken, Refuse
  <2>13. ASSUME NEW r \in Logins, Issue(r)
         PROVE  KeyInv'
    BY <2>4, <2>13 DEF Issue
  <2>14. ASSUME NEW r \in Logins, NEW n \in Names, NEW pw \in Passwords,
                Register(r, n, pw) \/ RegisterUnseen(r, n, pw)
         PROVE  KeyInv'
    <3>1. users[n] = None
      BY <2>14 DEF Register, RegisterUnseen
    <3> QED BY <2>2, <2>14, <3>1
  <2>15. CASE UNCHANGED vars
    BY <2>4, <2>15
  <2> HIDE DEF TypeInv, TypeOK, Shape, KeyInv, OfRow
  <2> QED BY <2>1, <2>3, <2>5, <2>6, <2>7, <2>8, <2>9, <2>10, <2>11, <2>12, <2>13, <2>14, <2>15
          DEF Next
<1> QED BY <1>1, <1>2, TypeInvariance, PTL DEF Spec

\* A stored refresh token decrypts under a key the cache holds for its user exactly if
\* both were derived with the same cost parameters, whichever registration won the name.
THEOREM StoredOpensTheorem == Spec => []StoredOpens
<1>1. TypeInv /\ KeyInv => StoredOpens
  <2> SUFFICES ASSUME TypeInv, KeyInv, NEW n \in Names, sealed[n] # None, entries[n] # None
               PROVE  sealed[n] = entries[n].key <=> sealed[n].params = kdfParams
    BY DEF KeyInv, StoredOpens
  <2>1. sealed[n] \in Keys /\ entries[n].key \in Keys
    BY DEF TypeInv, TypeOK, Entries
  <2>2. /\ sealed[n].pw = entries[n].key.pw /\ sealed[n].salt = entries[n].key.salt
        /\ entries[n].key.params = kdfParams
    BY DEF KeyInv, OfRow
  <2> QED BY <2>1, <2>2, KeyLemma
<1> QED BY <1>1, TypeInvariance, KeyInvariance, PTL

\* Tokens are only issued against the password of the row.
THEOREM EarnedTheorem == Spec => []TokensAreEarned
<1>1. TypeInv /\ KeyInv => TokensAreEarned
  <2> SUFFICES ASSUME TypeInv, KeyInv, NEW r \in Logins, token[r] # None
               PROVE  /\ users[token[r].sub] # None
                      /\ Verify(claim[r].pw, users[token[r].sub].hash)
    BY DEF TokensAreEarned
  <2>1. /\ claim[r] # None /\ token[r].sub = claim[r].name
        /\ claim[r].name \in Names /\ claim[r].pw \in Passwords
    BY DEF TypeInv, Shape, Claims
  <2>2. users[token[r].sub] # None /\ claim[r].pw = users[token[r].sub].hash.digest.pw
    BY <2>1 DEF KeyInv
  <2>3. users[token[r].sub].hash \in Hashes /\ HashOk(users[token[r].sub].hash)
    BY <2>1, <2>2 DEF KeyInv, TypeInv, TypeOK, Rows
  <2> QED BY <2>1, <2>2, <2>3, VerifyLemma
<1> QED BY <1>1, TypeInvariance, KeyInvariance, PTL

\* Hashes verify under every later release's parameters.
THEOREM HashesTheorem == Spec => []HashesOutliveReleases
<1>1. TypeInv /\ KeyInv => HashesOutliveReleases
  BY DEF KeyInv, HashesOutliveReleases, HashOk, Verify
<1> QED BY <1>1, TypeInvariance, KeyInvariance, PTL

----------------------------------------------------------------------------
(* Lifetimes.  A cached key expires Ttl after the last Put, and whoever put *)
(* a key signs a token at the same time or later, truncated to a second.    *)

Minted(r) == claim[r] # None /\ lpc[r] \in {"issue", "done"}

TimeInv ==
  /\ \A n \in Names : entries[n] # None => entries[n].expires <= now + Ttl
  /\ \A r \in Logins : putAt[r] <= now
  /\ \A r \in Logins : Minted(r) /\ r \notin wiped =>
       \/ now >= putAt[r] + Ttl
       \/ /\ entries[claim[r].name] # None
          /\ putAt[r] + Ttl <= entries[claim[r].name].expires
  /\ KeyOutlivesTokenBriefly

\* TimeInv, which the theorems about expiry rest on.
LEMMA TimeInvariance == Spec => []TimeInv
<1> USE KeyAssumption, NoneAssumption
<1>1. Init => TimeInv
  BY SMTT(60) DEF Init, TimeInv, Minted, KeyOutlivesTokenBriefly
<1>2. TypeInv /\ TimeInv /\ [Next]_vars => TimeInv'
  <2> SUFFICES ASSUME TypeInv, TimeInv, [Next]_vars PROVE TimeInv'
    OBVIOUS
  <2> USE DEF TypeInv, TypeOK, Shape, TimeInv, Minted, KeyOutlivesTokenBriefly, Entries, Claims, Tokens
  <2>1. CASE Tick
    BY <2>1 DEF Tick
  <2>2. ASSUME NEW r \in Logins, lpc[r] = "idle",
               \/ lpc' = [lpc EXCEPT ![r] = "put"]
               \/ lpc' = [lpc EXCEPT ![r] = "done"] /\ claim' = claim,
               \A s \in Logins \ {r} : claim'[s] = claim[s],
               UNCHANGED <<now, entries, putAt, wiped, token>>
        PROVE  TimeInv'
    <3>1. \A s \in Logins : lpc[s] = "issue" => lpc'[s] = "issue" /\ claim'[s] = claim[s]
      BY <2>2
    <3>2. \A s \in Logins : Minted(s)' => Minted(s) /\ claim'[s] = claim[s]
      BY <2>2
    <3>3. KeyOutlivesTokenBriefly'
      BY <2>2, <3>1
    <3> QED BY <2>2, <3>2, <3>3
  <2>3. ASSUME NEW r \in Logins, NEW n \in Names, NEW pw \in Passwords,
               Register(r, n, pw) \/ RegisterUnseen(r, n, pw) \/ Login(r, n, pw)
                 \/ LoginRefused(r, n, pw)
        PROVE  TimeInv'
    BY <2>2, <2>3 DEF Register, RegisterUnseen, Login, LoginRefused, Accept, Refuse
  <2>4. ASSUME NEW r \in Logins, NEW n \in Names, RegisterTaken(r, n)
        PROVE  TimeInv'
    BY <2>2, <2>4 DEF RegisterTaken, Refuse
  <2>5. ASSUME NEW r \in Logins, Put(r)
        PROVE  TimeInv'
    <3> DEFINE m == claim[r].name  e == Cached(r)
    <3>1. m \in Names /\ e \in Entries /\ e.expires = now + Ttl
      BY <2>5 DEF Put, Cached, DeriveKey, Keys, Salts
    <3>2. /\ entries' = [entries EXCEPT ![m] = e]
          /\ lpc' = [lpc EXCEPT ![r] = "issue"] /\ putAt' = [putAt EXCEPT ![r] = now]
          /\ lpc[r] = "put"
          /\ UNCHANGED <<now, claim, wiped, token>>
      BY <2>5 DEF Put
    <3>3. claim[r] # None /\ claim[r].name = m
      BY <3>2
    <3> HIDE DEF m, e
    <3>4. KeyOutlivesTokenBriefly'
      BY <3>1, <3>2, <3>3
    <3>5. \A s \in Logins : claim[s] # None => claim[s].name \in Names
      OBVIOUS
    <3>6. \A s \in Logins : Minted(s)' /\ s \notin wiped' =>
       \/ now' >= putAt'[s] + Ttl
       \/ /\ entries'[claim'[s].name] # None
          /\ putAt'[s] + Ttl <= entries'[claim'[s].name].expires
      BY <3>1, <3>2, <3>3, <3>5
    <3> QED BY <3>1, <3>2, <3>4, <3>6
  <2>6. ASSUME NEW r \in Logins, Issue(r)
        PROVE  TimeInv'
    <3> DEFINE t == [sub |-> claim[r].name, secret |-> secret, exp |-> NumericDate(now + Ttl)]
    <3>1. now + Ttl < t.exp + Sec /\ t.sub = claim[r].name /\ t.exp \in Nat /\ t \in Tokens
      BY <2>6, NumericDateLemma DEF Issue
    <3>2. /\ token' = [token EXCEPT ![r] = t] /\ lpc' = [lpc EXCEPT ![r] = "done"]
          /\ lpc[r] = "issue"
          /\ UNCHANGED <<now, entries, claim, putAt, wiped>>
      BY <2>6 DEF Issue
    <3> HIDE DEF t
    <3>3. t # None
      BY <3>1
    <3>4. ASSUME NEW n \in Names, entries[n] # None, claim[r].name = n
          PROVE  entries[n].expires < t.exp + Sec
      BY <3>1, <3>4
    <3>5. KeyOutlivesTokenBriefly'
      BY <3>1, <3>2, <3>3, <3>4
    <3> QED BY <3>2, <3>5
  <2>7. ASSUME NEW c \in Calls, NEW r \in Logins, NEW op \in {"logout", "seal", "open"},
               CallBegin(c, r, op)
        PROVE  TimeInv'
    BY <2>7 DEF CallBegin
  <2>8. ASSUME NEW c \in Calls, Logout(c)
        PROVE  TimeInv'
    <3>1. /\ entries' = [entries EXCEPT ![caller[c]] = None]
          /\ \A s \in Logins : Minted(s) /\ claim[s].name = caller[c] => s \in wiped'
          /\ wiped \subseteq wiped'
          /\ UNCHANGED <<now, loginVars>>
      BY <2>8 DEF Logout
    <3>2. KeyOutlivesTokenBriefly'
      BY <3>1
    <3> QED BY <3>1, <3>2
  <2>9. ASSUME NEW c \in Calls, GetMiss(c)
        PROVE  TimeInv'
    <3>1. /\ entries' = [entries EXCEPT ![caller[c]] = None]
          /\ entries[caller[c]] # None => entries[caller[c]].expires <= now
          /\ caller[c] \in Names
          /\ UNCHANGED <<now, loginVars, wiped>>
      BY <2>9 DEF GetMiss, Live
    <3>2. KeyOutlivesTokenBriefly'
      BY <3>1
    <3> QED BY <3>1, <3>2
  <2>10. ASSUME NEW c \in Calls, Seal(c) \/ Open(c)
         PROVE  TimeInv'
    BY <2>10 DEF Seal, Open
  <2>11. ASSUME NEW p \in Params, NEW k \in Params, NEW s \in Secrets,
               Restart(p, k, s)
         PROVE  TimeInv'
    BY <2>11 DEF Restart
  <2>12. CASE UNCHANGED vars
    BY <2>12
  <2> QED BY <2>1, <2>3, <2>4, <2>5, <2>6, <2>7, <2>8, <2>9, <2>10, <2>11, <2>12 DEF Next
<1> QED BY <1>1, <1>2, TypeInvariance, PTL DEF Spec

\* A key outlives some token of its user by less than a second.
THEOREM OutlivesTheorem == Spec => []KeyOutlivesTokenBriefly
BY TimeInvariance, PTL DEF TimeInv

\* A valid token finds its key until the key's own time is up, short of a logout or
\* a restart.
THEOREM FindKeysTheorem == Spec => []TokensFindKeys
<1>1. TypeInv /\ TimeInv => TokensFindKeys
  <2> SUFFICES ASSUME TypeInv, TimeInv, NEW r \in Logins, Valid(token[r]), r \notin wiped,
                      now < putAt[r] + Ttl
               PROVE  Live(token[r].sub)
    BY DEF TokensFindKeys
  <2>1. claim[r] # None /\ token[r].sub = claim[r].name /\ lpc[r] = "done" /\ claim[r].name \in Names
    BY DEF Valid, TypeInv, Shape, Claims
  <2>2. /\ entries[claim[r].name] # None /\ putAt[r] + Ttl <= entries[claim[r].name].expires
    BY <2>1, KeyAssumption DEF TimeInv, Minted, TypeInv, TypeOK
  <2> QED BY <2>1, <2>2, KeyAssumption DEF Live, TypeInv, TypeOK, Entries
<1> QED BY <1>1, TypeInvariance, TimeInvariance, PTL
=============================================================================
