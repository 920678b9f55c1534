------------------------------ MODULE KeySession ------------------------------
(***************************************************************************)
(* control-plane/internal/auth and api/auth.go: web users, their passwords, *)
(* bearer tokens and cached credential keys, against a clock.               *)
(*                                                                         *)
(* A tick is the resolution of the clock and Sec ticks make a second, to    *)
(* which JWT times are truncated.  Rows of the users table are never        *)
(* changed or deleted, so a username also names its row's id.  Each random  *)
(* salt is named after the request that drew it.  Argon2 is a record of its *)
(* inputs and AES-GCM opens what was sealed under the same key: both are    *)
(* injective for our purposes.  Signing with HS256 does not fail.           *)
(***************************************************************************)
EXTENDS Naturals

CONSTANTS
  Names, Passwords,
  Logins,    \* requests POST /auth/register and /auth/login
  Calls,     \* authenticated requests
  Params,    \* Argon2 cost parameters of successive releases, for either use
  Secrets,   \* values of JWT_SECRET
  Pepper,    \* CREDENTIAL_PEPPER, the same for the life of the database
  Ttl, Sec,
  MaxNow, MaxRestarts,
  None

ASSUME KeyAssumption ==
  /\ Ttl \in Nat \ {0} /\ Sec \in Nat \ {0}
  /\ MaxNow \in Nat /\ MaxRestarts \in Nat

VARIABLES
  now,
  params, kdfParams, secret,  \* of the running release: password hash, key, JWT
  users,     \* users table: password_hash and kdf_salt
  sealed,    \* per user: the key the stored refresh token is encrypted under
  entries,   \* KeyCache.entries
  lpc,       \* per login request: handler position
  claim,     \* per login request: name, password and salt, once accepted
  putAt,     \* per login request: when it cached the key
  wiped,     \* login requests whose key was evicted by a logout or a restart
  token,     \* per login request: the JWT it returned
  cpc,       \* per authenticated request: handler position
  caller,    \* per authenticated request: the user
  garbled,   \* authenticated requests whose decryption failed
  restarts

serverVars == <<params, kdfParams, secret, restarts>>
tableVars  == <<users, sealed>>
loginVars  == <<lpc, claim, putAt, token>>
callVars   == <<cpc, caller, garbled>>
vars == <<now, serverVars, tableVars, entries, loginVars, wiped, callVars>>

Salts == Logins
\* argon2.IDKey over the peppered password with given parameters, and over the bare
\* one with those of the running release, which are stored nowhere.
Digest(pw, salt, p) == [pw |-> pw, pepper |-> Pepper, salt |-> salt, params |-> p]
DeriveKey(pw, salt) == [pw |-> pw, salt |-> salt, params |-> kdfParams]
Keys == [pw : Passwords, salt : Salts, params : Params]

\* The PHC string: parameters and salt travel with the digest.
EncodePHC(p, salt, digest) == [params |-> p, salt |-> salt, digest |-> digest]
Hash(pw, salt) == EncodePHC(params, salt, Digest(pw, salt, params))

\* Faulty: recompute with the parameters of this release.
VerifyWithOwnParams(pw, phc) == Digest(pw, phc.salt, params) = phc.digest

\* Hasher.Verify: recompute with the parameters and salt that decodePHC returns.
Verify(pw, phc) == Digest(pw, phc.salt, phc.params) = phc.digest

Hashes == [params : Params, salt : Salts,
           digest : [pw : Passwords, pepper : {Pepper}, salt : Salts, params : Params]]
Rows    == [hash : Hashes, salt : Salts]
Entries == [key : Keys, expires : Nat]
Tokens  == [sub : Names, exp : Nat, secret : Secrets]
Claims  == [name : Names, pw : Passwords, salt : Salts]

ASSUME NoneAssumption ==
  /\ None \notin Names /\ None \notin Keys /\ None \notin Rows
  /\ None \notin Entries /\ None \notin Tokens /\ None \notin Claims

TypeOK ==
  /\ now \in Nat /\ restarts \in Nat
  /\ params \in Params /\ kdfParams \in Params /\ secret \in Secrets
  /\ users \in [Names -> Rows \cup {None}]
  /\ sealed \in [Names -> Keys \cup {None}]
  /\ entries \in [Names -> Entries \cup {None}]
  /\ lpc \in [Logins -> {"idle", "put", "issue", "done"}]
  /\ claim \in [Logins -> Claims \cup {None}]
  /\ putAt \in [Logins -> Nat]
  /\ wiped \in SUBSET Logins
  /\ token \in [Logins -> Tokens \cup {None}]
  /\ cpc \in [Calls -> {"idle", "logout", "seal", "open", "done"}]
  /\ caller \in [Calls -> Names \cup {None}]
  /\ garbled \in SUBSET Calls

Init ==
  /\ now = 0 /\ restarts = 0
  /\ params \in Params /\ kdfParams \in Params /\ secret \in Secrets
  /\ users = [n \in Names |-> None]
  /\ sealed = [n \in Names |-> None]
  /\ entries = [n \in Names |-> None]
  /\ lpc = [r \in Logins |-> "idle"]
  /\ claim = [r \in Logins |-> None]
  /\ putAt = [r \in Logins |-> 0]
  /\ token = [r \in Logins |-> None]
  /\ cpc = [c \in Calls |-> "idle"]
  /\ caller = [c \in Calls |-> None]
  /\ wiped = {} /\ garbled = {}

Tick ==
  /\ now < MaxNow
  /\ now' = now + 1
  /\ UNCHANGED <<serverVars, tableVars, entries, loginVars, wiped, callVars>>

----------------------------------------------------------------------------
(* Register and Login.                                                     *)

Accept(r, n, pw, salt) ==
  /\ lpc' = [lpc EXCEPT ![r] = "put"]
  /\ claim' = [claim EXCEPT ![r] = [name |-> n, pw |-> pw, salt |-> salt]]
Refuse(r) == lpc' = [lpc EXCEPT ![r] = "done"] /\ UNCHANGED claim

NewRow(pw, salt) == [hash |-> Hash(pw, salt), salt |-> salt]

\* Faulty: the 409 of a taken username is not returned.
RegisterGoesOn(r, n, pw) ==
  /\ lpc[r] = "idle"
  /\ users' = [users EXCEPT ![n] = IF @ = None THEN NewRow(pw, r) ELSE @]
  /\ Accept(r, n, pw, r)
  /\ UNCHANGED <<now, serverVars, sealed, entries, putAt, wiped, token, callVars>>

\* Register: Hash, NewSalt, then the INSERT; the key and the token follow.
Register(r, n, pw) ==
  /\ lpc[r] = "idle"
  /\ users[n] = None
  /\ users' = [users EXCEPT ![n] = NewRow(pw, r)]
  /\ Accept(r, n, pw, r)
  /\ UNCHANGED <<now, serverVars, sealed, entries, putAt, wiped, token, callVars>>

\* UNIQUE (username) refuses the INSERT: 409.
RegisterTaken(r, n) ==
  /\ lpc[r] = "idle"
  /\ users[n] # None
  /\ Refuse(r)
  /\ UNCHANGED <<now, serverVars, tableVars, entries, putAt, wiped, token, callVars>>

\* The row is inserted but the handler sees an error and answers 500.
RegisterUnseen(r, n, pw) ==
  /\ lpc[r] = "idle"
  /\ users[n] = None
  /\ users' = [users EXCEPT ![n] = NewRow(pw, r)]
  /\ Refuse(r)
  /\ UNCHANGED <<now, serverVars, sealed, entries, putAt, wiped, token, callVars>>

\* Faulty: the password is not checked.
LoginUnchecked(r, n, pw) ==
  /\ lpc[r] = "idle"
  /\ users[n] # None
  /\ Accept(r, n, pw, users[n].salt)
  /\ UNCHANGED <<now, serverVars, tableVars, entries, putAt, wiped, token, callVars>>

\* Login: GetByUsername, Verify.
Login(r, n, pw) ==
  /\ lpc[r] = "idle"
  /\ users[n] # None /\ Verify(pw, users[n].hash)
  /\ Accept(r, n, pw, users[n].salt)
  /\ UNCHANGED <<now, serverVars, tableVars, entries, putAt, wiped, token, callVars>>

\* No such user or a wrong password: the same 401.
LoginRefused(r, n, pw) ==
  /\ lpc[r] = "idle"
  /\ users[n] # None => ~Verify(pw, users[n].hash)
  /\ Refuse(r)
  /\ UNCHANGED <<now, serverVars, tableVars, entries, putAt, wiped, token, callVars>>

Cached(r) == [key |-> DeriveKey(claim[r].pw, claim[r].salt), expires |-> now + Ttl]

\* Faulty: an entry that is there is kept with its expiry.
PutIfAbsent(r) ==
  /\ lpc[r] = "put"
  /\ entries' = [entries EXCEPT ![claim[r].name] = IF @ = None THEN Cached(r) ELSE @]
  /\ lpc' = [lpc EXCEPT ![r] = "issue"]
  /\ putAt' = [putAt EXCEPT ![r] = now]
  /\ UNCHANGED <<now, serverVars, tableVars, claim, wiped, token, callVars>>

\* keys.Put
Put(r) ==
  /\ lpc[r] = "put"
  /\ entries' = [entries EXCEPT ![claim[r].name] = Cached(r)]
  /\ lpc' = [lpc EXCEPT ![r] = "issue"]
  /\ putAt' = [putAt EXCEPT ![r] = now]
  /\ UNCHANGED <<now, serverVars, tableVars, claim, wiped, token, callVars>>

\* jwt.NumericDate: whole seconds.
NumericDate(t) == t - (t % Sec)

\* tokens.Issue
Issue(r) ==
  /\ lpc[r] = "issue"
  /\ token' = [token EXCEPT ![r] = [sub |-> claim[r].name, secret |-> secret,
                                    exp |-> NumericDate(now + Ttl)]]
  /\ lpc' = [lpc EXCEPT ![r] = "done"]
  /\ UNCHANGED <<now, serverVars, tableVars, entries, claim, putAt, wiped, callVars>>

----------------------------------------------------------------------------
(* Authenticated requests.                                                 *)

\* TokenManager.Verify: signature and expiry.
Valid(t) == t # None /\ t.secret = secret /\ now < t.exp

Live(n) == entries[n] # None /\ now < entries[n].expires

\* requireAuth, for a request with the token that login r returned: a logout, or a
\* request that needs the credential key to store a refresh token or to use the
\* one stored (409 if there is none).
CallBegin(c, r, op) ==
  /\ cpc[c] = "idle"
  /\ Valid(token[r])
  /\ op = "open" => sealed[token[r].sub] # None
  /\ cpc' = [cpc EXCEPT ![c] = op]
  /\ caller' = [caller EXCEPT ![c] = token[r].sub]
  /\ UNCHANGED <<now, serverVars, tableVars, entries, loginVars, wiped, garbled>>

Answer(c) == cpc' = [cpc EXCEPT ![c] = "done"]

\* Logout: keys.Delete.  The tokens stay valid.
Logout(c) ==
  /\ cpc[c] = "logout"
  /\ entries' = [entries EXCEPT ![caller[c]] = None]
  /\ wiped' = wiped \cup {r \in Logins : lpc[r] \in {"issue", "done"} /\ claim[r] # None
                                         /\ claim[r].name = caller[c]}
  /\ Answer(c)
  /\ UNCHANGED <<now, serverVars, tableVars, loginVars, caller, garbled>>

\* keys.Get without a live entry: an expired one is evicted, and the answer is 401.
GetMiss(c) ==
  /\ cpc[c] \in {"seal", "open"}
  /\ ~Live(caller[c])
  /\ entries' = [entries EXCEPT ![caller[c]] = None]
  /\ Answer(c)
  /\ UNCHANGED <<now, serverVars, tableVars, loginVars, wiped, caller, garbled>>

\* Faulty: a use of the key extends its life.
SealSlides(c) ==
  /\ cpc[c] = "seal"
  /\ Live(caller[c])
  /\ sealed' = [sealed EXCEPT ![caller[c]] = entries[caller[c]].key]
  /\ entries' = [entries EXCEPT ![caller[c]].expires = now + Ttl]
  /\ Answer(c)
  /\ UNCHANGED <<now, serverVars, users, loginVars, wiped, caller, garbled>>

\* Encrypt: a refresh token is stored under the key that Get returned.
Seal(c) ==
  /\ cpc[c] = "seal"
  /\ Live(caller[c])
  /\ sealed' = [sealed EXCEPT ![caller[c]] = entries[caller[c]].key]
  /\ Answer(c)
  /\ UNCHANGED <<now, serverVars, users, entries, loginVars, wiped, caller, garbled>>

\* Decrypt: authenticated, so another key fails and the answer is 500.
Open(c) ==
  /\ cpc[c] = "open"
  /\ Live(caller[c])
  /\ garbled' = IF sealed[caller[c]] = entries[caller[c]].key THEN garbled
                ELSE garbled \cup {c}
  /\ Answer(c)
  /\ UNCHANGED <<now, serverVars, tableVars, entries, loginVars, wiped, caller>>

\* Another release is started on the same database, perhaps with other parameters,
\* of the hash or of the key ("so the two uses can be tuned separately"), and another
\* JWT_SECRET: cache and handlers are gone, tokens are with their users.
Restart(p, k, s) ==
  /\ restarts < MaxRestarts
  /\ restarts' = restarts + 1
  /\ params' = p /\ kdfParams' = k /\ secret' = s
  /\ entries' = [n \in Names |-> None]
  /\ lpc' = [r \in Logins |-> IF lpc[r] = "idle" THEN "idle" ELSE "done"]
  /\ cpc' = [c \in Calls |-> IF cpc[c] = "idle" THEN "idle" ELSE "done"]
  /\ wiped' = {r \in Logins : lpc[r] # "idle"}
  /\ UNCHANGED <<now, tableVars, claim, putAt, token, caller, garbled>>

Next ==
  \/ Tick
  \/ \E r \in Logins : Put(r) \/ Issue(r) \/ \E n \in Names : RegisterTaken(r, n)
  \/ \E r \in Logins, n \in Names, pw \in Passwords :
       Register(r, n, pw) \/ RegisterUnseen(r, n, pw) \/ Login(r, n, pw) \/ LoginRefused(r, n, pw)
  \/ \E c \in Calls, r \in Logins, op \in {"logout", "seal", "open"} : CallBegin(c, r, op)
  \/ \E c \in Calls : Logout(c) \/ GetMiss(c) \/ Seal(c) \/ Open(c)
  \/ \E p, k \in Params, s \in Secrets : Restart(p, k, s)

Spec == Init /\ [][Next]_vars

----------------------------------------------------------------------------
\* A stored refresh token decrypts under the key any later login caches, exactly if the
\* release that sealed it derived keys with the parameters of the one that runs: key and
\* ciphertext agree on the password and salt of the row, whichever of two racing
\* registrations won and whatever the password hash's parameters are.  So nothing fails
\* to decrypt within a release.
StoredOpens ==
  /\ \A n \in Names : sealed[n] # None /\ entries[n] # None =>
       (sealed[n] = entries[n].key <=> sealed[n].params = kdfParams)
  /\ restarts = 0 => garbled = {}

\* A token is only issued to who gave the password of the row, so the loser of two
\* registrations of one name gets none.
TokensAreEarned ==
  \A r \in Logins : token[r] # None =>
    users[token[r].sub] # None /\ Verify(claim[r].pw, users[token[r].sub].hash)

\* "which lets parameters change over time without breaking existing hashes": the
\* password a user registered with verifies under every later release.
HashesOutliveReleases ==
  \A n \in Names : users[n] # None => Verify(users[n].hash.digest.pw, users[n].hash)

\* A valid token finds the key its login cached, also if logins of the same user
\* overlapped, unless a logout or a restart came after the key was cached or the
\* login itself took so long that the key's time is up.
TokensFindKeys ==
  \A r \in Logins :
    Valid(token[r]) /\ r \notin wiped /\ now < putAt[r] + Ttl => Live(token[r].sub)

\* A key is usable less than a second longer than some token of its user, or that
\* token is just being issued.
KeyOutlivesTokenBriefly ==
  \A n \in Names : entries[n] # None =>
    \E r \in Logins :
      \/ lpc[r] = "issue" /\ claim[r].name = n
      \/ token[r] # None /\ token[r].sub = n /\ entries[n].expires < token[r].exp + Sec

(* Claims of comments that the code does not keep *)

\* keycache.go: "a key never outlives the token it was minted for".
KeyNeverOutlivesToken ==
  \A n \in Names : entries[n] # None =>
    \E r \in Logins : \/ lpc[r] = "issue" /\ claim[r].name = n
                      \/ Valid(token[r]) /\ token[r].sub = n

\* crypto.go: "The same (password, salt) pair always yields the same key, which is what
\* lets the credential be decrypted on a later login".  Not after a release that tunes
\* kdfParams: the request then answers 500 until the account is deleted and linked anew.
LaterLoginsDecrypt == garbled = {}
=============================================================================
