----------------------------- MODULE LinkContract -----------------------------
(***************************************************************************)
(* What control-plane/internal/api promises about linking an account       *)
(* (router.go, LinkCallbacks and LinkProvider): a started link may prompt  *)
(* the user, then has at most one outcome.  Success is only announced once *)
(* the token is in its row, unless the row is gone; failure of the link    *)
(* only if no token was or will be stored; and of an error in storing one  *)
(* nothing is promised but that there was a token to store.  A crash loses *)
(* the links under way, never a row; a token being saved may arrive.       *)
(***************************************************************************)
CONSTANT Accounts

VARIABLES
  row,       \* per account: "none" yet, "bare", with a "token", or "gone"
  status,    \* per account: link "idle", "open", "linked", "failed", "unstored", "lost"
  prompted   \* accounts whose user was asked for a code

Init ==
  /\ row = [a \in Accounts |-> "none"]
  /\ status = [a \in Accounts |-> "idle"]
  /\ prompted = {}

SetRow(a, r) == row' = [row EXCEPT ![a] = r] /\ UNCHANGED <<status, prompted>>
SetStatus(a, s) == status' = [status EXCEPT ![a] = s] /\ UNCHANGED <<row, prompted>>

\* The rows: create, store a token, delete.
Add(a) == row[a] = "none" /\ SetRow(a, "bare")
Store(a) == row[a] = "bare" /\ status[a] \in {"open", "unstored", "lost"} /\ SetRow(a, "token")
Remove(a) == row[a] \in {"bare", "token"} /\ SetRow(a, "gone")

\* The link: start, prompt, and one of the three outcomes.
Start(a) == row[a] # "none" /\ status[a] = "idle" /\ SetStatus(a, "open")
Prompt(a) ==
  /\ status[a] = "open" /\ a \notin prompted
  /\ prompted' = prompted \cup {a}
  /\ UNCHANGED <<row, status>>
Succeed(a) == status[a] = "open" /\ row[a] \in {"token", "gone"} /\ SetStatus(a, "linked")
Fail(a) == status[a] = "open" /\ row[a] \in {"bare", "gone"} /\ SetStatus(a, "failed")
Unsure(a) == status[a] = "open" /\ SetStatus(a, "unstored")

Crash ==
  /\ status' = [a \in Accounts |-> IF status[a] = "open" THEN "lost" ELSE status[a]]
  /\ UNCHANGED <<row, prompted>>

Next ==
  \/ \E a \in Accounts : \/ Add(a) \/ Store(a) \/ Remove(a)
                         \/ Start(a) \/ Prompt(a) \/ Succeed(a) \/ Fail(a) \/ Unsure(a)
  \/ Crash

Spec == Init /\ [][Next]_<<row, status, prompted>>
==============================================================================
