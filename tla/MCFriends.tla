------------------------------ MODULE MCFriends ------------------------------
(* Instances of Friends for TLC.                                            *)
EXTENDS Friends, TLC

Sym == Permutations(Users) \cup Permutations(Accounts) \cup Permutations(Rows)
         \cup Permutations(Requests)
==============================================================================
