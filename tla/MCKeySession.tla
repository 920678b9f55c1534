---------------------------- MODULE MCKeySession ----------------------------
(* Instances of KeySession for TLC.                                        *)
EXTENDS KeySession, TLC

Sym == Permutations(Passwords) \cup Permutations(Logins) \cup Permutations(Calls)
         \cup Permutations(Params) \cup Permutations(Secrets)
=============================================================================
