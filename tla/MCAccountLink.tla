---------------------------- MODULE MCAccountLink ----------------------------
(* Instances of AccountLink for TLC.                                         *)
EXTENDS AccountLink, TLC
Symmetry == Permutations(Users) \cup Permutations(Accounts)
              \cup Permutations(Posts) \cup Permutations(Guards)
=============================================================================
