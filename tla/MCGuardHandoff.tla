--------------------------- MODULE MCGuardHandoff ---------------------------
(* Instances of GuardHandoff for TLC.                                       *)
EXTENDS GuardHandoff
=============================================================================
