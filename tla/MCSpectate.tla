------------------------------ MODULE MCSpectate ------------------------------
(* Instances of Spectate for TLC.                                            *)
EXTENDS Spectate
==============================================================================
