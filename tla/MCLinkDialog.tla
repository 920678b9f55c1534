----------------------------- MODULE MCLinkDialog -----------------------------
(* Instances of LinkDialog for TLC.                                          *)
EXTENDS LinkDialog
==============================================================================
