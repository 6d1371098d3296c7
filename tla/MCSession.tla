------------------------------ MODULE MCSession ------------------------------
(***************************************************************************)
(* Instances of InteractiveSession for TLC.                                *)
(***************************************************************************)
EXTENDS InteractiveSession

=============================================================================
