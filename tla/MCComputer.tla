------------------------------- MODULE MCComputer -------------------------------
(* ComputerActions as TLC checks it: two actions, two approvals at a time. *)
EXTENDS ComputerActions
=============================================================================
