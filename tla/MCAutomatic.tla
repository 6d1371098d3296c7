------------------------------ MODULE MCAutomatic ------------------------------
(* AutomaticRepair as TLC checks it: two scripts, a command line that may run and one that
   the sandbox refuses, and two runs of the agent. *)
EXTENDS AutomaticRepair

Allowed ==
  [parses |-> TRUE, inside |-> TRUE, control |-> FALSE, denied |-> FALSE, allowed |-> TRUE]
MCCommands == {Allowed, [Allowed EXCEPT !.allowed = FALSE]}
=============================================================================
