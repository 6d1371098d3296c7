---------------------------- MODULE MCSupervised ----------------------------
(***************************************************************************)
(* Instances of SupervisedExecution for TLC: one payload for each way a    *)
(* tool call can be classified and refused.                                *)
(***************************************************************************)
EXTENDS SupervisedExecution, TLC

CONSTANTS
  read,     \* a green tool
  write,    \* a yellow tool
  click,    \* declared green, but its name is outward; the input does not validate
  system,   \* declared yellow; the policy says never
  unknown   \* a name that is not registered

MCKnown == Payloads \ {unknown}
MCWellFormed == Payloads \ {click}
MCOutward == Payloads \cap {click}
MCDeclaredRisk ==
  [p \in Payloads |-> IF p \in {write, system} THEN "yellow" ELSE "green"]
MCPolicy ==
  [p \in Payloads |-> IF p = system THEN "never_auto" ELSE "default"]

\* For the runs that check safety only.
Symmetry ==
  Permutations(Calls) \cup Permutations(Actions) \cup Permutations(Approvals)

=============================================================================
