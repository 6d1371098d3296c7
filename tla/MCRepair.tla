------------------------------ MODULE MCRepair ------------------------------
(***************************************************************************)
(* Instances of RepairSession for TLC.                                     *)
(***************************************************************************)
EXTENDS RepairSession, TLC

\* For the runs that check safety only.
Symmetry == Permutations(Chains) \cup Permutations(Plans) \cup Permutations(Ids)

=============================================================================
