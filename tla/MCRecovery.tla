------------------------------- MODULE MCRecovery -------------------------------
(* DatabaseRecovery as TLC checks it: two backups, which nothing tells apart. *)
EXTENDS DatabaseRecovery, TLC

Symmetry == Permutations(Backups)
=============================================================================
