----------------------------- MODULE MCLifecycle -----------------------------
(***************************************************************************)
(* Instances of ProcessLifecycle for TLC.                                  *)
(***************************************************************************)
EXTENDS ProcessLifecycle, TLC

\* Processes are interchangeable: no definition tells one from another.
Interchangeable == Permutations(Processes)

=============================================================================
