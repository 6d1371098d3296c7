------------------------------- MODULE MCWorker --------------------------------
(* WorkerRun as TLC checks it: one run, with and without a job. *)
EXTENDS WorkerRun
=============================================================================
