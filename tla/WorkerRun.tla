------------------------------- MODULE WorkerRun -------------------------------
(***************************************************************************)
(* One command run outside the agent's process.                            *)
(*                                                                         *)
(* agent/worker/WorkerClient.ts forks a worker (WorkerProcess.ts), which   *)
(* spawns the command and answers with what became of it.  On Windows a    *)
(* helper (WindowsJobController.ts, native/windows-job) puts the worker    *)
(* into a job object first, whose processes end with it.                   *)
(*                                                                         *)
(* Agent, worker, command and helper are processes of their own; what one  *)
(* learns of another arrives as an event, in no fixed order and only if    *)
(* somebody listens by then.                                               *)
(***************************************************************************)
Outcomes == {"ok", "failed", "exited", "error", "timed_out", "cancelled"}
Answers == {"ok", "failed"}

VARIABLES
  job,        \* options.windowsJob is given
  aborted,    \* the signal has been aborted
  client,     \* where `run` stands; "armed" with timer and listeners; "gone" with its process
  outcome,    \* what the promise was settled with
  request,    \* the request is in the channel to the worker
  response,   \* the response in the channel back
  worker,     \* the worker process; it is "working" while it has a command
  command,    \* the command's process
  helper      \* the helper's process; it "refused" when it ended without a job

runVars == <<job, aborted, client, outcome, request, response, worker, command, helper>>

RunInit ==
  /\ job \in BOOLEAN /\ aborted = FALSE
  /\ client = "idle" /\ outcome = "none"
  /\ request = FALSE /\ response = "none"
  /\ worker = "none" /\ command = "none" /\ helper = "none"

Over == client \in {"settled", "gone"}
WorkerLives == worker \in {"waiting", "working"}

Settle(result) == client' = "settled" /\ outcome' = result

\* child.kill(): the worker ends, its command does not.
KillWorker == worker' = IF WorkerLives THEN "dead" ELSE worker

\* The job object ends, and all its processes with it.
EndJob ==
  /\ helper' = "gone"
  /\ KillWorker
  /\ command' = IF command = "running" THEN "killed" ELSE command

-----------------------------------------------------------------------------
(* WorkerClient.run *)

\* Mutant: the request is sent before the worker is in its job.
ForkAndSend ==
  /\ worker' = "waiting"
  /\ request' = TRUE
  /\ IF job THEN client' = "attaching" /\ helper' = "starting"
            ELSE client' = "armed" /\ UNCHANGED helper
  /\ UNCHANGED outcome

\* fork; without a job everything up to the request happens at once.
Fork ==
  /\ worker' = "waiting"
  /\ IF job THEN /\ client' = "attaching" /\ helper' = "starting"
                 /\ UNCHANGED request
            ELSE /\ client' = "armed" /\ request' = TRUE
                 /\ UNCHANGED helper
  /\ UNCHANGED outcome

\* The worker cannot be forked: nobody listens for the child's "error" yet, and the agent
\* ends with it.
ForkFails ==
  /\ client' = "gone"
  /\ UNCHANGED <<outcome, request, worker, helper>>

\* run: a signal that is aborted already ends it here.
Run ==
  /\ client = "idle"
  /\ \/ /\ aborted
        /\ Settle("cancelled")
        /\ UNCHANGED <<request, worker, helper>>
     \/ /\ ~aborted /\ job
        /\ client' = "validating"
        /\ UNCHANGED <<outcome, request, worker, helper>>
     \/ /\ ~aborted /\ ~job
        /\ Fork \/ ForkFails
  /\ UNCHANGED <<job, aborted, response, command>>

\* job.validate returns or throws.
Validated ==
  /\ client = "validating"
  /\ \/ Fork \/ ForkFails
     \/ /\ Settle("error")
        /\ UNCHANGED <<request, worker, helper>>
  /\ UNCHANGED <<job, aborted, response, command>>

\* job.attach returns: the listeners and the timer are set and the request is sent.
Attached ==
  /\ client = "attaching" /\ helper \in {"assigned", "gone"}
  /\ client' = "armed" /\ request' = TRUE
  /\ UNCHANGED <<job, aborted, outcome, response, worker, command, helper>>

\* The helper's exit is seen before its "assigned", if it said so at all.
AttachFails ==
  /\ client = "attaching" /\ helper \in {"refused", "gone"}
  /\ Settle("error") /\ KillWorker
  /\ UNCHANGED <<job, aborted, request, response, command, helper>>

\* The helper cannot be spawned: nobody handles the rejection of helperExit, and the
\* agent ends once it has killed the worker.
HelperMissing ==
  /\ client = "attaching" /\ helper = "starting"
  /\ client' = "gone" /\ helper' = "refused" /\ KillWorker
  /\ UNCHANGED <<job, aborted, outcome, request, response, command>>

\* The child's "message".
Message ==
  /\ client = "armed" /\ response # "none"
  /\ Settle(response) /\ KillWorker
  /\ response' = "none"
  /\ UNCHANGED <<job, aborted, request, command, helper>>

\* The child's "exit", which may come before a message it sent; its "error", when the
\* request finds it gone; or neither, if it was gone before anybody listened.  (When it died
\* is not kept, so the model also has the first two then.)
ChildEnds ==
  /\ client = "armed" /\ worker = "dead"
  /\ Settle("exited") \/ (request /\ Settle("error"))
  /\ UNCHANGED <<job, aborted, request, response, worker, command, helper>>

\* Mutant: the timer runs only until the worker has the request.
TimeoutOfRequest ==
  /\ client = "armed" /\ request
  /\ Settle("timed_out") /\ KillWorker
  /\ UNCHANGED <<job, aborted, request, response, command, helper>>

\* The timer.
Timeout ==
  /\ client = "armed"
  /\ Settle("timed_out") /\ KillWorker
  /\ UNCHANGED <<job, aborted, request, response, command, helper>>

\* The signal is aborted: before the listener is there, nothing comes of it.
Abort ==
  /\ ~aborted /\ client \notin {"gone"}
  /\ aborted' = TRUE
  /\ IF client = "armed" THEN Settle("cancelled") /\ KillWorker
                         ELSE UNCHANGED <<client, outcome, worker>>
  /\ UNCHANGED <<job, request, response, command, helper>>

\* waitForHelperExit: the helper ended on its own, with a code other than 0.
HelperEnds ==
  /\ client = "armed" /\ helper = "gone"
  /\ Settle("error") /\ KillWorker
  /\ UNCHANGED <<job, aborted, request, response, command, helper>>

\* The agent's process ends at any point.
AgentEnds ==
  /\ client # "gone"
  /\ client' = "gone"
  /\ UNCHANGED <<job, aborted, outcome, request, response, worker, command, helper>>

-----------------------------------------------------------------------------
(* WorkerProcess *)

\* Mutant: the code of the command is not looked at.
AnyIsOk(ending) == "ok"

\* What the command's end is reported as.
Answer(ending) == IF ending = "zero" THEN "ok" ELSE "failed"

\* send, then process.exit, which may lose what was sent.
Reply(answer) ==
  /\ response' \in {answer, "none"}
  /\ worker' = "dead"

\* The request arrives: the command is spawned, or cannot be.
Execute ==
  /\ worker = "waiting" /\ request
  /\ request' = FALSE
  /\ \/ /\ worker' = "working" /\ command' = "running"
        /\ UNCHANGED response
     \/ /\ Reply("failed")
        /\ UNCHANGED command
  /\ UNCHANGED <<job, aborted, client, outcome, helper>>

\* The command's "close".
CommandCloses ==
  /\ worker = "working" /\ command # "running"
  /\ Reply(Answer(command))
  /\ UNCHANGED <<job, aborted, client, outcome, request, command, helper>>

\* The worker's own timer kills the command.
CommandTimeout ==
  /\ worker = "working" /\ command = "running"
  /\ command' = "killed"
  /\ UNCHANGED <<job, aborted, client, outcome, request, response, worker, helper>>

\* The command ends by itself, sooner or later or never.
CommandEnds ==
  /\ command = "running"
  /\ command' \in {"zero", "nonzero"}
  /\ UNCHANGED <<job, aborted, client, outcome, request, response, worker, helper>>

\* The worker is killed from outside.
WorkerDies ==
  /\ WorkerLives
  /\ worker' = "dead"
  /\ UNCHANGED <<job, aborted, client, outcome, request, response, command, helper>>

\* Its channel closes with the agent, and it has nothing to do.
WorkerLeaves ==
  /\ client = "gone" /\ worker = "waiting"
  /\ worker' = "dead"
  /\ UNCHANGED <<job, aborted, client, outcome, request, response, command, helper>>

-----------------------------------------------------------------------------
(* The helper *)

\* The worker is in the job, or cannot be put into it.
Assign ==
  /\ helper = "starting"
  /\ \/ WorkerLives /\ helper' = "assigned"
     \/ helper' = "refused"
  /\ UNCHANGED <<job, aborted, client, outcome, request, response, worker, command>>

\* Mutant: job.terminate is not called when the run is over.
TerminateNever ==
  /\ client = "gone" /\ helper = "assigned"
  /\ EndJob
  /\ UNCHANGED <<job, aborted, client, outcome, request, response>>

\* "terminate", the kill two seconds later, or the end of its input.
Terminate ==
  /\ Over /\ helper = "assigned"
  /\ EndJob
  /\ UNCHANGED <<job, aborted, client, outcome, request, response>>

\* The job reaches a limit, or the helper ends and the job closes with it.
JobEnds ==
  /\ helper = "assigned"
  /\ KillWorker
  /\ command' = IF command = "running" THEN "killed" ELSE command
  /\ helper' \in {"assigned", "gone"}
  /\ UNCHANGED <<job, aborted, client, outcome, request, response>>

RunNext ==
  \/ Run \/ Validated \/ Attached \/ AttachFails \/ HelperMissing
  \/ Message \/ ChildEnds \/ Timeout \/ Abort \/ HelperEnds \/ AgentEnds
  \/ Execute \/ CommandCloses \/ CommandTimeout \/ CommandEnds \/ WorkerDies \/ WorkerLeaves
  \/ Assign \/ Terminate \/ JobEnds

\* File operations answer, timers fire, the helper starts and reads its input; a worker
\* without agent or request ends.  The command need not end.
RunFairness ==
  /\ WF_runVars(Validated) /\ WF_runVars(Attached \/ AttachFails) /\ WF_runVars(Timeout)
  /\ WF_runVars(Assign) /\ WF_runVars(Terminate) /\ WF_runVars(WorkerLeaves)

RunSpec == RunInit /\ [][RunNext]_runVars
FairRunSpec == RunSpec /\ RunFairness

-----------------------------------------------------------------------------
(* Properties *)

\* The type of every variable.
RunTypeOK ==
  /\ job \in BOOLEAN /\ aborted \in BOOLEAN /\ request \in BOOLEAN
  /\ client \in {"idle", "validating", "attaching", "armed", "settled", "gone"}
  /\ outcome \in Outcomes \cup {"none"}
  /\ response \in Answers \cup {"none"}
  /\ worker \in {"none", "waiting", "working", "dead"}
  /\ command \in {"none", "running", "zero", "nonzero", "killed"}
  /\ helper \in {"none", "starting", "assigned", "refused", "gone"}

\* A run reports a success only of a command that exited with 0, and a failure only of one
\* that did not, whatever timers, signals, exits and messages cross.
ReportIsTrue ==
  /\ outcome = "ok" => command = "zero"
  /\ outcome = "failed" => command \in {"none", "nonzero", "killed"}

\* Where there is to be a job, no command runs outside it.
CommandIsContained == job /\ command = "running" => helper = "assigned"

\* When a run is settled its worker is gone, wherever the run stood and whatever settled it.
WorkerIsGone == client = "settled" => ~WorkerLives

\* Every run is settled, whatever the command, the worker and the helper do, unless the
\* agent ends; and what runs in a job ends with the run, also if the agent ends first.
RunEnds ==
  /\ client # "idle" ~> Over
  /\ job /\ Over ~> command # "running" /\ ~WorkerLives

\* security/DATA-FLOW.md: "Worker execution is isolated and bounded."
CommandIsBounded == outcome \in {"timed_out", "cancelled"} ~> command # "running"

=============================================================================
