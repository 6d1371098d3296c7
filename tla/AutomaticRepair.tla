---------------------------- MODULE AutomaticRepair ----------------------------
(***************************************************************************)
(* Verification and repair without a human: the automatic mode of a coding *)
(* agent.                                                                  *)
(*                                                                         *)
(* CodingAgent.run lets the model work and then starts RepairLoop, which   *)
(* calls VerificationEngine and an injected repair in turn.  The engine    *)
(* runs the project's scripts through TerminalExecutor and asks            *)
(* SelfDebugger what a failure is; a permission or access failure is not   *)
(* to be repaired automatically.  (The command itself is WorkerRun, repair *)
(* with approvals RepairSession.)                                          *)
(*                                                                         *)
(* Scripts and repairs take their time, and nothing keeps the agent from   *)
(* being asked twice: two loops may then work on one workspace.            *)
(***************************************************************************)
EXTENDS Naturals, Sequences

CONSTANTS
  Runs,         \* calls of CodingAgent.run
  Scripts,      \* the verification scripts in package.json
  Commands,     \* what their command lines may be like
  MaxAttempts,  \* repairMaxAttempts as it is asked for
  DebuggerMax   \* SelfDebugger's maxAttempts

ScriptNames == {"check", "typecheck", "test", "build"}
CommandForms == [parses : BOOLEAN, inside : BOOLEAN, control : BOOLEAN, denied : BOOLEAN,
                 allowed : BOOLEAN]

ASSUME ScriptAssumption == Scripts \subseteq ScriptNames /\ Commands \subseteq CommandForms

ASSUME AttemptAssumption == MaxAttempts \in Nat /\ DebuggerMax \in Nat

\* What can be wrong with a script; "code" stands for all that a repair may mend.
Causes == {"permission", "timeout", "code"}

VARIABLES
  mode,        \* how the agent is set up: "none", "automatic" or "resumable"
  debugger,    \* a SelfDebugger is given to the engine
  command,     \* the command line of each script
  fault,       \* the workspace: what each script would fail with now, or "none"
  loop,        \* each call: where it is, attempt, next command, result
  repairs,     \* history: repairs of each call, up to one too many
  disturbed,   \* history: calls that another one has written to the workspace under, since
               \* their last verification began
  cause        \* history: what the script itself says of the failure a call repairs

vars == <<mode, debugger, command, fault, loop, repairs, disturbed, cause>>

Idle == [at |-> "idle", attempt |-> 0, step |-> 0, result |-> "none"]

Init ==
  /\ mode \in {"none", "automatic", "resumable"} /\ debugger \in BOOLEAN
  /\ command \in [Scripts -> Commands]
  /\ fault \in [Scripts -> Causes \cup {"none"}]
  /\ loop = [r \in Runs |-> Idle]
  /\ repairs = [r \in Runs |-> 0] /\ disturbed = {}
  /\ cause = [r \in Runs |-> "none"]

-----------------------------------------------------------------------------
(* Running a script *)

\* ExecutionSandbox.preflight.
Refused(c) == ~c.inside \/ c.control \/ c.denied \/ ~c.allowed

\* A command line that TerminalExecutor cannot parse does not get there.
Blocked(c) == ~c.parses \/ Refused(c)

\* TerminalExecutor.run, texts by what classify makes of them: the reason of a command that
\* was refused or has failed names neither, and only a timeout is a rejection that does.
Execution(s) ==
  IF Blocked(command[s]) THEN [ok |-> FALSE, reason |-> "unknown", stderr |-> "none"]
  ELSE [ok |-> fault[s] = "none",
        reason |-> IF fault[s] \in {"none", "timeout"} THEN fault[s] ELSE "unknown",
        stderr |-> fault[s]]

\* VerificationEngine.availableCommands.
IfScript(s) == IF s \in Scripts THEN <<s>> ELSE <<>>
Chosen ==
  IfScript(IF "check" \in Scripts THEN "check" ELSE "typecheck")
    \o IfScript("test") \o IfScript("build")

\* The error the engine shows to the debugger; without any, the exit code.
Shown(result) ==
  IF result.reason # "none" THEN result.reason
  ELSE IF result.stderr # "none" THEN result.stderr ELSE "unknown"

\* SelfDebugger.isSafeRetry.
SafeRetry(c) == c # "permission"

\* SelfDebugger.analyse.
Analyse(error, attempt) ==
  CASE error = "none" -> [outcome |-> "blocked", safe |-> FALSE]
    [] error # "none" /\ attempt >= DebuggerMax -> [outcome |-> "failed", safe |-> FALSE]
    [] OTHER -> [outcome |-> "retry", safe |-> SafeRetry(error)]

\* The engine always says that it is the first attempt.
Repairable(result) ==
  /\ debugger
  /\ LET plan == Analyse(Shown(result), 1) IN plan.safe /\ plan.outcome = "retry"

-----------------------------------------------------------------------------
(* The loop *)

\* RepairLoop's own limit.
Limit == IF MaxAttempts < 1 THEN 1 ELSE IF MaxAttempts > 3 THEN 3 ELSE MaxAttempts

End(r, result) ==
  loop' = [loop EXCEPT ![r] = [@ EXCEPT !.at = "ended", !.result = result]]

\* Mutant: verification goes on with the script that failed.
VerifyOnward(r, attempt) ==
  IF Chosen = <<>> THEN End(r, "ok")
  ELSE loop' = [loop EXCEPT ![r] = [@ EXCEPT !.at = "verifying", !.attempt = attempt,
                                            !.step = IF @ = 0 THEN 1 ELSE @]]

\* Mutant: a repair does not count as an attempt.
VerifyUncounted(r, attempt) ==
  IF Chosen = <<>> THEN End(r, "ok")
  ELSE loop' = [loop EXCEPT ![r] = [@ EXCEPT !.at = "verifying", !.attempt = 1, !.step = 1]]

\* verify(attempt): without scripts there is nothing to fail.
Verify(r, attempt) ==
  IF Chosen = <<>> THEN End(r, "ok")
  ELSE loop' = [loop EXCEPT ![r] = [@ EXCEPT !.at = "verifying", !.attempt = attempt, !.step = 1]]

\* Run r, its model or its repair, has written to the workspace.
Changed(r) ==
  /\ fault' \in [Scripts -> Causes \cup {"none"}]
  /\ disturbed' = (disturbed \ {r}) \cup {q \in Runs \ {r} : loop[q] # Idle}

\* CodingAgent.run: the repository is scanned and the model works, which may fail or pause
\* for a human; then a resumable session, the loop, or nothing.
Work(r) ==
  /\ loop[r] = Idle
  /\ \/ \E result \in {"threw", "paused"} : End(r, result)
     \/ mode = "resumable" /\ End(r, "handed over")
     \/ mode = "none" /\ End(r, "done")
     \/ mode = "automatic" /\ Verify(r, 1)
  /\ Changed(r)
  /\ UNCHANGED <<mode, debugger, command, repairs, cause>>

\* Mutant: the limit admits one repair more.
LimitAdmitsOneMore(r) == loop[r].attempt <= Limit

MayRepair(r) == loop[r].attempt < Limit

\* The next script has run: the first that fails decides.
ScriptEnds(r) ==
  LET s == Chosen[loop[r].step]
      result == Execution(s)
  IN
  /\ loop[r].at = "verifying"
  /\ IF result.ok
     THEN /\ IF loop[r].step = Len(Chosen) THEN End(r, "ok")
             ELSE loop' = [loop EXCEPT ![r].step = @ + 1]
          /\ UNCHANGED cause
     ELSE IF Repairable(result) /\ MayRepair(r)
          THEN /\ loop' = [loop EXCEPT ![r].at = "repairing"]
               /\ cause' = [cause EXCEPT ![r] = result.stderr]
          ELSE End(r, "failed") /\ UNCHANGED cause
  /\ UNCHANGED <<mode, debugger, command, fault, repairs, disturbed>>

\* The injected repair returns whether it is done, or throws; the workspace is changed.
RepairEnds(r) ==
  /\ loop[r].at = "repairing"
  /\ Changed(r)
  /\ repairs' = [repairs EXCEPT ![r] = IF @ < Limit THEN @ + 1 ELSE @]
  /\ Verify(r, loop[r].attempt + 1) \/ \E result \in {"failed", "threw"} : End(r, result)
  /\ cause' = [cause EXCEPT ![r] = "none"]
  /\ UNCHANGED <<mode, debugger, command>>

Next == \E r \in Runs : Work(r) \/ ScriptEnds(r) \/ RepairEnds(r)

\* Scripts run under the worker's timeout.  That the model and the repair answer is assumed
\* of what is injected.
Fairness == \A r \in Runs : WF_vars(ScriptEnds(r)) /\ WF_vars(RepairEnds(r))

Spec == Init /\ [][Next]_vars
FairSpec == Spec /\ Fairness

-----------------------------------------------------------------------------
(* Properties *)

\* The type of every variable.
TypeOK ==
  /\ mode \in {"none", "automatic", "resumable"} /\ debugger \in BOOLEAN
  /\ command \in [Scripts -> Commands]
  /\ fault \in [Scripts -> Causes \cup {"none"}]
  /\ loop \in [Runs -> [at : {"idle", "verifying", "repairing", "ended"}, attempt : 0..3,
                        step : 0..3,
                        result : {"none", "ok", "failed", "threw", "paused", "done",
                                  "handed over"}]]
  /\ repairs \in [Runs -> 0..Limit] /\ disturbed \subseteq Runs
  /\ cause \in [Runs -> Causes \cup {"none"}]

\* A loop repairs Limit - 1 times at most, whatever limit was asked for and although the
\* debugger is told each time that it is the first attempt.
RepairsAreBounded == \A r \in Runs : repairs[r] < Limit

\* A loop that ends well leaves a workspace on which every chosen script passes, also the
\* ones before the one that failed, unless another run has written to it meanwhile.
OkIsVerified ==
  \A r \in Runs \ disturbed :
    loop[r].result = "ok" => \A i \in 1..Len(Chosen) : fault[Chosen[i]] = "none"

\* Every loop comes to its end.
LoopsEnd == \A r \in Runs : loop[r].at # "idle" ~> loop[r].at = "ended"

\* RepairLoop.ts:31: "Permission/access failures are never retried automatically."
PermissionIsNotRetried ==
  \A r \in Runs : loop[r].at = "repairing" => cause[r] # "permission"

=============================================================================
