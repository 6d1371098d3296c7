---------------------------- MODULE ComputerActions ----------------------------
(***************************************************************************)
(* A click or key press on the desktop: proposed from an observation,      *)
(* queued, approved or rejected, run, and verified by fresh observations.  *)
(*                                                                         *)
(* agent/computer/ComputerActionWorkflow.ts with its controller, lifecycle *)
(* records, validator and verification policy.  The supervised executor it *)
(* hands the action to is modelled by what it answers: it keeps suspended  *)
(* calls of its own, runs one tool at a time, and its facade turns every   *)
(* error into a result that is not ok.                                     *)
(*                                                                         *)
(* Whoever holds a queued action may approve or reject it, also while      *)
(* another approval of it is under way, and a record may fail to be        *)
(* written.  (A session other than the proposal's is refused before        *)
(* anything happens, so sessions are left out.)                            *)
(***************************************************************************)
EXTENDS Naturals

CONSTANTS
  Actions,          \* action ids
  Flows,            \* calls of approveAndVerify that may be under way at once
  MaxObservations   \* the policy's maxObservationAttempts; 1 is also "no policy"

ASSUME PolicyAssumption == MaxObservations \in 1..3

ASSUME ActionAssumption == {"none", "other"} \cap Actions = {}

Records == {"proposed", "approval_requested", "approved", "rejected", "executed",
            "execution_failed", "confirmed", "failed", "inconclusive"}
Verdicts == {"confirmed", "failed", "inconclusive"}

\* What a verifying capture can be like: unfiltered, when it was taken relative to the
\* baseline, and how it compares with what is expected.
Observation == [raw : BOOLEAN, taken : {"before", "after", "undated"},
                compares : {"meets", "differs", "unreadable", "nothing expected"}]

VARIABLES
  queued,     \* ComputerActionWorkflow.queuedActions
  held,       \* the executor's suspended calls
  lock,       \* what the executor runs: "none", an action, or an "other" tool
  flow,       \* each call of approveAndVerify: where it is, its action, its attempts
  log,        \* the records of each action
  runs, returned,   \* history: how often its tool was started; that it returned
  overlapped,       \* history: actions approved again while an approval was under way
  unlogged,         \* history: actions with a record that could not be written
  captures          \* history: how often a verdict on an action was looked for

history == <<runs, returned, overlapped>>
vars == <<queued, held, lock, flow, log, history, unlogged, captures>>

Idle == [at |-> "idle", action |-> "none", attempts |-> 0]

Init ==
  /\ queued = {} /\ held = {} /\ lock = "none"
  /\ flow = [f \in Flows |-> Idle]
  /\ log = [a \in Actions |-> {}]
  /\ runs = [a \in Actions |-> 0] /\ returned = {}
  /\ overlapped = {} /\ unlogged = {}
  /\ captures = [a \in Actions |-> 0]

\* AuditLog.append, which writes to a file at once, for each record in turn.
Append(a, records) ==
  /\ log' = [log EXCEPT ![a] = @ \cup records]
  /\ UNCHANGED unlogged

\* It throws at one of the records; those before it are written.
AppendFails(a, written) ==
  /\ log' = [log EXCEPT ![a] = @ \cup written]
  /\ unlogged' = unlogged \cup {a}

-----------------------------------------------------------------------------
(* Verification *)

\* ComputerActionResultValidator.validatePostCondition.
Verdict(o) ==
  IF o.raw \/ o.taken # "after" \/ o.compares \in {"unreadable", "nothing expected"}
  THEN "inconclusive"
  ELSE IF o.compares = "meets" THEN "confirmed" ELSE "failed"

\* ComputerVerificationPolicy.decide: "observe_again".
ObserveAgain(verdict, attempts) == verdict = "inconclusive" /\ attempts < MaxObservations

-----------------------------------------------------------------------------
(* The workflow *)

\* proposeAndQueue: the executor suspends the call under a new id.
Suspend(a) ==
  /\ log[a] = {} /\ a \notin unlogged /\ lock = "none"
  /\ held' = held \cup {a}

\* recordProposal, recordApprovalRequested.
RecordProposal(a) == Append(a, {"proposed", "approval_requested"})
ProposalUnrecorded(a) == AppendFails(a, {}) \/ AppendFails(a, {"proposed"})

\* propose: if the records cannot be written, the workflow does not know of the action.
Propose(a) ==
  /\ Suspend(a)
  /\ \/ RecordProposal(a) /\ queued' = queued \cup {a}
     \/ ProposalUnrecorded(a) /\ UNCHANGED queued
  /\ UNCHANGED <<lock, flow, history, captures>>

\* Mutant: an approval that fails leaves the action queued.
FailureKeepsQueued(a) ==
  /\ Append(a, {"execution_failed"}) \/ AppendFails(a, {})
  /\ UNCHANGED queued

\* The result is not ok: recordExecution, and the action leaves the queue.
RecordFailure(a) ==
  \/ Append(a, {"execution_failed"}) /\ queued' = queued \ {a}
  \/ AppendFails(a, {}) /\ UNCHANGED queued

\* Mutant: the executor does not ask its lock.
ResumesAtOnce(a) == a \in held

\* The executor resumes a call it has suspended, if its lock is free.
Resumes(a) == a \in held /\ lock = "none"

\* approveAndVerify up to the tool: the executor forgets the call before it tries its lock,
\* and may refuse it then: busy, the approval expired, the budget spent.
Approve(f, a) ==
  /\ flow[f] = Idle /\ a \in queued
  /\ held' = held \ {a}
  /\ overlapped' = IF \E g \in Flows : flow[g].action = a THEN overlapped \cup {a} ELSE overlapped
  /\ \/ /\ Resumes(a)
        /\ lock' = a /\ runs' = [runs EXCEPT ![a] = @ + 1]
        /\ flow' = [flow EXCEPT ![f] = [at |-> "running", action |-> a, attempts |-> 0]]
        /\ UNCHANGED <<queued, log, unlogged>>
     \/ RecordFailure(a) /\ UNCHANGED <<lock, flow, runs>>
  /\ UNCHANGED <<returned, captures>>

\* Mutant: the approval is recorded whatever became of the tool, and as executed.
RecordAll(a, ok) ==
  \/ Append(a, {"approved", "executed"}) /\ queued' = queued \ {a}
  \/ AppendFails(a, {}) /\ UNCHANGED queued

\* What is recorded of a tool's end: nothing of the approval unless it returned.
RecordExecution(a, ok) ==
  IF ok THEN \/ Append(a, {"approved", "executed"}) /\ queued' = queued \ {a}
             \/ /\ AppendFails(a, {}) \/ AppendFails(a, {"approved"})
                /\ UNCHANGED queued
        ELSE RecordFailure(a)

\* The tool returned or threw; with an expectation, the observing begins.
Finish(f, ok, expected) ==
  LET a == flow[f].action IN
  /\ flow[f].at = "running"
  /\ lock' = "none"
  /\ returned' = IF ok THEN returned \cup {a} ELSE returned
  /\ RecordExecution(a, ok)
  /\ flow' = [flow EXCEPT ![f] =
       IF expected /\ "executed" \in log'[a] THEN [@ EXCEPT !.at = "observing"] ELSE Idle]
  /\ UNCHANGED <<held, runs, overlapped, captures>>

\* Mutant: the attempts are not counted.
SameAttempt(f) == flow[f].attempts

NextAttempt(f) == flow[f].attempts + 1

\* recordPostCondition: with the baseline of the proposal, where nothing later is expected.
RecordPostCondition(a, o) == Append(a, {Verdict(o)})

\* A capture answers with an observation, and the policy decides whether it is enough.
Observe(f, o) ==
  LET a == flow[f].action
      attempts == NextAttempt(f)
  IN
  /\ flow[f].at = "observing"
  /\ captures' = [captures EXCEPT ![a] = @ + 1]
  /\ \/ /\ RecordPostCondition(a, o)
        /\ flow' = [flow EXCEPT ![f] =
             IF ObserveAgain(Verdict(o), attempts) THEN [@ EXCEPT !.attempts = attempts] ELSE Idle]
     \/ AppendFails(a, {}) /\ flow' = [flow EXCEPT ![f] = Idle]
  /\ UNCHANGED <<queued, held, lock, history>>

\* A capture fails, and approveAndVerify with it.
CaptureFails(f) ==
  /\ flow[f].at = "observing"
  /\ flow' = [flow EXCEPT ![f] = Idle]
  /\ UNCHANGED <<queued, held, lock, log, history, unlogged, captures>>

\* Mutant: a rejected action stays in the queue.
RejectedStaysQueued(a) ==
  /\ Append(a, {"rejected"}) \/ AppendFails(a, {})
  /\ UNCHANGED queued

\* recordRejection, after which the action leaves the queue.
RecordRejection(a) ==
  \/ Append(a, {"rejected"}) /\ queued' = queued \ {a}
  \/ AppendFails(a, {}) /\ UNCHANGED queued

\* Mutant: the rejection is recorded before the executor is asked.
RejectUnasked(a) ==
  /\ a \in queued
  /\ held' = held \ {a}
  /\ RecordRejection(a)
  /\ UNCHANGED <<lock, flow, history, captures>>

\* reject: the executor throws when the call is not suspended with it.
Reject(a) ==
  /\ a \in queued /\ a \in held
  /\ held' = held \ {a}
  /\ RecordRejection(a)
  /\ UNCHANGED <<lock, flow, history, captures>>

\* Another tool of the session holds the executor for a while.
OtherTool ==
  /\ lock \in {"none", "other"}
  /\ lock' = IF lock = "none" THEN "other" ELSE "none"
  /\ UNCHANGED <<queued, held, flow, log, history, unlogged, captures>>

Next ==
  \/ \E a \in Actions : Propose(a) \/ Reject(a)
  \/ \E f \in Flows, a \in Actions : Approve(f, a)
  \/ \E f \in Flows, ok, expected \in BOOLEAN : Finish(f, ok, expected)
  \/ \E f \in Flows, o \in Observation : Observe(f, o)
  \/ \E f \in Flows : CaptureFails(f)
  \/ OtherTool

Spec == Init /\ [][Next]_vars

-----------------------------------------------------------------------------
(* Properties *)

\* The type of every variable; the lock is where the flows are.
TypeOK ==
  /\ queued \subseteq Actions /\ held \subseteq Actions
  /\ lock \in Actions \cup {"none", "other"}
  /\ flow \in [Flows -> [at : {"idle", "running", "observing"}, action : Actions \cup {"none"},
                         attempts : 0..(MaxObservations - 1)]]
  /\ log \in [Actions -> SUBSET Records]
  /\ runs \in [Actions -> Nat] /\ returned \subseteq Actions
  /\ overlapped \subseteq Actions /\ unlogged \subseteq Actions
  /\ captures \in [Actions -> Nat]

UnderWay(a) == \E f \in Flows : flow[f].action = a

\* An action runs at most once, and one that a human rejected never runs, although workflow
\* and executor each keep a queue of their own and are asked at different times.
DecidedOnce ==
  \A a \in Actions :
    /\ runs[a] <= 1
    /\ "rejected" \in log[a] => runs[a] = 0 /\ "approved" \notin log[a]

Executor ==
  INSTANCE ToolExecutor
    WITH Calls <- Actions, seen <- {a \in Actions : log[a] # {} \/ a \in unlogged},
         running <- {lock} \cap Actions

\* The workflow takes no more from the executor than it gives: one tool at a time, each for
\* an action it held, and none that was rejected or approved in vain.
KeepsContract == Executor!Spec

\* The records tell what became of an action: unless two approvals of it overlapped or a
\* record could not be written, it is recorded as executed exactly if its tool returned, and
\* as failed only if the tool did not.
LogIsTrue ==
  \A a \in Actions \ (overlapped \cup unlogged) :
    /\ a \in returned <=> {"approved", "executed"} \subseteq log[a]
    /\ "execution_failed" \in log[a] => a \notin returned /\ lock # a
    /\ log[a] \cap Verdicts # {} => "executed" \in log[a]

\* What is recorded last of an action: that it was rejected, a verdict that says something,
\* or, unless two approvals of it overlapped, that it failed.
Closed(a) ==
  \/ "rejected" \in log[a]
  \/ log[a] \cap {"confirmed", "failed"} # {}
  \/ "execution_failed" \in log[a] /\ a \notin overlapped

\* The records are written in the order of an action's life: no approval, rejection, capture
\* or end of a tool, however late, adds one to those of an action whose life is over.
LastRecordStays ==
  [][\A a \in Actions : Closed(a) => log'[a] = log[a] /\ runs'[a] = runs[a]]_vars

\* What the workflow offers can be decided: a queued action that no approval is under way
\* for is one the executor still holds, unless a record could not be written.
QueuedIsHeld ==
  \A a \in queued \ unlogged : a \in held \/ UnderWay(a)

\* However an action is approved, repeated or failed, it is observed MaxObservations times at
\* most, and nobody goes on observing what has a verdict.
ObservingIsBounded ==
  /\ \A a \in Actions : captures[a] <= MaxObservations
  /\ \A f \in Flows : flow[f].at = "observing" =>
       log[flow[f].action] \cap {"confirmed", "failed"} = {}

=============================================================================
