---------------------------- MODULE RepairSession ----------------------------
(***************************************************************************)
(* The resumable repair of a workspace: verify, repair if the plan is      *)
(* safe, ask a human when the repair says so, verify again, a bounded      *)
(* number of times.                                                        *)
(*                                                                         *)
(* The state machine is agent/coding/RepairSession.ts; its owner           *)
(* CodingRepairCoordinator.ts writes what each call returns to the file of *)
(* RepairSessionStore.ts and to the repair audit log, and builds the       *)
(* session anew from that file after a restart.                            *)
(*                                                                         *)
(* The verify and repair callbacks are the only awaits that reach outside  *)
(* the process.  Everything from a callback's answer to the next callback, *)
(* or to the end of the call with its save and its records, runs in one    *)
(* drain of the microtask queue, so it is one action here.                 *)
(***************************************************************************)
EXTENDS Naturals

CONSTANTS
  Chains,       \* calls of start and approve that may be waiting for a callback
  Plans,        \* repair plans that are safe to retry, as far as the file keeps their texts
  Ids,          \* action ids the repair callback may ask an approval under
  MaxAttempts,  \* maxAttempts, which the constructor clamps to 1..3
  MaxSessions,  \* bound: how many processes a behaviour may go through
  Pending,      \* the startPromise that has not resolved yet
  None

ASSUME AttemptAssumption == MaxAttempts \in 1..3 /\ MaxSessions \in Nat \ {0}

Attempts == 1..MaxAttempts
States == {"verifying", "waiting_approval", "repairing", "succeeded", "failed", "rejected"}
Ended == {"succeeded", "failed", "rejected"}

Requests == [action: Ids, attempt: Attempts]
Snapshots == [state: States, attempt: Attempts, plan: Plans \cup {None},
              approval: Requests \cup {None}]
Callbacks == [step: {"verify", "repair"}, approved: BOOLEAN, plan: Plans \cup {None},
              attempt: Attempts, by: Requests \cup {None}]

ASSUME NoneAssumption ==
  /\ None \notin Plans \cup Ids \cup Requests \cup Snapshots \cup Callbacks \cup {Pending}
  /\ Pending \notin Snapshots

VARIABLES
  state, attempt, repairPlan, approval,   \* RepairSession
  started, startPromise,                  \* RepairSession: None, pending, or what it resolved to
  chain,      \* for each call in progress, the callback it waits for and
              \* by: the request it approved, or None for start
  saved,      \* RepairSessionStore's file: the last snapshot written, or None
  audit,      \* the records of the repair audit log
  sessions,   \* how many processes have started
  \* History, read by no action of the program.
  shown,      \* <<request, plan>> each time a human was asked
  refused,    \* a human has rejected the pending repair
  verified,   \* verifications begun by this process
  replayed    \* start wrote an old result over a newer one

session == <<state, attempt, repairPlan, approval>>
vars == <<session, started, startPromise, chain, saved, audit, sessions, shown,
          refused, verified, replayed>>

-----------------------------------------------------------------------------
Fresh == [state |-> "verifying", attempt |-> 1, plan |-> None, approval |-> None]

Snapshot == [state |-> state, attempt |-> attempt, plan |-> repairPlan, approval |-> approval]

\* Becomes(snap): the session's fields after the step.
Becomes(snap) ==
  /\ state' = snap.state
  /\ attempt' = snap.attempt
  /\ repairPlan' = snap.plan
  /\ approval' = snap.approval

Init ==
  /\ state = "verifying" /\ attempt = 1 /\ repairPlan = None /\ approval = None
  /\ started = FALSE /\ startPromise = None
  /\ chain = [k \in Chains |-> None]
  /\ saved = None /\ audit = {} /\ sessions = 1
  /\ shown = {} /\ refused = FALSE /\ verified = 0 /\ replayed = FALSE

RepairInFlight == \E k \in Chains : chain[k] # None /\ chain[k].step = "repair"

\* Mutant: the limit is off by one.
AttemptsOffByOne == attempt <= MaxAttempts

\* verifyCurrent's test.
AttemptsLeft == attempt < MaxAttempts

\* Mutant: whatever is pending is approved.
AnswersAnything(id) == state = "waiting_approval" /\ approval # None

\* The pending request is the one the human named.
Answers(id) == state = "waiting_approval" /\ approval # None /\ approval.action = id

Event(type, n, id) == [type |-> type, attempt |-> n, action |-> id]

\* auditSnapshot: what a returned snapshot adds to the log.
Outcome(snap) ==
  CASE snap.state = "waiting_approval" /\ snap.approval # None ->
         {Event("repair_approval_requested", snap.attempt, snap.approval.action)}
    [] snap.state = "succeeded" -> {Event("repair_succeeded", snap.attempt, None)}
    [] snap.state = "failed" -> {Event("repair_failed", snap.attempt, None)}
    [] OTHER -> {}

\* The record approve and reject write about the request they named, whether or
\* not they changed anything.
Decided(type, id) ==
  IF approval # None /\ approval.action = id THEN {Event(type, attempt, id)} ELSE {}

\* A call of the coordinator returns snap: it is saved, then logged.
Report(snap, events) ==
  /\ saved' = snap
  /\ audit' = audit \cup events \cup Outcome(snap)

-----------------------------------------------------------------------------
(* A call waits for a callback *)

Verify(k, n, by) ==
  /\ chain' = [chain EXCEPT ![k] =
       [step |-> "verify", approved |-> FALSE, plan |-> None, attempt |-> n, by |-> by]]
  /\ verified' = verified + 1

Repair(k, p, approved, by) ==
  /\ chain' = [chain EXCEPT ![k] =
       [step |-> "repair", approved |-> approved, plan |-> p, attempt |-> attempt, by |-> by]]
  /\ UNCHANGED verified

\* Mutant: approve logs the approval it finds after the repair, not before.
SettleLogsAfter(k, snap) ==
  /\ Becomes(snap)
  /\ chain' = [chain EXCEPT ![k] = None]
  /\ startPromise' = IF chain[k].by = None THEN snap ELSE startPromise
  /\ Report(snap, IF chain[k].by = None \/ snap.approval = None THEN {}
                  ELSE {Event("repair_approved", snap.attempt, snap.approval.action)})
  /\ UNCHANGED <<started, sessions, refused, verified, replayed>>

\* The call comes to its end with the session at snap.
Settle(k, snap) ==
  /\ Becomes(snap)
  /\ chain' = [chain EXCEPT ![k] = None]
  /\ startPromise' = IF chain[k].by = None THEN snap ELSE startPromise
  /\ Report(snap, IF chain[k].by = None THEN {}
                  ELSE {Event("repair_approved", chain[k].by.attempt, chain[k].by.action)})
  /\ UNCHANGED <<started, sessions, refused, verified, replayed>>

Fail(k) ==
  /\ Settle(k, [state |-> "failed", attempt |-> attempt, plan |-> None, approval |-> None])
  /\ UNCHANGED shown

-----------------------------------------------------------------------------
(* Entry points *)

\* Mutant: every call verifies as long as the session has not got further.
StartUnguarded(k) ==
  /\ chain[k] = None
  /\ state = "verifying"
  /\ started' = TRUE /\ startPromise' = Pending
  /\ Verify(k, attempt, None)
  /\ audit' = audit \cup {Event("repair_started", attempt, None)}
  /\ UNCHANGED <<session, sessions, saved, shown, refused, replayed>>

\* start: the first call of a process that has nothing restored begins to verify.
\* Later ones are given what the first one resolves or resolved to, and save and
\* log that; a restored session is returned as it is.
Start(k) ==
  /\ chain[k] = None
  /\ \/ /\ startPromise = None /\ ~started
        /\ started' = TRUE /\ startPromise' = Pending
        /\ Verify(k, attempt, None)
        /\ audit' = audit \cup {Event("repair_started", attempt, None)}
        /\ UNCHANGED <<saved, replayed>>
     \/ /\ startPromise = Pending
        /\ audit' = audit \cup {Event("repair_started", attempt, None)}
        /\ UNCHANGED <<started, startPromise, chain, verified, saved, replayed>>
     \/ /\ startPromise \notin {None, Pending}
        /\ Report(startPromise, {Event("repair_started", attempt, None)})
        /\ replayed' = (replayed \/ startPromise # Snapshot)
        /\ UNCHANGED <<started, startPromise, chain, verified>>
     \/ /\ startPromise = None /\ started
        /\ Report(Snapshot, {Event("repair_started", attempt, None)})
        /\ UNCHANGED <<started, startPromise, chain, verified, replayed>>
  /\ UNCHANGED <<session, sessions, shown, refused>>

\* Mutant: the session goes on waiting while the approved repair runs.
ApproveStillWaiting(k, id) ==
  /\ chain[k] = None
  /\ Answers(id) /\ ~RepairInFlight
  /\ Repair(k, repairPlan, TRUE, [action |-> id, attempt |-> attempt])
  /\ UNCHANGED <<session, started, startPromise, saved, audit, sessions, shown, refused, replayed>>

\* approve: the pending repair runs, with the plan and the attempt it was asked
\* for; anything else only saves and logs the session as it stands.  The branch
\* for a waiting session without a plan is not here: see WaitingIsAnswerable.
Approve(k, id) ==
  /\ chain[k] = None
  /\ \/ /\ Answers(id) /\ ~RepairInFlight
        /\ state' = "repairing"
        /\ Repair(k, repairPlan, TRUE, [action |-> id, attempt |-> attempt])
        /\ UNCHANGED <<attempt, repairPlan, approval, saved, audit>>
     \/ /\ ~Answers(id)
        /\ Report(Snapshot, Decided("repair_approved", id))
        /\ UNCHANGED <<session, chain, verified>>
  /\ UNCHANGED <<started, startPromise, sessions, shown, refused, replayed>>

\* Mutant: the rejection is not saved.
RejectUnsaved(id) ==
  /\ Answers(id)
  /\ state' = "rejected" /\ approval' = None /\ refused' = TRUE
  /\ audit' = audit \cup Decided("repair_rejected", id)
  /\ UNCHANGED <<attempt, repairPlan, started, startPromise, chain, saved, sessions, shown,
                 verified, replayed>>

\* reject: the pending repair is given up for good.
Reject(id) ==
  /\ \/ /\ Answers(id)
        /\ state' = "rejected" /\ approval' = None
        /\ Report([state |-> "rejected", attempt |-> attempt, plan |-> repairPlan, approval |-> None],
                  Decided("repair_rejected", id))
        /\ refused' = TRUE
        /\ UNCHANGED <<attempt, repairPlan>>
     \/ /\ ~Answers(id)
        /\ Report(Snapshot, Decided("repair_rejected", id))
        /\ UNCHANGED <<session, refused>>
  /\ UNCHANGED <<started, startPromise, chain, sessions, shown, verified, replayed>>

(* Answers of the callbacks *)

\* verifyCurrent: the workspace is fine, or it is beyond repair (no plan, a plan
\* that is not safe to retry, the callback threw, the attempts are used up), or the
\* plan is tried at once.
VerifyReturns(k) ==
  /\ chain[k] # None /\ chain[k].step = "verify"
  /\ \/ /\ Settle(k, [state |-> "succeeded", attempt |-> attempt, plan |-> None, approval |-> None])
        /\ UNCHANGED shown
     \/ Fail(k)
     \/ \E p \in Plans :
          /\ AttemptsLeft
          /\ state' = "repairing" /\ repairPlan' = p
          /\ Repair(k, p, FALSE, chain[k].by)
          /\ UNCHANGED <<attempt, approval, started, startPromise, saved, audit, sessions,
                         shown, refused, replayed>>

\* Mutant: a repair that is done does not use up an attempt.
RepairReturnsUncounted(k) ==
  /\ chain[k] # None /\ chain[k].step = "repair"
  /\ Becomes([state |-> "verifying", attempt |-> attempt, plan |-> None, approval |-> None])
  /\ chain' = [chain EXCEPT ![k].step = "verify"]
  /\ UNCHANGED <<started, startPromise, saved, audit, sessions, shown, refused, verified, replayed>>

\* handleRepairResult: a human has to be asked, the repair failed, or it is done
\* and the workspace is verified again.
RepairReturns(k) ==
  /\ chain[k] # None /\ chain[k].step = "repair"
  /\ \/ \E id \in Ids :
          LET request == [action |-> id, attempt |-> attempt]
          IN  /\ Settle(k, [state |-> "waiting_approval", attempt |-> attempt,
                            plan |-> repairPlan, approval |-> request])
              /\ shown' = shown \cup {<<request, repairPlan>>}
     \/ Fail(k)
     \/ /\ Becomes([state |-> "verifying", attempt |-> attempt + 1, plan |-> None, approval |-> None])
        /\ Verify(k, attempt + 1, chain[k].by)
        /\ UNCHANGED <<started, startPromise, saved, audit, sessions, shown, refused, replayed>>

(* Environment *)

\* The process ends; the next one is built from the file.
Restart ==
  /\ sessions < MaxSessions
  /\ sessions' = sessions + 1
  /\ LET snap == IF saved = None THEN Fresh ELSE saved
     IN  Becomes(snap) /\ started' = (snap.state # "verifying")
  /\ startPromise' = None
  /\ chain' = [k \in Chains |-> None]
  /\ verified' = 0
  /\ UNCHANGED <<saved, audit, shown, refused, replayed>>

\* None stands for an id that nobody was asked an approval under.
Next ==
  \/ \E k \in Chains : Start(k)
  \/ \E k \in Chains, id \in Ids \cup {None} : Approve(k, id)
  \/ \E id \in Ids \cup {None} : Reject(id)
  \/ \E k \in Chains : VerifyReturns(k)
  \/ \E k \in Chains : RepairReturns(k)
  \/ Restart

\* The callbacks answer.  Nothing obliges a human to, or anybody to call start.
Fairness == \A k \in Chains : WF_vars(VerifyReturns(k)) /\ WF_vars(RepairReturns(k))

Spec == Init /\ [][Next]_vars
FairSpec == Spec /\ Fairness

-----------------------------------------------------------------------------
(* Properties *)

AuditTypes == {"repair_started", "repair_approved", "repair_rejected",
               "repair_approval_requested", "repair_succeeded", "repair_failed"}

\* The type of every variable.
TypeOK ==
  /\ state \in States /\ attempt \in Attempts
  /\ repairPlan \in Plans \cup {None} /\ approval \in Requests \cup {None}
  /\ started \in BOOLEAN
  /\ startPromise \in Snapshots \cup {None, Pending}
  /\ chain \in [Chains -> Callbacks \cup {None}]
  /\ saved \in Snapshots \cup {None}
  /\ audit \subseteq [type: AuditTypes, attempt: Attempts, action: Ids \cup {None}]
  /\ sessions \in 1..MaxSessions
  /\ shown \subseteq Requests \X Plans /\ refused \in BOOLEAN
  /\ verified \in 0..MaxAttempts
  /\ replayed \in BOOLEAN

Repairing(k) == chain[k] # None /\ chain[k].step = "repair"

\* However start, approve and reject are called, two callbacks never work on the
\* workspace at the same time.
OneCallback == \A j, k \in Chains : chain[j] # None /\ chain[k] # None => j = k

\* An approved repair is one that a human was shown: the callback is given the plan
\* and the attempt it was asked for, also when the session was restored from its
\* file in between (tests/repair-session.test.ts: "resumes the exact pending repair").
ApprovedIsShown ==
  \A k \in Chains : Repairing(k) /\ chain[k].approved =>
    /\ <<chain[k].by, chain[k].plan>> \in shown
    /\ chain[k].attempt = chain[k].by.attempt

\* A session that waits can be approved: it has its plan, and its request is of the
\* current attempt.  approve's "Pending repair is unavailable" is dead code.
WaitingIsAnswerable ==
  state = "waiting_approval" =>
    /\ repairPlan # None /\ approval # None
    /\ approval.attempt = attempt /\ attempt < MaxAttempts

\* The attempts are bounded: a process never verifies more often than the attempts
\* that are left to it (tests: "never exceeds three verification attempts").
VerificationsAreBounded ==
  /\ verified <= attempt
  /\ (\E k \in Chains : Repairing(k)) => attempt < MaxAttempts

\* The callbacks work on the workspace one at a time, and no more often than the attempts
\* allow.
CallbacksAreBounded == OneCallback /\ VerificationsAreBounded

\* A rejection is for good: the session, also one restored from the file by a later
\* process, is rejected, as long as start has not written an old result over it.
RejectionHolds == refused => replayed \/ state = "rejected"

\* An approval leaves a trace: whoever approves a repair that ran finds it in the log
\* when the call has returned.
ApprovalIsLogged ==
  [][\A k \in Chains :
       chain[k] # None /\ chain[k].by # None /\ chain'[k] = None /\ sessions' = sessions =>
         Event("repair_approved", chain[k].by.attempt, chain[k].by.action) \in audit']_vars

\* Within a process, a session that has succeeded, failed or been rejected stays so.
EndIsFinal == [][(state \in Ended /\ sessions' = sessions) => state' = state]_vars

\* A call that waits for callbacks comes to an end: the attempts run out.
CallsReturn == \A k \in Chains : chain[k] # None ~> chain[k] = None

\* tests/repair-session.test.ts: "rejecting approval stops the session".
RejectionStops == refused => state = "rejected"

\* RepairSession.ts: "Resumable bounded repair state machine".  A session that says it
\* is repairing has a repair under way; otherwise start, approve and reject all leave
\* it as it is.
RepairingIsUnderWay == state = "repairing" => RepairInFlight

=============================================================================
