------------------------- MODULE RepairSession_proofs -------------------------
(***************************************************************************)
(* Safety of RepairSession for every number of calls in progress, plans,   *)
(* action ids, attempts and restarts.                                      *)
(*                                                                         *)
(* RepairInv is inductive.  Its core says what each call that waits for a  *)
(* callback may rely on when the callback answers, and that every snapshot *)
(* that can come back (the session's own, the file's, the one start has    *)
(* resolved to) is one a session may be restored from.                     *)
(***************************************************************************)
EXTENDS RepairSession, TLAPS

\* What a snapshot owes to whoever restores it or reads it.
Sound(snap) ==
  /\ snap.state = "waiting_approval" =>
       /\ snap.plan \in Plans /\ snap.approval \in Requests
       /\ snap.approval.attempt = snap.attempt /\ snap.attempt < MaxAttempts
       /\ <<snap.approval, snap.plan>> \in shown

SnapshotsInv ==
  /\ Sound(Snapshot)
  /\ saved # None => Sound(saved)
  /\ startPromise \in Snapshots => Sound(startPromise)

\* What a call relies on when the callback it waits for answers.
CallInv ==
  \A k \in Chains : chain[k] # None =>
    /\ started
    /\ chain[k].attempt = attempt
    /\ chain[k].step = "verify" => state = "verifying"
    /\ chain[k].step = "repair" =>
         /\ state = "repairing" /\ attempt < MaxAttempts
         /\ repairPlan \in Plans /\ chain[k].plan = repairPlan
         /\ chain[k].approved =>
              /\ <<chain[k].by, repairPlan>> \in shown
              /\ chain[k].by.attempt = attempt

StartInv ==
  /\ verified <= attempt
  /\ ~started => state = "verifying" /\ verified = 0

RefusalInv ==
  refused => \/ replayed
             \/ state = "rejected" /\ saved # None /\ saved.state = "rejected"

RepairInv == TypeOK /\ OneCallback /\ CallInv /\ SnapshotsInv /\ StartInv /\ RefusalInv

-----------------------------------------------------------------------------
(* Helpers *)

\* The session's own snapshot has the type of a snapshot.
LEMMA SnapshotType == TypeOK => Snapshot \in Snapshots
BY DEF TypeOK, Snapshot, Snapshots

\* What a returned snapshot adds to the log is well typed.
LEMMA OutcomeType ==
  ASSUME NEW snap \in Snapshots
  PROVE  Outcome(snap) \subseteq [type: AuditTypes, attempt: Attempts, action: Ids \cup {None}]
<1>1. CASE snap.state = "waiting_approval" /\ snap.approval # None
  <2>1. snap.approval.action \in Ids /\ snap.attempt \in Attempts
    BY <1>1 DEF Snapshots, Requests
  <2>2. QED
    BY <1>1, <2>1 DEF Outcome, Event, AuditTypes
<1>2. CASE ~(snap.state = "waiting_approval" /\ snap.approval # None)
  BY <1>2 DEF Outcome, Event, AuditTypes, Snapshots
<1>3. QED
  BY <1>1, <1>2

\* A decision's record is well typed.
LEMMA DecidedType ==
  ASSUME TypeOK, NEW type \in AuditTypes, NEW id
  PROVE  Decided(type, id) \subseteq [type: AuditTypes, attempt: Attempts, action: Ids \cup {None}]
<1>1. CASE approval # None /\ approval.action = id
  <2>1. id \in Ids
    BY <1>1 DEF TypeOK, Requests
  <2>2. QED
    BY <1>1, <2>1 DEF Decided, Event, TypeOK
<1>2. CASE ~(approval # None /\ approval.action = id)
  BY <1>2 DEF Decided
<1>3. QED
  BY <1>1, <1>2

\* Saving and logging a snapshot keeps the file and the log well typed.
LEMMA ReportType ==
  ASSUME TypeOK, NEW snap \in Snapshots, NEW events,
         events \subseteq [type: AuditTypes, attempt: Attempts, action: Ids \cup {None}],
         Report(snap, events)
  PROVE  /\ saved' \in Snapshots \cup {None}
         /\ audit' \subseteq [type: AuditTypes, attempt: Attempts, action: Ids \cup {None}]
BY OutcomeType DEF Report, TypeOK

\* While a call waits for a callback, no other does, and the session is not one that
\* waits for a human or has ended.
LEMMA BusyState ==
  ASSUME RepairInv, NEW k \in Chains, chain[k] # None
  PROVE  /\ \A j \in Chains : j # k => chain[j] = None
         /\ state \in {"verifying", "repairing"}
         /\ started
BY DEF RepairInv, OneCallback, CallInv, TypeOK, Callbacks

\* A new session satisfies the invariant.
LEMMA RepairInit == Init => RepairInv
<1> SUFFICES ASSUME Init
             PROVE  RepairInv
  OBVIOUS
<1>1. TypeOK
  <2>1. 1 \in Attempts /\ 0 \in 0..MaxAttempts /\ 1 \in 1..MaxSessions
    BY AttemptAssumption DEF Attempts
  <2>2. QED
    BY <2>1 DEF Init, TypeOK, States
<1>2. OneCallback /\ CallInv
  BY DEF Init, OneCallback, CallInv
<1>3. SnapshotsInv
  BY NoneAssumption DEF Init, SnapshotsInv, Sound, Snapshot
<1>4. StartInv /\ RefusalInv
  BY DEF Init, StartInv, RefusalInv
<1>5. QED
  BY <1>1, <1>2, <1>3, <1>4 DEF RepairInv

-----------------------------------------------------------------------------
(* One lemma per action *)

\* start keeps the invariant: it begins a verification only in a session that has
\* done nothing, and otherwise saves a snapshot that is sound.
LEMMA StartStep ==
  ASSUME RepairInv, NEW k \in Chains, Start(k)
  PROVE  RepairInv'
<1> USE DEF RepairInv
<1>0. Snapshot \in Snapshots /\ Snapshot' = Snapshot
  BY SnapshotType DEF Start, session, Snapshot
<1>1. CASE /\ startPromise = None /\ ~started /\ started' = TRUE /\ startPromise' = Pending
           /\ Verify(k, attempt, None)
           /\ audit' = audit \cup {Event("repair_started", attempt, None)}
           /\ UNCHANGED <<saved, replayed>>
  <2>1. /\ state = "verifying" /\ verified = 0
        /\ \A j \in Chains : chain[j] = None
    BY <1>1 DEF StartInv, CallInv
  <2>2. chain'[k] = [step |-> "verify", approved |-> FALSE, plan |-> None, attempt |-> attempt, by |-> None]
        /\ \A j \in Chains : j # k => chain'[j] = None
    BY <1>1, <2>1 DEF Verify, TypeOK
  <2>3. TypeOK'
    <3>1. chain'[k] \in Callbacks
      BY <2>2 DEF Callbacks, TypeOK
    <3>2. verified' \in 0..MaxAttempts
      BY <1>1, <2>1, AttemptAssumption DEF Verify
    <3>3. Event("repair_started", attempt, None)
            \in [type: AuditTypes, attempt: Attempts, action: Ids \cup {None}]
      BY DEF Event, AuditTypes, TypeOK
    <3>4. QED
      BY <1>1, <3>1, <3>2, <3>3 DEF Start, Verify, TypeOK, session
  <2>4. OneCallback' /\ CallInv'
    BY <1>1, <2>1, <2>2 DEF OneCallback, CallInv, Start, session
  <2>5. SnapshotsInv'
    BY <1>0, <1>1, NoneAssumption DEF SnapshotsInv, Sound, Start
  <2>6. StartInv' /\ RefusalInv'
    BY <1>1, <2>1, AttemptAssumption DEF StartInv, RefusalInv, Verify, Start, session, TypeOK, Attempts
  <2>7. QED
    BY <2>3, <2>4, <2>5, <2>6
<1>2. ASSUME UNCHANGED <<startPromise, chain, verified, started>>,
             UNCHANGED <<saved, replayed>>,
             audit' = audit \cup {Event("repair_started", attempt, None)}
      PROVE  RepairInv'
  <2>1. Event("repair_started", attempt, None)
          \in [type: AuditTypes, attempt: Attempts, action: Ids \cup {None}]
    BY DEF Event, AuditTypes, TypeOK
  <2>2. QED
    BY <1>0, <1>2, <2>1 DEF Start, session, TypeOK, OneCallback, CallInv, SnapshotsInv, Sound,
       StartInv, RefusalInv
<1>3. ASSUME NEW snap \in Snapshots, Sound(snap),
             UNCHANGED <<startPromise, chain, verified, started>>,
             Report(snap, {Event("repair_started", attempt, None)}),
             replayed' \in BOOLEAN, replayed => replayed', replayed' \/ snap = Snapshot
      PROVE  RepairInv'
  <2>1. {Event("repair_started", attempt, None)}
          \subseteq [type: AuditTypes, attempt: Attempts, action: Ids \cup {None}]
    BY DEF Event, AuditTypes, TypeOK
  <2>2. TypeOK'
    BY <1>3, <2>1, ReportType DEF Start, session, TypeOK
  <2>3. OneCallback' /\ CallInv' /\ StartInv'
    BY <1>3 DEF Start, session, OneCallback, CallInv, StartInv
  <2>4. SnapshotsInv'
    BY <1>0, <1>3 DEF SnapshotsInv, Sound, Start, Report
  <2>5. RefusalInv'
    <3>1. saved' = snap /\ snap # None
      BY <1>3, NoneAssumption DEF Report
    <3>2. QED
      BY <1>3, <3>1 DEF RefusalInv, Start, session, Snapshot
  <2>6. QED
    BY <2>2, <2>3, <2>4, <2>5
<1>4. CASE startPromise = Pending
  BY <1>2, <1>4, NoneAssumption DEF Start
<1>5. CASE startPromise \notin {None, Pending}
  <2>1. startPromise \in Snapshots /\ Sound(startPromise)
    BY <1>5 DEF TypeOK, SnapshotsInv
  <2>2. QED
    BY <1>3, <1>5, <2>1 DEF Start, TypeOK
<1>6. CASE startPromise = None /\ started
  <2>1. Sound(Snapshot)
    BY DEF SnapshotsInv
  <2>2. QED
    BY <1>0, <1>3, <1>6, <2>1, NoneAssumption DEF Start, TypeOK
<1>7. QED
  BY <1>1, <1>4, <1>5, <1>6, NoneAssumption DEF Start

\* approve keeps the invariant: it runs what was shown, or saves the session as it is.
LEMMA ApproveStep ==
  ASSUME RepairInv, NEW k \in Chains, NEW id \in Ids \cup {None}, Approve(k, id)
  PROVE  RepairInv'
<1> USE DEF RepairInv
<1>1. CASE /\ Answers(id) /\ ~RepairInFlight
           /\ state' = "repairing"
           /\ Repair(k, repairPlan, TRUE, [action |-> id, attempt |-> attempt])
           /\ UNCHANGED <<attempt, repairPlan, approval, saved, audit>>
  <2>1. /\ repairPlan \in Plans /\ approval \in Requests
        /\ approval.attempt = attempt /\ attempt < MaxAttempts /\ approval.action = id
        /\ <<approval, repairPlan>> \in shown /\ state = "waiting_approval"
    BY <1>1 DEF Answers, SnapshotsInv, Sound, Snapshot
  <2>2. approval = [action |-> id, attempt |-> attempt]
    BY <2>1 DEF Requests
  <2>3. \A j \in Chains : chain[j] = None
    BY <2>1, BusyState
  <2>4. chain'[k] = [step |-> "repair", approved |-> TRUE, plan |-> repairPlan,
                     attempt |-> attempt, by |-> approval]
        /\ \A j \in Chains : j # k => chain'[j] = None
    BY <1>1, <2>2, <2>3 DEF Repair, TypeOK
  <2>5. started
    BY <2>1 DEF StartInv
  <2>6. TypeOK'
    <3>1. chain'[k] \in Callbacks
      BY <2>1, <2>4 DEF Callbacks, TypeOK
    <3>2. QED
      BY <1>1, <3>1 DEF Approve, Repair, TypeOK, States
  <2>7. OneCallback' /\ CallInv'
    BY <1>1, <2>1, <2>4, <2>5 DEF OneCallback, CallInv, Approve
  <2>8. SnapshotsInv'
    BY <1>1 DEF SnapshotsInv, Sound, Snapshot, Approve
  <2>9. StartInv' /\ RefusalInv'
    BY <1>1, <2>1, <2>5 DEF StartInv, RefusalInv, Approve, Repair
  <2>10. QED
    BY <2>6, <2>7, <2>8, <2>9
<1>2. CASE /\ ~Answers(id)
           /\ Report(Snapshot, Decided("repair_approved", id))
           /\ UNCHANGED <<session, chain, verified>>
  <2>1. Snapshot \in Snapshots /\ Snapshot' = Snapshot /\ Snapshot # None
    BY <1>2, SnapshotType, NoneAssumption DEF session, Snapshot
  <2>2. Decided("repair_approved", id)
          \subseteq [type: AuditTypes, attempt: Attempts, action: Ids \cup {None}]
    BY DecidedType DEF AuditTypes
  <2>3. TypeOK'
    BY <1>2, <2>1, <2>2, ReportType DEF Approve, session, TypeOK
  <2>4. OneCallback' /\ CallInv' /\ StartInv'
    BY <1>2 DEF Approve, session, OneCallback, CallInv, StartInv
  <2>5. SnapshotsInv'
    BY <1>2, <2>1 DEF SnapshotsInv, Sound, Approve, Report
  <2>6. RefusalInv'
    BY <1>2, <2>1 DEF RefusalInv, Approve, Report, session, Snapshot
  <2>7. QED
    BY <2>3, <2>4, <2>5, <2>6
<1>3. QED
  BY <1>1, <1>2 DEF Approve

\* reject keeps the invariant: a rejected session and its file agree.
LEMMA RejectStep ==
  ASSUME RepairInv, NEW id \in Ids \cup {None}, Reject(id)
  PROVE  RepairInv'
<1> USE DEF RepairInv
<1> DEFINE snap == [state |-> "rejected", attempt |-> attempt, plan |-> repairPlan, approval |-> None]
<1>0. Decided("repair_rejected", id)
        \subseteq [type: AuditTypes, attempt: Attempts, action: Ids \cup {None}]
  BY DecidedType DEF AuditTypes
<1>1. CASE /\ Answers(id)
           /\ state' = "rejected" /\ approval' = None
           /\ Report(snap, Decided("repair_rejected", id))
           /\ refused' = TRUE
           /\ UNCHANGED <<attempt, repairPlan>>
  <2>1. snap \in Snapshots /\ snap # None
    BY NoneAssumption DEF Snapshots, TypeOK, States
  <2>2. state = "waiting_approval"
    BY <1>1 DEF Answers
  <2>3. (\A j \in Chains : chain[j] = None) /\ started
    BY <2>2, BusyState DEF StartInv
  <2>4. saved' \in Snapshots \cup {None}
        /\ audit' \subseteq [type: AuditTypes, attempt: Attempts, action: Ids \cup {None}]
    BY <1>0, <1>1, <2>1, ReportType
  <2>5. TypeOK'
    BY <1>1, <2>4 DEF Reject, TypeOK, States
  <2>6. OneCallback' /\ CallInv' /\ StartInv'
    BY <1>1, <2>3 DEF Reject, OneCallback, CallInv, StartInv
  <2>7. saved' = snap
    BY <1>1 DEF Report
  <2>8. SnapshotsInv'
    BY <1>1, <2>7 DEF SnapshotsInv, Sound, Snapshot, Reject
  <2>9. RefusalInv'
    BY <1>1, <2>1, <2>7 DEF RefusalInv
  <2>10. QED
    BY <2>5, <2>6, <2>8, <2>9
<1>2. CASE /\ ~Answers(id)
           /\ Report(Snapshot, Decided("repair_rejected", id))
           /\ UNCHANGED <<session, refused>>
  <2>1. Snapshot \in Snapshots /\ Snapshot' = Snapshot /\ Snapshot # None
    BY <1>2, SnapshotType, NoneAssumption DEF session, Snapshot
  <2>2. TypeOK'
    BY <1>0, <1>2, <2>1, ReportType DEF Reject, session, TypeOK
  <2>3. OneCallback' /\ CallInv' /\ StartInv'
    BY <1>2 DEF Reject, session, OneCallback, CallInv, StartInv
  <2>4. SnapshotsInv'
    BY <1>2, <2>1 DEF SnapshotsInv, Sound, Reject, Report
  <2>5. RefusalInv'
    BY <1>2, <2>1 DEF RefusalInv, Reject, Report, session, Snapshot
  <2>6. QED
    BY <2>2, <2>3, <2>4, <2>5
<1>3. QED
  BY <1>1, <1>2 DEF Reject

\* A call that ends with a sound snapshot keeps the invariant.
LEMMA SettleStep ==
  ASSUME RepairInv, NEW k \in Chains, chain[k] # None, NEW snap \in Snapshots,
         Settle(k, snap), snap.attempt = attempt, Sound(snap)',
         shown \subseteq shown', shown' \subseteq Requests \X Plans
  PROVE  RepairInv'
<1> USE DEF RepairInv
<1>1. /\ \A j \in Chains : j # k => chain[j] = None
      /\ state \in {"verifying", "repairing"} /\ started
  BY BusyState
<1>2. (\A j \in Chains : chain'[j] = None) /\ chain' \in [Chains -> Callbacks \cup {None}]
  BY <1>1 DEF Settle, TypeOK
<1>3. chain[k].by \in Requests \cup {None}
  BY DEF TypeOK, Callbacks
<1>4. saved' \in Snapshots \cup {None}
      /\ audit' \subseteq [type: AuditTypes, attempt: Attempts, action: Ids \cup {None}]
  <2>1. CASE chain[k].by = None
    BY <2>1, ReportType DEF Settle
  <2>2. CASE chain[k].by # None
    <3>1. {Event("repair_approved", chain[k].by.attempt, chain[k].by.action)}
            \subseteq [type: AuditTypes, attempt: Attempts, action: Ids \cup {None}]
      BY <1>3, <2>2 DEF Event, AuditTypes, Requests
    <3>2. QED
      BY <2>2, <3>1, ReportType DEF Settle
  <2>3. QED
    BY <2>1, <2>2
<1>5. /\ state' \in States /\ attempt' \in Attempts /\ attempt' = attempt
      /\ repairPlan' \in Plans \cup {None} /\ approval' \in Requests \cup {None}
  BY DEF Settle, Becomes, Snapshots, TypeOK
<1>6. startPromise' \in {snap, startPromise}
  BY DEF Settle
<1>7. TypeOK'
  BY <1>2, <1>4, <1>5, <1>6 DEF Settle, TypeOK
<1>8. OneCallback' /\ CallInv' /\ StartInv'
  BY <1>1, <1>2, <1>5 DEF Settle, OneCallback, CallInv, StartInv
<1>9. SnapshotsInv'
  <2>1. Snapshot' = snap
    BY DEF Settle, Becomes, Snapshot, Snapshots
  <2>2. saved' = snap
    BY DEF Settle, Report
  <2>3. startPromise' \in Snapshots => Sound(startPromise)'
    BY <1>6 DEF SnapshotsInv, Sound
  <2>4. QED
    BY <2>1, <2>2, <2>3 DEF SnapshotsInv, Sound
<1>10. RefusalInv'
  BY <1>1 DEF RefusalInv, Settle
<1>11. QED
  BY <1>7, <1>8, <1>9, <1>10

\* A call that fails ends with a snapshot that owes nothing.
LEMMA FailStep ==
  ASSUME RepairInv, NEW k \in Chains, chain[k] # None, Fail(k)
  PROVE  RepairInv'
<1>1. PICK snap \in Snapshots :
        snap = [state |-> "failed", attempt |-> attempt, plan |-> None, approval |-> None]
  BY DEF RepairInv, TypeOK, Snapshots, States
<1>2. Sound(snap)' /\ snap.attempt = attempt
  BY <1>1 DEF Sound
<1>3. shown \subseteq shown' /\ shown' \subseteq Requests \X Plans
  BY DEF Fail, RepairInv, TypeOK
<1>4. QED
  BY <1>1, <1>2, <1>3, SettleStep DEF Fail

\* The answer of the verify callback keeps the invariant: a repair is begun only when
\* another attempt is left.
LEMMA VerifyStep ==
  ASSUME RepairInv, NEW k \in Chains, VerifyReturns(k)
  PROVE  RepairInv'
<1> USE DEF RepairInv
<1>1. chain[k] # None /\ chain[k].step = "verify" /\ chain[k] \in Callbacks
  BY DEF VerifyReturns, TypeOK
<1>2. CASE /\ Settle(k, [state |-> "succeeded", attempt |-> attempt, plan |-> None, approval |-> None])
           /\ UNCHANGED shown
  <2>1. PICK snap \in Snapshots :
          snap = [state |-> "succeeded", attempt |-> attempt, plan |-> None, approval |-> None]
    BY DEF TypeOK, Snapshots, States
  <2>2. Sound(snap)' /\ snap.attempt = attempt
    BY <2>1 DEF Sound
  <2>3. shown \subseteq shown' /\ shown' \subseteq Requests \X Plans
    BY <1>2 DEF TypeOK
  <2>4. QED
    BY <1>1, <1>2, <2>1, <2>2, <2>3, SettleStep
<1>3. ASSUME NEW p \in Plans, AttemptsLeft, state' = "repairing", repairPlan' = p,
             Repair(k, p, FALSE, chain[k].by),
             UNCHANGED <<attempt, approval, started, startPromise, saved, audit, sessions,
                         shown, refused, replayed>>
      PROVE  RepairInv'
  <2>1. /\ \A j \in Chains : j # k => chain[j] = None
        /\ state = "verifying" /\ started
    BY <1>1, BusyState DEF CallInv
  <2>2. chain'[k] = [step |-> "repair", approved |-> FALSE, plan |-> p,
                     attempt |-> attempt, by |-> chain[k].by]
        /\ \A j \in Chains : j # k => chain'[j] = None
    BY <1>3, <2>1 DEF Repair, TypeOK
  <2>3. TypeOK'
    <3>1. chain'[k] \in Callbacks
      BY <1>1, <2>2 DEF Callbacks, TypeOK
    <3>2. QED
      BY <1>3, <3>1 DEF Repair, TypeOK, States
  <2>4. OneCallback' /\ CallInv'
    BY <1>3, <2>1, <2>2 DEF OneCallback, CallInv, AttemptsLeft
  <2>5. SnapshotsInv'
    BY <1>3 DEF SnapshotsInv, Sound, Snapshot
  <2>6. StartInv' /\ RefusalInv'
    BY <1>3, <2>1 DEF StartInv, RefusalInv, Repair
  <2>7. QED
    BY <2>3, <2>4, <2>5, <2>6
<1>4. QED
  BY <1>1, <1>2, <1>3, FailStep DEF VerifyReturns

\* The answer of the repair callback keeps the invariant: what the human is shown is
\* the plan and the attempt at hand, and a repair that is done uses up an attempt.
LEMMA RepairStep ==
  ASSUME RepairInv, NEW k \in Chains, RepairReturns(k)
  PROVE  RepairInv'
<1> USE DEF RepairInv
<1>1. /\ chain[k] # None /\ chain[k].step = "repair" /\ chain[k] \in Callbacks
      /\ state = "repairing" /\ attempt < MaxAttempts /\ repairPlan \in Plans
  BY DEF RepairReturns, TypeOK, CallInv
<1>2. ASSUME NEW id \in Ids,
             Settle(k, [state |-> "waiting_approval", attempt |-> attempt, plan |-> repairPlan,
                        approval |-> [action |-> id, attempt |-> attempt]]),
             shown' = shown \cup {<<[action |-> id, attempt |-> attempt], repairPlan>>}
      PROVE  RepairInv'
  <2>1. [action |-> id, attempt |-> attempt] \in Requests
    BY DEF Requests, TypeOK
  <2>2. PICK snap \in Snapshots :
          snap = [state |-> "waiting_approval", attempt |-> attempt, plan |-> repairPlan,
                  approval |-> [action |-> id, attempt |-> attempt]]
    BY <1>1, <2>1 DEF Snapshots, TypeOK, States
  <2>3. Sound(snap)' /\ snap.attempt = attempt
    BY <1>1, <1>2, <2>1, <2>2 DEF Sound
  <2>4. shown \subseteq shown' /\ shown' \subseteq Requests \X Plans
    BY <1>1, <1>2, <2>1 DEF TypeOK
  <2>5. QED
    BY <1>1, <1>2, <2>2, <2>3, <2>4, SettleStep
<1>3. CASE /\ Becomes([state |-> "verifying", attempt |-> attempt + 1, plan |-> None, approval |-> None])
           /\ Verify(k, attempt + 1, chain[k].by)
           /\ UNCHANGED <<started, startPromise, saved, audit, sessions, shown, refused, replayed>>
  <2>1. /\ \A j \in Chains : j # k => chain[j] = None
        /\ started
    BY <1>1, BusyState
  <2>2. chain'[k] = [step |-> "verify", approved |-> FALSE, plan |-> None,
                     attempt |-> attempt + 1, by |-> chain[k].by]
        /\ \A j \in Chains : j # k => chain'[j] = None
    BY <1>3, <2>1 DEF Verify, TypeOK
  <2>3. /\ state' = "verifying" /\ attempt' = attempt + 1 /\ repairPlan' = None /\ approval' = None
        /\ verified' = verified + 1
    BY <1>3 DEF Becomes, Verify
  <2>4. attempt + 1 \in Attempts /\ verified + 1 \in 0..MaxAttempts
    BY <1>1, AttemptAssumption DEF TypeOK, Attempts, StartInv
  <2>5. TypeOK'
    <3>1. chain'[k] \in Callbacks
      BY <1>1, <2>2, <2>4 DEF Callbacks
    <3>2. QED
      BY <1>3, <2>3, <2>4, <3>1 DEF Verify, TypeOK, States
  <2>6. OneCallback' /\ CallInv'
    BY <1>3, <2>1, <2>2, <2>3 DEF OneCallback, CallInv
  <2>7. SnapshotsInv'
    BY <1>3, <2>3 DEF SnapshotsInv, Sound, Snapshot
  <2>8. StartInv' /\ RefusalInv'
    BY <1>1, <1>3, <2>1, <2>3 DEF StartInv, RefusalInv, TypeOK, Attempts
  <2>9. QED
    BY <2>5, <2>6, <2>7, <2>8
<1>4. QED
  BY <1>1, <1>2, <1>3, FailStep DEF RepairReturns

\* The next process starts from a sound snapshot, and knows of a rejection.
LEMMA RestartStep ==
  ASSUME RepairInv, Restart
  PROVE  RepairInv'
<1> USE DEF RepairInv
<1> DEFINE snap == IF saved = None THEN Fresh ELSE saved
<1>1. snap \in Snapshots /\ Sound(snap)
  <2>1. Fresh \in Snapshots /\ Sound(Fresh)
    BY AttemptAssumption DEF Fresh, Snapshots, States, Attempts, Sound
  <2>2. QED
    BY <2>1 DEF TypeOK, SnapshotsInv
<1>2. Snapshot' = snap /\ Becomes(snap) /\ started' = (snap.state # "verifying")
  BY <1>1 DEF Restart, Becomes, Snapshot, Snapshots
<1>3. \A k \in Chains : chain'[k] = None
  BY DEF Restart
<1>4. TypeOK'
  <2>1. /\ state' \in States /\ attempt' \in Attempts
        /\ repairPlan' \in Plans \cup {None} /\ approval' \in Requests \cup {None}
    BY <1>1, <1>2 DEF Becomes, Snapshots
  <2>2. sessions' \in 1..MaxSessions /\ verified' \in 0..MaxAttempts
    BY AttemptAssumption DEF Restart, TypeOK
  <2>3. QED
    BY <1>2, <2>1, <2>2 DEF Restart, TypeOK
<1>5. OneCallback' /\ CallInv'
  BY <1>3 DEF OneCallback, CallInv
<1>6. SnapshotsInv'
  BY <1>1, <1>2, NoneAssumption DEF Restart, SnapshotsInv, Sound
<1>7. StartInv' /\ RefusalInv'
  <2>1. verified' = 0 /\ attempt' \in Nat
    BY <1>4, AttemptAssumption DEF Restart, TypeOK, Attempts
  <2>2. ~started' => state' = "verifying"
    <3>1. state' = snap.state
      BY <1>2 DEF Becomes
    <3>2. QED
      BY <1>2, <3>1, Zenon
  <2>3. StartInv'
    BY <2>1, <2>2 DEF StartInv
  <2>4. saved' = saved /\ refused' = refused /\ replayed' = replayed /\ state' = snap.state
    BY <1>2 DEF Restart, Becomes
  <2>5. RefusalInv'
    BY <2>4 DEF RefusalInv
  <2>6. QED
    BY <2>3, <2>5
<1>8. QED
  BY <1>4, <1>5, <1>6, <1>7

\* Every step keeps the invariant.
LEMMA RepairNext == RepairInv /\ [Next]_vars => RepairInv'
<1>1. ASSUME RepairInv, UNCHANGED vars
      PROVE  RepairInv'
  BY <1>1 DEF RepairInv, vars, session, TypeOK, OneCallback, CallInv, SnapshotsInv, Sound, Snapshot,
     StartInv, RefusalInv
<1>2. QED
  BY <1>1, StartStep, ApproveStep, RejectStep, VerifyStep, RepairStep, RestartStep DEF Next

-----------------------------------------------------------------------------
(* Theorems *)

\* The invariant holds of every repair session, however start, approve and reject are
\* called and wherever the process ends.
THEOREM RepairInvariant == Spec => []RepairInv
<1>1. QED
  BY RepairInit, RepairNext, PTL DEF Spec

\* Every reachable state is well typed; the attempts stay within their limit.
THEOREM RepairTyping == Spec => []TypeOK
<1>1. RepairInv => TypeOK
  BY DEF RepairInv
<1>2. QED
  BY <1>1, RepairInvariant, PTL

\* Two callbacks never work on the workspace at the same time.
THEOREM OneCallbackAtATime == Spec => []OneCallback
<1>1. RepairInv => OneCallback
  BY DEF RepairInv
<1>2. QED
  BY <1>1, RepairInvariant, PTL

\* An approved repair runs with the plan and the attempt a human was shown, also when
\* the session was restored in between.
THEOREM ApprovalIsExact == Spec => []ApprovedIsShown
<1>1. RepairInv => ApprovedIsShown
  BY DEF RepairInv, CallInv, ApprovedIsShown, Repairing
<1>2. QED
  BY <1>1, RepairInvariant, PTL

\* A waiting session, restored or not, has what approve needs.
THEOREM WaitingCanBeApproved == Spec => []WaitingIsAnswerable
<1>1. RepairInv => WaitingIsAnswerable
  BY NoneAssumption DEF RepairInv, SnapshotsInv, Sound, Snapshot, WaitingIsAnswerable
<1>2. QED
  BY <1>1, RepairInvariant, PTL

\* A process verifies no more often than the attempts left to it, and never repairs in
\* the last attempt.
THEOREM BoundedVerification == Spec => []VerificationsAreBounded
<1>1. RepairInv => VerificationsAreBounded
  BY DEF RepairInv, StartInv, CallInv, VerificationsAreBounded, Repairing
<1>2. QED
  BY <1>1, RepairInvariant, PTL

\* Both together bound the callbacks, whoever calls and however often.
THEOREM BoundedCallbacks == Spec => []CallbacksAreBounded
<1>1. OneCallback /\ VerificationsAreBounded => CallbacksAreBounded
  BY DEF CallbacksAreBounded
<1>2. QED
  BY <1>1, OneCallbackAtATime, BoundedVerification, PTL

\* A rejection outlives the process, unless start wrote an old result over it.
THEOREM RejectionIsKept == Spec => []RejectionHolds
<1>1. RepairInv => RejectionHolds
  BY DEF RepairInv, RefusalInv, RejectionHolds
<1>2. QED
  BY <1>1, RepairInvariant, PTL

\* Within a process a session that has ended stays as it ended.
THEOREM EndedStaysEnded == Spec => EndIsFinal
<1>1. ASSUME RepairInv, [Next]_vars, state \in Ended, sessions' = sessions
      PROVE  state' = state
  <2>1. \A k \in Chains : chain[k] = None
    BY <1>1, BusyState DEF Ended
  <2>2. started
    BY <1>1 DEF RepairInv, StartInv, Ended
  <2>3. \A id : ~Answers(id)
    BY <1>1 DEF Answers, Ended
  <2>4. sessions \in Nat
    BY <1>1, AttemptAssumption DEF RepairInv, TypeOK
  <2>5. ~Restart
    BY <1>1, <2>4 DEF Restart
  <2>6. ~ \E k \in Chains : VerifyReturns(k) \/ RepairReturns(k)
    BY <2>1 DEF VerifyReturns, RepairReturns
  <2>7. ASSUME NEW k \in Chains, NEW id \in Ids \cup {None}, Start(k) \/ Approve(k, id) \/ Reject(id)
        PROVE  state' = state
    BY <2>3, <2>7 DEF Start, Approve, Reject, session
  <2>8. CASE UNCHANGED vars
    BY <2>8 DEF vars, session
  <2>9. CASE Next
    BY <2>5, <2>6, <2>7, <2>9, <2>3 DEF Next, Start, Approve, Reject, session
  <2>10. QED
    BY <1>1, <2>8, <2>9
<1>2. RepairInv /\ [Next]_vars => [(state \in Ended /\ sessions' = sessions) => state' = state]_vars
  BY <1>1
<1>3. QED
  BY <1>2, RepairInvariant, PTL DEF Spec, EndIsFinal

\* Ending a call that waits for a callback logs the approval that began it, and the
\* other calls go on.
LEMMA SettleLogs ==
  ASSUME TypeOK, NEW j \in Chains, NEW snap, Settle(j, snap)
  PROVE  /\ \A k \in Chains : k # j => chain'[k] = chain[k]
         /\ chain[j].by # None =>
              Event("repair_approved", chain[j].by.attempt, chain[j].by.action) \in audit'
BY DEF Settle, Report, TypeOK

\* Waiting for the next callback ends no call.
LEMMA WaitingGoesOn ==
  ASSUME TypeOK, NEW j \in Chains, NEW call \in Callbacks, chain' = [chain EXCEPT ![j] = call]
  PROVE  /\ chain'[j] # None
         /\ \A k \in Chains : k # j => chain'[k] = chain[k]
BY NoneAssumption DEF TypeOK

\* Every call of approve that ran its repair, however it ended and whatever it led to
\* in between, leaves the record of what it approved, unless the process ended first.
THEOREM ApprovalLeavesTrace == Spec => ApprovalIsLogged
<1> DEFINE Logged ==
      \A k \in Chains :
        chain[k] # None /\ chain[k].by # None /\ chain'[k] = None /\ sessions' = sessions =>
          Event("repair_approved", chain[k].by.attempt, chain[k].by.action) \in audit'
<1>1. ASSUME RepairInv, [Next]_vars, sessions' = sessions
      PROVE  Logged
  <2>1. TypeOK /\ sessions \in Nat
    BY <1>1, AttemptAssumption DEF RepairInv, TypeOK
  <2>2. ASSUME NEW j \in Chains, NEW snap, Settle(j, snap)
        PROVE  Logged
    BY <2>1, <2>2, SettleLogs
  <2>3. ASSUME NEW j \in Chains, VerifyReturns(j)
        PROVE  Logged
    <3>1. CASE \E p \in Plans : Repair(j, p, FALSE, chain[j].by)
      <4>1. PICK p \in Plans : Repair(j, p, FALSE, chain[j].by)
        BY <3>1
      <4>2. [step |-> "repair", approved |-> FALSE, plan |-> p, attempt |-> attempt,
             by |-> chain[j].by] \in Callbacks
        BY <2>1, <2>3 DEF VerifyReturns, TypeOK, Callbacks
      <4>3. QED
        BY <2>1, <4>1, <4>2, WaitingGoesOn DEF Repair
    <3>2. QED
      BY <2>2, <2>3, <3>1 DEF VerifyReturns, Fail
  <2>4. ASSUME NEW j \in Chains, RepairReturns(j)
        PROVE  Logged
    <3>1. CASE Verify(j, attempt + 1, chain[j].by)
      <4>1. attempt + 1 \in Attempts
        <5>1. chain[j] # None /\ chain[j].step = "repair"
          BY <2>4 DEF RepairReturns
        <5>2. attempt \in Attempts /\ attempt < MaxAttempts
          BY <1>1, <2>1, <5>1 DEF RepairInv, CallInv, TypeOK
        <5>3. QED
          BY <5>2, AttemptAssumption DEF Attempts
      <4>2. [step |-> "verify", approved |-> FALSE, plan |-> None, attempt |-> attempt + 1,
             by |-> chain[j].by] \in Callbacks
        BY <2>1, <2>4, <4>1 DEF RepairReturns, TypeOK, Callbacks
      <4>3. QED
        BY <2>1, <3>1, <4>2, WaitingGoesOn DEF Verify
    <3>2. QED
      BY <2>2, <2>4, <3>1 DEF RepairReturns, Fail
  <2>5. ASSUME NEW j \in Chains, NEW id \in Ids \cup {None}, Start(j) \/ Approve(j, id) \/ Reject(id)
        PROVE  Logged
    <3>1. \A k \in Chains : chain[k] # None => chain'[k] = chain[k]
      BY <2>1, <2>5 DEF Start, Approve, Reject, Verify, Repair, TypeOK
    <3>2. QED
      BY <3>1
  <2>6. CASE UNCHANGED vars
    BY <2>6 DEF vars
  <2>7. ~Restart
    BY <1>1, <2>1 DEF Restart
  <2>8. ASSUME NEW id \in Ids \cup {None}, Reject(id)
        PROVE  Logged
    BY <2>8 DEF Reject
  <2>9. QED
    BY <1>1, <2>3, <2>4, <2>5, <2>6, <2>7, <2>8 DEF Next
<1>2. RepairInv /\ [Next]_vars => [Logged]_vars
  BY <1>1
<1>3. QED
  BY <1>2, RepairInvariant, PTL DEF Spec, ApprovalIsLogged

=============================================================================
