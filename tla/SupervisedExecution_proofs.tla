--------------------- MODULE SupervisedExecution_proofs ---------------------
(***************************************************************************)
(* Safety of SupervisedExecution for every number of invocations, actions, *)
(* approvals and payloads.                                                 *)
(*                                                                         *)
(* CoreInv is inductive for DirectNext, that is whatever callers do with   *)
(* action and approval ids.  It joins the type of the state, the exclusive *)
(* lock, and what each invocation inside the lock may rely on at the       *)
(* `await` where it stands.                                                *)
(*                                                                         *)
(* GateInv is inductive behind the facade, where an action has one row and *)
(* is started once: then each step of the executor moves the ApprovalGate  *)
(* of one action, which is the refinement GateIsKept, and is a step of the *)
(* contract of ToolExecutor, which is the refinement ExecutorContract.     *)
(***************************************************************************)
EXTENDS SupervisedExecution, TLAPS

\* The row behind request r was made for it, in this process.
RowFor(r) ==
  /\ r.approval # None
  /\ store[r.approval] # None
  /\ store[r.approval].session = session
  /\ store[r.approval].action = r.action
  /\ store[r.approval].payload = r.payload

\* What an invocation inside the lock relies on at the `await` where it stands.
InFlight(c) ==
  /\ req[c] # None
  /\ pc[c] = "creating" => RowFor(req[c]) /\ ~store[req[c].approval].used
  /\ pc[c] = "consumed" =>
       /\ RowFor(req[c]) /\ store[req[c].approval].used
       /\ Risk(req[c].payload) \in {"green", "yellow"}
       /\ backed[req[c].approval] = 0
  /\ pc[c] = "running" =>
       \/ Risk(req[c].payload) = "green"
       \/ /\ Risk(req[c].payload) = "yellow"
          /\ RowFor(req[c]) /\ store[req[c].approval].used

InFlightInv == \A c \in Calls : pc[c] # "idle" => InFlight(c)

\* An approval that was behind a start is used, so it cannot be consumed again.
BackedInv ==
  \A ap \in Approvals :
    /\ backed[ap] <= 1
    /\ backed[ap] > 0 => store[ap] # None /\ store[ap].used

CoreInv == TypeOK /\ LockIsExclusive /\ InFlightInv /\ BackedInv /\ ControllersAreRunning

-----------------------------------------------------------------------------
(* Type correctness *)

\* The part of the type that the executor's own steps write.
EngineTypeOK ==
  /\ active \in BOOLEAN
  /\ pc \in [Calls -> {"idle", "creating", "consumed", "running"}]
  /\ req \in [Calls -> Requests \cup {None}]
  /\ aborted \subseteq Calls
  /\ controllers \subseteq Actions
  /\ spent \in 0..MaxToolCalls
  /\ store \in [Approvals -> Rows \cup {None}]
  /\ audit \subseteq AuditTypes \X Actions
  /\ starts \in [Actions -> Nat]
  /\ backed \in [Approvals -> Nat]

\* Writing known events about an action keeps the audit log well typed.
LEMMA RecordType ==
  ASSUME audit \subseteq AuditTypes \X Actions, NEW a \in Actions,
         NEW events \in SUBSET AuditTypes, Record(events, a)
  PROVE  audit' \subseteq AuditTypes \X Actions
BY DEF Record

\* The step that charges the budget and starts the tool, or is refused, keeps the
\* engine's variables well typed; the counter is raised only below the limit.
LEMMA LaunchType ==
  ASSUME TypeOK, NEW c \in Calls, NEW r \in Requests,
         NEW events \in SUBSET AuditTypes, Launch(c, r, events)
  PROVE  EngineTypeOK'
<1> USE BoundAssumption
<1>0. r.action \in Actions
  BY DEF Requests
<1>1. CASE ~BudgetLeft /\ Release(c)
           /\ Record(events \cup RefusalRecords, r.action)
           /\ UNCHANGED <<aborted, controllers, spent, store, history>>
  <2>1. events \cup RefusalRecords \in SUBSET AuditTypes
    BY DEF AuditTypes, RefusalRecords
  <2>2. audit' \subseteq AuditTypes \X Actions
    BY <1>0, <1>1, <2>1, RecordType DEF TypeOK
  <2>3. QED
    BY <1>1, <2>2 DEF TypeOK, EngineTypeOK, Release, history
<1>2. CASE /\ BudgetLeft /\ spent' = spent + 1 /\ Release(c)
           /\ Record(events \cup RefusalRecords, r.action)
           /\ UNCHANGED <<aborted, controllers, store, history>>
  <2>1. events \cup RefusalRecords \in SUBSET AuditTypes
    BY DEF AuditTypes, RefusalRecords
  <2>2. audit' \subseteq AuditTypes \X Actions
    BY <1>0, <1>2, <2>1, RecordType DEF TypeOK
  <2>3. spent' \in 0..MaxToolCalls
    BY <1>2 DEF TypeOK, BudgetLeft
  <2>4. QED
    BY <1>2, <2>2, <2>3 DEF TypeOK, EngineTypeOK, Release, history
<1>3. CASE /\ BudgetLeft /\ spent' = spent + 1
           /\ controllers' = controllers \cup {r.action}
           /\ Record(events \cup {"tool_allowed"}, r.action)
           /\ Hold(c, r, "running")
           /\ starts' = [starts EXCEPT ![r.action] = @ + 1]
           /\ backed' = [ap \in Approvals |->
                IF ap = r.approval THEN backed[ap] + 1 ELSE backed[ap]]
           /\ UNCHANGED <<aborted, store>>
  <2>1. events \cup {"tool_allowed"} \in SUBSET AuditTypes
    BY DEF AuditTypes
  <2>2. audit' \subseteq AuditTypes \X Actions
    BY <1>0, <1>3, <2>1, RecordType DEF TypeOK
  <2>3. QED
    BY <1>0, <1>3, <2>2 DEF TypeOK, BudgetLeft, EngineTypeOK, Hold
<1>4. QED
  BY <1>1, <1>2, <1>3 DEF Launch

\* One synchronous stretch of `execute` keeps the engine's variables well typed.
LEMMA ExecuteType ==
  ASSUME TypeOK, NEW c \in Calls, NEW r \in Requests, Execute(c, r)
  PROVE  EngineTypeOK'
<1>0. r.action \in Actions /\ r.payload \in Payloads /\ r.approval \in Approvals \cup {None}
  BY DEF Requests
<1>1. CASE UNCHANGED engine
  BY <1>1 DEF TypeOK, EngineTypeOK, engine, memory, history
<1>2. ASSUME NEW events \in SUBSET AuditTypes, Throw(r, events)
      PROVE  EngineTypeOK'
  <2>1. audit' \subseteq AuditTypes \X Actions
    BY <1>0, <1>2, RecordType DEF TypeOK, Throw
  <2>2. QED
    BY <1>2, <2>1 DEF TypeOK, EngineTypeOK, Throw, memory, history
<1>3. CASE RequestApproval(c, r)
  <2>1. ASSUME NEW ap \in Approvals,
               store' = [store EXCEPT ![ap] =
                 [action |-> r.action, payload |-> r.payload, session |-> session,
                  used |-> FALSE, expired |-> FALSE]],
               Hold(c, [r EXCEPT !.approval = ap], "creating"),
               UNCHANGED <<aborted, controllers, spent, audit, history>>
        PROVE  EngineTypeOK'
    <3>1. [r EXCEPT !.approval = ap] \in Requests
      BY DEF Requests
    <3>2. [action |-> r.action, payload |-> r.payload, session |-> session,
           used |-> FALSE, expired |-> FALSE] \in Rows
      BY <1>0, BoundAssumption DEF Rows, TypeOK
    <3>3. QED
      BY <2>1, <3>1, <3>2 DEF TypeOK, EngineTypeOK, Hold, history
  <2>2. QED
    BY <1>1, <1>3, <2>1 DEF RequestApproval
<1>4. CASE r.approval # None /\ HasValidApproval(r) /\ ConsumeApproval(c, r)
  <2>0. store[r.approval] \in Rows /\ r.approval \in Approvals
    BY <1>0, <1>4 DEF HasValidApproval, IsActive, TypeOK
  <2>1. CASE /\ store' = [store EXCEPT ![r.approval].used = TRUE]
             /\ Hold(c, r, "consumed")
             /\ UNCHANGED <<aborted, controllers, spent, audit, history>>
    <3>1. [store[r.approval] EXCEPT !.used = TRUE] \in Rows
      BY <2>0 DEF Rows
    <3>2. QED
      BY <2>0, <2>1, <3>1 DEF TypeOK, EngineTypeOK, Hold, history
  <2>2. CASE /\ store' = [store EXCEPT ![r.approval].expired = TRUE]
             /\ Record({"approval_expired"}, r.action)
             /\ UNCHANGED <<memory, history>>
    <3>1. [store[r.approval] EXCEPT !.expired = TRUE] \in Rows
      BY <2>0 DEF Rows
    <3>2. {"approval_expired"} \in SUBSET AuditTypes
      BY DEF AuditTypes
    <3>3. audit' \subseteq AuditTypes \X Actions
      BY <1>0, <2>2, <3>2, RecordType DEF TypeOK
    <3>4. QED
      BY <2>0, <2>2, <3>1, <3>3 DEF TypeOK, EngineTypeOK, memory, history
  <2>3. QED
    BY <1>4, <2>1, <2>2 DEF ConsumeApproval
<1>5. CASE Launch(c, r, {})
  BY <1>5, LaunchType
<1>6. {"approval_expired"} \in SUBSET AuditTypes /\ {"tool_denied"} \in SUBSET AuditTypes
  BY DEF AuditTypes
<1>7. QED
  BY <1>1, <1>2, <1>3, <1>4, <1>5, <1>6 DEF Execute, LockFree

\* A step keeps the type.  Suspend and Proceed need InFlightInv: that the
\* invocation they resume has a request, and a suspended one its approval.
LEMMA DirectTypeStep == CoreInv /\ [DirectNext]_vars => TypeOK'
<1> SUFFICES ASSUME TypeOK, InFlightInv, [DirectNext]_vars
             PROVE  TypeOK'
  BY DEF CoreInv
<1> USE BoundAssumption
<1>1. ASSUME NEW c \in Calls, NEW a \in Actions, NEW p \in Payloads,
             NEW ap \in Approvals \cup {None}, DirectExecute(c, a, p, ap)
      PROVE  TypeOK'
  <2>1. [action |-> a, payload |-> p, approval |-> ap] \in Requests
    BY DEF Requests
  <2>2. EngineTypeOK'
    BY <1>1, <2>1, ExecuteType DEF DirectExecute
  <2>3. QED
    BY <1>1, <2>2 DEF DirectExecute, EngineTypeOK, TypeOK, decisions
<1>2. ASSUME NEW c \in Calls, NEW a \in Actions, NEW p \in Payloads, ExecuteTool(c, a, p)
      PROVE  TypeOK'
  <2>1. [action |-> a, payload |-> p, approval |-> None] \in Requests
    BY DEF Requests
  <2>2. EngineTypeOK'
    BY <1>2, <2>1, ExecuteType DEF ExecuteTool
  <2>3. QED
    BY <1>2, <2>2 DEF ExecuteTool, EngineTypeOK, TypeOK, decisions
<1>3. ASSUME NEW c \in Calls, NEW a \in Actions, ApproveAndResume(c, a)
      PROVE  TypeOK'
  <2>0. pending[a] \in PendingExecution
    BY <1>3 DEF ApproveAndResume, TypeOK
  <2>1. [action |-> a, payload |-> pending[a].payload, approval |-> pending[a].approval]
          \in Requests
    BY <2>0 DEF Requests, PendingExecution
  <2>2. EngineTypeOK'
    BY <1>3, <2>1, ExecuteType DEF ApproveAndResume
  <2>3. granted' \subseteq Approvals
    BY <1>3, <2>0 DEF ApproveAndResume, TypeOK, PendingExecution
  <2>4. QED
    BY <1>3, <2>2, <2>3 DEF ApproveAndResume, EngineTypeOK, TypeOK
<1>4. ASSUME NEW a \in Actions, Reject(a)
      PROVE  TypeOK'
  <2>1. rejected' \subseteq Approvals
    BY <1>4 DEF Reject, TypeOK, PendingExecution
  <2>2. QED
    BY <1>4, <2>1 DEF Reject, TypeOK, engine, memory, history
<1>5. ASSUME NEW a \in Actions, Cancel(a)
      PROVE  TypeOK'
  BY <1>5 DEF Cancel, TypeOK, history, decisions
<1>6. ASSUME NEW c \in Calls, Suspend(c)
      PROVE  TypeOK'
  <2>1. req[c] \in Requests /\ req[c].approval # None
    BY <1>6 DEF Suspend, TypeOK, InFlightInv, InFlight, RowFor
  <2>2. req[c].action \in Actions
    BY <2>1 DEF Requests
  <2>3. [payload |-> req[c].payload, approval |-> req[c].approval] \in PendingExecution
    BY <2>1 DEF Requests, PendingExecution
  <2>4. {"approval_requested"} \in SUBSET AuditTypes
    BY DEF AuditTypes
  <2>5. audit' \subseteq AuditTypes \X Actions
    BY <1>6, <2>2, <2>4, RecordType DEF Suspend, TypeOK
  <2>6. QED
    BY <1>6, <2>2, <2>3, <2>5 DEF Suspend, TypeOK, Release, history
<1>7. ASSUME NEW c \in Calls, Proceed(c)
      PROVE  TypeOK'
  <2>1. req[c] \in Requests
    BY <1>7 DEF Proceed, TypeOK, InFlightInv, InFlight
  <2>2. {"approval_consumed"} \in SUBSET AuditTypes
    BY DEF AuditTypes
  <2>3. EngineTypeOK'
    BY <1>7, <2>1, <2>2, LaunchType DEF Proceed
  <2>4. QED
    BY <1>7, <2>3 DEF Proceed, EngineTypeOK, TypeOK, decisions
<1>8. ASSUME NEW c \in Calls, NEW returned \in BOOLEAN, Finish(c, returned)
      PROVE  TypeOK'
  <2>1. req[c] \in Requests
    BY <1>8 DEF Finish, TypeOK, InFlightInv, InFlight
  <2>2. req[c].action \in Actions
    BY <2>1 DEF Requests
  <2>3. {IF returned /\ c \notin aborted THEN "tool_executed" ELSE "tool_execution_failed"}
          \in SUBSET AuditTypes
    BY DEF AuditTypes
  <2>4. audit' \subseteq AuditTypes \X Actions
    BY <1>8, <2>2, <2>3, RecordType DEF Finish, TypeOK
  <2>5. QED
    BY <1>8, <2>4 DEF Finish, TypeOK, Release, history, decisions
<1>9. ASSUME NEW ap \in Approvals, ApprovalExpires(ap)
      PROVE  TypeOK'
  <2>1. [store[ap] EXCEPT !.expired = TRUE] \in Rows
    BY <1>9 DEF ApprovalExpires, IsActive, TypeOK, Rows
  <2>2. QED
    BY <1>9, <2>1 DEF ApprovalExpires, TypeOK, memory, history, decisions
<1>10. CASE Restart
  <2>1. session' \in 1..MaxSessions /\ spent' \in 0..MaxToolCalls
    BY <1>10 DEF Restart, TypeOK
  <2>2. QED
    BY <1>10, <2>1 DEF Restart, TypeOK, history
<1>11. CASE UNCHANGED vars
  BY <1>11 DEF TypeOK, vars, memory, history
<1>12. QED
  BY <1>1, <1>2, <1>3, <1>4, <1>5, <1>6, <1>7, <1>8, <1>9, <1>10, <1>11 DEF DirectNext, Next

-----------------------------------------------------------------------------
(* The lock and what it protects *)

\* Nobody but c is inside the lock.
Alone(c) == \A d \in Calls : d # c => pc[d] = "idle"

SafeInv == LockIsExclusive /\ InFlightInv /\ BackedInv /\ ControllersAreRunning

\* Whoever is inside the lock, or finds it free, has it to itself.
LEMMA AloneInside ==
  ASSUME LockIsExclusive, NEW c \in Calls, pc[c] # "idle" \/ ~active
  PROVE  Alone(c)
BY DEF LockIsExclusive, Alone

\* Entering the lock when nobody else is inside keeps it exclusive.
LEMMA HoldIsExclusive ==
  ASSUME TypeOK, NEW c \in Calls, Alone(c), NEW r, NEW where, where # "idle", Hold(c, r, where)
  PROVE  /\ LockIsExclusive' /\ Alone(c)'
         /\ pc'[c] = where /\ req'[c] = r
BY DEF TypeOK, Alone, Hold, LockIsExclusive

\* Leaving the lock when nobody else is inside empties it.
LEMMA ReleaseIsExclusive ==
  ASSUME TypeOK, NEW c \in Calls, Alone(c), Release(c)
  PROVE  LockIsExclusive' /\ \A d \in Calls : pc'[d] = "idle"
BY DEF TypeOK, Alone, Release, LockIsExclusive

\* Launching a request is safe when nobody else is inside the lock and the request
\* is green without an approval, or comes from the consumption of its approval.
LEMMA LaunchSafe ==
  ASSUME CoreInv, NEW c \in Calls, NEW r \in Requests, NEW events, session' = session,
         Launch(c, r, events),
         \/ ~active /\ r.approval = None /\ Risk(r.payload) = "green"
         \/ pc[c] = "consumed" /\ r = req[c]
  PROVE  SafeInv'
<1> USE DEF CoreInv
<1>1. Alone(c)
  BY AloneInside
<1>2. controllers = {}
  BY <1>1 DEF ControllersAreRunning, Running, Alone, LockIsExclusive
<1>3. CASE Release(c) /\ UNCHANGED <<controllers, store, history>>
  <2>1. LockIsExclusive' /\ \A d \in Calls : pc'[d] = "idle"
    BY <1>1, <1>3, ReleaseIsExclusive
  <2>2. InFlightInv' /\ ControllersAreRunning'
    BY <1>2, <1>3, <2>1 DEF InFlightInv, ControllersAreRunning
  <2>3. BackedInv'
    BY <1>3 DEF BackedInv, history
  <2>4. QED
    BY <2>1, <2>2, <2>3 DEF SafeInv
<1>4. CASE /\ Hold(c, r, "running")
           /\ controllers' = controllers \cup {r.action}
           /\ backed' = [ap \in Approvals |->
                IF ap = r.approval THEN backed[ap] + 1 ELSE backed[ap]]
           /\ UNCHANGED store
  <2>1. LockIsExclusive' /\ Alone(c)' /\ pc'[c] = "running" /\ req'[c] = r
    BY <1>1, <1>4, HoldIsExclusive
  <2>2. ControllersAreRunning'
    BY <1>2, <1>4, <2>1 DEF ControllersAreRunning, Running
  <2>3. InFlight(c)'
    <3>1. CASE ~active /\ r.approval = None /\ Risk(r.payload) = "green"
      <4>1. r # None
        BY NoneAssumption
      <4>2. QED
        BY <2>1, <3>1, <4>1 DEF InFlight
    <3>2. CASE pc[c] = "consumed" /\ r = req[c]
      BY <1>4, <2>1, <3>2 DEF InFlight, InFlightInv, RowFor
    <3>3. QED
      BY <3>1, <3>2
  <2>4. InFlightInv'
    BY <2>1, <2>3 DEF InFlightInv, Alone
  <2>5. BackedInv'
    <3>1. CASE ~active /\ r.approval = None
      <4>1. backed' = backed
        BY <1>4, <3>1, NoneAssumption DEF TypeOK
      <4>2. QED
        BY <1>4, <4>1 DEF BackedInv
    <3>2. CASE pc[c] = "consumed" /\ r = req[c]
      <4>1. /\ backed[r.approval] = 0 /\ r.approval \in Approvals
            /\ store[r.approval] # None /\ store[r.approval].used
        BY <3>2 DEF InFlight, InFlightInv, RowFor, Requests
      <4>2. QED
        BY <1>4, <4>1 DEF BackedInv, TypeOK
    <3>3. QED
      BY <3>1, <3>2
  <2>6. QED
    BY <2>1, <2>2, <2>4, <2>5 DEF SafeInv
<1>5. QED
  BY <1>3, <1>4 DEF Launch, history

\* A stretch that leaves the lock, the rows and the history alone is safe.
LEMMA QuietSafe ==
  ASSUME CoreInv, session' = session,
         UNCHANGED <<active, pc, req, controllers, store, history>>
  PROVE  SafeInv'
<1>1. LockIsExclusive'
  BY DEF CoreInv, LockIsExclusive
<1>2. InFlightInv'
  BY DEF CoreInv, InFlightInv, InFlight, RowFor, history
<1>3. BackedInv'
  BY DEF CoreInv, BackedInv, history
<1>4. ControllersAreRunning'
  BY DEF CoreInv, ControllersAreRunning, Running
<1>5. QED
  BY <1>1, <1>2, <1>3, <1>4 DEF SafeInv

\* A row may expire under an invocation: what it relies on does not mention expiry.
LEMMA ExpirySafe ==
  ASSUME CoreInv, session' = session, NEW ap \in Approvals, store[ap] # None,
         store' = [store EXCEPT ![ap].expired = TRUE],
         UNCHANGED <<active, pc, req, controllers, history>>
  PROVE  SafeInv'
<1>1. store[ap] \in Rows
  BY DEF CoreInv, TypeOK
<1>2. \A q \in Approvals :
        /\ store'[q] = None <=> store[q] = None
        /\ store[q] # None => /\ store'[q].used = store[q].used
                              /\ store'[q].session = store[q].session
                              /\ store'[q].action = store[q].action
                              /\ store'[q].payload = store[q].payload
  <2>1. [store[ap] EXCEPT !.expired = TRUE] \in Rows
    BY <1>1 DEF Rows
  <2>2. [store[ap] EXCEPT !.expired = TRUE] # None
    BY <2>1, NoneAssumption
  <2>3. QED
    BY <1>1, <2>2 DEF CoreInv, TypeOK, Rows
<1>3. InFlightInv'
  <2> SUFFICES ASSUME NEW c \in Calls, pc[c] # "idle"
               PROVE  InFlight(c)'
    BY DEF InFlightInv
  <2>1. InFlight(c) /\ req[c] \in Requests
    BY DEF CoreInv, InFlightInv, InFlight, TypeOK
  <2>2. RowFor(req[c]) => RowFor(req[c])' /\ store'[req[c].approval].used = store[req[c].approval].used
    BY <1>2, <2>1 DEF RowFor, Requests
  <2>3. QED
    BY <2>1, <2>2 DEF InFlight, history
<1>4. BackedInv'
  BY <1>2 DEF CoreInv, BackedInv, history
<1>5. QED
  BY <1>3, <1>4 DEF CoreInv, SafeInv, LockIsExclusive, ControllersAreRunning, Running

\* What execute may do up to its first `await` is safe for any request.
LEMMA ExecuteSafe ==
  ASSUME CoreInv, NEW c \in Calls, NEW r \in Requests, session' = session, Execute(c, r)
  PROVE  SafeInv'
<1> USE DEF CoreInv
<1>0. r.action \in Actions /\ r.payload \in Payloads /\ r.approval \in Approvals \cup {None}
  BY DEF Requests
<1>1. CASE UNCHANGED engine
  BY <1>1, QuietSafe DEF engine, memory
<1>2. ASSUME NEW events, Throw(r, events)
      PROVE  SafeInv'
  BY <1>2, QuietSafe DEF Throw, memory
<1>3. ASSUME ~active, NEW ap \in Approvals, store[ap] = None,
             store' = [store EXCEPT ![ap] =
               [action |-> r.action, payload |-> r.payload, session |-> session,
                used |-> FALSE, expired |-> FALSE]],
             Hold(c, [r EXCEPT !.approval = ap], "creating"),
             UNCHANGED <<controllers, history>>
      PROVE  SafeInv'
  <2> DEFINE row == [action |-> r.action, payload |-> r.payload, session |-> session,
                     used |-> FALSE, expired |-> FALSE]
             q == [r EXCEPT !.approval = ap]
  <2>1. row \in Rows /\ q \in Requests
    BY <1>0, BoundAssumption DEF Rows, Requests, TypeOK
  <2>2. row # None /\ q # None /\ ap # None
    BY <2>1, NoneAssumption
  <2>3. Alone(c)
    BY <1>3, AloneInside
  <2>4. LockIsExclusive' /\ Alone(c)' /\ pc'[c] = "creating" /\ req'[c] = q
    <3>1. Hold(c, q, "creating")
      BY <1>3
    <3>2. QED
      BY <2>3, <3>1, HoldIsExclusive
  <2>5. store'[ap] = row /\ \A x \in Approvals : x # ap => store'[x] = store[x]
    BY <1>3 DEF TypeOK
  <2>6. InFlight(c)'
    <3>1. RowFor(q)' /\ ~store'[q.approval].used
      BY <2>2, <2>5 DEF RowFor, Requests
    <3>2. QED
      BY <2>2, <2>4, <3>1 DEF InFlight
  <2>7. InFlightInv'
    BY <2>4, <2>6 DEF InFlightInv, Alone
  <2>8. ControllersAreRunning'
    BY <1>3 DEF ControllersAreRunning, LockIsExclusive, Running
  <2>9. BackedInv'
    <3> SUFFICES ASSUME NEW x \in Approvals
                 PROVE  backed[x] <= 1 /\ (backed[x] > 0 => store'[x] # None /\ store'[x].used)
      BY <1>3 DEF BackedInv, history
    <3>1. CASE x = ap
      BY <1>3, <3>1 DEF BackedInv
    <3>2. CASE x # ap
      BY <2>5, <3>2 DEF BackedInv
    <3>3. QED
      BY <3>1, <3>2
  <2>10. QED
    BY <2>4, <2>7, <2>8, <2>9 DEF SafeInv
<1>4. ASSUME ~active, r.approval # None, HasValidApproval(r), Risk(r.payload) \in {"green", "yellow"},
             store' = [store EXCEPT ![r.approval].used = TRUE],
             Hold(c, r, "consumed"),
             UNCHANGED <<controllers, history>>
      PROVE  SafeInv'
  <2> DEFINE ap == r.approval
  <2>1. ap \in Approvals /\ store[ap] # None /\ ~store[ap].used /\ store[ap] \in Rows
    BY <1>0, <1>4 DEF HasValidApproval, IsActive, TypeOK
  <2>2. [store[ap] EXCEPT !.used = TRUE] \in Rows
    BY <2>1 DEF Rows
  <2>3. /\ store'[ap] # None /\ store'[ap].used
        /\ store'[ap].session = store[ap].session /\ store'[ap].action = store[ap].action
        /\ store'[ap].payload = store[ap].payload
        /\ \A x \in Approvals : x # ap => store'[x] = store[x]
    <3>1. store'[ap] = [store[ap] EXCEPT !.used = TRUE]
      BY <1>4, <2>1 DEF TypeOK
    <3>2. store'[ap] # None
      BY <2>2, <3>1, NoneAssumption
    <3>3. QED
      BY <1>4, <2>1, <3>1, <3>2 DEF TypeOK, Rows
  <2>4. Alone(c)
    BY <1>4, AloneInside
  <2>5. LockIsExclusive' /\ Alone(c)' /\ pc'[c] = "consumed" /\ req'[c] = r
    BY <1>4, <2>4, HoldIsExclusive
  <2>6. backed[ap] = 0
    BY <2>1 DEF BackedInv, TypeOK
  <2>7. InFlight(c)'
    <3>1. RowFor(r)'
      BY <1>4, <2>3 DEF RowFor, HasValidApproval
    <3>2. r # None
      BY NoneAssumption
    <3>3. QED
      BY <1>4, <2>3, <2>5, <2>6, <3>1, <3>2 DEF InFlight, history
  <2>8. InFlightInv'
    BY <2>5, <2>7 DEF InFlightInv, Alone
  <2>9. ControllersAreRunning'
    BY <1>4 DEF ControllersAreRunning, LockIsExclusive, Running
  <2>10. BackedInv'
    BY <1>4, <2>3 DEF BackedInv, history
  <2>11. QED
    BY <2>5, <2>8, <2>9, <2>10 DEF SafeInv
<1>5. CASE /\ r.approval # None => HasValidApproval(r)
           /\ Decision(r.payload, HasValidApproval(r)) = "approval_required"
           /\ ~active
           /\ RequestApproval(c, r)
  BY <1>1, <1>3, <1>5 DEF RequestApproval
<1>6. CASE /\ ~active /\ r.approval # None /\ HasValidApproval(r)
           /\ Decision(r.payload, HasValidApproval(r)) = "allow"
           /\ ConsumeApproval(c, r)
  <2>1. Risk(r.payload) \in {"green", "yellow"}
    BY <1>6 DEF Decision
  <2>2. CASE /\ store' = [store EXCEPT ![r.approval].expired = TRUE]
             /\ UNCHANGED <<memory, history>>
    <3>1. r.approval \in Approvals /\ store[r.approval] # None
      BY <1>0, <1>6 DEF HasValidApproval, IsActive
    <3>2. QED
      BY <2>2, <3>1, ExpirySafe DEF memory
  <2>3. QED
    BY <1>4, <1>6, <2>1, <2>2 DEF ConsumeApproval
<1>7. CASE /\ ~active /\ r.approval = None
           /\ Decision(r.payload, HasValidApproval(r)) = "allow"
           /\ Launch(c, r, {})
  <2>1. Risk(r.payload) = "green"
    BY <1>7 DEF Decision, HasValidApproval
  <2>2. QED
    BY <1>7, <2>1, LaunchSafe
<1>8. QED
  BY <1>1, <1>2, <1>5, <1>6, <1>7 DEF Execute, LockFree

\* A new process satisfies the core invariant.
LEMMA CoreInit == Init => CoreInv
<1> SUFFICES ASSUME Init
             PROVE  CoreInv
  OBVIOUS
<1>1. /\ \A c \in Calls : pc[c] = "idle" /\ req[c] = None
      /\ \A a \in Actions : starts[a] = 0 /\ pending[a] = None /\ asked[a] = None
      /\ \A ap \in Approvals : backed[ap] = 0 /\ store[ap] = None
  BY DEF Init
<1>2. TypeOK
  <2>1. spent \in 0..MaxToolCalls /\ session \in 1..MaxSessions
    BY BoundAssumption DEF Init
  <2>2. /\ pc \in [Calls -> {"idle", "creating", "consumed", "running"}]
        /\ req \in [Calls -> Requests \cup {None}]
        /\ pending \in [Actions -> PendingExecution \cup {None}]
        /\ store \in [Approvals -> Rows \cup {None}]
        /\ asked \in [Actions -> Payloads \cup {None}]
    BY Zenon DEF Init
  <2>3. starts \in [Actions -> Nat] /\ backed \in [Approvals -> Nat]
    BY DEF Init
  <2>4. QED
    BY <2>1, <2>2, <2>3 DEF Init, TypeOK
<1>3. LockIsExclusive /\ InFlightInv /\ BackedInv
  <2>1. LockIsExclusive
    <3>1. ~ \E c \in Calls : pc[c] # "idle"
      BY <1>1
    <3>2. active = FALSE
      BY DEF Init
    <3>3. QED
      BY <3>1, <3>2, Zenon DEF LockIsExclusive
  <2>2. InFlightInv /\ BackedInv
    BY <1>1 DEF InFlightInv, BackedInv
  <2>3. QED
    BY <2>1, <2>2
<1>4. ControllersAreRunning
  BY DEF Init, ControllersAreRunning
<1>5. QED
  BY <1>2, <1>3, <1>4 DEF CoreInv

\* Every step of the executor, whoever calls it, keeps the core invariant.
LEMMA CoreStep == CoreInv /\ [DirectNext]_vars => CoreInv'
<1> SUFFICES ASSUME CoreInv, [DirectNext]_vars
             PROVE  SafeInv'
  BY DirectTypeStep DEF CoreInv, SafeInv
<1> USE DEF CoreInv
<1>1. ASSUME NEW c \in Calls, NEW a \in Actions, NEW p \in Payloads,
             NEW ap \in Approvals \cup {None}, DirectExecute(c, a, p, ap)
      PROVE  SafeInv'
  <2>1. [action |-> a, payload |-> p, approval |-> ap] \in Requests
    BY DEF Requests
  <2>2. QED
    BY <1>1, <2>1, ExecuteSafe DEF DirectExecute
<1>2. ASSUME NEW c \in Calls, NEW a \in Actions, NEW p \in Payloads, ExecuteTool(c, a, p)
      PROVE  SafeInv'
  <2>1. [action |-> a, payload |-> p, approval |-> None] \in Requests
    BY DEF Requests
  <2>2. QED
    BY <1>2, <2>1, ExecuteSafe DEF ExecuteTool
<1>3. ASSUME NEW c \in Calls, NEW a \in Actions, ApproveAndResume(c, a)
      PROVE  SafeInv'
  <2>1. [action |-> a, payload |-> pending[a].payload, approval |-> pending[a].approval]
          \in Requests
    BY <1>3 DEF ApproveAndResume, TypeOK, PendingExecution, Requests
  <2>2. QED
    BY <1>3, <2>1, ExecuteSafe DEF ApproveAndResume
<1>4. ASSUME NEW a \in Actions, Reject(a)
      PROVE  SafeInv'
  BY <1>4, QuietSafe DEF Reject, engine, memory
<1>5. ASSUME NEW a \in Actions, Cancel(a)
      PROVE  SafeInv'
  <2>1. UNCHANGED <<active, pc, req, store, session, starts, backed>> /\ controllers' \subseteq controllers
    BY <1>5 DEF Cancel, history
  <2>2. LockIsExclusive' /\ ControllersAreRunning' /\ BackedInv'
    BY <2>1 DEF LockIsExclusive, ControllersAreRunning, Running, BackedInv
  <2>3. InFlightInv'
    BY <2>1 DEF InFlightInv, InFlight, RowFor
  <2>4. QED
    BY <2>2, <2>3 DEF SafeInv
<1>6. ASSUME NEW c \in Calls, Suspend(c)
      PROVE  SafeInv'
  <2>1. Alone(c)
    <3>1. pc[c] # "idle"
      BY <1>6 DEF Suspend
    <3>2. QED
      BY <3>1, AloneInside
  <2>2. LockIsExclusive' /\ \A d \in Calls : pc'[d] = "idle"
    BY <1>6, <2>1, ReleaseIsExclusive DEF Suspend
  <2>3. controllers' = {}
    BY <1>6, <2>1 DEF Suspend, ControllersAreRunning, Running, Alone
  <2>4. QED
    BY <1>6, <2>2, <2>3 DEF Suspend, SafeInv, InFlightInv, ControllersAreRunning, BackedInv, history
<1>7. ASSUME NEW c \in Calls, Proceed(c)
      PROVE  SafeInv'
  <2>1. req[c] \in Requests
    BY <1>7 DEF Proceed, TypeOK, InFlightInv, InFlight
  <2>2. QED
    BY <1>7, <2>1, LaunchSafe DEF Proceed
<1>8. ASSUME NEW c \in Calls, NEW returned \in BOOLEAN, Finish(c, returned)
      PROVE  SafeInv'
  <2>1. Alone(c)
    BY <1>8, AloneInside DEF Finish
  <2>2. LockIsExclusive' /\ \A d \in Calls : pc'[d] = "idle"
    BY <1>8, <2>1, ReleaseIsExclusive DEF Finish
  <2>3. controllers' = {}
    BY <1>8, <2>1 DEF Finish, ControllersAreRunning, Running, Alone
  <2>4. QED
    BY <1>8, <2>2, <2>3 DEF Finish, SafeInv, InFlightInv, ControllersAreRunning, BackedInv, history
<1>9. ASSUME NEW ap \in Approvals, ApprovalExpires(ap)
      PROVE  SafeInv'
  BY <1>9, ExpirySafe DEF ApprovalExpires, IsActive, memory
<1>10. CASE Restart
  BY <1>10 DEF Restart, SafeInv, LockIsExclusive, InFlightInv, BackedInv,
               ControllersAreRunning, history
<1>11. CASE UNCHANGED vars
  BY <1>11, QuietSafe DEF vars, memory
<1>12. QED
  BY <1>1, <1>2, <1>3, <1>4, <1>5, <1>6, <1>7, <1>8, <1>9, <1>10, <1>11 DEF DirectNext, Next

-----------------------------------------------------------------------------
(* Theorems about any caller of the executor, and so about the facade *)

\* The core invariant holds of the executor (supervisor/SupervisedToolExecutor.ts)
\* whatever action and approval ids its callers pass.
THEOREM DirectCore == DirectSpec => []CoreInv
<1>1. QED
  BY CoreInit, CoreStep, PTL DEF DirectSpec

\* The facade is one of the callers.
LEMMA FacadeIsDirect == Spec => DirectSpec
<1>1. [Next]_vars => [DirectNext]_vars
  BY DEF DirectNext
<1>2. QED
  BY <1>1, PTL DEF Spec, DirectSpec

\* Behind the facade every variable keeps its type (all the fields and maps of
\* SupervisedToolExecutor, SessionLock, ApprovalManager and the approval rows).
THEOREM Typing == Spec => []TypeOK
<1>1. CoreInv => TypeOK
  BY DEF CoreInv
<1>2. QED
  BY <1>1, DirectCore, FacadeIsDirect, PTL

\* SessionLock admits one operation at a time and is free exactly when none is in.
THEOREM LockExclusion == Spec => []LockIsExclusive
<1>1. CoreInv => LockIsExclusive
  BY DEF CoreInv
<1>2. QED
  BY <1>1, DirectCore, FacadeIsDirect, PTL

\* Whoever calls execute, and with whatever ids: a running tool is green, or yellow
\* under a used row made for exactly this call.
THEOREM Authorisation == DirectSpec => []RunningIsAuthorised
<1>1. CoreInv => RunningIsAuthorised
  BY DEF CoreInv, InFlightInv, InFlight, RowFor, RunningIsAuthorised, Running
<1>2. QED
  BY <1>1, DirectCore, PTL

\* Whoever calls execute, an approval is behind at most one start of a tool.
THEOREM ApprovalIsSingleUse == DirectSpec => []ApprovalBacksOneRun
<1>1. CoreInv => ApprovalBacksOneRun
  BY DEF CoreInv, BackedInv, ApprovalBacksOneRun
<1>2. QED
  BY <1>1, DirectCore, PTL

\* Whoever calls execute, an approval authorises one run, of the call it was made for.
THEOREM AuthorityIsSpent == DirectSpec => []ApprovedForOneRun
<1>1. RunningIsAuthorised /\ ApprovalBacksOneRun => ApprovedForOneRun
  BY DEF ApprovedForOneRun
<1>2. QED
  BY <1>1, Authorisation, ApprovalIsSingleUse, PTL

\* CancellationRegistry.create never finds its id taken.
THEOREM ControllersFollowRuns == Spec => []ControllersAreRunning
<1>1. CoreInv => ControllersAreRunning
  BY DEF CoreInv
<1>2. QED
  BY <1>1, DirectCore, FacadeIsDirect, PTL

-----------------------------------------------------------------------------
(* The audit log *)

\* The two halves of AuditAccountsForRuns, for one action and for one approval.
RunsAreLogged(a) ==
  <<"tool_allowed", a>> \in audit =>
    \/ <<"tool_executed", a>> \in audit \/ <<"tool_execution_failed", a>> \in audit
    \/ a \in cut
    \/ \E c \in Calls : Running(c) /\ req[c].action = a

UsesAreLogged(ap) ==
  store[ap] # None /\ store[ap].used =>
    \/ {<<"approval_consumed", store[ap].action>>, <<"tool_allowed", store[ap].action>>} \subseteq audit
    \/ store[ap].action \in cut
    \/ \E c \in Calls : pc[c] = "consumed" /\ req[c].approval = ap

\* AuditAccountsForRuns, one action and one approval at a time.
LEMMA AuditHalves ==
  AuditAccountsForRuns <=>
    (\A a \in Actions : RunsAreLogged(a)) /\ (\A ap \in Approvals : UsesAreLogged(ap))
BY DEF AuditAccountsForRuns, RunsAreLogged, UsesAreLogged

\* Launch logs tool_allowed with its outcome, or with the tool it started.
LEMMA LaunchLogged ==
  ASSUME CoreInv, AuditAccountsForRuns, NEW c \in Calls, NEW r \in Requests, NEW events,
         cut' = cut, Launch(c, r, events),
         \/ ~active /\ events = {}
         \/ pc[c] = "consumed" /\ r = req[c] /\ events = {"approval_consumed"}
  PROVE  AuditAccountsForRuns'
<1> USE DEF CoreInv
<1>1. Alone(c) /\ ~Running(c)
  <2>1. Alone(c)
    BY AloneInside
  <2>2. pc[c] # "running"
    BY DEF LockIsExclusive
  <2>3. QED
    BY <2>1, <2>2 DEF Running
<1>2. audit \subseteq audit' /\ (\A e \in events : <<e, r.action>> \in audit')
      /\ <<"tool_allowed", r.action>> \in audit' /\ store' = store
  BY DEF Launch, Record, RefusalRecords
<1>3. \A a \in Actions : <<"tool_allowed", a>> \in audit' => <<"tool_allowed", a>> \in audit \/ a = r.action
  BY DEF Launch, Record, RefusalRecords
<1>4. \/ <<"tool_execution_failed", r.action>> \in audit'
      \/ (\E d \in Calls : Running(d) /\ req[d].action = r.action)'
  BY DEF Launch, Record, Hold, Running, TypeOK, RefusalRecords
<1>5. ASSUME NEW a \in Actions
      PROVE  RunsAreLogged(a)'
  <2>1. RunsAreLogged(a)
    BY AuditHalves
  <2>2. ~ \E d \in Calls : Running(d) /\ req[d].action = a
    BY <1>1 DEF Alone, Running
  <2>3. QED
    BY <1>2, <1>3, <1>4, <2>1, <2>2 DEF RunsAreLogged
<1>6. ASSUME NEW ap \in Approvals
      PROVE  UsesAreLogged(ap)'
  <2>1. UsesAreLogged(ap)
    BY AuditHalves
  <2>2. CASE \E d \in Calls : pc[d] = "consumed" /\ req[d].approval = ap
    <3>1. pc[c] = "consumed" /\ req[c].approval = ap
      BY <1>1, <2>2 DEF Alone
    <3>2. r = req[c] /\ events = {"approval_consumed"}
      BY <3>1 DEF LockIsExclusive
    <3>3. store[ap].action = r.action
      BY <3>1, <3>2 DEF InFlightInv, InFlight, RowFor
    <3>4. QED
      BY <1>2, <3>2, <3>3 DEF UsesAreLogged
  <2>3. CASE ~ \E d \in Calls : pc[d] = "consumed" /\ req[d].approval = ap
    BY <1>2, <2>1, <2>3 DEF UsesAreLogged
  <2>4. QED
    BY <2>2, <2>3
<1>7. QED
  <2>1. (\A a \in Actions : RunsAreLogged(a)') /\ (\A ap \in Approvals : UsesAreLogged(ap)')
    BY <1>5, <1>6
  <2>2. QED
    BY <2>1 DEF AuditAccountsForRuns, RunsAreLogged, UsesAreLogged

\* A stretch that only adds other records, and rows and calls that need none.
LEMMA OtherwiseLogged ==
  ASSUME AuditAccountsForRuns, audit \subseteq audit', cut' = cut,
         \A a \in Actions : <<"tool_allowed", a>> \in audit' => <<"tool_allowed", a>> \in audit,
         \A c \in Calls : pc[c] \in {"consumed", "running"} => pc'[c] = pc[c] /\ req'[c] = req[c],
         \A ap \in Approvals : store'[ap] # None /\ store'[ap].used =>
            \/ store[ap] # None /\ store[ap].used /\ store'[ap].action = store[ap].action
            \/ \E c \in Calls : pc'[c] = "consumed" /\ req'[c].approval = ap
  PROVE  AuditAccountsForRuns'
<1>1. ASSUME NEW a \in Actions
      PROVE  RunsAreLogged(a)'
  BY AuditHalves DEF RunsAreLogged, Running
<1>2. ASSUME NEW ap \in Approvals
      PROVE  UsesAreLogged(ap)'
  BY AuditHalves DEF UsesAreLogged
<1>3. (\A a \in Actions : RunsAreLogged(a)') /\ (\A ap \in Approvals : UsesAreLogged(ap)')
  BY <1>1, <1>2
<1>4. QED
  BY <1>3 DEF AuditAccountsForRuns, RunsAreLogged, UsesAreLogged

\* One synchronous stretch of `execute` keeps the log complete.
LEMMA ExecuteLogged ==
  ASSUME CoreInv, AuditAccountsForRuns, NEW c \in Calls, NEW r \in Requests,
         cut' = cut, Execute(c, r)
  PROVE  AuditAccountsForRuns'
<1> USE DEF CoreInv
<1>0. r.approval \in Approvals \cup {None} /\ pc[c] = "idle"
  BY DEF Requests, Execute, LockFree
<1>1. CASE UNCHANGED engine
  BY <1>1, OtherwiseLogged DEF engine, memory
<1>2. ASSUME NEW e, e # "tool_allowed", Throw(r, {e})
      PROVE  AuditAccountsForRuns'
  BY <1>2, OtherwiseLogged DEF Throw, Record, memory
<1>3. ASSUME NEW ap \in Approvals, store[ap] = None,
             store' = [store EXCEPT ![ap] =
               [action |-> r.action, payload |-> r.payload, session |-> session,
                used |-> FALSE, expired |-> FALSE]],
             Hold(c, [r EXCEPT !.approval = ap], "creating"), UNCHANGED audit
      PROVE  AuditAccountsForRuns'
  <2>1. \A d \in Calls : pc[d] \in {"consumed", "running"} => pc'[d] = pc[d] /\ req'[d] = req[d]
    BY <1>0, <1>3 DEF Hold, TypeOK
  <2>2. \A x \in Approvals : store'[x] # None /\ store'[x].used =>
           store[x] # None /\ store[x].used /\ store'[x].action = store[x].action
    BY <1>3 DEF TypeOK
  <2>3. QED
    BY <1>3, <2>1, <2>2, OtherwiseLogged
<1>4. ASSUME r.approval # None, HasValidApproval(r), ConsumeApproval(c, r)
      PROVE  AuditAccountsForRuns'
  <2> DEFINE ap == r.approval
  <2>0. ap \in Approvals /\ store[ap] # None /\ store[ap] \in Rows
    BY <1>0, <1>4 DEF HasValidApproval, IsActive, TypeOK
  <2>1. CASE /\ store' = [store EXCEPT ![ap].used = TRUE]
             /\ Hold(c, r, "consumed")
             /\ UNCHANGED audit
    <3>1. /\ \A d \in Calls : pc[d] \in {"consumed", "running"} => pc'[d] = pc[d] /\ req'[d] = req[d]
          /\ pc'[c] = "consumed" /\ req'[c].approval = ap
      BY <1>0, <2>1 DEF Hold, TypeOK
    <3>2. \A x \in Approvals : x # ap => store'[x] = store[x]
      BY <2>1 DEF TypeOK
    <3>3. QED
      BY <2>1, <3>1, <3>2, OtherwiseLogged
  <2>2. CASE /\ store' = [store EXCEPT ![ap].expired = TRUE]
             /\ Record({"approval_expired"}, r.action)
             /\ UNCHANGED <<memory, history>>
    <3>1. \A x \in Approvals : store'[x] # None /\ store'[x].used =>
             store[x] # None /\ store[x].used /\ store'[x].action = store[x].action
      BY <2>0, <2>2 DEF TypeOK, Rows
    <3>2. QED
      BY <2>2, <3>1, OtherwiseLogged DEF Record, memory
  <2>3. QED
    BY <1>4, <2>1, <2>2 DEF ConsumeApproval
<1>5. CASE RequestApproval(c, r)
  BY <1>1, <1>3, <1>5 DEF RequestApproval
<1>6. CASE ~active /\ Launch(c, r, {})
  BY <1>6, LaunchLogged
<1>7. QED
  BY <1>1, <1>2, <1>4, <1>5, <1>6 DEF Execute, LockFree

\* Every step keeps the audit log complete, given the core invariant.
LEMMA AuditStep == CoreInv /\ AuditAccountsForRuns /\ [DirectNext]_vars => AuditAccountsForRuns'
<1> SUFFICES ASSUME CoreInv, AuditAccountsForRuns, [DirectNext]_vars
             PROVE  AuditAccountsForRuns'
  OBVIOUS
<1> USE DEF CoreInv
<1>1. ASSUME NEW c \in Calls, NEW a \in Actions, NEW p \in Payloads,
             NEW ap \in Approvals \cup {None}, DirectExecute(c, a, p, ap)
      PROVE  AuditAccountsForRuns'
  <2>1. [action |-> a, payload |-> p, approval |-> ap] \in Requests
    BY DEF Requests
  <2>2. QED
    BY <1>1, <2>1, ExecuteLogged DEF DirectExecute
<1>2. ASSUME NEW c \in Calls, NEW a \in Actions, NEW p \in Payloads, ExecuteTool(c, a, p)
      PROVE  AuditAccountsForRuns'
  <2>1. [action |-> a, payload |-> p, approval |-> None] \in Requests
    BY DEF Requests
  <2>2. QED
    BY <1>2, <2>1, ExecuteLogged DEF ExecuteTool
<1>3. ASSUME NEW c \in Calls, NEW a \in Actions, ApproveAndResume(c, a)
      PROVE  AuditAccountsForRuns'
  <2>1. [action |-> a, payload |-> pending[a].payload, approval |-> pending[a].approval]
          \in Requests
    BY <1>3 DEF ApproveAndResume, TypeOK, PendingExecution, Requests
  <2>2. QED
    BY <1>3, <2>1, ExecuteLogged DEF ApproveAndResume
<1>4. ASSUME NEW a \in Actions, Reject(a) \/ Cancel(a)
      PROVE  AuditAccountsForRuns'
  <2>1. UNCHANGED <<pc, req, store, audit, cut>>
    BY <1>4 DEF Reject, Cancel, engine, memory
  <2>2. QED
    BY <2>1, OtherwiseLogged
<1>5. ASSUME NEW c \in Calls, Suspend(c)
      PROVE  AuditAccountsForRuns'
  <2>1. \A d \in Calls : pc[d] \in {"consumed", "running"} => pc'[d] = pc[d] /\ req'[d] = req[d]
    BY <1>5 DEF Suspend, Release, TypeOK
  <2>2. QED
    BY <1>5, <2>1, OtherwiseLogged DEF Suspend, Record
<1>6. ASSUME NEW c \in Calls, Proceed(c)
      PROVE  AuditAccountsForRuns'
  <2>1. req[c] \in Requests
    BY <1>6 DEF Proceed, TypeOK, InFlightInv, InFlight
  <2>2. QED
    BY <1>6, <2>1, LaunchLogged DEF Proceed
<1>7. ASSUME NEW c \in Calls, NEW returned \in BOOLEAN, Finish(c, returned)
      PROVE  AuditAccountsForRuns'
  <2>1. Alone(c) /\ pc[c] = "running"
    BY <1>7, AloneInside DEF Finish
  <2>2. /\ audit \subseteq audit'
        /\ \A a \in Actions : <<"tool_allowed", a>> \in audit' => <<"tool_allowed", a>> \in audit
        /\ \/ <<"tool_executed", req[c].action>> \in audit'
           \/ <<"tool_execution_failed", req[c].action>> \in audit'
    BY <1>7 DEF Finish, Record
  <2>3. ASSUME NEW a \in Actions
        PROVE  RunsAreLogged(a)'
    BY <1>7, <2>1, <2>2, AuditHalves DEF RunsAreLogged, Alone, Running, Finish
  <2>4. ASSUME NEW ap \in Approvals
        PROVE  UsesAreLogged(ap)'
    BY <1>7, <2>1, <2>2, AuditHalves DEF UsesAreLogged, Alone, Finish
  <2>5. (\A a \in Actions : RunsAreLogged(a)') /\ (\A ap \in Approvals : UsesAreLogged(ap)')
    BY <2>3, <2>4
  <2>6. QED
    BY <2>5 DEF AuditAccountsForRuns, RunsAreLogged, UsesAreLogged
<1>8. ASSUME NEW ap \in Approvals, ApprovalExpires(ap)
      PROVE  AuditAccountsForRuns'
  <2>1. \A x \in Approvals : store'[x] # None /\ store'[x].used =>
           store[x] # None /\ store[x].used /\ store'[x].action = store[x].action
    BY <1>8 DEF ApprovalExpires, IsActive, TypeOK, Rows
  <2>2. QED
    BY <1>8, <2>1, OtherwiseLogged DEF ApprovalExpires, memory
<1>9. CASE Restart
  <2>1. UNCHANGED <<store, audit>> /\ cut \subseteq cut'
        /\ \A c \in Calls : pc[c] # "idle" /\ req[c].action \in Actions => req[c].action \in cut'
    BY <1>9 DEF Restart
  <2>2. ASSUME NEW a \in Actions
        PROVE  RunsAreLogged(a)'
    BY <2>1, AuditHalves DEF RunsAreLogged, Running
  <2>3. ASSUME NEW ap \in Approvals
        PROVE  UsesAreLogged(ap)'
    <3>1. ASSUME NEW c \in Calls, pc[c] = "consumed", req[c].approval = ap
          PROVE  store[ap].action \in cut'
      BY <2>1, <3>1 DEF InFlightInv, InFlight, RowFor, TypeOK, Requests
    <3>2. QED
      BY <2>1, <3>1, AuditHalves DEF UsesAreLogged
  <2>4. (\A a \in Actions : RunsAreLogged(a)') /\ (\A ap \in Approvals : UsesAreLogged(ap)')
    BY <2>2, <2>3
  <2>5. QED
    BY <2>4 DEF AuditAccountsForRuns, RunsAreLogged, UsesAreLogged
<1>10. CASE UNCHANGED vars
  BY <1>10, OtherwiseLogged DEF vars, memory
<1>11. QED
  BY <1>1, <1>2, <1>3, <1>4, <1>5, <1>6, <1>7, <1>8, <1>9, <1>10 DEF DirectNext, Next

\* Whoever calls execute, the audit log tells how every allowed run ended and where
\* every consumed approval went, but for what a process exit interrupted.
THEOREM AuditIsComplete == DirectSpec => []AuditAccountsForRuns
<1>1. Init => AuditAccountsForRuns
  BY DEF Init, AuditAccountsForRuns
<1>2. CoreInv /\ AuditAccountsForRuns /\ [DirectNext]_vars => AuditAccountsForRuns'
  BY AuditStep
<1>3. QED
  BY <1>1, <1>2, DirectCore, PTL DEF DirectSpec

-----------------------------------------------------------------------------
(* Human decisions: what holds because callers go through the facade *)

Decided == granted \cup rejected

\* A suspended action was asked for, and its row is unused and undecided.
HeldInv ==
  \A a \in Actions : pending[a] # None =>
    /\ asked[a] # None
    /\ pending[a].approval \notin Decided

\* Decisions are about rows that exist, and no row is decided both ways.
DecidedInv ==
  /\ granted \cap rejected = {}
  /\ \A ap \in Approvals : ap \in Decided => store[ap] # None

\* An invocation inside the lock is the first one of its action that gets as far as
\* asking, or the one its approval was granted for.
OriginInv ==
  \A c \in Calls : pc[c] # "idle" =>
    /\ asked[req[c].action] # None
    /\ pc[c] = "creating" => pending[req[c].action] = None /\ req[c].approval \notin Decided
    /\ pc[c] = "consumed" => req[c].approval \in granted
    /\ pc[c] = "running" /\ Risk(req[c].payload) = "yellow" => req[c].approval \in granted

FacadeInv == PendingIsResumable /\ HeldInv /\ DecidedInv /\ OriginInv

\* A new process satisfies what the facade adds to the core invariant.
LEMMA FacadeInit == Init => FacadeInv
<1> SUFFICES ASSUME Init
             PROVE  FacadeInv
  OBVIOUS
<1>1. /\ \A a \in Actions : pending[a] = None
      /\ \A c \in Calls : pc[c] = "idle"
      /\ manager = {} /\ granted = {} /\ rejected = {}
  BY DEF Init
<1>2. QED
  BY <1>1 DEF FacadeInv, PendingIsResumable, HeldInv, DecidedInv, OriginInv, Decided

\* Steps that touch neither the decisions nor the rows, and only let invocations
\* leave the lock or go from consumed to running.
LEMMA UndecidedStep ==
  ASSUME TypeOK, FacadeInv, UNCHANGED <<pending, manager, granted, rejected, session, asked>>,
         \A ap \in Approvals : store[ap] # None =>
            /\ store'[ap] # None /\ store'[ap].used = store[ap].used
            /\ store'[ap].session = store[ap].session
            /\ store'[ap].action = store[ap].action /\ store'[ap].payload = store[ap].payload,
         \A c \in Calls : pc'[c] # "idle" =>
            \/ pc'[c] = pc[c] /\ req'[c] = req[c]
            \/ pc'[c] = "running" /\ pc[c] = "consumed" /\ req'[c] = req[c]
  PROVE  FacadeInv'
<1> USE DEF FacadeInv
<1>1. PendingIsResumable'
  BY DEF PendingIsResumable, TypeOK, PendingExecution
<1>2. HeldInv' /\ DecidedInv'
  BY DEF HeldInv, DecidedInv, Decided
<1>3. OriginInv'
  BY DEF OriginInv, Decided
<1>4. QED
  BY <1>1, <1>2, <1>3

\* A new tool call, under an id nobody asked for, keeps the facade's invariant.
LEMMA ExecuteToolFacade ==
  ASSUME CoreInv, FacadeInv, NEW c \in Calls, NEW a \in Actions, NEW p \in Payloads,
         ExecuteTool(c, a, p)
  PROVE  FacadeInv'
<1> USE DEF CoreInv, FacadeInv
<1> DEFINE r == [action |-> a, payload |-> p, approval |-> None]
<1>1. /\ asked[a] = None /\ asked'[a] # None /\ pending[a] = None
      /\ \A b \in Actions : asked[b] # None => asked'[b] # None
      /\ UNCHANGED <<pending, manager, granted, rejected, session>>
      /\ Execute(c, r) /\ pc[c] = "idle"
  BY NoneAssumption DEF ExecuteTool, HeldInv, TypeOK, decisions, Execute, LockFree
<1>2. HeldInv'
  BY <1>1 DEF HeldInv, Decided
<1>3. CASE /\ \A ap \in Approvals : store'[ap] = store[ap]
           /\ \A d \in Calls : pc'[d] # "idle" =>
                \/ pc'[d] = pc[d] /\ req'[d] = req[d]
                \/ pc'[d] = "running" /\ req'[d] = r /\ Risk(p) = "green"
  <2>1. PendingIsResumable' /\ DecidedInv'
    BY <1>1, <1>3 DEF PendingIsResumable, TypeOK, PendingExecution, DecidedInv, Decided
  <2>2. OriginInv'
    <3> SUFFICES ASSUME NEW d \in Calls, pc'[d] # "idle"
                 PROVE  /\ asked'[req'[d].action] # None
                        /\ pc'[d] = "creating" => pending'[req'[d].action] = None
                                                   /\ req'[d].approval \notin Decided'
                        /\ pc'[d] = "consumed" => req'[d].approval \in granted'
                        /\ pc'[d] = "running" /\ Risk(req'[d].payload) = "yellow"
                              => req'[d].approval \in granted'
      BY DEF OriginInv
    <3>1. CASE pc'[d] = pc[d] /\ req'[d] = req[d]
      <4>1. req[d].action \in Actions
        BY <3>1 DEF InFlightInv, InFlight, TypeOK, Requests
      <4>2. QED
        BY <1>1, <3>1, <4>1 DEF OriginInv, Decided
    <3>2. CASE pc'[d] = "running" /\ req'[d] = r /\ Risk(p) = "green"
      BY <1>1, <3>2
    <3>3. QED
      BY <1>3, <3>1, <3>2
  <2>3. QED
    BY <1>2, <2>1, <2>2
<1>4. ASSUME ~active, NEW ap \in Approvals, store[ap] = None,
             store' = [store EXCEPT ![ap] =
               [action |-> a, payload |-> p, session |-> session,
                used |-> FALSE, expired |-> FALSE]],
             Hold(c, [r EXCEPT !.approval = ap], "creating")
      PROVE  FacadeInv'
  <2>1. /\ \A d \in Calls : pc'[d] # "idle" => d = c
        /\ pc'[c] = "creating" /\ req'[c] = [r EXCEPT !.approval = ap]
    <3>1. Alone(c)
      BY <1>4, AloneInside
    <3>2. QED
      BY <1>4, <3>1, HoldIsExclusive DEF Alone
  <2>2. \A x \in Approvals : x # ap => store'[x] = store[x]
    BY <1>4 DEF TypeOK
  <2>3. ap \notin Decided
    BY <1>4 DEF DecidedInv
  <2>4. PendingIsResumable'
    <3>1. \A b \in Actions : pending[b] # None => pending[b].approval \in Approvals /\ pending[b].approval # ap
      BY <1>4 DEF PendingIsResumable, TypeOK, PendingExecution
    <3>2. QED
      BY <1>1, <2>2, <3>1 DEF PendingIsResumable
  <2>5. DecidedInv'
    BY <1>1, <2>2, <2>3 DEF DecidedInv, Decided
  <2>6. OriginInv'
    BY <1>1, <2>1, <2>3 DEF OriginInv, Decided
  <2>7. QED
    BY <1>2, <2>4, <2>5, <2>6
<1>5. CASE Launch(c, r, {}) /\ ~active /\ Decision(p, HasValidApproval(r)) = "allow"
  <2>1. Risk(p) = "green"
    BY <1>5 DEF Decision, HasValidApproval
  <2>2. \/ Hold(c, r, "running") /\ store' = store
        \/ Release(c) /\ store' = store
    BY <1>5 DEF Launch
  <2>3. \A d \in Calls : pc'[d] # "idle" =>
          \/ pc'[d] = pc[d] /\ req'[d] = req[d]
          \/ pc'[d] = "running" /\ req'[d] = r
    BY <2>2 DEF Hold, Release, TypeOK
  <2>4. QED
    BY <1>3, <2>1, <2>2, <2>3
<1>6. CASE UNCHANGED <<pc, req, store>>
  BY <1>3, <1>6
<1>7. QED
  BY <1>1, <1>4, <1>5, <1>6 DEF Execute, RequestApproval, Throw, engine, memory, LockFree

\* Granting a suspended call hands its unused row over to the invocation that resumes it.
LEMMA ApproveFacade ==
  ASSUME CoreInv, FacadeInv, NEW c \in Calls, NEW a \in Actions, ApproveAndResume(c, a)
  PROVE  FacadeInv'
<1> USE DEF CoreInv, FacadeInv
<1> DEFINE q == pending[a].approval
           r == [action |-> a, payload |-> pending[a].payload, approval |-> q]
<1>1. /\ pending[a] # None /\ q \in Approvals /\ q # None /\ q \notin Decided
      /\ store[q] # None /\ ~store[q].used /\ store[q].action = a
      /\ asked[a] # None
  BY NoneAssumption DEF ApproveAndResume, TypeOK, PendingExecution, PendingIsResumable, HeldInv
<1>2. /\ pending' = [pending EXCEPT ![a] = None] /\ manager' = manager \ {a}
      /\ granted' = granted \cup {q} /\ UNCHANGED <<session, asked, rejected>>
      /\ Execute(c, r) /\ pc[c] = "idle"
  BY DEF ApproveAndResume, Execute, LockFree
<1>3. \A b \in Actions : pending'[b] # None =>
         /\ b # a /\ pending'[b] = pending[b] /\ pending[b].approval \in Approvals
         /\ pending[b].approval # q
  BY <1>1, <1>2 DEF TypeOK, PendingIsResumable, PendingExecution
<1>4. HeldInv'
  BY <1>2, <1>3 DEF HeldInv, Decided
<1>5. CASE /\ \A ap \in Approvals : store[ap] # None => store'[ap] # None
           /\ \A ap \in Approvals : ap # q => store'[ap] = store[ap]
           /\ \A d \in Calls : pc'[d] # "idle" =>
                \/ pc'[d] = pc[d] /\ req'[d] = req[d]
                \/ pc'[d] = "consumed" /\ req'[d] = r
  <2>1. PendingIsResumable'
    BY <1>2, <1>3, <1>5 DEF PendingIsResumable, TypeOK
  <2>2. DecidedInv'
    BY <1>1, <1>2, <1>5 DEF DecidedInv, Decided
  <2>3. OriginInv'
    <3> SUFFICES ASSUME NEW d \in Calls, pc'[d] # "idle"
                 PROVE  /\ asked'[req'[d].action] # None
                        /\ pc'[d] = "creating" => pending'[req'[d].action] = None
                                                   /\ req'[d].approval \notin Decided'
                        /\ pc'[d] = "consumed" => req'[d].approval \in granted'
                        /\ pc'[d] = "running" /\ Risk(req'[d].payload) = "yellow"
                              => req'[d].approval \in granted'
      BY DEF OriginInv
    <3>1. CASE pc'[d] = pc[d] /\ req'[d] = req[d]
      <4>1. req[d].action \in Actions
        BY <3>1 DEF InFlightInv, InFlight, TypeOK, Requests
      <4>2. CASE pc[d] = "creating"
        <5>1. store[req[d].approval].action = req[d].action /\ pending[req[d].action] = None
              /\ req[d].approval \notin Decided
          BY <4>2 DEF OriginInv, InFlightInv, InFlight, RowFor
        <5>2. req[d].approval # q /\ req[d].action # a
          BY <1>1, <5>1
        <5>3. QED
          BY <1>2, <3>1, <4>1, <4>2, <5>1, <5>2 DEF OriginInv, Decided, TypeOK
      <4>3. CASE pc[d] # "creating"
        BY <1>2, <3>1, <4>3 DEF OriginInv
      <4>4. QED
        BY <4>2, <4>3
    <3>2. CASE pc'[d] = "consumed" /\ req'[d] = r
      BY <1>1, <1>2, <3>2
    <3>3. QED
      BY <1>5, <3>1, <3>2
  <2>4. QED
    BY <1>4, <2>1, <2>2, <2>3
<1>6. CASE UNCHANGED <<pc, req, store>>
  BY <1>5, <1>6
<1>7. CASE HasValidApproval(r) /\ ConsumeApproval(c, r)
  <2>0. store[q] \in Rows
    BY <1>1 DEF TypeOK
  <2>1. CASE store' = [store EXCEPT ![q].used = TRUE] /\ Hold(c, r, "consumed")
    <3>1. /\ [store[q] EXCEPT !.used = TRUE] \in Rows
          /\ [store[q] EXCEPT !.used = TRUE] # None
      BY <2>0, NoneAssumption DEF Rows
    <3>2. QED
      BY <1>1, <1>5, <2>1, <3>1 DEF Hold, TypeOK
  <2>2. CASE store' = [store EXCEPT ![q].expired = TRUE] /\ UNCHANGED memory
    <3>1. /\ [store[q] EXCEPT !.expired = TRUE] \in Rows
          /\ [store[q] EXCEPT !.expired = TRUE] # None
      BY <2>0, NoneAssumption DEF Rows
    <3>2. QED
      BY <1>1, <1>5, <2>2, <3>1 DEF TypeOK, memory
  <2>3. QED
    BY <1>7, <2>1, <2>2 DEF ConsumeApproval
<1>8. CASE HasValidApproval(r) /\ Decision(pending[a].payload, HasValidApproval(r)) = "approval_required"
  BY <1>8 DEF Decision
<1>9. QED
  BY <1>1, <1>2, <1>6, <1>7, <1>8 DEF Execute, Throw, engine, memory, LockFree

\* Suspending a call makes the two maps and the row agree.
LEMMA SuspendFacade ==
  ASSUME CoreInv, FacadeInv, NEW c \in Calls, Suspend(c)
  PROVE  FacadeInv'
<1> USE DEF CoreInv, FacadeInv
<1> DEFINE a == req[c].action
<1>1. pc[c] = "creating" /\ req[c] \in Requests /\ Alone(c)
  <2>1. pc[c] = "creating"
    BY DEF Suspend
  <2>2. Alone(c)
    BY <2>1, AloneInside
  <2>3. QED
    BY <2>1, <2>2 DEF InFlightInv, InFlight, TypeOK
<1>2. /\ a \in Actions /\ asked[a] # None /\ req[c].approval \notin Decided
      /\ RowFor(req[c]) /\ ~store[req[c].approval].used
  BY <1>1 DEF OriginInv, InFlightInv, InFlight, Requests
<1>3. [payload |-> req[c].payload, approval |-> req[c].approval] \in PendingExecution
  BY <1>1, <1>2 DEF Requests, PendingExecution, RowFor
<1>4. [payload |-> req[c].payload, approval |-> req[c].approval] # None
  BY <1>3, NoneAssumption
<1>5. /\ pending' = [pending EXCEPT ![a] = [payload |-> req[c].payload, approval |-> req[c].approval]]
      /\ manager' = manager \cup {a}
      /\ UNCHANGED <<store, granted, rejected, session, asked>>
      /\ \A d \in Calls : pc'[d] = "idle"
  <2>1. \A d \in Calls : pc'[d] = "idle"
    BY <1>1, ReleaseIsExclusive DEF Suspend
  <2>2. QED
    BY <2>1 DEF Suspend
<1>6. PendingIsResumable'
  BY <1>2, <1>4, <1>5 DEF PendingIsResumable, TypeOK, RowFor
<1>7. HeldInv' /\ DecidedInv'
  BY <1>2, <1>5 DEF HeldInv, DecidedInv, Decided, TypeOK
<1>8. OriginInv'
  BY <1>5 DEF OriginInv
<1>9. QED
  BY <1>6, <1>7, <1>8

\* Rejecting a suspended call removes it from both maps.
LEMMA RejectFacade ==
  ASSUME CoreInv, FacadeInv, NEW a \in Actions, Reject(a)
  PROVE  FacadeInv'
<1> USE DEF CoreInv, FacadeInv
<1> DEFINE q == pending[a].approval
<1>1. /\ pending[a] # None /\ q \in Approvals /\ q \notin Decided
      /\ store[q] # None /\ ~store[q].used /\ store[q].action = a
  BY DEF Reject, TypeOK, PendingExecution, PendingIsResumable, HeldInv
<1>2. /\ pending' = [pending EXCEPT ![a] = None] /\ manager' = manager \ {a}
      /\ rejected' = rejected \cup {q}
      /\ UNCHANGED <<pc, req, store, session, asked, granted>>
  BY <1>1 DEF Reject, engine, memory
<1>3. \A b \in Actions : pending'[b] # None =>
         /\ b # a /\ pending'[b] = pending[b] /\ pending[b].approval \in Approvals
         /\ pending[b].approval # q
  BY <1>1, <1>2 DEF TypeOK, PendingIsResumable, PendingExecution
<1>4. PendingIsResumable' /\ HeldInv'
  BY <1>2, <1>3 DEF PendingIsResumable, HeldInv, Decided, TypeOK
<1>5. DecidedInv'
  BY <1>1, <1>2 DEF DecidedInv, Decided
<1>6. OriginInv'
  <2> SUFFICES ASSUME NEW d \in Calls, pc[d] = "creating"
               PROVE  pending'[req[d].action] = None /\ req[d].approval # q
    BY <1>2 DEF OriginInv, Decided
  <2>1. /\ pending[req[d].action] = None /\ req[d].action \in Actions
        /\ store[req[d].approval].action = req[d].action
    BY DEF OriginInv, InFlightInv, InFlight, RowFor, TypeOK, Requests
  <2>2. QED
    BY <1>1, <1>2, <2>1 DEF TypeOK
<1>7. QED
  BY <1>4, <1>5, <1>6

\* Every step behind the facade keeps the facade's invariant.
LEMMA FacadeStep == CoreInv /\ FacadeInv /\ [Next]_vars => FacadeInv'
<1> SUFFICES ASSUME CoreInv, FacadeInv, [Next]_vars
             PROVE  FacadeInv'
  OBVIOUS
<1>1. TypeOK
  BY DEF CoreInv
<1>2. ASSUME NEW a \in Actions, Cancel(a)
      PROVE  FacadeInv'
  BY <1>1, <1>2, UndecidedStep DEF Cancel, decisions
<1>3. ASSUME NEW c \in Calls, Proceed(c)
      PROVE  FacadeInv'
  <2>1. store' = store /\ \A d \in Calls : pc'[d] # "idle" =>
          \/ pc'[d] = pc[d] /\ req'[d] = req[d]
          \/ pc'[d] = "running" /\ pc[d] = "consumed" /\ req'[d] = req[d]
    BY <1>1, <1>3 DEF Proceed, Launch, Hold, Release, TypeOK
  <2>2. QED
    BY <1>1, <1>3, <2>1, UndecidedStep DEF Proceed, decisions
<1>4. ASSUME NEW c \in Calls, NEW returned \in BOOLEAN, Finish(c, returned)
      PROVE  FacadeInv'
  <2>1. \A d \in Calls : pc'[d] # "idle" => pc'[d] = pc[d] /\ req'[d] = req[d]
    BY <1>1, <1>4 DEF Finish, Release, TypeOK
  <2>2. QED
    BY <1>1, <1>4, <2>1, UndecidedStep DEF Finish, decisions
<1>5. ASSUME NEW ap \in Approvals, ApprovalExpires(ap)
      PROVE  FacadeInv'
  <2>1. store[ap] \in Rows /\ [store[ap] EXCEPT !.expired = TRUE] \in Rows
    BY <1>1, <1>5 DEF ApprovalExpires, IsActive, TypeOK, Rows
  <2>2. [store[ap] EXCEPT !.expired = TRUE] # None
    BY <2>1, NoneAssumption
  <2>3. \A x \in Approvals : store[x] # None =>
          /\ store'[x] # None /\ store'[x].used = store[x].used
          /\ store'[x].session = store[x].session
          /\ store'[x].action = store[x].action /\ store'[x].payload = store[x].payload
    BY <1>1, <1>5, <2>1, <2>2 DEF ApprovalExpires, TypeOK, Rows
  <2>4. QED
    BY <1>1, <1>5, <2>3, UndecidedStep DEF ApprovalExpires, memory, decisions
<1>6. CASE Restart
  <2>1. /\ \A a \in Actions : pending'[a] = None
        /\ \A c \in Calls : pc'[c] = "idle"
        /\ manager' = {} /\ UNCHANGED <<granted, rejected, store>>
    BY <1>6 DEF Restart
  <2>2. QED
    BY <2>1 DEF FacadeInv, PendingIsResumable, HeldInv, DecidedInv, OriginInv, Decided
<1>7. CASE UNCHANGED vars
  BY <1>1, <1>7, UndecidedStep DEF vars, memory
<1>8. QED
  BY <1>2, <1>3, <1>4, <1>5, <1>6, <1>7, ExecuteToolFacade, ApproveFacade, SuspendFacade,
     RejectFacade DEF Next

\* Behind the facade, which draws a fresh id for every call, the core invariant and
\* the facts about decided approvals hold together.
THEOREM FacadeInvariant == Spec => [](CoreInv /\ FacadeInv)
<1>1. Init => CoreInv /\ FacadeInv
  BY CoreInit, FacadeInit
<1>2. CoreInv /\ FacadeInv /\ [Next]_vars => (CoreInv /\ FacadeInv)'
  BY CoreStep, FacadeStep DEF DirectNext
<1>3. QED
  BY <1>1, <1>2, PTL DEF Spec

\* Behind the facade a yellow tool runs only under an approval that a human granted
\* and did not reject.
THEOREM HumanGranted == Spec => []RunningWasGranted
<1>1. CoreInv /\ FacadeInv => RunningWasGranted
  BY DEF FacadeInv, OriginInv, DecidedInv, RunningWasGranted, Running
<1>2. QED
  BY <1>1, FacadeInvariant, PTL

\* Whatever is suspended can be resumed: both maps agree, and lead to an unused row
\* of this process made for that action and input.
THEOREM SuspendedIsResumable == Spec => []PendingIsResumable
<1>1. FacadeInv => PendingIsResumable
  BY DEF FacadeInv
<1>2. QED
  BY <1>1, FacadeInvariant, PTL

-----------------------------------------------------------------------------
(* The promise of ApprovalGate, kept behind the facade *)

\* An action has one approval row, made after the action was asked for.
OneRowInv ==
  /\ \A ap \in Approvals : store[ap] # None => asked[store[ap].action] # None
  /\ \A ap, aq \in Approvals :
       store[ap] # None /\ store[aq] # None /\ store[ap].action = store[aq].action => ap = aq

\* A tool started only for an action that was asked for and is not suspended.
StartInv ==
  \A a \in Actions : asked[a] = None \/ pending[a] # None => starts[a] = 0

\* How often the tool of an invocation's action was started, by where it stands.
PlaceInv ==
  \A c \in Calls :
    /\ pc[c] \in {"creating", "consumed"} => starts[req[c].action] = 0
    /\ pc[c] = "running" => starts[req[c].action] > 0

GateInv == CoreInv /\ FacadeInv /\ OneRowInv /\ StartInv /\ PlaceInv


\* The rows that exist stay, for the action they were made for, and none is added.
SameRows ==
  \A ap \in Approvals :
    /\ store'[ap] # None <=> store[ap] # None
    /\ store[ap] # None => store'[ap].action = store[ap].action

\* The clock makes no row and changes no row's action.
LEMMA ExpiryKeepsRows ==
  ASSUME TypeOK, NEW ap \in Approvals, ApprovalExpires(ap)
  PROVE  SameRows
<1>1. store[ap] \in Rows /\ [store[ap] EXCEPT !.expired = TRUE] \in Rows
  BY DEF ApprovalExpires, IsActive, TypeOK, Rows
<1>2. /\ [store[ap] EXCEPT !.expired = TRUE] # None
      /\ [store[ap] EXCEPT !.expired = TRUE].action = store[ap].action
  BY <1>1, NoneAssumption DEF Rows
<1>3. QED
  BY <1>1, <1>2, NoneAssumption DEF ApprovalExpires, SameRows, TypeOK

\* Every invocation inside the lock stays where it is.
SameCalls == \A d \in Calls : pc'[d] = pc[d] /\ (pc[d] # "idle" => req'[d] = req[d])

\* What launching a request does, when nobody else is inside the lock, to the rows,
\* the invocations and the number of starts.
LEMMA LaunchEffect ==
  ASSUME TypeOK, NEW c \in Calls, Alone(c), NEW r \in Requests, NEW events,
         Launch(c, r, events)
  PROVE  /\ store' = store
         /\ \A d \in Calls : d # c => pc'[d] = "idle"
         /\ \/ starts' = starts /\ pc'[c] = "idle"
            \/ /\ pc'[c] = "running" /\ req'[c] = r
               /\ starts' = [starts EXCEPT ![r.action] = @ + 1]
<1>1. CASE Release(c) /\ UNCHANGED <<store, history>>
  BY <1>1 DEF Release, history, Alone, TypeOK
<1>2. CASE /\ Hold(c, r, "running") /\ UNCHANGED store
           /\ starts' = [starts EXCEPT ![r.action] = @ + 1]
  BY <1>2 DEF Hold, Alone, TypeOK
<1>3. QED
  BY <1>1, <1>2 DEF Launch

\* What a new tool call finds under its fresh id, and what it does: it changes
\* nothing there, or makes a row and waits for it, or starts a green tool.
LEMMA ExecuteToolEffect ==
  ASSUME GateInv, NEW c \in Calls, NEW a \in Actions, NEW p \in Payloads,
         ExecuteTool(c, a, p)
  PROVE  /\ asked[a] = None /\ asked' = [asked EXCEPT ![a] = p] /\ p # None
         /\ pending[a] = None /\ starts[a] = 0
         /\ \A ap \in Approvals : store[ap] # None => store[ap].action # a
         /\ UNCHANGED <<pending, granted, rejected>>
         /\ \/ SameRows /\ SameCalls /\ starts' = starts
            \/ /\ Risk(p) = "yellow" /\ starts' = starts
               /\ \A d \in Calls : pc[d] = "idle" /\ (d # c => pc'[d] = "idle")
               /\ pc'[c] = "creating" /\ req'[c].action = a
               /\ \E ap \in Approvals :
                    /\ store[ap] = None /\ store'[ap] # None /\ store'[ap].action = a
                    /\ \A x \in Approvals : x # ap => store'[x] = store[x]
            \/ /\ Risk(p) = "green" /\ store' = store
               /\ \A d \in Calls : pc[d] = "idle" /\ (d # c => pc'[d] = "idle")
               /\ pc'[c] = "running" /\ req'[c].action = a
               /\ starts' = [starts EXCEPT ![a] = @ + 1]
<1> DEFINE r == [action |-> a, payload |-> p, approval |-> None]
<1>1. r \in Requests /\ r.action = a /\ r.payload = p /\ r.approval = None
  BY DEF Requests
<1>2. /\ asked[a] = None /\ asked' = [asked EXCEPT ![a] = p] /\ p # None
      /\ UNCHANGED <<pending, granted, rejected>>
      /\ Execute(c, r) /\ pc[c] = "idle"
  BY NoneAssumption DEF ExecuteTool, decisions, Execute
<1>3. /\ pending[a] = None /\ starts[a] = 0
      /\ \A ap \in Approvals : store[ap] # None => store[ap].action # a
  BY <1>2 DEF GateInv, FacadeInv, HeldInv, OneRowInv, StartInv
<1>4. ASSUME ~active
      PROVE  \A d \in Calls : pc[d] = "idle"
  BY <1>4 DEF GateInv, CoreInv, LockIsExclusive
<1>5. CASE UNCHANGED <<pc, req, store, starts>>
  BY <1>2, <1>3, <1>5 DEF SameRows, SameCalls
<1>6. CASE Launch(c, r, {}) /\ ~active /\ Decision(p, HasValidApproval(r)) = "allow"
  <2>1. /\ store' = store
        /\ \A d \in Calls : d # c => pc'[d] = "idle"
        /\ \/ starts' = starts /\ pc'[c] = "idle"
           \/ /\ pc'[c] = "running" /\ req'[c] = r
              /\ starts' = [starts EXCEPT ![a] = @ + 1]
    BY <1>1, <1>4, <1>6, LaunchEffect DEF Alone, GateInv, CoreInv
  <2>2. Risk(p) = "green"
    BY <1>1, <1>6 DEF Decision, HasValidApproval
  <2>3. QED
    BY <1>1, <1>2, <1>3, <1>4, <1>6, <2>1, <2>2 DEF SameRows, SameCalls
<1>7. CASE /\ RequestApproval(c, r) /\ ~active
           /\ Decision(p, HasValidApproval(r)) = "approval_required"
  <2>1. ASSUME NEW ap \in Approvals, store[ap] = None,
               store' = [store EXCEPT ![ap] =
                 [action |-> a, payload |-> p, session |-> session,
                  used |-> FALSE, expired |-> FALSE]],
               Hold(c, [r EXCEPT !.approval = ap], "creating"), starts' = starts
        PROVE  /\ Risk(p) = "yellow" /\ starts' = starts
               /\ \A d \in Calls : pc[d] = "idle" /\ (d # c => pc'[d] = "idle")
               /\ pc'[c] = "creating" /\ req'[c].action = a
               /\ \E x \in Approvals :
                    /\ store[x] = None /\ store'[x] # None /\ store'[x].action = a
                    /\ \A y \in Approvals : y # x => store'[y] = store[y]
    <3>1. [action |-> a, payload |-> p, session |-> session, used |-> FALSE,
           expired |-> FALSE] \in Rows
      BY BoundAssumption DEF Rows, GateInv, CoreInv, TypeOK
    <3>2. /\ store'[ap] # None /\ store'[ap].action = a
          /\ \A y \in Approvals : y # ap => store'[y] = store[y]
      BY <2>1, <3>1, NoneAssumption DEF GateInv, CoreInv, TypeOK
    <3>3. /\ \A d \in Calls : pc[d] = "idle" /\ (d # c => pc'[d] = "idle")
          /\ pc'[c] = "creating" /\ req'[c].action = a
      BY <1>4, <1>7, <2>1 DEF Hold, GateInv, CoreInv, TypeOK
    <3>4. Risk(p) = "yellow"
      BY <1>7 DEF Decision
    <3>5. QED
      BY <2>1, <3>2, <3>3, <3>4
  <2>2. QED
    BY <1>1, <1>2, <1>3, <1>5, <1>7, <2>1 DEF RequestApproval, engine, memory, history
<1>8. QED
  BY <1>1, <1>2, <1>5, <1>6, <1>7
     DEF Execute, Throw, engine, memory, history, LockFree


\* What granting a suspended call does: its decision is recorded, the call is no
\* longer suspended, and it waits for its approval to be consumed or is over.
LEMMA ApproveEffect ==
  ASSUME GateInv, NEW c \in Calls, NEW a \in Actions, ApproveAndResume(c, a)
  PROVE  /\ pending[a] # None /\ pending[a].approval \in Approvals
         /\ pending[a].approval \notin Decided
         /\ store[pending[a].approval] # None /\ store[pending[a].approval].action = a
         /\ starts[a] = 0
         /\ pending' = [pending EXCEPT ![a] = None]
         /\ granted' = granted \cup {pending[a].approval}
         /\ UNCHANGED <<rejected, asked, starts>>
         /\ SameRows
         /\ \/ SameCalls
            \/ /\ \A d \in Calls : pc[d] = "idle" /\ (d # c => pc'[d] = "idle")
               /\ pc'[c] = "consumed" /\ req'[c].action = a
<1> DEFINE q == pending[a].approval
           r == [action |-> a, payload |-> pending[a].payload, approval |-> q]
<1>1. /\ pending[a] # None /\ q \in Approvals /\ q # None /\ q \notin Decided
      /\ store[q] # None /\ store[q].action = a
  BY NoneAssumption DEF ApproveAndResume, GateInv, CoreInv, FacadeInv, TypeOK,
     PendingExecution, PendingIsResumable, HeldInv
<1>2. starts[a] = 0
  BY <1>1 DEF GateInv, StartInv
<1>3. /\ pending' = [pending EXCEPT ![a] = None]
      /\ granted' = granted \cup {q} /\ UNCHANGED <<rejected, asked>>
      /\ Execute(c, r)
  BY DEF ApproveAndResume
<1>4. CASE UNCHANGED <<pc, req, store, starts>>
  BY <1>1, <1>2, <1>3, <1>4 DEF SameRows, SameCalls
<1>5. CASE ConsumeApproval(c, r) /\ ~active
  <2>1. store[q] \in Rows
    BY <1>1 DEF GateInv, CoreInv, TypeOK
  <2>2. ASSUME NEW row \in Rows, row.action = a, store' = [store EXCEPT ![q] = row]
        PROVE  SameRows
    BY <1>1, <2>2, NoneAssumption DEF SameRows, GateInv, CoreInv, TypeOK
  <2>3. /\ [store[q] EXCEPT !.used = TRUE] \in Rows
        /\ [store[q] EXCEPT !.used = TRUE].action = a
        /\ [store[q] EXCEPT !.expired = TRUE] \in Rows
        /\ [store[q] EXCEPT !.expired = TRUE].action = a
    BY <1>1, <2>1 DEF Rows
  <2>4. CASE /\ store' = [store EXCEPT ![q].used = TRUE]
             /\ Hold(c, r, "consumed") /\ starts' = starts
    <3>1. SameRows
      BY <2>2, <2>3, <2>4
    <3>2. /\ \A d \in Calls : pc[d] = "idle" /\ (d # c => pc'[d] = "idle")
          /\ pc'[c] = "consumed" /\ req'[c].action = a
      BY <1>5, <2>4 DEF Hold, GateInv, CoreInv, LockIsExclusive, TypeOK
    <3>3. QED
      BY <1>1, <1>2, <1>3, <2>4, <3>1, <3>2
  <2>5. CASE store' = [store EXCEPT ![q].expired = TRUE] /\ UNCHANGED <<pc, req, starts>>
    <3>1. SameRows
      BY <2>2, <2>3, <2>5
    <3>2. QED
      BY <1>1, <1>2, <1>3, <2>5, <3>1 DEF SameCalls
  <2>6. QED
    BY <1>5, <2>4, <2>5 DEF ConsumeApproval, memory, history
<1>6. r.approval # None /\ (HasValidApproval(r) => Decision(r.payload, TRUE) # "approval_required")
  BY <1>1 DEF Decision
<1>7. QED
  BY <1>3, <1>4, <1>5, <1>6 DEF Execute, Throw, engine, memory, history, LockFree

\* What suspending a call does: the invocation ends, and the call, so far not started, is
\* the only thing that changes.
LEMMA SuspendEffect ==
  ASSUME GateInv, NEW c \in Calls, Suspend(c)
  PROVE  \E a \in Actions, e \in PendingExecution :
           /\ pc[c] = "creating" /\ req[c].action = a /\ Alone(c)
           /\ asked[a] # None /\ starts[a] = 0
           /\ pending' = [pending EXCEPT ![a] = e]
           /\ UNCHANGED <<store, asked, starts, session>>
           /\ \A d \in Calls : pc'[d] = "idle"
<1> DEFINE a == req[c].action
           e == [payload |-> req[c].payload, approval |-> req[c].approval]
<1>1. /\ pc[c] = "creating" /\ req[c] \in Requests /\ RowFor(req[c])
      /\ asked[a] # None /\ starts[a] = 0 /\ Alone(c)
  <2>1. pc[c] = "creating"
    BY DEF Suspend
  <2>2. Alone(c)
    BY <2>1, AloneInside DEF GateInv, CoreInv
  <2>3. QED
    BY <2>1, <2>2 DEF GateInv, CoreInv, FacadeInv, TypeOK, InFlightInv, InFlight,
       OriginInv, PlaceInv
<1>2. a \in Actions /\ e \in PendingExecution
  BY <1>1 DEF Requests, PendingExecution, RowFor
<1>3. /\ pending' = [pending EXCEPT ![a] = e]
      /\ UNCHANGED <<store, asked, starts, session>>
      /\ Release(c)
  BY DEF Suspend, history
<1>4. \A d \in Calls : pc'[d] = "idle"
  BY <1>1, <1>3, ReleaseIsExclusive DEF GateInv, CoreInv
<1>5. QED
  BY <1>1, <1>2, <1>3, <1>4

\* What the end of an `await` does after the approval was consumed: the tool of the
\* action, not started before, starts, or the invocation is over.
LEMMA ProceedEffect ==
  ASSUME GateInv, NEW c \in Calls, Proceed(c)
  PROVE  \E a \in Actions :
           /\ pc[c] = "consumed" /\ req[c].action = a /\ Alone(c)
           /\ asked[a] # None /\ pending[a] = None /\ starts[a] = 0
           /\ UNCHANGED <<pending, store, asked, session>>
           /\ \A d \in Calls : d # c => pc'[d] = "idle"
           /\ \/ starts' = starts /\ pc'[c] = "idle"
              \/ /\ pc'[c] = "running" /\ req'[c].action = a
                 /\ starts' = [starts EXCEPT ![a] = @ + 1]
<1> DEFINE a == req[c].action
<1>1. /\ pc[c] = "consumed" /\ req[c] \in Requests /\ RowFor(req[c])
      /\ store[req[c].approval].used /\ req[c].approval \in granted
      /\ asked[a] # None /\ starts[a] = 0 /\ Alone(c)
  <2>1. pc[c] = "consumed"
    BY DEF Proceed
  <2>2. Alone(c)
    BY <2>1, AloneInside DEF GateInv, CoreInv
  <2>3. QED
    BY <2>1, <2>2 DEF GateInv, CoreInv, FacadeInv, TypeOK, InFlightInv, InFlight,
       OriginInv, PlaceInv
<1>2. a \in Actions /\ req[c].approval \in Approvals
  BY <1>1 DEF Requests, RowFor
<1>3. pending[a] = None
  BY <1>1, <1>2 DEF RowFor, GateInv, FacadeInv, HeldInv, PendingIsResumable, OneRowInv,
     CoreInv, TypeOK, PendingExecution, Decided
<1>4. UNCHANGED <<pending, asked, session>>
  BY DEF Proceed, decisions
<1>5. Launch(c, req[c], {"approval_consumed"})
  BY DEF Proceed
<1>6. /\ store' = store
      /\ \A d \in Calls : d # c => pc'[d] = "idle"
      /\ \/ starts' = starts /\ pc'[c] = "idle"
         \/ /\ pc'[c] = "running" /\ req'[c] = req[c]
            /\ starts' = [starts EXCEPT ![a] = @ + 1]
  BY <1>1, <1>5, LaunchEffect DEF GateInv, CoreInv
<1>7. QED
  BY <1>1, <1>2, <1>3, <1>4, <1>6


\* What GateInv adds to the two invariants it rests on.
StandInv == OneRowInv /\ StartInv /\ PlaceInv

\* Steps that start no tool and make no row, and let invocations only stay, end, or
\* go on with the approval of a call that was not started.
LEMMA NothingStarts ==
  ASSUME GateInv, SameRows, UNCHANGED <<asked, starts>>,
         \A a \in Actions : pending'[a] # None => starts[a] = 0,
         \A d \in Calls : pc'[d] # "idle" =>
           \/ pc'[d] = pc[d] /\ req'[d] = req[d]
           \/ pc'[d] = "consumed" /\ starts[req'[d].action] = 0
  PROVE  StandInv'
<1>1. OneRowInv'
  BY DEF SameRows, OneRowInv, GateInv
<1>2. StartInv'
  BY DEF StartInv, GateInv
<1>3. PlaceInv'
  BY DEF PlaceInv, GateInv
<1>4. QED
  BY <1>1, <1>2, <1>3 DEF StandInv

\* A new tool call keeps one row per action and the places of the invocations.
LEMMA ExecuteToolStands ==
  ASSUME GateInv, NEW c \in Calls, NEW a \in Actions, NEW p \in Payloads,
         ExecuteTool(c, a, p)
  PROVE  StandInv'
<1>1. /\ asked[a] = None /\ asked' = [asked EXCEPT ![a] = p] /\ p # None
      /\ pending[a] = None /\ starts[a] = 0
      /\ \A ap \in Approvals : store[ap] # None => store[ap].action # a
      /\ pending' = pending
  BY ExecuteToolEffect
<1>2. /\ asked'[a] = p /\ \A b \in Actions : asked[b] # None => asked'[b] = asked[b]
      /\ TypeOK
  BY <1>1 DEF GateInv, CoreInv, TypeOK
<1>3. CASE SameRows /\ SameCalls /\ starts' = starts
  <2>1. OneRowInv'
    <3>1. \A ap \in Approvals : store[ap] # None => store[ap].action \in Actions
      BY NoneAssumption DEF GateInv, CoreInv, TypeOK, Rows
    <3>2. QED
      BY <1>2, <1>3, <3>1 DEF SameRows, OneRowInv, GateInv
  <2>2. StartInv'
    BY <1>1, <1>2, <1>3 DEF StartInv, GateInv
  <2>3. PlaceInv'
    <3>1. \A d \in Calls : pc[d] # "idle" => req[d].action \in Actions /\ asked[req[d].action] # None
      BY DEF GateInv, CoreInv, FacadeInv, InFlightInv, InFlight, OriginInv, TypeOK, Requests
    <3>2. QED
      BY <1>2, <1>3, <3>1 DEF SameCalls, PlaceInv, GateInv
  <2>4. QED
    BY <2>1, <2>2, <2>3 DEF StandInv
<1>4. ASSUME Risk(p) = "yellow", starts' = starts,
             \A d \in Calls : d # c => pc'[d] = "idle",
             pc'[c] = "creating", req'[c].action = a,
             NEW ap \in Approvals, store[ap] = None, store'[ap] # None, store'[ap].action = a,
             \A x \in Approvals : x # ap => store'[x] = store[x]
      PROVE  StandInv'
  <2>1. OneRowInv'
    <3>1. \A x \in Approvals : store[x] # None => store[x].action \in Actions
      BY NoneAssumption DEF GateInv, CoreInv, TypeOK, Rows
    <3>2. QED
      BY <1>1, <1>2, <1>4, <3>1 DEF OneRowInv, GateInv
  <2>2. StartInv'
    BY <1>1, <1>2, <1>4 DEF StartInv, GateInv
  <2>3. PlaceInv'
    BY <1>1, <1>2, <1>4 DEF PlaceInv
  <2>4. QED
    BY <2>1, <2>2, <2>3 DEF StandInv
<1>5. CASE /\ Risk(p) = "green" /\ store' = store
           /\ \A d \in Calls : pc[d] = "idle" /\ (d # c => pc'[d] = "idle")
           /\ pc'[c] = "running" /\ req'[c].action = a
           /\ starts' = [starts EXCEPT ![a] = @ + 1]
  <2>1. OneRowInv'
    <3>1. \A x \in Approvals : store[x] # None => store[x].action \in Actions
      BY NoneAssumption DEF GateInv, CoreInv, TypeOK, Rows
    <3>2. QED
      BY <1>2, <1>5, <3>1 DEF OneRowInv, GateInv
  <2>2. starts'[a] = 1 /\ \A b \in Actions : b # a => starts'[b] = starts[b]
    BY <1>1, <1>2, <1>5 DEF TypeOK
  <2>3. StartInv'
    BY <1>1, <1>2, <2>2 DEF StartInv, GateInv
  <2>4. PlaceInv'
    BY <1>5, <2>2 DEF PlaceInv
  <2>5. QED
    BY <2>1, <2>3, <2>4 DEF StandInv
<1>6. QED
  BY <1>3, <1>4, <1>5, ExecuteToolEffect

\* Every step behind the facade keeps what the mapping to ApprovalGate relies on.
LEMMA GateInvStep == GateInv /\ [Next]_vars => GateInv'
<1> SUFFICES ASSUME GateInv, [Next]_vars
             PROVE  StandInv'
  BY CoreStep, FacadeStep DEF GateInv, StandInv, DirectNext
<1>0. \A a \in Actions : pending[a] # None => starts[a] = 0
  BY DEF GateInv, StartInv
<1>1. ASSUME NEW c \in Calls, NEW a \in Actions, NEW p \in Payloads, ExecuteTool(c, a, p)
      PROVE  StandInv'
  BY <1>1, ExecuteToolStands
<1>2. ASSUME NEW c \in Calls, NEW a \in Actions, ApproveAndResume(c, a)
      PROVE  StandInv'
  <2>1. /\ starts[a] = 0 /\ pending' = [pending EXCEPT ![a] = None]
        /\ UNCHANGED <<asked, starts>> /\ SameRows
        /\ \/ SameCalls
           \/ /\ \A d \in Calls : d # c => pc'[d] = "idle"
              /\ pc'[c] = "consumed" /\ req'[c].action = a
    BY <1>2, ApproveEffect
  <2>2. \A b \in Actions : pending'[b] # None => starts[b] = 0
    BY <1>0, <2>1 DEF GateInv, CoreInv, TypeOK
  <2>3. \A d \in Calls : pc'[d] # "idle" =>
          \/ pc'[d] = pc[d] /\ req'[d] = req[d]
          \/ pc'[d] = "consumed" /\ starts[req'[d].action] = 0
    BY <2>1 DEF SameCalls
  <2>4. QED
    BY <2>1, <2>2, <2>3, NothingStarts
<1>3. ASSUME NEW a \in Actions, Reject(a)
      PROVE  StandInv'
  <2>1. /\ UNCHANGED <<pc, req, asked, starts, store>>
        /\ pending' = [pending EXCEPT ![a] = None]
    BY <1>3 DEF Reject, engine, memory, history
  <2>2. \A b \in Actions : pending'[b] # None => starts[b] = 0
    BY <1>0, <2>1 DEF GateInv, CoreInv, TypeOK
  <2>3. QED
    BY <2>1, <2>2, NothingStarts DEF SameRows
<1>4. ASSUME NEW a \in Actions, Cancel(a)
      PROVE  StandInv'
  BY <1>0, <1>4, NothingStarts DEF Cancel, SameRows, history, decisions
<1>5. ASSUME NEW c \in Calls, Suspend(c)
      PROVE  StandInv'
  <2>1. PICK a \in Actions, e \in PendingExecution :
           /\ starts[a] = 0 /\ pending' = [pending EXCEPT ![a] = e]
           /\ UNCHANGED <<store, asked, starts>>
           /\ \A d \in Calls : pc'[d] = "idle"
    BY <1>5, SuspendEffect
  <2>2. \A b \in Actions : pending'[b] # None => starts[b] = 0
    BY <1>0, <2>1 DEF GateInv, CoreInv, TypeOK
  <2>3. QED
    BY <2>1, <2>2, NothingStarts DEF SameRows
<1>6. ASSUME NEW c \in Calls, Proceed(c)
      PROVE  StandInv'
  <2>1. PICK a \in Actions :
           /\ pending[a] = None /\ starts[a] = 0 /\ asked[a] # None
           /\ UNCHANGED <<pending, store, asked>>
           /\ \A d \in Calls : d # c => pc'[d] = "idle"
           /\ \/ starts' = starts /\ pc'[c] = "idle"
              \/ /\ pc'[c] = "running" /\ req'[c].action = a
                 /\ starts' = [starts EXCEPT ![a] = @ + 1]
    BY <1>6, ProceedEffect
  <2>2. CASE starts' = starts /\ pc'[c] = "idle"
    BY <1>0, <2>1, <2>2, NothingStarts DEF SameRows
  <2>3. CASE /\ pc'[c] = "running" /\ req'[c].action = a
             /\ starts' = [starts EXCEPT ![a] = @ + 1]
    <3>1. starts'[a] = 1 /\ \A b \in Actions : b # a => starts'[b] = starts[b]
      BY <2>1, <2>3 DEF GateInv, CoreInv, TypeOK
    <3>2. OneRowInv' /\ StartInv' /\ PlaceInv'
      BY <2>1, <2>3, <3>1 DEF GateInv, OneRowInv, StartInv, PlaceInv
    <3>3. QED
      BY <3>2 DEF StandInv
  <2>4. QED
    BY <2>1, <2>2, <2>3
<1>7. ASSUME NEW c \in Calls, NEW returned \in BOOLEAN, Finish(c, returned)
      PROVE  StandInv'
  <2>1. \A d \in Calls : pc'[d] # "idle" => pc'[d] = pc[d] /\ req'[d] = req[d]
    BY <1>7 DEF Finish, Release, GateInv, CoreInv, TypeOK
  <2>2. QED
    BY <1>0, <1>7, <2>1, NothingStarts DEF Finish, SameRows, history, decisions
<1>8. ASSUME NEW ap \in Approvals, ApprovalExpires(ap)
      PROVE  StandInv'
  <2>1. SameRows
    BY <1>8, ExpiryKeepsRows DEF GateInv, CoreInv
  <2>2. QED
    BY <1>0, <1>8, <2>1, NothingStarts DEF ApprovalExpires, memory, history, decisions
<1>9. CASE Restart
  BY <1>9, NothingStarts DEF Restart, SameRows, history
<1>10. CASE UNCHANGED vars
  BY <1>0, <1>10, NothingStarts DEF vars, memory, history, SameRows
<1>11. QED
  BY <1>1, <1>2, <1>3, <1>4, <1>5, <1>6, <1>7, <1>8, <1>9, <1>10 DEF Next


\* The awaits at which an invocation stands inside the lock.
Awaits == {"creating", "consumed", "running"}

\* Where each action stands, case by case; it is new until it is asked for.
GateCase(a) ==
  /\ At(a, "running") => GateOf(a) = "running"
  /\ At(a, "consumed") => GateOf(a) = "granted"
  /\ At(a, "creating") => GateOf(a) = "asked"
  /\ pending[a] # None => GateOf(a) = "held"
  /\ pending[a] = None /\ (\A w \in Awaits : ~At(a, w)) /\ asked[a] # None => GateOf(a) = "over"
  /\ asked[a] = None <=> GateOf(a) = "new"

GateTable == \A a \in Actions : GateCase(a)

\* The cases of GateOf do not overlap, so each one tells where an action stands; and what
\* was consumed was granted and not rejected.
LEMMA GateCases == GateInv => GateTable
<1> SUFFICES ASSUME GateInv, NEW a \in Actions
             PROVE  GateCase(a)
  BY DEF GateTable
<1>1. At(a, "consumed") <=> Approved(a)
  BY DEF At, Approved, GateInv, CoreInv, FacadeInv, InFlightInv, InFlight, RowFor,
     OriginInv, DecidedInv, TypeOK, Requests
<1>2. \A v, w \in Awaits : At(a, v) /\ At(a, w) => v = w
  BY DEF At, Awaits, GateInv, CoreInv, LockIsExclusive
<1>3. pending[a] # None => asked[a] # None /\ \A w \in Awaits : ~At(a, w)
  <2> SUFFICES ASSUME pending[a] # None
               PROVE  asked[a] # None /\ \A w \in Awaits : ~At(a, w)
    OBVIOUS
  <2>1. asked[a] # None /\ ~At(a, "creating")
    BY DEF At, GateInv, FacadeInv, HeldInv, OriginInv
  <2>2. ~At(a, "running")
    BY DEF At, GateInv, StartInv, PlaceInv
  <2>3. ~At(a, "consumed")
    <3>1. /\ pending[a].approval \in Approvals /\ store[pending[a].approval] # None
          /\ ~store[pending[a].approval].used /\ store[pending[a].approval].action = a
      BY DEF GateInv, CoreInv, FacadeInv, TypeOK, PendingExecution, PendingIsResumable
    <3>2. ASSUME NEW c \in Calls, pc[c] = "consumed", req[c].action = a
          PROVE  FALSE
      <4>1. req[c] \in Requests /\ RowFor(req[c]) /\ store[req[c].approval].used
        BY <3>2 DEF GateInv, CoreInv, TypeOK, InFlightInv, InFlight
      <4>2. req[c].approval \in Approvals /\ req[c].approval = pending[a].approval
        BY <3>1, <3>2, <4>1 DEF Requests, RowFor, GateInv, OneRowInv
      <4>3. QED
        BY <3>1, <4>1, <4>2
    <3>3. QED
      BY <3>2 DEF At
  <2>4. QED
    BY <2>1, <2>2, <2>3 DEF Awaits
<1>4. \A w \in Awaits : At(a, w) => asked[a] # None
  BY DEF At, Awaits, GateInv, FacadeInv, OriginInv
<1>5. QED
  BY <1>1, <1>2, <1>3, <1>4 DEF GateCase, GateOf, Awaits

\* Both sides of a step.
LEMMA GateTables == ASSUME GateInv, GateInv' PROVE GateTable /\ GateTable'
BY GateCases, PTL

\* An action none of whose parts change stands where it stood.
LEMMA SameGate ==
  ASSUME GateTable, GateTable', NEW b \in Actions,
         \A w \in Awaits : At(b, w)' <=> At(b, w),
         pending'[b] = None <=> pending[b] = None, asked'[b] = asked[b]
  PROVE  GateOf(b)' = GateOf(b) /\ KindOf(b)' = KindOf(b)
<1>1. GateCase(b) /\ GateCase(b)'
  BY DEF GateTable
<1>2. GateOf(b)' = GateOf(b)
  BY <1>1 DEF GateCase, Awaits
<1>3. KindOf(b)' = KindOf(b)
  BY DEF KindOf
<1>4. QED
  BY <1>2, <1>3

\* A step that touches one action is a move of the gate.
LEMMA GateMoves ==
  ASSUME GateTable, GateTable', NEW a \in Actions, NEW from, NEW to,
         GateOf(a) = from, GateOf(a)' = to,
         \A b \in Actions : b # a =>
           /\ \A w \in Awaits : At(b, w)' <=> At(b, w)
           /\ pending'[b] = pending[b] /\ asked'[b] = asked[b]
  PROVE  Gate!Move(a, from, to)
<1>1. \A b \in Actions : b # a => GateOf(b)' = GateOf(b)
  BY SameGate
<1>2. QED
  BY <1>1 DEF Gate!Move

\* Invocations that stay leave every action at its await.
LEMMA SameAt == ASSUME SameCalls PROVE \A b \in Actions, w \in Awaits : At(b, w)' <=> At(b, w)
BY DEF SameCalls, At, Awaits

\* Where an invocation is alone inside the lock, before and after it moves, only its own
\* action is at an await, and at its await.
LEMMA LoneAt ==
  ASSUME NEW c \in Calls, NEW a \in Actions, Alone(c),
         pc[c] # "idle" => req[c].action = a,
         \A d \in Calls : d # c => pc'[d] = "idle",
         pc'[c] # "idle" => req'[c].action = a
  PROVE  /\ \A w \in Awaits : (At(a, w) <=> pc[c] = w) /\ (At(a, w)' <=> pc'[c] = w)
         /\ \A b \in Actions, w \in Awaits : b # a => ~At(b, w) /\ ~At(b, w)'
BY DEF Alone, At, Awaits

\* Nothing about any action changes.
GateStays == \A b \in Actions : GateOf(b)' = GateOf(b) /\ KindOf(b)' = KindOf(b)

\* A new tool call proposes its action to the gate: it is turned down, asked about if it is
\* yellow, or started if it is green.
LEMMA ExecuteToolProposes ==
  ASSUME GateInv, GateInv', NEW c \in Calls, NEW a \in Actions, NEW p \in Payloads,
         ExecuteTool(c, a, p)
  PROVE  Gate!Propose(a, Risk(p))
<1>1. /\ asked[a] = None /\ asked' = [asked EXCEPT ![a] = p] /\ p # None
      /\ pending[a] = None /\ pending' = pending
      /\ \/ SameCalls
         \/ /\ Risk(p) = "yellow"
            /\ \A d \in Calls : pc[d] = "idle" /\ (d # c => pc'[d] = "idle")
            /\ pc'[c] = "creating" /\ req'[c].action = a
         \/ /\ Risk(p) = "green"
            /\ \A d \in Calls : pc[d] = "idle" /\ (d # c => pc'[d] = "idle")
            /\ pc'[c] = "running" /\ req'[c].action = a
  BY ExecuteToolEffect
<1>2. /\ asked'[a] = p /\ \A b \in Actions : b # a => asked'[b] = asked[b]
      /\ session' = session
  BY <1>1 DEF GateInv, CoreInv, TypeOK, ExecuteTool
<1>3. GateTable /\ GateTable'
  BY GateTables
<1>4. GateOf(a) = "new"
  BY <1>1, <1>3 DEF GateTable, GateCase
<1>5. /\ KindOf(a) = "unknown" /\ KindOf(a)' = Risk(p)
      /\ \A b \in Actions : b # a => KindOf(b)' = KindOf(b)
  BY <1>1, <1>2 DEF KindOf
<1>6. ASSUME SameCalls
      PROVE  Gate!Move(a, "new", "over")
  <2>1. \A b \in Actions, w \in Awaits : At(b, w)' <=> At(b, w)
    BY <1>6, SameAt
  <2>2. \A w \in Awaits : ~At(a, w)
    BY <1>3, <1>4 DEF GateTable, GateCase, Awaits
  <2>3. GateOf(a)' = "over"
    BY <1>1, <1>2, <1>3, <2>1, <2>2 DEF GateTable, GateCase
  <2>4. QED
    BY <1>1, <1>2, <1>3, <1>4, <2>1, <2>3, GateMoves
<1>7. ASSUME NEW w \in Awaits, NEW to,
             (w = "creating" /\ to = "asked") \/ (w = "running" /\ to = "running"),
             \A d \in Calls : pc[d] = "idle" /\ (d # c => pc'[d] = "idle"),
             pc'[c] = w, req'[c].action = a
      PROVE  Gate!Move(a, "new", to)
  <2>1. /\ At(a, w)'
        /\ \A b \in Actions, v \in Awaits : b # a => ~At(b, v) /\ ~At(b, v)'
    BY <1>7, LoneAt DEF Alone, Awaits
  <2>2. GateOf(a)' = to
    BY <1>3, <1>7, <2>1 DEF GateTable, GateCase
  <2>3. QED
    BY <1>1, <1>2, <1>3, <1>4, <2>1, <2>2, GateMoves
<1>8. \/ Gate!Move(a, "new", "over")
      \/ Risk(p) = "yellow" /\ Gate!Move(a, "new", "asked")
      \/ Risk(p) = "green" /\ Gate!Move(a, "new", "running")
  <2>1. CASE SameCalls
    BY <1>6, <2>1
  <2>2. CASE /\ Risk(p) = "yellow"
             /\ \A d \in Calls : pc[d] = "idle" /\ (d # c => pc'[d] = "idle")
             /\ pc'[c] = "creating" /\ req'[c].action = a
    <3>1. Gate!Move(a, "new", "asked")
      BY <1>7, <2>2 DEF Awaits
    <3>2. QED
      BY <2>2, <3>1
  <2>3. CASE /\ Risk(p) = "green"
             /\ \A d \in Calls : pc[d] = "idle" /\ (d # c => pc'[d] = "idle")
             /\ pc'[c] = "running" /\ req'[c].action = a
    <3>1. Gate!Move(a, "new", "running")
      BY <1>7, <2>3 DEF Awaits
    <3>2. QED
      BY <2>3, <3>1
  <2>4. QED
    BY <1>1, <2>1, <2>2, <2>3
<1>9. QED
  BY <1>2, <1>5, <1>8 DEF Gate!Propose

\* Approving a suspended call grants its action, or ends it where the lock is taken or the
\* row has expired.
LEMMA ApproveGrants ==
  ASSUME GateInv, GateInv', NEW c \in Calls, NEW a \in Actions, ApproveAndResume(c, a)
  PROVE  Gate!Grant(a) \/ Gate!Close(a)
<1>1. /\ pending[a] # None /\ pending' = [pending EXCEPT ![a] = None] /\ UNCHANGED asked
      /\ \/ SameCalls
         \/ /\ \A d \in Calls : pc[d] = "idle" /\ (d # c => pc'[d] = "idle")
            /\ pc'[c] = "consumed" /\ req'[c].action = a
  BY ApproveEffect
<1>2. /\ pending'[a] = None /\ \A b \in Actions : b # a => pending'[b] = pending[b]
      /\ asked[a] # None /\ session' = session
  BY <1>1 DEF GateInv, CoreInv, TypeOK, FacadeInv, HeldInv, ApproveAndResume
<1>3. GateTable /\ GateTable'
  BY GateTables
<1>4. GateOf(a) = "held"
  BY <1>1, <1>3 DEF GateTable, GateCase
<1>5. UNCHANGED [x \in Actions |-> KindOf(x)]
  BY <1>1 DEF KindOf
<1>6. CASE SameCalls
  <2>1. \A b \in Actions, w \in Awaits : At(b, w)' <=> At(b, w)
    BY <1>6, SameAt
  <2>2. \A w \in Awaits : ~At(a, w)
    BY <1>3, <1>4 DEF GateTable, GateCase, Awaits
  <2>3. GateOf(a)' = "over"
    BY <1>1, <1>2, <1>3, <2>1, <2>2 DEF GateTable, GateCase
  <2>4. Gate!Move(a, "held", "over")
    BY <1>1, <1>2, <1>3, <1>4, <2>1, <2>3, GateMoves
  <2>5. QED
    BY <1>2, <1>5, <2>4 DEF Gate!Close
<1>7. CASE /\ \A d \in Calls : pc[d] = "idle" /\ (d # c => pc'[d] = "idle")
           /\ pc'[c] = "consumed" /\ req'[c].action = a
  <2>1. /\ At(a, "consumed")'
        /\ \A b \in Actions, w \in Awaits : b # a => ~At(b, w) /\ ~At(b, w)'
    BY <1>7, LoneAt DEF Alone, Awaits
  <2>2. GateOf(a)' = "granted"
    BY <1>3, <2>1 DEF GateTable, GateCase
  <2>3. Gate!Move(a, "held", "granted")
    BY <1>1, <1>2, <1>3, <1>4, <2>1, <2>2, GateMoves
  <2>4. QED
    BY <1>2, <1>5, <2>3 DEF Gate!Grant
<1>8. QED
  BY <1>1, <1>6, <1>7

\* Rejecting a suspended call ends its action.
LEMMA RejectCloses ==
  ASSUME GateInv, GateInv', NEW a \in Actions, Reject(a)
  PROVE  Gate!Close(a)
<1>1. /\ pending[a] # None /\ pending' = [pending EXCEPT ![a] = None]
      /\ UNCHANGED <<pc, req, asked, session>>
  BY DEF Reject, engine, memory, GateInv, FacadeInv, PendingIsResumable
<1>2. /\ pending'[a] = None /\ \A b \in Actions : b # a => pending'[b] = pending[b]
      /\ asked[a] # None
  BY <1>1 DEF GateInv, CoreInv, TypeOK, FacadeInv, HeldInv
<1>3. GateTable /\ GateTable'
  BY GateTables
<1>4. \A b \in Actions, w \in Awaits : At(b, w)' <=> At(b, w)
  BY <1>1, SameAt DEF SameCalls
<1>5. GateOf(a) = "held"
  BY <1>1, <1>3 DEF GateTable, GateCase
<1>6. GateOf(a)' = "over"
  <2>1. \A w \in Awaits : ~At(a, w)
    BY <1>3, <1>5 DEF GateTable, GateCase, Awaits
  <2>2. QED
    BY <1>1, <1>2, <1>3, <1>4, <2>1 DEF GateTable, GateCase
<1>7. Gate!Move(a, "held", "over")
  BY <1>1, <1>2, <1>3, <1>4, <1>5, <1>6, GateMoves
<1>8. UNCHANGED [x \in Actions |-> KindOf(x)]
  BY <1>1 DEF KindOf
<1>9. QED
  BY <1>1, <1>7, <1>8 DEF Gate!Close

\* Suspending a call moves its action from asked to held.
LEMMA SuspendAwaits ==
  ASSUME GateInv, GateInv', NEW c \in Calls, Suspend(c)
  PROVE  \E a \in Actions : Gate!Await(a)
<1>1. PICK a \in Actions, e \in PendingExecution :
         /\ pc[c] = "creating" /\ req[c].action = a /\ Alone(c)
         /\ pending' = [pending EXCEPT ![a] = e]
         /\ UNCHANGED <<asked, session>>
         /\ \A d \in Calls : pc'[d] = "idle"
  BY SuspendEffect
<1>2. pending'[a] # None /\ \A b \in Actions : b # a => pending'[b] = pending[b]
  BY <1>1, NoneAssumption DEF GateInv, CoreInv, TypeOK
<1>3. GateTable /\ GateTable'
  BY GateTables
<1>4. /\ At(a, "creating")
      /\ \A b \in Actions, w \in Awaits : b # a => ~At(b, w) /\ ~At(b, w)'
  BY <1>1, LoneAt DEF Awaits
<1>5. GateOf(a) = "asked" /\ GateOf(a)' = "held"
  BY <1>2, <1>3, <1>4 DEF GateTable, GateCase
<1>6. Gate!Move(a, "asked", "held")
  BY <1>1, <1>2, <1>3, <1>4, <1>5, GateMoves
<1>7. UNCHANGED [x \in Actions |-> KindOf(x)]
  BY <1>1 DEF KindOf
<1>8. QED
  BY <1>1, <1>6, <1>7 DEF Gate!Await

\* Once the approval is consumed the granted action runs, or is refused by the budget or
\* the input and is over.
LEMMA ProceedRuns ==
  ASSUME GateInv, GateInv', NEW c \in Calls, Proceed(c)
  PROVE  \E a \in Actions : Gate!Run(a) \/ Gate!Close(a)
<1>1. PICK a \in Actions :
         /\ pc[c] = "consumed" /\ req[c].action = a /\ Alone(c)
         /\ asked[a] # None /\ pending[a] = None
         /\ UNCHANGED <<pending, asked, session>>
         /\ \A d \in Calls : d # c => pc'[d] = "idle"
         /\ pc'[c] = "idle" \/ (pc'[c] = "running" /\ req'[c].action = a)
  BY ProceedEffect
<1>2. GateTable /\ GateTable'
  BY GateTables
<1>3. /\ \A w \in Awaits : (At(a, w) <=> pc[c] = w) /\ (At(a, w)' <=> pc'[c] = w)
      /\ \A b \in Actions, w \in Awaits : b # a => ~At(b, w) /\ ~At(b, w)'
  BY <1>1, LoneAt
<1>4. GateOf(a) = "granted"
  BY <1>1, <1>2, <1>3 DEF GateTable, GateCase, Awaits
<1>5. UNCHANGED [x \in Actions |-> KindOf(x)]
  BY <1>1 DEF KindOf
<1>6. CASE pc'[c] = "running"
  <2>1. GateOf(a)' = "running"
    BY <1>2, <1>3, <1>6 DEF GateTable, GateCase, Awaits
  <2>2. Gate!Move(a, "granted", "running")
    BY <1>1, <1>2, <1>3, <1>4, <2>1, GateMoves
  <2>3. QED
    BY <1>1, <1>5, <2>2 DEF Gate!Run
<1>7. CASE pc'[c] = "idle"
  <2>1. GateOf(a)' = "over"
    BY <1>1, <1>2, <1>3, <1>7 DEF GateTable, GateCase, Awaits
  <2>2. Gate!Move(a, "granted", "over")
    BY <1>1, <1>2, <1>3, <1>4, <2>1, GateMoves
  <2>3. QED
    BY <1>1, <1>5, <2>2 DEF Gate!Close
<1>8. QED
  BY <1>1, <1>6, <1>7

\* A tool that returns or throws ends its action.
LEMMA FinishCloses ==
  ASSUME GateInv, GateInv', NEW c \in Calls, NEW returned \in BOOLEAN, Finish(c, returned)
  PROVE  \E a \in Actions : Gate!Close(a)
<1>1. pc[c] = "running" /\ Release(c) /\ UNCHANGED <<pending, asked, session>>
  BY DEF Finish, decisions
<1>2. PICK a \in Actions : a = req[c].action
  BY <1>1 DEF GateInv, CoreInv, InFlightInv, InFlight, TypeOK, Requests
<1>3. Alone(c) /\ \A d \in Calls : pc'[d] = "idle"
  <2>1. Alone(c)
    BY <1>1, AloneInside DEF GateInv, CoreInv
  <2>2. QED
    BY <1>1, <2>1, ReleaseIsExclusive DEF GateInv, CoreInv
<1>4. GateTable /\ GateTable'
  BY GateTables
<1>5. /\ At(a, "running") /\ \A w \in Awaits : ~At(a, w)'
      /\ \A b \in Actions, w \in Awaits : b # a => ~At(b, w) /\ ~At(b, w)'
  BY <1>1, <1>2, <1>3, LoneAt DEF Awaits
<1>6. GateOf(a) = "running"
  BY <1>4, <1>5 DEF GateTable, GateCase
<1>7. GateOf(a)' = "over"
  <2>1. pending[a] = None /\ asked[a] # None
    BY <1>4, <1>6 DEF GateTable, GateCase
  <2>2. QED
    BY <1>1, <1>4, <1>5, <2>1 DEF GateTable, GateCase
<1>8. Gate!Move(a, "running", "over")
  BY <1>1, <1>4, <1>5, <1>6, <1>7, GateMoves
<1>9. UNCHANGED [x \in Actions |-> KindOf(x)]
  BY <1>1 DEF KindOf
<1>10. QED
  BY <1>1, <1>8, <1>9 DEF Gate!Close

\* A process exit is one for the gate too: whatever was asked for is over, and only what
\* was not is still new.
LEMMA RestartExits ==
  ASSUME GateInv, GateInv', Restart
  PROVE  Gate!Exit
<1>1. /\ \A a \in Actions : pending'[a] = None
      /\ \A c \in Calls : pc'[c] = "idle"
      /\ asked' = asked /\ session' = session + 1
  BY DEF Restart
<1>2. GateTable /\ GateTable'
  BY GateTables
<1>3. ASSUME NEW a \in Actions
      PROVE  GateOf(a)' = IF GateOf(a) = "new" THEN "new" ELSE "over"
  <2>1. \A w \in Awaits : ~At(a, w)'
    BY <1>1 DEF At, Awaits
  <2>2. GateCase(a) /\ GateCase(a)'
    BY <1>2 DEF GateTable
  <2>3. QED
    BY <1>1, <2>1, <2>2 DEF GateCase
<1>4. UNCHANGED [x \in Actions |-> KindOf(x)]
  BY <1>1 DEF KindOf
<1>5. QED
  BY <1>1, <1>3, <1>4 DEF Gate!Exit

\* The initial state of the executor is the gate's.
LEMMA GateInit == Init => GateInv /\ Gate!Init
<1> SUFFICES ASSUME Init
             PROVE  GateInv /\ Gate!Init
  OBVIOUS
<1>1. GateInv
  <2>1. StandInv
    BY DEF Init, StandInv, OneRowInv, StartInv, PlaceInv
  <2>2. QED
    BY <2>1, CoreInit, FacadeInit DEF GateInv, StandInv
<1>2. ASSUME NEW a \in Actions
      PROVE  KindOf(a) = "unknown" /\ GateOf(a) = "new"
  BY DEF Init, KindOf, GateOf, At, Approved
<1>3. session = 1
  BY DEF Init
<1>4. QED
  BY <1>1, <1>2, <1>3 DEF Gate!Init

\* Every step of the executor behind its facade is a step of the gate, or leaves it
\* as it is.
LEMMA GateStep == GateInv /\ [Next]_vars => [Gate!Next]_(Gate!gateVars)
<1> SUFFICES ASSUME GateInv, [Next]_vars
             PROVE  [Gate!Next]_(Gate!gateVars)
  OBVIOUS
<1>0. GateInv'
  BY GateInvStep
<1>1. ASSUME SameCalls, UNCHANGED <<pending, asked, session>>
      PROVE  UNCHANGED Gate!gateVars
  <2>1. GateTable /\ GateTable'
    BY <1>0, GateTables
  <2>2. GateStays
    BY <1>1, <2>1, SameAt, SameGate DEF GateStays
  <2>3. QED
    BY <1>1, <2>2 DEF GateStays, Gate!gateVars
<1>2. ASSUME NEW c \in Calls, NEW a \in Actions, NEW p \in Payloads, ExecuteTool(c, a, p)
      PROVE  Gate!Next
  <2>1. Risk(p) \in Gate!Kinds \ {"unknown"}
    BY DEF Risk, Gate!Kinds
  <2>2. QED
    BY <1>0, <1>2, <2>1, ExecuteToolProposes DEF Gate!Next
<1>3. ASSUME NEW c \in Calls, NEW a \in Actions, ApproveAndResume(c, a)
      PROVE  Gate!Next
  BY <1>0, <1>3, ApproveGrants DEF Gate!Next
<1>4. ASSUME NEW a \in Actions, Reject(a)
      PROVE  Gate!Next
  BY <1>0, <1>4, RejectCloses DEF Gate!Next
<1>5. ASSUME NEW c \in Calls, Suspend(c)
      PROVE  Gate!Next
  BY <1>0, <1>5, SuspendAwaits DEF Gate!Next
<1>6. ASSUME NEW c \in Calls, Proceed(c)
      PROVE  Gate!Next
  BY <1>0, <1>6, ProceedRuns DEF Gate!Next
<1>7. ASSUME NEW c \in Calls, NEW returned \in BOOLEAN, Finish(c, returned)
      PROVE  Gate!Next
  BY <1>0, <1>7, FinishCloses DEF Gate!Next
<1>8. CASE Restart
  BY <1>0, <1>8, RestartExits DEF Gate!Next
<1>9. ASSUME NEW a \in Actions, Cancel(a)
      PROVE  UNCHANGED Gate!gateVars
  BY <1>1, <1>9 DEF Cancel, SameCalls, decisions
<1>10. ASSUME NEW ap \in Approvals, ApprovalExpires(ap)
       PROVE  UNCHANGED Gate!gateVars
  BY <1>1, <1>10 DEF ApprovalExpires, SameCalls, memory, decisions
<1>11. CASE UNCHANGED vars
  BY <1>1, <1>11 DEF vars, SameCalls, memory
<1>12. QED
  BY <1>2, <1>3, <1>4, <1>5, <1>6, <1>7, <1>8, <1>9, <1>10, <1>11 DEF Next

\* Behind its facade the executor implements ApprovalGate: a yellow call is held, granted
\* and run in that order, at most once, all in one process; what was asked for, held or
\* granted before a process exit is over with it.
THEOREM GateIsKept == Spec => KeepsGate
<1>1. Init => GateInv /\ Gate!Init
  BY GateInit
<1>2. GateInv /\ [Next]_vars => GateInv'
  BY GateInvStep
<1>3. GateInv /\ [Next]_vars => [Gate!Next]_(Gate!gateVars)
  BY GateStep
<1>4. QED
  BY <1>1, <1>2, <1>3, PTL DEF Spec, KeepsGate, Gate!Spec

\* No tool call of the model starts its tool twice.
StartsOnce == \A a \in Actions : starts[a] <= 1

\* Behind the facade a tool call starts its tool at most once, whatever is repeated,
\* cancelled, expired or restarted: a start needs an action that was never started.
THEOREM OneStartPerCall == Spec => []StartsOnce
<1>1. Init => GateInv /\ StartsOnce
  BY GateInit DEF Init, StartsOnce
<1>2. ASSUME GateInv, StartsOnce, [Next]_vars
      PROVE  StartsOnce'
  <2>1. ASSUME NEW a \in Actions, starts[a] = 0, starts' = [starts EXCEPT ![a] = @ + 1]
        PROVE  StartsOnce'
    BY <1>2, <2>1 DEF StartsOnce, GateInv, CoreInv, TypeOK
  <2>2. ASSUME starts' = starts
        PROVE  StartsOnce'
    BY <1>2, <2>2 DEF StartsOnce
  <2>3. ASSUME NEW c \in Calls, NEW a \in Actions, NEW p \in Payloads, ExecuteTool(c, a, p)
        PROVE  StartsOnce'
    <3>1. starts[a] = 0 /\ (starts' = starts \/ starts' = [starts EXCEPT ![a] = @ + 1])
      BY <1>2, <2>3, ExecuteToolEffect
    <3>2. QED
      BY <2>1, <2>2, <3>1
  <2>4. ASSUME NEW c \in Calls, NEW a \in Actions, ApproveAndResume(c, a)
        PROVE  StartsOnce'
    <3>1. starts' = starts
      BY <1>2, <2>4, ApproveEffect
    <3>2. QED
      BY <2>2, <3>1
  <2>5. ASSUME NEW c \in Calls, Proceed(c)
        PROVE  StartsOnce'
    <3>1. PICK a \in Actions :
            starts[a] = 0 /\ (starts' = starts \/ starts' = [starts EXCEPT ![a] = @ + 1])
      BY <1>2, <2>5, ProceedEffect
    <3>2. QED
      BY <2>1, <2>2, <3>1
  <2>6. ASSUME NEW c \in Calls, Suspend(c) \/ (\E returned \in BOOLEAN : Finish(c, returned))
        PROVE  starts' = starts
    BY <2>6 DEF Suspend, Finish, history
  <2>7. ASSUME NEW a \in Actions, Reject(a) \/ Cancel(a)
        PROVE  starts' = starts
    BY <2>7 DEF Reject, Cancel, engine, history
  <2>8. ASSUME NEW ap \in Approvals, ApprovalExpires(ap)
        PROVE  starts' = starts
    BY <2>8 DEF ApprovalExpires, history
  <2>9. CASE Restart \/ UNCHANGED vars
    BY <2>2, <2>9 DEF Restart, vars, history
  <2>10. QED
    BY <1>2, <2>2, <2>3, <2>4, <2>5, <2>6, <2>7, <2>8, <2>9 DEF Next
<1>3. GateInv /\ StartsOnce /\ [Next]_vars => (GateInv /\ StartsOnce)'
  BY <1>2, GateInvStep
<1>4. QED
  BY <1>1, <1>3, PTL DEF Spec

-----------------------------------------------------------------------------
(* The contract of ToolExecutor, kept behind the facade *)

\* What the contract looks at stays: decided, held and running calls are the same.
LEMMA ContractStays ==
  ASSUME SameCalls, UNCHANGED <<asked, pending>>
  PROVE  UNCHANGED Executor!executorVars
<1>1. UNCHANGED <<Seen, AtWork>>
  BY DEF SameCalls, Seen, Creating, AtWork
<1>2. QED
  BY <1>1 DEF Held, Executor!executorVars

\* A new tool call is refused, or its tool runs, or nothing is decided yet.
LEMMA ExecuteToolContract ==
  ASSUME GateInv, NEW c \in Calls, NEW a \in Actions, NEW p \in Payloads, ExecuteTool(c, a, p)
  PROVE  [Executor!Next]_(Executor!executorVars)
<1>1. /\ asked[a] = None /\ asked' = [asked EXCEPT ![a] = p] /\ p # None
      /\ UNCHANGED pending
      /\ \/ SameCalls
         \/ /\ \A d \in Calls : pc[d] = "idle" /\ (d # c => pc'[d] = "idle")
            /\ pc'[c] \in {"creating", "running"} /\ req'[c].action = a
  BY ExecuteToolEffect
<1>2. ~Creating(a) /\ asked \in [Actions -> Payloads \cup {None}]
  BY <1>1 DEF Creating, GateInv, FacadeInv, OriginInv, CoreInv, TypeOK
<1>3. Held' = Held
  BY <1>1 DEF Held
<1>4. a \notin Seen /\ Seen' \subseteq Actions
  BY <1>1 DEF Seen
<1>5. CASE SameCalls
  <2>1. AtWork' = AtWork /\ \A b \in Actions : Creating(b)' <=> Creating(b)
    BY <1>5 DEF SameCalls, AtWork, Creating
  <2>2. Seen \subseteq Seen'
    BY <1>1, <1>2, <2>1 DEF Seen
  <2>3. QED
    BY <1>3, <1>4, <2>1, <2>2 DEF Executor!Next, Executor!Refuse, Executor!Admits
<1>6. CASE /\ \A d \in Calls : pc[d] = "idle" /\ (d # c => pc'[d] = "idle")
           /\ pc'[c] \in {"creating", "running"} /\ req'[c].action = a
  <2>1. AtWork = {} /\ \A b \in Actions : ~Creating(b)
    BY <1>6 DEF AtWork, Creating
  <2>2. CASE pc'[c] = "creating"
    <3>1. AtWork' = {} /\ \A b \in Actions : Creating(b)' <=> b = a
      BY <1>6, <2>2 DEF AtWork, Creating
    <3>2. Seen' = Seen
      BY <1>1, <1>2, <2>1, <3>1 DEF Seen
    <3>3. QED
      BY <1>3, <2>1, <3>1, <3>2 DEF Executor!executorVars
  <2>3. CASE pc'[c] = "running"
    <3>1. AtWork' = {a} /\ \A b \in Actions : ~Creating(b)'
      BY <1>6, <2>3 DEF AtWork, Creating
    <3>2. Seen' = Seen \cup {a}
      BY <1>1, <1>2, <2>1, <3>1 DEF Seen
    <3>3. Executor!Run(a)
      BY <1>3, <1>4, <3>1, <3>2 DEF Executor!Run, Executor!Admits
    <3>4. QED
      BY <3>3 DEF Executor!Next
  <2>4. QED
    BY <1>6, <2>2, <2>3
<1>7. QED
  BY <1>1, <1>5, <1>6

\* An approved call resumes where no tool was running, or is approved in vain.
LEMMA ApproveContract ==
  ASSUME GateInv, NEW c \in Calls, NEW a \in Actions, ApproveAndResume(c, a)
  PROVE  Executor!Resume(a) \/ Executor!Drop(a)
<1>1. /\ pending[a] # None /\ pending' = [pending EXCEPT ![a] = None] /\ UNCHANGED asked
      /\ \/ SameCalls
         \/ /\ \A d \in Calls : pc[d] = "idle" /\ (d # c => pc'[d] = "idle")
            /\ pc'[c] = "consumed" /\ req'[c].action = a
  BY ApproveEffect
<1>2. a \in Held /\ Held' = Held \ {a}
  BY <1>1 DEF Held, GateInv, CoreInv, TypeOK
<1>3. CASE SameCalls
  <2>1. UNCHANGED <<Seen, AtWork>>
    BY <1>1, <1>3 DEF SameCalls, Seen, Creating, AtWork
  <2>2. QED
    BY <1>2, <2>1 DEF Executor!Drop
<1>4. CASE /\ \A d \in Calls : pc[d] = "idle" /\ (d # c => pc'[d] = "idle")
           /\ pc'[c] = "consumed" /\ req'[c].action = a
  <2>1. AtWork = {} /\ AtWork' = {a} /\ \A b \in Actions : ~Creating(b) /\ ~Creating(b)'
    BY <1>4 DEF AtWork, Creating
  <2>2. Seen' = Seen
    BY <1>1, <2>1 DEF Seen
  <2>3. QED
    BY <1>2, <2>1, <2>2 DEF Executor!Resume
<1>5. QED
  BY <1>1, <1>3, <1>4

\* A rejected call is no longer held.
LEMMA RejectContract ==
  ASSUME GateInv, NEW a \in Actions, Reject(a)
  PROVE  Executor!Drop(a)
<1>1. /\ a \in manager /\ pending' = [pending EXCEPT ![a] = None]
      /\ UNCHANGED <<asked, pc, req>>
  BY DEF Reject, engine, memory
<1>2. a \in Held /\ Held' = Held \ {a}
  BY <1>1 DEF Held, GateInv, CoreInv, TypeOK, FacadeInv, PendingIsResumable
<1>3. UNCHANGED <<Seen, AtWork>>
  BY <1>1 DEF Seen, Creating, AtWork
<1>4. QED
  BY <1>2, <1>3 DEF Executor!Drop

\* A call whose row is written is decided about and held, and no tool runs.
LEMMA SuspendContract ==
  ASSUME GateInv, NEW c \in Calls, Suspend(c)
  PROVE  \E a \in Actions : Executor!Hold(a)
<1> DEFINE a == req[c].action
           e == [payload |-> req[c].payload, approval |-> req[c].approval]
<1>1. /\ pc[c] = "creating" /\ pending' = [pending EXCEPT ![a] = e]
      /\ Release(c) /\ UNCHANGED asked
  BY DEF Suspend
<1>2. /\ Alone(c) /\ req[c] \in Requests /\ req[c].approval # None /\ asked[a] # None
  <2>1. Alone(c)
    BY <1>1, AloneInside DEF GateInv, CoreInv
  <2>2. QED
    BY <1>1, <2>1 DEF GateInv, CoreInv, FacadeInv, TypeOK, InFlightInv, InFlight, RowFor,
       OriginInv
<1>3. a \in Actions /\ e \in PendingExecution
  BY <1>2 DEF Requests, PendingExecution
<1>4. Held' = Held \cup {a}
  BY <1>1, <1>3, NoneAssumption DEF Held, GateInv, CoreInv, TypeOK
<1>5. \A d \in Calls : pc'[d] = "idle"
  BY <1>1, <1>2, ReleaseIsExclusive DEF GateInv, CoreInv
<1>6. /\ AtWork' = {} /\ \A b \in Actions : ~Creating(b)' /\ (Creating(b) <=> b = a)
  BY <1>1, <1>2, <1>5 DEF AtWork, Creating, Alone
<1>7. a \notin Seen /\ Seen' = Seen \cup {a}
  BY <1>1, <1>2, <1>3, <1>6 DEF Seen
<1>8. Seen \subseteq Actions
  BY DEF Seen
<1>9. Executor!Hold(a)
  BY <1>3, <1>4, <1>6, <1>7, <1>8 DEF Executor!Hold, Executor!Admits
<1>10. QED
  BY <1>3, <1>9

\* An invocation that goes on after its approval was consumed, or ends, keeps its tool
\* the one at work or leaves none.
LEMMA WorkContract ==
  ASSUME GateInv, NEW c \in Calls, Proceed(c) \/ (\E returned \in BOOLEAN : Finish(c, returned))
  PROVE  Executor!Refuse
<1>1. pc[c] \in {"consumed", "running"} /\ UNCHANGED <<asked, pending>>
  BY DEF Proceed, Finish, decisions
<1>2. Alone(c) /\ req[c] \in Requests
  <2>1. Alone(c)
    BY <1>1, AloneInside DEF GateInv, CoreInv
  <2>2. QED
    BY <1>1, <2>1 DEF GateInv, CoreInv, TypeOK, InFlightInv, InFlight
<1>3. /\ \A d \in Calls : d # c => pc'[d] = "idle"
      /\ pc'[c] = "idle" \/ (pc'[c] = "running" /\ req'[c] = req[c])
  <2>1. CASE Proceed(c)
    <3>1. Launch(c, req[c], {"approval_consumed"})
      BY <2>1 DEF Proceed
    <3>2. QED
      BY <1>2, <3>1, LaunchEffect DEF GateInv, CoreInv
  <2>2. ASSUME NEW returned \in BOOLEAN, Finish(c, returned)
        PROVE  \A d \in Calls : pc'[d] = "idle"
    <3>1. Release(c)
      BY <2>2 DEF Finish
    <3>2. QED
      BY <1>2, <3>1, ReleaseIsExclusive DEF GateInv, CoreInv
  <2>3. QED
    BY <2>1, <2>2
<1>4. req[c].action \in Actions
  BY <1>2 DEF Requests
<1>5. /\ \A b \in Actions : ~Creating(b) /\ ~Creating(b)'
      /\ AtWork = {req[c].action} /\ AtWork' \in {AtWork, {}}
  <2>1. \A b \in Actions : ~Creating(b) /\ ~Creating(b)'
    BY <1>1, <1>2, <1>3 DEF Creating, Alone
  <2>2. AtWork = {req[c].action}
    <3>1. \A d \in Calls : pc[d] \in {"consumed", "running"} <=> d = c
      BY <1>1, <1>2 DEF Alone
    <3>2. QED
      BY <1>4, <3>1 DEF AtWork
  <2>3. CASE pc'[c] = "idle"
    <3>1. AtWork' = {}
      BY <1>3, <2>3 DEF AtWork
    <3>2. QED
      BY <2>1, <2>2, <3>1
  <2>4. CASE pc'[c] = "running" /\ req'[c] = req[c]
    <3>1. AtWork' = {req[c].action}
      BY <1>3, <1>4, <2>4 DEF AtWork
    <3>2. QED
      BY <2>1, <2>2, <3>1
  <2>5. QED
    BY <1>3, <2>3, <2>4
<1>6. Seen' = Seen /\ Held' = Held /\ Seen \subseteq Actions
  BY <1>1, <1>5 DEF Seen, Held
<1>7. QED
  BY <1>5, <1>6 DEF Executor!Refuse, Executor!Admits

\* A process exit loses what is held and what runs, and decides about what was being
\* written down.
LEMMA RestartContract ==
  ASSUME Restart
  PROVE  Executor!Exit
<1>1. /\ \A a \in Actions : pending'[a] = None
      /\ \A c \in Calls : pc'[c] = "idle"
      /\ UNCHANGED asked
  BY DEF Restart
<1>2. Held' = {} /\ AtWork' = {}
  BY <1>1 DEF Held, AtWork
<1>3. Seen \subseteq Seen' /\ Seen' \subseteq Actions
  BY <1>1 DEF Seen, Creating
<1>4. QED
  BY <1>2, <1>3 DEF Executor!Exit, Executor!Admits

\* Every step of the executor behind its facade is a step of the contract, or is hidden
\* from it.
LEMMA ContractStep == GateInv /\ [Next]_vars => [Executor!Next]_(Executor!executorVars)
<1> SUFFICES ASSUME GateInv, [Next]_vars
             PROVE  [Executor!Next]_(Executor!executorVars)
  OBVIOUS
<1>1. ASSUME NEW c \in Calls, NEW a \in Actions, NEW p \in Payloads, ExecuteTool(c, a, p)
      PROVE  [Executor!Next]_(Executor!executorVars)
  BY <1>1, ExecuteToolContract
<1>2. ASSUME NEW c \in Calls, NEW a \in Actions, ApproveAndResume(c, a)
      PROVE  Executor!Next
  BY <1>2, ApproveContract DEF Executor!Next
<1>3. ASSUME NEW a \in Actions, Reject(a)
      PROVE  Executor!Next
  BY <1>3, RejectContract DEF Executor!Next
<1>4. ASSUME NEW c \in Calls, Suspend(c)
      PROVE  Executor!Next
  BY <1>4, SuspendContract DEF Executor!Next
<1>5. ASSUME NEW c \in Calls, Proceed(c) \/ (\E returned \in BOOLEAN : Finish(c, returned))
      PROVE  Executor!Next
  BY <1>5, WorkContract DEF Executor!Next
<1>6. CASE Restart
  BY <1>6, RestartContract DEF Executor!Next
<1>7. ASSUME NEW a \in Actions, Cancel(a)
      PROVE  UNCHANGED Executor!executorVars
  BY <1>7, ContractStays DEF Cancel, SameCalls, decisions
<1>8. ASSUME NEW ap \in Approvals, ApprovalExpires(ap)
      PROVE  UNCHANGED Executor!executorVars
  BY <1>8, ContractStays DEF ApprovalExpires, SameCalls, memory, decisions
<1>9. CASE UNCHANGED vars
  BY <1>9, ContractStays DEF vars, SameCalls, memory
<1>10. QED
  BY <1>1, <1>2, <1>3, <1>4, <1>5, <1>6, <1>7, <1>8, <1>9 DEF Next

\* Behind its facade the executor implements ToolExecutor, which is all that the session
\* and the computer service take for granted about it.
THEOREM ExecutorContract == Spec => KeepsContract
<1>1. Init => GateInv /\ Executor!Init
  <2>1. Init => Seen = {} /\ Held = {} /\ AtWork = {}
    BY DEF Init, Seen, Held, AtWork
  <2>2. QED
    BY <2>1, GateInit DEF Executor!Init
<1>2. GateInv /\ [Next]_vars => GateInv'
  BY GateInvStep
<1>3. GateInv /\ [Next]_vars => [Executor!Next]_(Executor!executorVars)
  BY ContractStep
<1>4. QED
  BY <1>1, <1>2, <1>3, PTL DEF Spec, KeepsContract, Executor!Spec

=============================================================================
