------------------------- MODULE SupervisedExecution -------------------------
(***************************************************************************)
(* The supervised execution of tool calls.                                 *)
(*                                                                         *)
(* A model's tool call enters the executor, is classified green, yellow or *)
(* red, and runs at once, waits for a human decision, or is denied.  The   *)
(* executor is agent/supervisor/SupervisedToolExecutor.ts together with    *)
(* the objects it owns or calls: SessionLock, CancellationRegistry,        *)
(* ApprovalManager, the SQLite approval rows, SafeToolExecutor and its     *)
(* SessionBudget; agent/core/SupervisedToolExecutor.ts is the facade every *)
(* production caller goes through.                                         *)
(*                                                                         *)
(* The program is single-threaded JavaScript: an action below is one       *)
(* synchronous stretch of code, from an entry point or a resumed `await`   *)
(* to the next `await`.  Between two stretches any other entry point may   *)
(* run.                                                                    *)
(***************************************************************************)
EXTENDS Naturals, FiniteSets

CONSTANTS
  Calls,          \* invocations of the executor that may be outstanding at once
  Actions,        \* action ids (the facade draws a fresh UUID for every call)
  Approvals,      \* approval ids (createApproval draws a fresh UUID)
  Payloads,       \* a tool name with its input: what hashToolCall tells apart
  Known,          \* the payloads whose tool is in the ToolRegistry
  WellFormed,     \* the payloads the tool's validateInput accepts
  Outward,        \* the payloads whose tool name matches browser|github|computer
  DeclaredRisk,   \* the risk the tool was registered with
  Policy,         \* the policy entry of a tool named after a section, or "default"
  MaxToolCalls,   \* SessionBudget's limit, for one process
  MaxSessions,    \* bound: how many processes a behaviour may go through
  None

Risks == {"green", "yellow", "red"}
PolicyEntries == {"default", "allow", "workspace", "approval", "never_auto", "never"}

ASSUME PayloadAssumption ==
  /\ Known \subseteq Payloads
  /\ WellFormed \subseteq Payloads
  /\ Outward \subseteq Payloads
  /\ DeclaredRisk \in [Payloads -> Risks]
  /\ Policy \in [Payloads -> PolicyEntries]

ASSUME BoundAssumption == MaxToolCalls \in Nat \ {0} /\ MaxSessions \in Nat \ {0}

PendingExecution == [payload: Payloads, approval: Approvals]
Requests == [action: Actions, payload: Payloads, approval: Approvals \cup {None}]
Rows == [action: Actions, payload: Payloads, session: Nat, used: BOOLEAN, expired: BOOLEAN]

ASSUME NoneAssumption ==
  None \notin Approvals \cup Payloads \cup PendingExecution \cup Requests \cup Rows

VARIABLES
  active,       \* SessionLock.active
  pc,           \* where each invocation stands: idle, creating, consumed, running
  req,          \* the request of each invocation in progress
  aborted,      \* the invocations whose abort signal has fired
  controllers,  \* CancellationRegistry: actions that can be cancelled
  spent,        \* SessionBudget.toolCalls
  pending,      \* SupervisedToolExecutor.pending
  manager,      \* ApprovalManager.pending
  store,        \* the rows of the approvals table
  session,      \* the sessionId of the running process
  audit,        \* <<event, action>> for every audit record written
  \* History, read by no action of the program.
  asked,        \* the payload each action id was first used for
  granted,      \* approvals a human granted
  rejected,     \* approvals a human rejected
  starts,       \* how often the tool of an action was started
  backed,       \* how often an approval was behind a tool that started
  cut           \* actions whose invocation a process exit interrupted

memory == <<active, pc, req, aborted, controllers, spent>>
decisions == <<pending, manager, granted, rejected>>
history == <<starts, backed>>
engine == <<memory, store, audit, history>>
vars == <<memory, pending, manager, store, session, audit, asked, granted,
          rejected, history, cut>>

-----------------------------------------------------------------------------
(* Classification of a tool call *)

\* ToolchainSupervisor.classify: the executor always asks about the operation
\* "execute", which none of the operation patterns matches.
InspectRisk(p) ==
  IF DeclaredRisk[p] # "red" /\ p \in Outward THEN "yellow" ELSE DeclaredRisk[p]

\* PermissionEngine.permissionFor: a tool named after a policy section takes the
\* section's entry, any other the default its inspected risk calls for.
PermissionFor(p) ==
  IF Policy[p] # "default" THEN Policy[p]
  ELSE IF InspectRisk(p) = "green" THEN "allow" ELSE "approval"

\* PermissionEngine.riskForPermission.
Risk(p) ==
  CASE InspectRisk(p) = "red" \/ PermissionFor(p) \in {"never_auto", "never"} -> "red"
    [] InspectRisk(p) # "red" /\ PermissionFor(p) \in {"allow", "workspace"} -> "green"
    [] OTHER -> "yellow"

\* decideToolPermission.
Decision(p, hasValidApproval) ==
  CASE Risk(p) = "green" -> "allow"
    [] Risk(p) = "yellow" /\ hasValidApproval -> "allow"
    [] Risk(p) = "yellow" /\ ~hasValidApproval -> "approval_required"
    [] OTHER -> "deny"

-----------------------------------------------------------------------------
(* The approval rows *)

\* Mutant: the used flag is not looked at.
IsActiveThoughUsed(ap) == store[ap] # None /\ ~store[ap].expired

\* ApprovalRepository.getActive: unused and not past its expiry.
IsActive(ap) == store[ap] # None /\ ~store[ap].used /\ ~store[ap].expired

\* Mutant: the hash of the arguments is not compared.
HasApprovalForAnyInput(r) ==
  /\ r.approval # None
  /\ IsActive(r.approval)
  /\ store[r.approval].session = session
  /\ store[r.approval].action = r.action

\* executeUnlocked: the row is active and was made for this very request.
HasValidApproval(r) ==
  /\ r.approval # None
  /\ IsActive(r.approval)
  /\ store[r.approval].session = session
  /\ store[r.approval].action = r.action
  /\ store[r.approval].payload = r.payload

-----------------------------------------------------------------------------
Init ==
  /\ active = FALSE
  /\ pc = [c \in Calls |-> "idle"]
  /\ req = [c \in Calls |-> None]
  /\ aborted = {}
  /\ controllers = {}
  /\ spent = 0
  /\ pending = [a \in Actions |-> None]
  /\ manager = {}
  /\ store = [ap \in Approvals |-> None]
  /\ session = 1
  /\ audit = {}
  /\ asked = [a \in Actions |-> None]
  /\ granted = {}
  /\ rejected = {}
  /\ starts = [a \in Actions |-> 0]
  /\ backed = [ap \in Approvals |-> 0]
  /\ cut = {}

\* Mutant: the session lock admits everybody.
LockOpen == TRUE

\* SessionLock.runExclusive's test.
LockFree == ~active

Record(events, a) == audit' = audit \cup {<<e, a>> : e \in events}

\* SessionLock.runExclusive: enter the critical section with request r ...
Hold(c, r, where) ==
  /\ active' = TRUE
  /\ pc' = [pc EXCEPT ![c] = where]
  /\ req' = [req EXCEPT ![c] = r]

\* ... and its `finally`: leave it however the operation ended.
Release(c) ==
  /\ active' = FALSE
  /\ pc' = [pc EXCEPT ![c] = "idle"]
  /\ req' = [req EXCEPT ![c] = None]

\* The request fails before its first `await`: the lock is taken and released
\* within the stretch, and only the audit log remembers it.
Throw(r, events) ==
  /\ Record(events, r.action)
  /\ UNCHANGED <<memory, store, history>>

\* createApproval inserts the row and the request is parked at `await`; or the
\* insert fails and nothing is left of the request.
RequestApproval(c, r) ==
  \/ \E ap \in Approvals :
       /\ store[ap] = None
       /\ store' = [store EXCEPT ![ap] =
            [action |-> r.action, payload |-> r.payload, session |-> session,
             used |-> FALSE, expired |-> FALSE]]
       /\ Hold(c, [r EXCEPT !.approval = ap], "creating")
       /\ UNCHANGED <<aborted, controllers, spent, audit, history>>
  \/ UNCHANGED engine

\* consumeIfMatchesAndReturn marks the row used in one transaction; its own look
\* at the clock may find the row expired although `get` did not.
ConsumeApproval(c, r) ==
  \/ /\ store' = [store EXCEPT ![r.approval].used = TRUE]
     /\ Hold(c, r, "consumed")
     /\ UNCHANGED <<aborted, controllers, spent, audit, history>>
  \/ /\ store' = [store EXCEPT ![r.approval].expired = TRUE]
     /\ Record({"approval_expired"}, r.action)
     /\ UNCHANGED <<memory, history>>

\* SessionBudget.beforeToolCall's test.
BudgetLeft == spent < MaxToolCalls

\* Mutant: only an error of the tool itself is logged.
RefusalUnlogged == {"tool_allowed"}

\* What a request refused by SafeToolExecutor leaves in the audit log.
RefusalRecords == {"tool_allowed", "tool_execution_failed"}

\* cancellation.create, the tool_allowed record and SafeToolExecutor.execute up
\* to the tool's first `await`.  The budget is charged before the input is
\* validated; either refusal ends the request after tool_allowed was recorded.
Launch(c, r, events) ==
  \/ /\ ~BudgetLeft
     /\ Record(events \cup RefusalRecords, r.action)
     /\ Release(c)
     /\ UNCHANGED <<aborted, controllers, spent, store, history>>
  \/ /\ BudgetLeft
     /\ r.payload \notin WellFormed
     /\ spent' = spent + 1
     /\ Record(events \cup RefusalRecords, r.action)
     /\ Release(c)
     /\ UNCHANGED <<aborted, controllers, store, history>>
  \/ /\ BudgetLeft
     /\ r.payload \in WellFormed
     /\ spent' = spent + 1
     /\ controllers' = controllers \cup {r.action}
     /\ Record(events \cup {"tool_allowed"}, r.action)
     /\ Hold(c, r, "running")
     /\ starts' = [starts EXCEPT ![r.action] = @ + 1]
     /\ backed' = [ap \in Approvals |-> IF ap = r.approval THEN backed[ap] + 1 ELSE backed[ap]]
     /\ UNCHANGED <<aborted, store>>

\* execute: SessionLock refuses a second operation; otherwise executeUnlocked
\* runs up to its first `await`.
Execute(c, r) ==
  /\ pc[c] = "idle"
  /\ \/ /\ ~LockFree \/ r.payload \notin Known
        /\ UNCHANGED engine
     \/ /\ LockFree
        /\ r.payload \in Known
        /\ r.approval # None /\ ~HasValidApproval(r)
        /\ Throw(r, {"approval_expired"})
     \/ /\ LockFree
        /\ r.payload \in Known
        /\ r.approval # None => HasValidApproval(r)
        /\ \/ /\ Decision(r.payload, HasValidApproval(r)) = "deny"
              /\ Throw(r, {"tool_denied"})
           \/ /\ Decision(r.payload, HasValidApproval(r)) = "approval_required"
              /\ RequestApproval(c, r)
           \/ /\ Decision(r.payload, HasValidApproval(r)) = "allow"
              /\ r.approval # None
              /\ ConsumeApproval(c, r)
           \/ /\ Decision(r.payload, HasValidApproval(r)) = "allow"
              /\ r.approval = None
              /\ Launch(c, r, {})

-----------------------------------------------------------------------------
(* Entry points *)

\* Mutant: a repeated call keeps its action id.
ExecuteToolUnderOldId(c, a, p) ==
  /\ asked' = [asked EXCEPT ![a] = p]
  /\ Execute(c, [action |-> a, payload |-> p, approval |-> None])
  /\ UNCHANGED <<decisions, session, cut>>

\* The facade's execute: a tool call of the model, under a fresh action id.
ExecuteTool(c, a, p) ==
  /\ asked[a] = None
  /\ asked' = [asked EXCEPT ![a] = p]
  /\ Execute(c, [action |-> a, payload |-> p, approval |-> None])
  /\ UNCHANGED <<decisions, session, cut>>

\* approveAndResume: the decision leaves both maps before the request re-enters
\* `execute`, whether or not the lock is free.
ApproveAndResume(c, a) ==
  /\ pending[a] # None
  /\ a \in manager
  /\ pending' = [pending EXCEPT ![a] = None]
  /\ manager' = manager \ {a}
  /\ granted' = granted \cup {pending[a].approval}
  /\ Execute(c, [action |-> a, payload |-> pending[a].payload, approval |-> pending[a].approval])
  /\ UNCHANGED <<session, asked, rejected, cut>>

\* Mutant: the executor's own map keeps the rejected request.
RejectHalf(a) ==
  /\ a \in manager
  /\ manager' = manager \ {a}
  /\ rejected' = rejected \cup
       (IF pending[a] = None THEN {} ELSE {pending[a].approval})
  /\ UNCHANGED <<pending, engine, session, asked, granted, cut>>

\* reject: both maps forget the action; the row is left to expire.
Reject(a) ==
  /\ a \in manager
  /\ manager' = manager \ {a}
  /\ pending' = [pending EXCEPT ![a] = None]
  /\ rejected' = rejected \cup
       (IF pending[a] = None THEN {} ELSE {pending[a].approval})
  /\ UNCHANGED <<engine, session, asked, granted, cut>>

\* cancel: fires the abort signal of the invocation registered under the id.
Cancel(a) ==
  /\ a \in controllers
  /\ controllers' = controllers \ {a}
  /\ aborted' = aborted \cup {c \in Calls : pc[c] = "running" /\ req[c].action = a}
  /\ UNCHANGED <<active, pc, req, spent, store, audit, history, decisions, session, asked, cut>>

(* Resumed awaits *)

\* The insert of the row resolved: the request is parked under its action id and
\* the caller is told that an approval is required.
Suspend(c) ==
  /\ pc[c] = "creating"
  /\ pending' = [pending EXCEPT ![req[c].action] =
                   [payload |-> req[c].payload, approval |-> req[c].approval]]
  /\ manager' = manager \cup {req[c].action}
  /\ Record({"approval_requested"}, req[c].action)
  /\ Release(c)
  /\ UNCHANGED <<aborted, controllers, spent, store, history, granted, rejected,
                 session, asked, cut>>

\* The consumption of the approval resolved.
Proceed(c) ==
  /\ pc[c] = "consumed"
  /\ Launch(c, req[c], {"approval_consumed"})
  /\ UNCHANGED <<decisions, session, asked, cut>>

\* Mutant: the lock is released after the operation, not in a `finally`.
FinishHoldsLock(c, returned) ==
  /\ pc[c] = "running"
  /\ Record({IF returned /\ c \notin aborted THEN "tool_executed" ELSE "tool_execution_failed"},
            req[c].action)
  /\ controllers' = controllers \ {req[c].action}
  /\ aborted' = aborted \ {c}
  /\ pc' = [pc EXCEPT ![c] = "idle"]
  /\ req' = [req EXCEPT ![c] = None]
  /\ active' = ~returned
  /\ UNCHANGED <<spent, store, history, decisions, session, asked, cut>>

\* Mutant: a cancelled tool ends without a record.
FinishForgetsCancelled(c, returned) ==
  /\ pc[c] = "running"
  /\ Record(IF c \in aborted THEN {}
            ELSE {IF returned THEN "tool_executed" ELSE "tool_execution_failed"},
            req[c].action)
  /\ controllers' = controllers \ {req[c].action}
  /\ aborted' = aborted \ {c}
  /\ Release(c)
  /\ UNCHANGED <<spent, store, history, decisions, session, asked, cut>>

\* The tool returned or threw.  A fired abort signal turns a result into CANCELLED.
Finish(c, returned) ==
  /\ pc[c] = "running"
  /\ Record({IF returned /\ c \notin aborted THEN "tool_executed" ELSE "tool_execution_failed"},
            req[c].action)
  /\ controllers' = controllers \ {req[c].action}
  /\ aborted' = aborted \ {c}
  /\ Release(c)
  /\ UNCHANGED <<spent, store, history, decisions, session, asked, cut>>

(* Environment *)

\* The clock passes a row's expiresAt.
ApprovalExpires(ap) ==
  /\ IsActive(ap)
  /\ store' = [store EXCEPT ![ap].expired = TRUE]
  /\ UNCHANGED <<memory, audit, history, decisions, session, asked, cut>>

\* Mutant: suspended calls are restored with the process.
RestartKeepsSuspended ==
  /\ session < MaxSessions
  /\ session' = session + 1
  /\ cut' = cut \cup {a \in Actions : \E c \in Calls : pc[c] # "idle" /\ req[c].action = a}
  /\ active' = FALSE
  /\ pc' = [c \in Calls |-> "idle"]
  /\ req' = [c \in Calls |-> None]
  /\ aborted' = {}
  /\ controllers' = {}
  /\ spent' = 0
  /\ UNCHANGED <<pending, manager, store, audit, history, asked, granted, rejected>>

\* The process ends at any point and a new one starts: the rows and the audit log
\* are on disk, everything else is rebuilt, under a new random sessionId.
Restart ==
  /\ session < MaxSessions
  /\ session' = session + 1
  /\ cut' = cut \cup {a \in Actions : \E c \in Calls : pc[c] # "idle" /\ req[c].action = a}
  /\ active' = FALSE
  /\ pc' = [c \in Calls |-> "idle"]
  /\ req' = [c \in Calls |-> None]
  /\ aborted' = {}
  /\ controllers' = {}
  /\ spent' = 0
  /\ pending' = [a \in Actions |-> None]
  /\ manager' = {}
  /\ UNCHANGED <<store, audit, history, asked, granted, rejected>>

Next ==
  \/ \E c \in Calls, a \in Actions, p \in Payloads : ExecuteTool(c, a, p)
  \/ \E c \in Calls, a \in Actions : ApproveAndResume(c, a)
  \/ \E a \in Actions : Reject(a)
  \/ \E a \in Actions : Cancel(a)
  \/ \E c \in Calls : Suspend(c)
  \/ \E c \in Calls : Proceed(c)
  \/ \E c \in Calls, returned \in BOOLEAN : Finish(c, returned)
  \/ \E ap \in Approvals : ApprovalExpires(ap)
  \/ Restart

\* Resolved promises are run by the event loop, and a tool eventually returns or
\* throws.  Nothing obliges the model, the human, the clock or the operator.
Fairness ==
  \A c \in Calls :
    /\ WF_vars(Suspend(c))
    /\ WF_vars(Proceed(c))
    /\ WF_vars(Finish(c, TRUE) \/ Finish(c, FALSE))

Spec == Init /\ [][Next]_vars
FairSpec == Spec /\ Fairness

\* SupervisedToolExecutor.execute is public and takes an action id and an
\* approval id from its caller (tests/supervised-tool-executor.test.ts does):
\* nothing then keeps a caller from repeating or mixing them.
DirectExecute(c, a, p, ap) ==
  /\ asked' = [asked EXCEPT ![a] = IF @ = None THEN p ELSE @]
  /\ Execute(c, [action |-> a, payload |-> p, approval |-> ap])
  /\ UNCHANGED <<decisions, session, cut>>

DirectNext ==
  \/ Next
  \/ \E c \in Calls, a \in Actions, p \in Payloads, ap \in Approvals \cup {None} :
       DirectExecute(c, a, p, ap)

DirectSpec == Init /\ [][DirectNext]_vars

-----------------------------------------------------------------------------
(* Properties *)

AuditTypes == {"approval_requested", "approval_consumed", "approval_expired",
               "tool_allowed", "tool_denied", "tool_executed", "tool_execution_failed"}

\* The type of every variable.
TypeOK ==
  /\ active \in BOOLEAN
  /\ pc \in [Calls -> {"idle", "creating", "consumed", "running"}]
  /\ req \in [Calls -> Requests \cup {None}]
  /\ aborted \subseteq Calls
  /\ controllers \subseteq Actions
  /\ spent \in 0..MaxToolCalls
  /\ pending \in [Actions -> PendingExecution \cup {None}]
  /\ manager \subseteq Actions
  /\ store \in [Approvals -> Rows \cup {None}]
  /\ session \in 1..MaxSessions
  /\ audit \subseteq AuditTypes \X Actions
  /\ asked \in [Actions -> Payloads \cup {None}]
  /\ granted \subseteq Approvals
  /\ rejected \subseteq Approvals
  /\ starts \in [Actions -> Nat]
  /\ backed \in [Approvals -> Nat]
  /\ cut \subseteq Actions

Running(c) == pc[c] = "running"

\* No two operations are ever inside the session lock, across every `await`, and
\* the lock is held exactly while one is (SessionLock, used by execute).
LockIsExclusive ==
  /\ \A c, d \in Calls : pc[c] # "idle" /\ pc[d] # "idle" => c = d
  /\ active = (\E c \in Calls : pc[c] # "idle")

\* A tool that is running is green, or yellow under an approval row that was made
\* in this process for this action and these arguments and is used up: a red
\* tool, a stale row or another call's row never starts a tool.
RunningIsAuthorised ==
  \A c \in Calls : Running(c) =>
    \/ Risk(req[c].payload) = "green"
    \/ /\ Risk(req[c].payload) = "yellow"
       /\ req[c].approval # None
       /\ store[req[c].approval].used
       /\ store[req[c].approval].session = session
       /\ store[req[c].approval].action = req[c].action
       /\ store[req[c].approval].payload = req[c].payload

\* Through the facade, a yellow tool runs only under an approval a human granted:
\* neither a row that merely exists nor a rejected one is enough.
RunningWasGranted ==
  \A c \in Calls : Running(c) /\ Risk(req[c].payload) = "yellow" =>
    req[c].approval \in granted \ rejected

\* One approval is behind at most one start of a tool, whatever callers repeat,
\* and however expiry, restart and the two reads of the row interleave.
ApprovalBacksOneRun == \A ap \in Approvals : backed[ap] <= 1

\* A yellow tool runs under an approval of exactly its own call that nothing else has run
\* under.
ApprovedForOneRun == RunningIsAuthorised /\ ApprovalBacksOneRun

\* The two maps that remember a suspended call agree: reject and approveAndResume,
\* which each consult one of them first, can act on the same actions, and every
\* entry leads to an unused row of this process made for that action and input.
PendingIsResumable ==
  \A a \in Actions :
    /\ a \in manager <=> pending[a] # None
    /\ pending[a] # None =>
         LET row == store[pending[a].approval]
         IN  /\ row # None /\ ~row.used
             /\ row.action = a /\ row.payload = pending[a].payload
             /\ row.session = session

\* cancellation.create is never asked for an id that is still registered, so it
\* never throws after the approval was consumed: an id is registered only while
\* its own tool is running.
ControllersAreRunning ==
  \A a \in controllers : \E c \in Calls : Running(c) /\ req[c].action = a

\* The audit log tells how every tool that was allowed to run ended: unless the
\* process exited under it, there is a tool_executed or tool_execution_failed
\* record for every tool_allowed, and no approval is consumed without a trace.
AuditAccountsForRuns ==
  /\ \A a \in Actions : <<"tool_allowed", a>> \in audit =>
       \/ <<"tool_executed", a>> \in audit \/ <<"tool_execution_failed", a>> \in audit
       \/ a \in cut
       \/ \E c \in Calls : Running(c) /\ req[c].action = a
  /\ \A ap \in Approvals : store[ap] # None /\ store[ap].used =>
       \/ {<<"approval_consumed", store[ap].action>>, <<"tool_allowed", store[ap].action>>} \subseteq audit
       \/ store[ap].action \in cut
       \/ \E c \in Calls : pc[c] = "consumed" /\ req[c].approval = ap

\* The gate an action stands at: at the await of its invocation, in `pending`, or nowhere.
At(a, where) == \E c \in Calls : pc[c] = where /\ req[c].action = a
Approved(a) ==
  \E c \in Calls : /\ pc[c] = "consumed" /\ req[c].action = a
                   /\ req[c].approval \in granted \ rejected

GateOf(a) ==
  CASE At(a, "running") -> "running"
    [] Approved(a) -> "granted"
    [] At(a, "creating") -> "asked"
    [] pending[a] # None -> "held"
    [] OTHER -> IF asked[a] = None THEN "new" ELSE "over"

KindOf(a) == IF asked[a] = None THEN "unknown" ELSE Risk(asked[a])

Gate == INSTANCE ApprovalGate
          WITH kind <- [a \in Actions |-> KindOf(a)],
               gate <- [a \in Actions |-> GateOf(a)],
               life <- session

\* The executor behind its facade keeps the promise of ApprovalGate: a yellow call is held,
\* granted by a human and run in that order, at most once, all in one process.  Whatever
\* was proposed to a process is over when it exits: nothing it asked for, held or granted
\* is held, granted or run by the next (the maps die with it, the sessionId differs).
KeepsGate == Gate!Spec

\* The actions the executor has decided about, has suspended, and is at work on.
Creating(a) == \E c \in Calls : pc[c] = "creating" /\ req[c].action = a
Seen == {a \in Actions : asked[a] # None /\ ~Creating(a)}
Held == {a \in Actions : pending[a] # None}
AtWork == {a \in Actions : \E c \in Calls : pc[c] \in {"consumed", "running"} /\ req[c].action = a}

Executor == INSTANCE ToolExecutor WITH Calls <- Actions, seen <- Seen, held <- Held, running <- AtWork

\* The executor does what InteractiveSession and ComputerActions take it to do: one tool at
\* a time, each for a new call or for one it held; what was refused, rejected, approved in
\* vain or lost with the process never runs.
KeepsContract == Executor!Spec

\* Whatever holds the session lock lets go of it, so one failing, cancelled or
\* refused tool call does not leave the session busy for good.
LockIsReleased == active ~> ~active

\* An approval, once consumed, is settled: the log comes to say how the tool
\* ended, unless the process exited first.
ConsumedIsSettled ==
  \A ap \in Approvals, a \in Actions :
    (store[ap] # None /\ store[ap].used /\ store[ap].action = a) ~>
      (a \in cut \/ {<<"tool_executed", a>>, <<"tool_execution_failed", a>>} \cap audit # {})

\* docs/TONI-AI-007-INTEGRATION.md: "approved continuations resume the exact
\* pending operation".  A granted approval of this process has been used for its
\* operation, unless the clock expired it.
GrantedIsResumed ==
  \A ap \in granted :
    store[ap].used \/ store[ap].expired \/ store[ap].session # session

=============================================================================
