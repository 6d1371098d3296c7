# Toni AI Agent: specifications in TLA+

Toni AI Agent is a local assistant: a model proposes tool calls, the agent decides
which of them may run, asks a human about the others, runs them, and keeps a record.
The program is single-threaded TypeScript on Node.js, so its concurrency is that of
`await`: between two awaits of one call any other entry point may run. These modules
model the parts where that, process exits, expiring approvals and bounded budgets can
go wrong. Paths below are relative to the root of the repository.

Contents: [inventory](#inventory) · [hazards](#hazards) · [modules](#modules) ·
[runs](#runs) · [proofs](#proofs) · [deviations](#deviations-from-the-documents) ·
[not modelled](#not-modelled) · [plan](#plan) · [running](#running)

## Inventory

| component | state it keeps | operations | interacts with |
|---|---|---|---|
| Supervised execution: `agent/supervisor/SupervisedToolExecutor.ts`, facade `agent/core/SupervisedToolExecutor.ts` | pending calls; session lock; cancellation controllers; tool-call budget | execute, approveAndResume, reject, cancel | approval rows, approval manager, audit sink, the tools |
| Tool classification: `ToolPermission.ts`, `ToolchainSupervisor.ts`, `PermissionEngine.ts` | none | inspect, evaluate, decide | called by the executor |
| Approval rows: `storage/repositories/ApprovalRepository.ts`, `agent/approvals/SqliteApprovalAdapter.ts`, `ApprovalManager.ts` | SQLite rows with expiry and used flag; a map of open requests | create, getActive, consume; request, approve, reject | shared by executor and later processes |
| Repair session: `agent/coding/RepairSession.ts`, `CodingRepairCoordinator.ts`, `RepairSessionStore.ts` | state, attempt, plan, pending approval, promise of the first start; a JSON file; an audit log | start, approve, reject; answers of the verify and repair callbacks; restore | the workspace, through two callbacks |
| Interactive session and tool loop: `app/InteractiveSession.ts`, `agent/providers/OpenAIToolLoop.ts`, provider and cost budgets | previous response, pending tool approval; requests used | ask, approve, reject, /reset, /model; answers of the model and of the tools | executor, model API |
| Process lifecycle: `app/lifecycle/*`, `app/bootstrap/createApplication.ts` | lock file; startup phase | acquire, release, start, shut down | other processes, database, server |
| Audit chain: `storage/repositories/AuditRepository.ts`, `agent/audit/*` | hash-chained rows; JSONL files | append, verify | everything that is audited |
| Database, backup and restore: `storage/Database.ts`, `ops/backup.ts`, `ops/restore.ts` | the SQLite file and its write-ahead log; backup directories | open, check, write, close; createBackup; restoreBackup | three processes that share files and no lock |
| File approval store: `agent/approvals/ApprovalStore.ts` | records in memory and in a JSON file | init, put, consume, get | not used by the application, which uses the rows |
| Worker and sandbox: `agent/worker/*`, `agent/sandbox/*` | child process, timer, listeners, settled flag | run; message, exit, error, timeout, abort | Windows job helper |
| Computer actions: `agent/computer/*` | queued actions, lifecycle records | propose, approveAndVerify, reject | executor, screen, audit log |
| Screen monitoring: `agent/vision/*` | on/off gate, timer, capture in flight, suggestion | enable, disable, tick, accept, dismiss | OCR process, web server |
| Automatic repair loop: `agent/coding/RepairLoop.ts`, `CodingAgent.ts`, `VerificationEngine.ts`, `agent/debug/SelfDebugger.ts` | attempts of one run | run | workspace, sandbox, worker |
| Browser: `agent/browser/BrowserController.ts` | browser, context, tabs | start, stop, newTab, closeTab | Playwright |
| Web server, command lines | none of their own | route, format | interactive session, screen monitoring |
| Tools, providers, memory, privacy, research, school, configuration, native code | data | one call in, one call out | the outside world |

What makes each of the modelled ones correct:

* **Supervised execution.** One operation at a time. A red tool never runs; a yellow
  tool runs once, after a human granted exactly this call in this process; the log says
  what became of everything that was allowed. Nothing that fails keeps the lock.
* **Repair session.** One callback at a time works on the workspace. What an approval
  starts is what the human was shown, also after a restart. Attempts are bounded; what
  has ended stays so.
* **Interactive session.** The tool of a call runs at most once however asks and
  approvals overlap; the session never asks about a call the executor has forgotten; the
  model is told the truth; every ask ends.
* **Process lifecycle.** One process at a time holds the lock and has the database open,
  also when others start, stop late or crash; a lock left behind is taken over; a process
  that says it is ready is; a shutdown ends.
* **Worker.** What is reported of a command is true; every run is settled and leaves no
  worker behind; where there is a job object no command runs outside it or outlives it.
* **Screen monitoring.** A suggestion is about the screen that was processed last, and the
  filter let that screen through; turned off, monitoring forgets; turned on, it goes on.
* **Computer actions.** An action runs once at most and never after a rejection; its
  records say what became of it, and the last one stays the last; what is offered can be
  decided; observing ends.
* **Automatic repair.** Repairs are bounded; success means that every script passes on what
  is left; every run ends.
* **Database, backup and restore.** What a restore reports as restored is what the next
  process reads; production never runs on a database that does not verify; no damaged copy
  takes the live database's place; a finished backup verifies; only a restore takes records
  away.

## Hazards

`PROJECT.json` lists each at its line with the properties aimed at it. In short: state
that is read before an `await` and used after it (the approval row, the pending
approval, the flag of the lock); two objects that remember the same thing (pending calls
and approval manager; session and executor); a process exit with approvals open or a
repair running; a lock file judged on an old look at it; calls repeated or made
while another is in progress (the web server serves requests as they come, `app/local-web-server.ts:127-161`;
the command line waits for each, `app/interactive-cli.ts:15-44`); a late or repeated `start`; results dropped
half way; budgets at their limit; capture and OCR still at work when monitoring is turned
off; two memories of one suggestion, and two queues of one action; a record that cannot be
written; scripts that passed before a repair changed the files; a log file that outlives
the database it belongs to, and files that a broken-off backup or restore leaves.

## Modules

| module | models | extends |
|---|---|---|
| `SupervisedExecution` | the executor, its rows, lock, registry and budget | |
| `ApprovalGate` | what the executor promises about one action (abstract) | |
| `ToolExecutor` | what its callers rely on the executor for (abstract) | |
| `SupervisedExecution_proofs` | theorems about it | `SupervisedExecution` |
| `RepairSession` | the repair session, its coordinator and its file | |
| `RepairSession_proofs` | theorems about it | `RepairSession` |
| `InteractiveSession` | the session and the tool loop, over an executor seen from outside | |
| `InteractiveSession_proofs` | theorems about it | `InteractiveSession` |
| `ProcessLifecycle` | processes on one data directory: lock file, start, server, shutdown | |
| `WorkerRun` | one command run by agent, worker and job helper | |
| `Processes_proofs` | theorems about both | `ProcessLifecycle`, `WorkerRun` |
| `ScreenMonitoring` | the screen monitor, its filter, OCR, debouncer and suggestion | |
| `ScreenMonitoring_proofs` | theorems about it | `ScreenMonitoring` |
| `ComputerActions` | the workflow of a click or key press, over an executor seen from outside | |
| `ComputerActions_proofs` | theorems about it | `ComputerActions` |
| `AutomaticRepair` | verification and repair without a human | |
| `AutomaticRepair_proofs` | theorems about it | `AutomaticRepair` |
| `DatabaseRecovery` | the database with its log, audit rows, backup and restore | |
| `DatabaseRecovery_proofs` | theorems about it | `DatabaseRecovery` |
| `MCSupervised`, `MCRepair`, `MCSession`, `MCLifecycle`, `MCWorker`, `MCScreen`, `MCComputer`, `MCAutomatic`, `MCRecovery` | instances for TLC | each its module |

Each specification is parameterised by sets of actors and ids and by its limits, with
named assumptions. Variables under the comment *History* are read by no action of the
program. An operator under a comment that begins with *Mutant* is a wrong version of the
definition that follows; no specification uses it. The modules meet at what one says the
other does. `InteractiveSession` and `ComputerActions` use the executor by its answers, and
`ToolExecutor` is the contract between them: it has the calls the executor has decided about
(`seen`), those it holds for a human (`held`) and the one whose tool runs (`running`). That
`SupervisedExecution` gives no more than the contract, and that its two users take no more
than it, is the property `KeepsContract` of each of the three. A script of `AutomaticRepair`
is a run of `WorkerRun`; the order of lock and database in a start is `ProcessLifecycle`,
what is in the database `DatabaseRecovery`.

The contract orders what becomes of one call and keeps tools apart. It does not tell one run
of a tool from a second one that follows in the same step, which `OneRunPerCall` and
`StartsOnce` exclude on either side, and it says nothing of what a result contains.

### SupervisedExecution

| model | code |
|---|---|
| `active`, `Hold`, `Release` | `SessionLock.runExclusive`, whose `finally` gives the lock back |
| `pc` = creating, consumed, running | the three awaits of `executeUnlocked`: `createApproval`, `consume`, the tool |
| `req` | the request in the closure of the call |
| `pending`, `manager` | `SupervisedToolExecutor.pending`, `ApprovalManager.pending` |
| `store` | rows of the `approvals` table; `expired` stands for a clock past `expiresAt` |
| `session` | the random `sessionId` of a process |
| `controllers`, `aborted` | `CancellationRegistry` and the signals it has fired |
| `spent` | `SessionBudget.toolCalls` |
| `InspectRisk`, `PermissionFor`, `Risk`, `Decision` | classification for the operation `execute`, the only one the executor asks about |
| `ExecuteTool`, `ApproveAndResume`, `Reject`, `Cancel` | the entry points, up to their first await |
| `Suspend`, `Proceed`, `Finish` | what runs when an await resolves |
| `ApprovalExpires`, `Restart` | the clock; a process exit at any point |
| `DirectExecute` | the public `execute` under a caller that chooses its ids |

A payload stands for a tool name with its input, since `hashToolCall` tells exactly
these apart. `ApprovalGate` is the promise to the user: per action a gate that goes
new → asked → held → granted → running → over (a green one skips the middle; a refusal
ends it anywhere), and a number for the process. `Exit` is the one step that changes that
number, and it puts every action that is not new at `over`, for good. `KeepsGate` says that
the executor implements this. The mapping gives the gate of an action by where it stands:
at one of the three awaits of its invocation (`granted` being the one after a consumption
that a human granted), in `pending`, or nowhere; the process is `session`, so that a
`Restart` of the executor has to be an `Exit` of the gate: an executor that found
suspended calls again in a new process would not keep it. Requests that the lock, the
registry or the policy turns down are `over` at once.

### RepairSession

`state`, `attempt`, `repairPlan`, `approval`, `started`, `startPromise` are the fields of
the class; `chain[k]` is the callback that call `k` waits for; `saved` is the file;
`audit` the log. Only the callbacks leave the microtask queue, so an action runs from a
callback's answer to the next callback or to the end of the call, with its save and its
records: `VerifyReturns` includes the automatic repair it begins, `RepairReturns` the
verification it begins, `Settle` the save and the records. `Restart` builds a session from
the file at any point between two actions. The file keeps at most 1000 characters of each
text and blots out what looks like a secret; a plan here is what that leaves of it. The
branch "Pending repair is unavailable"
(`RepairSession.ts:73`) is not an action: `WaitingIsAnswerable` shows that no state takes
it. `needs_repair` never outlives the stretch of code that sets it.

### InteractiveSession

`flow[f]` is an ask or an approve in progress and what it waits for: the model, the tool
of a call, or the tool of the call that was approved. A response is known by the number
of its request; a call by its response and its place, which is what its random action id
tells apart. The executor appears as its callers see it: a call is refused at once (bad
arguments, denied, over budget, another tool running), its tool runs, or it is held
(`held`); `SupervisedExecution` is where that is shown to be what it does. `Process` is
the body of `processResponse`: from one answer to the next it may refuse several calls,
so it is written with sets of positions and not one call at a time. `Send` is
`createResponse` with the provider budget; a failed or late request, and one whose answer
overruns the cost budget, is `ModelFails`, as is the answer after the last turn, which the
code requests and does not look at. The row is inserted synchronously by the SQLite
adapter, so that a call is held is not a step of its own here. The session has no coding
workflow, as `createApplication` builds it.

### ProcessLifecycle

| model | code |
|---|---|
| `lock` | `toni-agent.lock`: whose it is, and whether the pid has been written to it yet |
| `pc` = opening … rewriting | the awaits of `ProcessLock.acquire`, one action each |
| `pc` = starting, serving, draining, releasing | `createApplication` after the lock; the web server; the wait of `installShutdown`; `ProcessLock.release` |
| `phase`, `SetPhase`, `MaySetPhase` | `StartupState` |
| `db` | the connection of `ToniDatabase`, whose `close` may be repeated |
| `IsProcessAlive`, `reused`, `PidReused` | `kill(pid, 0)`, which cannot tell the agent from another program with its pid |
| `Judge`, `Dies` | the refusal, which ends the process; the end of a process anywhere |
| `Starts`, `StartFails` | the stretches of `createApplication` between phases; its `catch` |
| `Listens`, `ServerError`, `Signal`, `Drain`, `Release` | the callbacks of `local-web-server.ts:171-182` and `installShutdown` |
| `Crash` | a kill, a crash, and the end of a command line, which neither closes nor releases anything |

A command line stays at `sandbox_ready`. `tools_ready` lasts for no await and is no state.
The server's host is an address by default, so the callback of `listen` comes before any
signal can; with a host name to resolve, a signal could come first. A pid that belongs to
another user counts as free in the code (`kill` throws `EPERM`); processes here are one
user's. A write that fails leaves the empty file (`Write`, `Rewrite`); that is the other
way into the `catch` of `acquire`.

### WorkerRun

Four processes: `client` is where `WorkerClient.run` stands in the agent ("armed" once its
timer and its listeners are set), `worker` the forked `WorkerProcess`, `command` what it
spawned, `helper` the program of `native/windows-job`; `request` and `response` are the
channel between the first two. Each event of Node is an action that needs its listener:
`Message`, `ChildEnds`, `Timeout`, `Abort`, `HelperEnds`. `Abort` before the listener is
there changes nothing but the signal. `Reply` may lose the response, as the worker exits
right after sending it, and `ChildEnds` may come before `Message`. `job` is
`options.windowsJob`; the helper's end closes the job object, which ends its processes
(`EndJob`). `ForkFails` and `HelperMissing` end the agent: the errors have no listener. A
command is taken to end when its worker sends it a signal. Runs share nothing, so one is
modelled; it has no constants, and what TLC checks is all of it.

### ScreenMonitoring

| model | code |
|---|---|
| `gate`, `Enable`, `Disable` | `ScreenObservationGate`, and with it the interval of `ScreenMonitor` |
| `tick` = capturing, reading | `captureInFlight`, and which of the two programs the tick waits for; "gone" after an unhandled rejection has ended the process |
| `captured` | the observation that the pipeline has given to OCR |
| `ocr`, `Probe`, `Read` | `TesseractScreenTextProvider`: disabled, or decided by its first probe |
| `suggestion`, `decision` | `ScreenSuggestionController` |
| `lastKey`, `cooling`, `CoolDown` | `ScreenSuggestionDebouncer` and its clock |
| `captureAt`, `blocked` | `latestScreenCaptureAt`, `latestScreenPrivacyBlocked` of the web server |
| `Blocked`, `Analyse`, `Conclude` | the filter, the assistant, and the callback that puts them in order |
| `TurnOn`, `TurnOff`, `Decide` | the POST routes of `local-web-server.ts:105-126` |

An observation is a screen and whether its text was read. `Matches` says how many of the
assistant's terms of each kind it has, so that the order of the table breaks ties. The tick
asks the gate after the capture and not after OCR.

### ComputerActions

`queued` is the workflow's map, `held` what the executor has suspended, `lock` what it runs,
`flow[f]` a call of `approveAndVerify` that waits for the tool or for a capture. The
executor forgets a suspended call before it tries its lock, so `Approve` may fail with the
action gone from both. Records are written one by one, at once, and each may throw:
`AppendFails` has the records before the one that threw, and the workflow then leaves its
queue as it is. `RecordExecution` writes nothing of the approval unless the tool returned,
as the facade's error result has no `approved`. `Verdict` is the validator's order of
questions: filtered, taken after the baseline, readable, as expected.

### AutomaticRepair

`loop[r]` is one call of `CodingAgent.run`: its attempt and the script it has come to.
`fault[s]` is the workspace: what script `s` would fail with now. The model and each repair
may change all of it. `Execution` follows a script's failure through sandbox, terminal and
worker to the two texts the engine sees, and `Shown` picks the one the debugger gets, as
`VerificationEngine.ts:117` does. `Analyse` is `SelfDebugger` with the attempt the engine
passes, always 1. `disturbed` says that another call has written to the workspace since a
call's last verification began. The debugger's own limit therefore never ends the loop, and
`Limit` does.

### DatabaseRecovery

| model | code |
|---|---|
| `live`, `validation` | the database and `.restore-validation.sqlite`, each a main file with its log |
| `copies` | the backup directories; `whole` once the metadata is there |
| `Views`, `Write`, `Closed` | SQLite in WAL mode (external) |
| `Initialized`, `Opened` | `ToniDatabase` and its `initialize` |
| `Intact`, `ChainHolds`, `Verifies` | `verifyDatabase`, `AuditRepository.verify`, `verifyAuditChain` |
| `Start`, `Check`, `Record`, `Stop`, `StartFails`, `Crash` | `createApplication`, its startup check of the audit storage, the sink, `installShutdown` |
| `BackupBegins`, `BackupCopied`, `BackupEnds`, `BackupDies` | the awaits of `createBackup` |
| `RestoreBegins`, `RestoreValidates`, `RestoreOpens`, `RestoreEnds`, `ValidationDies`, `RestoreDies` | the awaits of `restoreBackup` |

An audit row is its number, for its hash stands for all rows before it; a chain breaks only in
a damaged file. A log that was written over another main file is read as the log, or as damage
(`fits`). A file without bytes is a legal empty database to SQLite, which is how an
interrupted backup looks. A copy over the live file that is broken off (`RestoreDies`) leaves
it damaged, or without bytes, or, as Node removes the destination of a copy that failed, gone,
unless a process has it open, which keeps Windows from removing it. The database has one table
here, the audit events: what the other tables hold is `SupervisedExecution`'s store.

## Runs

| run | module, cfg | states | bounds | shows |
|---|---|---|---|---|
| `supervised` | `MCSupervised`, `Supervised.cfg` | 10,986 | 2 calls, 2 actions, 2 rows, 5 payloads, budget 1, 2 processes | `LockIsExclusive`, `PendingIsResumable`, `AuditAccountsForRuns`, `KeepsGate`, `KeepsContract`, `LockIsReleased`, `ConsumedIsSettled` |
| `supervised_direct` | `MCSupervised`, `SupervisedDirect.cfg` | 106,860 | the same with budget 2 and 2 payloads | `ApprovedForOneRun` for callers that mix ids |
| `supervised_stranded` | `MCSupervised`, `SupervisedStranded.cfg` | | budget 2 | violates `GrantedIsResumed` |
| `repair` | `MCRepair`, `Repair.cfg` | 38,000 | 2 calls, 2 plans, 1 id, 3 attempts, 2 processes | `CallbacksAreBounded`, `ApprovedIsShown`, `RejectionHolds`, `ApprovalIsLogged`, `EndIsFinal`, `CallsReturn` |
| `session` | `MCSession`, `Session.cfg` | 424,269 | 2 flows, 3 requests, 2 turns, 2 calls in a response | `OneRunPerCall`, `AnswersAreTrue`, `PendingAgrees`, `FlowsEnd` |
| `lifecycle` | `MCLifecycle`, `Lifecycle.cfg` | 11,133 | 2 processes | `HolderIsOnFile`, `DatabaseHasOneUser`, `StopEnds` |
| `worker` | `MCWorker`, `Worker.cfg` | 554 | none | `ReportIsTrue`, `CommandIsContained`, `RunEnds` |
| `screen` | `MCScreen`, `Screen.cfg` | 2,150 | 5 screens | `SuggestionFitsScreen`, `OffForgets`, `MonitoringGoesOn` |
| `computer` | `MCComputer`, `Computer.cfg` | 10,296 | 2 actions, 2 flows, 2 observations | `DecidedOnce`, `LogIsTrue`, `QueuedIsHeld`, `ObservingIsBounded`, `LastRecordStays`, `KeepsContract` |
| `automatic` | `MCAutomatic`, `Automatic.cfg` | 52,528 | 2 runs, 2 scripts, 2 command lines, limit 5 clamped to 3 | `RepairsAreBounded`, `OkIsVerified`, `LoopsEnd` |
| `automatic_permission` | `MCAutomatic`, `AutomaticPermission.cfg` | | 1 run | violates `PermissionIsNotRetried` |
| `recovery` | `MCRecovery`, `Recovery.cfg` | 935,987 | 2 backups, 2 records | `RestoredIsBackup`, `ReadyIsVerified`, `CopiesVerify`, `RecordsStay` |

Each module also defines a type invariant `TypeOK` (`RunTypeOK` in `WorkerRun`), which holds
on these instances and is a theorem for all of them; no run lists it, so that the runs keep
to what could go wrong.

Some properties have two halves, and a theorem for each: `ApprovedForOneRun` is
`RunningIsAuthorised` and `ApprovalBacksOneRun`, `CallbacksAreBounded` is `OneCallback` and
`VerificationsAreBounded`, `PendingAgrees` is `PendingIsHeld` and `HeldIsPending`,
`CopiesVerify` is `RestoreIsValidated` and `BackupsVerify`; `RunEnds` is about the run and
about what it leaves in its job.

**Why the bounds are enough.** Two calls are the fewest that can meet at a lock, share an
approval or overtake each other; a third only repeats one of the two, as no guard counts
callers. Two actions with two rows let one call use another's row; two processes let
everything durable meet a process that did not write it. The five payloads are one per way
to be classified and refused: green, yellow, made yellow by its name, forbidden by policy,
unknown. A tool budget of 1 makes the second tool of a process meet the limit. Three
attempts is the largest value the constructor admits. Three requests let one ask be held
and two approvals of it each go on, or one ask use up two turns and have its last response
discarded; two calls per response are the fewest where one runs and the next is held. Two
processes of the agent, each with any number of lives, are enough for a stale lock, a
refusal and a late release; the rest of the machine is in `reused`. The five screens are
one per way through filter and assistant: a private window, a text that is blocked once it
is read, a kind that reading changes, a tie between kinds, no hint at all. Two observations
let the policy ask once more and then stop. Two scripts let a repair break the one that had
passed; a limit of 5 shows the clamp. Two backups let one be restored while the other is
written, and two records tell an older image from a newer one; the service, backups and
restores may each begin again any number of times.
The theorems lift the bounds for every property they cover.

**Deadlock** is checked for `computer` and `recovery`. Every other system here may stop for
good, when a budget or the bound on processes is used up, when the process has ended, or when the user
asks for nothing more.

**Fairness.** Weak fairness on what the runtime schedules or a timeout ends: a resolved
promise is run, a tool returns or throws, a callback answers, a request to the model is
answered or aborted by its timeout signal (`OpenAIToolLoop.ts:60`), the five-second timer of
a shutdown fires (`installShutdown.ts:15`), so does that of a run, the job helper starts and
reads its input, a file operation answers, the monitor's interval fires, and the capture
script and the OCR program answer or are ended by their timeouts. A command of a worker
need never end. Nothing is assumed of the model's choices, of the human, of the clock, or
of a restart. That a tool or an injected repair ends is an assumption about it: neither the
executor nor the loop sets a timeout of its own. `computer` and `recovery` have safety
properties only: a tool there may hang, and a copy may take for ever.

**Conditions in properties.** Some promises hold only for a caller that waits for one call
before the next, as the command line does and the web server does not. Two properties of
`InteractiveSession` say so with the history variable `overlapped`; `HeldIsPending` also
excludes `/reset` and `/model` (`forgot`), and `RejectionHolds` a start that replays an
old result (`replayed`). Two of `ProcessLifecycle` hold until some process calls `acquire`
while another is in it (`raced`). `OffForgets` excepts an observation that was in OCR when
monitoring was turned off (`caught`). `LogIsTrue` excepts actions approved twice at a time
(`overlapped`), as `LastRecordStays` does for failures, and, like `QueuedIsHeld`, actions with a record that could not be written
(`unlogged`). `OkIsVerified` excepts a run under which another one has written to the
workspace (`disturbed`). `RestoredIsBackup`, `ReadyIsVerified` and `BackupsVerify` hold as long as nobody has
the database open while a restore replaces it (`shared`), which `ops/README.md` asks of the
operator and no lock enforces; `RecordsStay` for the steps that are not a restore's copying,
as long as all who open the database find the same; `RestoreIsValidated` until a restore has died while it
validated, and while no backup is still writing what is restored (`clean`). Without its
condition TLC finds each violated; see [deviations](#deviations-from-the-documents).

## Proofs

TLAPS proves, for every value of the constants that satisfies the assumptions in the
modules:

| theorem | states |
|---|---|
| `Typing`, `LockExclusion`, `Authorisation`, `ApprovalIsSingleUse`, `ControllersFollowRuns`, `AuditIsComplete` | the invariants `TypeOK`, `LockIsExclusive`, `RunningIsAuthorised`, `ApprovalBacksOneRun`, `ControllersAreRunning`, `AuditAccountsForRuns`, for callers that mix ids too (`DirectSpec`) |
| `AuthorityIsSpent` | `ApprovedForOneRun`: `RunningIsAuthorised` and `ApprovalBacksOneRun` in one |
| `HumanGranted`, `SuspendedIsResumable` | `RunningWasGranted`, `PendingIsResumable` behind the facade (`Spec`) |
| `GateIsKept` | the refinement `KeepsGate`: the executor behind its facade implements `ApprovalGate` |
| `ExecutorContract`, and `ContractIsEnough` of `InteractiveSession` and of `ComputerActions` | the refinements `KeepsContract`: executor, session and desktop workflow each implement `ToolExecutor` |
| `OneStartPerCall` | `StartsOnce`: a call of the model starts its tool once at most |
| `RepairTyping`, `OneCallbackAtATime`, `ApprovalIsExact`, `WaitingCanBeApproved`, `BoundedVerification`, `RejectionIsKept` | the invariants of `RepairSession`; `BoundedCallbacks` joins the second and the fifth |
| `EndedStaysEnded`, `ApprovalLeavesTrace` | the action properties `EndIsFinal`, `ApprovalIsLogged` |
| `SessionTyping`, `OneRun`, `PendingIsKnown`, `AnswersTrue`, `HeldIsReachable` | the invariants of `InteractiveSession`; `SessionAgrees` joins the third and the fifth |
| `LifecycleTyping`, `LockStaysOnFile`, `DatabaseIsExclusive`, `ReadinessIsTrue` | the invariants of `ProcessLifecycle` |
| `RunTyping`, `ReportsAreTrue`, `CommandsAreContained`, `WorkersAreGone` | the invariants of `WorkerRun` |
| `SuggestionsFit`, `OffKeepsNothing` | the invariants of `ScreenMonitoring` |
| `DecisionsCountOnce`, `RecordsAreTrue`, `QueueCanBeDecided`, `ObservationsAreBounded` | `DecidedOnce`, `LogIsTrue`, `QueuedIsHeld`, `ObservingIsBounded` of `ComputerActions` |
| `LastWords` | the action property `LastRecordStays`: after a rejection, a verdict or a failure nothing more is recorded of an action |
| `RepairsEnd`, `OkMeansVerified` | `RepairsAreBounded`, `OkIsVerified` of `AutomaticRepair` |
| `RestoreRestores`, `ReadyMeansVerified`, `RestoreValidatesSource`, `BackupsAreGood` | `RestoredIsBackup`, `ReadyIsVerified`, `RestoreIsValidated` and `BackupsVerify` of `DatabaseRecovery`; `CopiesAreGood` joins the last two |
| `RecordsAreKept` | the action property `RecordsStay`: only a restore takes records away |
| `WholeBackupsStay` | the action property `WholeIsFinal`: nobody touches a backup that has its metadata |

Each of the last four modules also has its type invariant as a theorem `Typing`. The
assumptions say that placeholders (`None`, "none", "other") are not data, that limits are
in the range the code clamps or checks them to, and that tables have the shape of the
code's; none restricts how many actors, ids or records there are.

**The executor.** The invariants are not inductive one by one. That a running tool is
authorised rests on what was checked before the approval was consumed, an await earlier:
the strengthening says of every call at `consumed` that its row is used, made in this
process, and matches its request, and at `creating` that its row exists and is its own.
That an approval is single-use rests on rows being used before they back a start, and on
one call at most holding the lock, so that no second call has looked at the row in
between. Behind the facade, action ids are fresh, so an action's row, its pending entry
and its request agree; that carries `HumanGranted` and `SuspendedIsResumable`. One lemma
per primitive step (`Launch`, `RequestApproval`, `ConsumeApproval`, ...) is shared by the
entry points.

**The gate.** `GateIsKept` needs to know, at each step, at which gate its action stands.
`GateCases` shows that the cases of the mapping exclude each other: an action that is
suspended has no invocation at an await. For that `GateInv` says that an action has one row
at most (`OneRowInv`), so the unused row of a suspended call is not the used one of an
invocation; has no start before it was asked for or while it is suspended (`StartInv`); and
that an invocation's place tells whether its action was started (`PlaceInv`). `LoneAt` and
`SameAt` say which awaits a step can change, `GateMoves` that a step which touches one action
is a move of the gate, and there is one lemma for each entry point and resumed await
(`ExecuteToolProposes`, `ApproveGrants`, `ProceedRuns`, ...). `RestartExits` shows that a
process exit leaves no action but a new one anywhere else than at `over`; `Cancel` and the
clock stutter. `StartsOnce` follows from the same invariant, as a start needs an action that
has none.

**The contract.** Executor and user are proved against `ToolExecutor` from opposite sides. For
the executor, `GateInv` gives what the contract asks: an action has no start before it was
held or is new, and what runs is behind the lock. The session and the workflow know the
executor from outside, so there the question is whether their own view of it (`held`, and
which flow waits for a tool) could ever take something the executor does not do. The session
needs one invariant more, `OneTool`: whoever starts a tool has found none running, so two
flows never wait for tools at once, and `SessionInv` tells which calls are still new. The
workflow needs `ActionInv` and no more. Each handler becomes one step of the contract or none:
`ContractStays` and its companions say when a step is hidden, and there is a lemma per handler
(`ApproveContract`, `RejectContract`, ...).

**The repair session.** The core of `RepairInv` is `Sound`: every snapshot that can come
back, whether the session's own, the file's, or the one `start` resolved to, has the plan,
the request and the attempt a waiting session needs, and the human was shown them. A
restart can then only produce sound sessions. `CallInv` says what a call may rely on when
its callback answers; with `OneCallback` it shows that no other call has moved the session
meanwhile.

**The interactive session.** `SessionInv` follows a call from the response that made it to
the output the model is sent. While a flow serves a response no other flow does, its calls
start in order and the outputs so far are true; once no flow serves it (`Gone`) only an
approval can start one of its calls, and only one the executor still holds. So a call
cannot start twice, and what was told about it stays true. `SerialInv` is what the
conditions on `overlapped` and `forgot` buy: at most one flow, and nothing held while it
runs. The lemmas follow the shape of the code: one for a new request (`SendKeeps`), one for
the end of a flow (`EndKeeps`), one for a tool that starts (`StartKeeps`), joined by
`ProcessKeeps` and cited by the entry points.

**The process lifecycle.** `HolderIsOnFile` is not inductive: `Remove` deletes whatever is
there. `LifecycleInv` adds what the one process in `acquire` may rely on at each await: at
`judging`, that it has read the pid of whoever holds the lock; at `removing` and
`reopening`, that nobody does; at `writing`, that the file is its own. `OpenInv` ties the
database and the phase to the place where the process is.

**The worker.** Neither invariant of `WorkerRun` is inductive: a response is in a channel, and a
request is on its way, when the command they belong to is decided. `RunInv` ties each of the
two channels to both its ends: before the request is sent nothing has come of the run
(`UnsentInv`); a worker with a request before it has done nothing, and one at work has said
nothing (`WorkerInv`); an answer on its way is true of a command that has ended
(`AnswerInv`); and a request is only sent to a worker whose job is there or has ended with it
(`JobInv`). TLC has also tried every step from every well-typed state that satisfies `RunInv`,
reachable or not.

**Screen monitoring.** A suggestion is dropped or replaced when a screen is processed, except
where the debouncer keeps quiet; then it must already be the right one. `MonitorInv` adds
that the debouncer's key is of the suggestion shown (`KeyInv`), so a quiet debouncer means
an unchanged suggestion, and that what is in OCR while monitoring is off was there when it
was turned off (`InFlightInv`). `AnalyseFindsMost` is what the assistant's table computes.

**Computer actions.** `ActionInv` says what has become of an action by who remembers it: held
by the executor, it has no start and no record but those of its proposal (`HeldInv`); not
started, it has no trace of a start (`UnstartedInv`); under way, it has one flow
(`FlowInv`), and the lock if its tool runs. As a start and a rejection both take the action
from the executor, each happens once and not both. `overlapped` and `unlogged` are needed
only where the records are compared with what happened. For `LastRecordStays`, `ClosedInv`
adds that nobody is at work on an action whose last record is written and that it is out of
the queue; a step is about one action that is not (`OneActs`).

**Automatic repair.** `LoopInv` counts: a loop at attempt *n* has repaired fewer than *n*
times, and *n* stops at the limit. And while nobody else writes, the scripts before the one
that runs pass, since a repair starts the verification over; at the last script that is all.

**Database, backup and restore.** `RecoveryInv` follows a copy from the database into a backup
and back. A backup with metadata verifies (`WholeInv`), because the database was checked
before it was copied and nobody replaced it meanwhile (`BackupInv`). A clean restore
has validated what it is about to copy, and copies it where there is no log and no
connection (`RestoreInv`), so a reader finds the backup until a service starts
(`RestoredInv`). Files are sequences of records of any length; no induction is needed, as
hashes make a file whole or damaged at once. `RecordsStay` compares what is found before and
after each step (`Follows`): opening, appending and closing have a lemma each, whoever else
has the database open.

**Model-checked only.** The liveness properties (`LockIsReleased`, `ConsumedIsSettled`,
`CallsReturn`, `FlowsEnd`, `StopEnds`, `RunEnds`, `MonitoringGoesOn`, `LoopsEnd`), since
fairness and `ENABLED` are out of the prover's reach. Every other property
of a passing run, invariant, action property or refinement, is a theorem. The modules use
no recursive operators, and nothing is proved by induction over data. Some theorems state
properties that no run lists: `TypeOK`, `ControllersAreRunning`, `RunningWasGranted`,
`StartsOnce`, `WaitingIsAnswerable`, `ReadyIsWhole`, `WorkerIsGone`, `WholeIsFinal`, and
`KeepsContract` of `InteractiveSession`, which holds on the instance of `session` too. Each
inductive invariant was model-checked on the instance of its module.

## Deviations from the documents

Two are kept as runs that end with a counterexample:

1. **A granted operation can be stranded** (`supervised_stranded`).
   `approveAndResume` deletes the pending call before `execute` tries the lock. Approved
   while another tool runs, the call is gone and its row waits to expire.
   `docs/TONI-AI-007-INTEGRATION.md:68`: "approved continuations resume the exact pending
   operation".
2. **A permission failure is repaired automatically** (`automatic_permission`). The worker
   answers every non-zero exit with one fixed text, which becomes `result.reason`, and
   `VerificationEngine.ts:117` shows that to the debugger before the script's own message.
   `RepairLoop.ts:31`: "Permission/access failures are never retried automatically."

The others are stated in their modules; TLC finds each violated when it is checked as a
property, and the conditions above are what is left when they are set aside:

3. **A rejection can be undone** (`RejectionStops` of `RepairSession`). `start` after a
   rejection saves the result of the first start over it; the next process waits for the
   approval again. `tests/repair-session.test.ts:62`: "rejecting approval stops the session".
4. **A repair can be stuck** (`RepairingIsUnderWay`). A call that changes nothing saves the
   session as `repairing`; a process exit later, no entry point moves it.
   `RepairSession.ts:26`: "Resumable bounded repair state machine".
5. **Results of tools are dropped** (`ResultsAreReturned` of `InteractiveSession`). When a
   response has a call that runs and then one that is held, the first one's output is
   discarded. `docs/OPENAI-INTEGRATION.md:13`: "Return tool results to the model."
6. **Two processes can hold the lock** (`OneHolder` of `ProcessLifecycle`). `acquire` reads
   the file, judges it, removes whatever is there by then, and creates its own. Of two
   processes that find the same stale lock, or an empty file its owner has yet to write, the
   slower removes the lock the faster has taken. `security/RELEASE-GATE.md:18`: "Only one
   runtime process can hold the application lock."
7. **A command can outlive its run** (`CommandIsBounded` of `WorkerRun`). Timeout and abort
   kill the worker, not its command; the worker's own timer, set later for the same time,
   ends with it. Only a job object ends the command. `security/DATA-FLOW.md:3`: "Worker
   execution is isolated and bounded."
8. **Screen data comes up after monitoring was turned off** (`OffRetainsNothing` of
   `ScreenMonitoring`). The gate is asked after the capture, not after OCR, so what was in
   OCR is suggested and kept. `ScreenObservation.ts:22`: implementations "must not capture,
   OCR, upload or retain screen data while disabled".

Seen while modelling, without a document that promises otherwise: a repair approved just
before a process exit can be approved and run again; a call approved twice at once is
reported to the model as failed while it runs; overlapping asks, `/reset` and `/model`
leave calls with the executor that `approve` no longer finds; the last turn of a loop
requests a response that nobody looks at; an error of the server leaves the lock with a
process that has closed its database, and a signal after it ends in an unhandled rejection
that leaves the lock file; a stale lock whose pid belongs to another program keeps the
agent from starting until that program ends; a worker that cannot be forked, or a helper
that cannot be spawned, ends the agent, and so does a failed capture of the screen; an
abort while a helper is being attached is lost; the terminal tool does not pass its signal
on at all (`agent/tools/DefaultToolRegistry.ts:72`).

In the recovery: a backup interrupted at its start leaves a file without bytes, which
`restore.ts:21` makes a database before it verifies it, so it passes and its empty file
replaces the live one; the source is read twice (`restore.ts:17`, `:31`) and only the first
copy is verified; `restore.ts:16` removes an old validation file and not its log; a damaged
live database may not open, and then `restore.ts:29` throws instead of replacing it; a copy
over the live file that is broken off at its start, or fails and is removed (`restore.ts:31`),
leaves a file that the next start initialises anew, which becomes ready with an empty database
(`ReadyIsVerified` holds of it and does not tell it from a first start); a
restore takes no lock, though it must not run beside the service; in development a startup
check that fails is noted and ignored (`StartupChecks.ts:10`).

## Not modelled

* Texts, prompts, summaries and error messages; the scanning, planning and patching behind
  the repair callbacks; what tools do to the world.
* `requestCount` and `model` of the session, which no other state depends on; metrics.
* Failing disk writes of the repair session and of the executor's sink, and a damaged
  repair file. A process exit falls between two actions, so never between a save and the
  record after it. (`ComputerActions` has failing records, but not the one that fails after
  its line is written, at `AuditLog.ts:61`.)
* Cancellation before the executor is entered: the facade passes a signal nobody aborts.
* The bounded histories of actors: a call that has returned may be made again, so two names
  stand for any number of successive calls; rows and requests are used up and bounded.
* What a session with a coding workflow does with `ask`; the deletion of old approval rows.
* `ApprovalStore`, which only tests build, and `AuditLogger`, which nothing builds.
* The browser: one object around Playwright that the session lock keeps for one call at a
  time; its limit on tabs has a second user nowhere in the application.
* Memory, privacy filters, research, school, documents, configuration, observability: data
  in, data out.

## Plan

Done: the nine specifications, `ApprovalGate` and `ToolExecutor`, with every property that a
passing run checks proved, but for liveness. Left, should the code change there:

1. `RepairSession`: an abstract session that a human can approve once, which the code does not
   implement yet (deviations 3 and 4); with a start that honours a rejection, and a restored
   session that can be moved, it could.
2. `InteractiveSession` with a coding workflow, once `createApplication` builds one.
3. `ProcessLifecycle`: `DatabaseHasOneUser` without the condition on `raced`, once `acquire`
   takes a stale lock over in one step.
