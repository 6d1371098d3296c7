--------------------------- MODULE Processes_proofs ---------------------------
(***************************************************************************)
(* Safety of the agent's processes: of ProcessLifecycle for every set of   *)
(* processes that share a data directory, and of WorkerRun, whose run one  *)
(* of them makes of a command.  The two share no state.                    *)
(*                                                                         *)
(* LifecycleInv is inductive.  As long as no two processes were in acquire *)
(* at once, a process that is about to remove the lock file has made sure  *)
(* that nobody holds it, and nobody can have come to hold it since.        *)
(*                                                                         *)
(* RunInv is inductive.  A request is sent to a worker that has done       *)
(* nothing yet and, where there is to be a job, is in it already; an       *)
(* answer is sent once, of a command that has ended, and what has ended    *)
(* stays as it is.                                                         *)
(***************************************************************************)
EXTENDS ProcessLifecycle, WorkerRun, TLAPS

\* Every process past acquire has its pid in the lock file.
OnFile == \A p \in Processes : pc[p] \in Holding => lock = [owner |-> p, written |-> TRUE]

\* What the one process in acquire may rely on at the await where it stands.
AloneInv ==
  ~raced =>
    /\ OnFile
    /\ \A p, q \in Processes : pc[p] \in Acquiring /\ pc[q] \in Acquiring => p = q
    /\ \A p \in Processes :
         /\ pc[p] \in {"writing", "rewriting"} => lock = [owner |-> p, written |-> FALSE]
         /\ pc[p] = "judging" => \A q \in Processes : pc[q] \in Holding => seen[p] = q /\ q # p
         /\ pc[p] \in {"removing", "reopening"} => \A q \in Processes : pc[q] \notin Holding

\* The database is open, and the process says it is ready, only past acquire.
OpenInv ==
  \A p \in Processes :
    /\ db[p] => pc[p] \in {"starting", "serving", "draining"}
    /\ phase[p] = "server_ready" => pc[p] = "serving" /\ db[p]
    /\ pc[p] = "serving" /\ phase[p] = "sandbox_ready" => db[p]
    /\ pc[p] = "starting" /\ phase[p] \in {"storage_ready", "providers_ready"} => db[p]

LifecycleInv == TypeOK /\ AloneInv /\ OpenInv

-----------------------------------------------------------------------------
\* The contents of a lock file are not the absence of one.
LEMMA LockIsSomething ==
  ASSUME NEW p \in Processes
  PROVE  [owner |-> p, written |-> TRUE] # None /\ [owner |-> p, written |-> FALSE] # None
<1>1. TRUE \in BOOLEAN /\ FALSE \in BOOLEAN
  OBVIOUS
<1>2. [owner |-> p, written |-> TRUE] \in [owner : Processes, written : BOOLEAN]
  BY <1>1
<1>3. [owner |-> p, written |-> FALSE] \in [owner : Processes, written : BOOLEAN]
  BY <1>1
<1>4. QED
  BY <1>2, <1>3, NoneAssumption

\* Writing the pid leaves a lock file a lock file.
LEMMA WrittenType ==
  ASSUME lock \in [owner : Processes, written : BOOLEAN] \cup {None}, NEW p \in Processes
  PROVE  Written(p) \in [owner : Processes, written : BOOLEAN] \cup {None}
<1>1. CASE lock # None /\ lock.owner = p
  <2>1. lock \in [owner : Processes, written : BOOLEAN] /\ TRUE \in BOOLEAN
    BY <1>1
  <2>2. [lock EXCEPT !.written = TRUE] \in [owner : Processes, written : BOOLEAN]
    BY <2>1
  <2>3. QED
    BY <1>1, <2>2 DEF Written
<1>2. CASE ~(lock # None /\ lock.owner = p)
  BY <1>2 DEF Written
<1>3. QED
  BY <1>1, <1>2

\* At first there is no process.
LEMMA LifecycleInit == Init => LifecycleInv
BY DEF Init, LifecycleInv, TypeOK, AloneInv, OnFile, OpenInv, Acquiring, Holding, Phases

\* Types: every step writes known values.
LEMMA LifecycleType ==
  ASSUME TypeOK, NEW p \in Processes,
         Start(p) \/ Open(p) \/ Write(p) \/ Read(p) \/ Judge(p) \/ Remove(p) \/ Reopen(p)
         \/ Rewrite(p) \/ Starts(p) \/ StartFails(p) \/ Listens(p) \/ ServerError(p)
         \/ Connects(p) \/ Disconnects(p) \/ Signal(p) \/ Drain(p) \/ Release(p)
         \/ Leaves(p) \/ Crash(p) \/ PidReused(p)
  PROVE  TypeOK'
<1>1. Written(p) \in [owner : Processes, written : BOOLEAN] \cup {None}
  BY WrittenType DEF TypeOK
<1>2. CASE Judge(p)
  <2>1. CASE Dies(p) /\ UNCHANGED <<lock, reused, raced>>
    BY <2>1 DEF TypeOK, Dies, Goto, SetPhase, SetDatabase, Acquiring, Holding, Phases
  <2>2. CASE Goto(p, "removing") /\ UNCHANGED <<lock, seen, process, reused, raced>>
    BY <2>2 DEF TypeOK, process, Goto, Acquiring, Holding
  <2>3. QED
    BY <1>2, <2>1, <2>2 DEF Judge
<1> USE DEF TypeOK, process, Goto, SetPhase, SetDatabase, Dies, Acquiring, Holding, Phases
<1>3. CASE Start(p)
  BY <1>3 DEF Start
<1>4. CASE Read(p) \/ Remove(p)
  BY <1>4 DEF Read, Remove
<1>5. CASE Open(p)
  <2>1. [owner |-> p, written |-> FALSE] \in [owner : Processes, written : BOOLEAN]
    OBVIOUS
  <2>2. lock' \in [owner : Processes, written : BOOLEAN] \cup {None}
    BY <1>5, <2>1 DEF Open
  <2>3. pc' \in [Processes -> Acquiring \cup Holding \cup {"off", "stopped"}]
    BY <1>5 DEF Open
  <2>4. QED
    BY <1>5, <2>2, <2>3 DEF Open
<1>6. CASE Write(p)
  <2>1. lock' \in [owner : Processes, written : BOOLEAN] \cup {None}
    BY <1>1, <1>6 DEF Write
  <2>2. pc' \in [Processes -> Acquiring \cup Holding \cup {"off", "stopped"}]
    BY <1>6 DEF Write
  <2>3. phase' \in [Processes -> Phases]
    BY <1>6 DEF Write
  <2>4. QED
    BY <1>6, <2>1, <2>2, <2>3 DEF Write
<1>7. CASE Reopen(p)
  <2>1. [owner |-> p, written |-> FALSE] \in [owner : Processes, written : BOOLEAN]
    OBVIOUS
  <2>2. CASE lock' = [owner |-> p, written |-> FALSE] /\ Goto(p, "rewriting")
             /\ UNCHANGED <<seen, process, reused, raced>>
    <3>1. lock' \in [owner : Processes, written : BOOLEAN] \cup {None}
      BY <2>1, <2>2
    <3>2. pc' \in [Processes -> Acquiring \cup Holding \cup {"off", "stopped"}]
      BY <2>2
    <3>3. QED
      BY <2>2, <3>1, <3>2
  <2>3. CASE Dies(p) /\ UNCHANGED <<lock, reused, raced>>
    BY <2>3
  <2>4. QED
    BY <1>7, <2>2, <2>3 DEF Reopen
<1>8. CASE Rewrite(p)
  BY <1>1, <1>8 DEF Rewrite
<1>9. CASE Starts(p) \/ StartFails(p) \/ Listens(p) \/ ServerError(p)
  BY <1>9 DEF Starts, StartFails, Listens, ServerError
<1>10. CASE Connects(p) \/ Disconnects(p) \/ Signal(p) \/ Drain(p)
  BY <1>10 DEF Connects, Disconnects, Signal, Drain
<1>11. CASE Release(p) \/ Leaves(p) \/ Crash(p) \/ PidReused(p)
  BY <1>11 DEF Release, Leaves, Crash, PidReused
<1> HIDE DEF TypeOK, process, Goto, SetPhase, SetDatabase, Dies, Acquiring, Holding, Phases
<1>12. QED
  BY <1>2, <1>3, <1>4, <1>5, <1>6, <1>7, <1>8, <1>9, <1>10, <1>11

\* The steps of acquire keep what the process in it relies on.
LEMMA AcquireKeeps ==
  ASSUME LifecycleInv, NEW p \in Processes,
         Start(p) \/ Open(p) \/ Write(p) \/ Read(p) \/ Judge(p) \/ Remove(p) \/ Reopen(p)
         \/ Rewrite(p)
  PROVE  AloneInv' /\ OpenInv'
<1> USE DEF LifecycleInv, TypeOK, process, Goto, SetPhase, SetDatabase, Dies, Acquiring, Holding
<1>1. OpenInv'
  <2>1. CASE Start(p) \/ Open(p) \/ Read(p) \/ Remove(p)
    BY <2>1 DEF OpenInv, Start, Open, Read, Remove
  <2>2. CASE Write(p) \/ Judge(p) \/ Reopen(p) \/ Rewrite(p)
    BY <2>2 DEF OpenInv, Write, Judge, Reopen, Rewrite
  <2>3. QED
    BY <2>1, <2>2
<1>2. SUFFICES ASSUME ~raced'
               PROVE  AloneInv'
  BY <1>1 DEF AloneInv
<1>3. ~raced /\ (Start(p) => \A q \in Processes : pc[q] \notin Acquiring)
  BY <1>2 DEF Start, Open, Write, Read, Judge, Remove, Reopen, Rewrite
<1>4. /\ OnFile
      /\ \A q, r \in Processes : pc[q] \in Acquiring /\ pc[r] \in Acquiring => q = r
      /\ \A q \in Processes :
           /\ pc[q] \in {"writing", "rewriting"} => lock = [owner |-> q, written |-> FALSE]
           /\ pc[q] = "judging" => \A r \in Processes : pc[r] \in Holding => seen[q] = r /\ r # q
           /\ pc[q] \in {"removing", "reopening"} => \A r \in Processes : pc[r] \notin Holding
  BY <1>3 DEF AloneInv
<1>5. (\A q \in Processes \ {p} : pc'[q] = pc[q] /\ pc[q] \notin Acquiring) /\ pc'[p] \in Acquiring \cup {"starting", "off"}
  <2>1. \A q \in Processes \ {p} : pc'[q] = pc[q]
    BY DEF Start, Open, Write, Read, Judge, Remove, Reopen, Rewrite
  <2>2. pc'[p] \in Acquiring \cup {"starting", "off"}
    BY DEF Start, Open, Write, Read, Judge, Remove, Reopen, Rewrite
  <2>3. Start(p) \/ pc[p] \in Acquiring
    BY DEF Open, Write, Read, Judge, Remove, Reopen, Rewrite
  <2>4. QED
    BY <2>1, <2>2, <2>3, <1>3, <1>4
<1>6. \A q, r \in Processes : pc'[q] \in Acquiring /\ pc'[r] \in Acquiring => q = r
  BY <1>5
<1>7. CASE Start(p) \/ Read(p) \/ Judge(p)
  <2>1. CASE Start(p)
    BY <2>1, <1>4, <1>5, <1>6 DEF AloneInv, OnFile, Start
  <2>2. CASE Read(p)
    <3>1. lock' = lock /\ pc'[p] = "judging" /\ pc[p] = "reading"
      BY <2>2 DEF Read
    <3>2. \A q \in Processes : pc'[q] \in Holding => pc[q] \in Holding /\ q # p /\ seen'[p] = q
      <4>1. TAKE q \in Processes
      <4>2. HAVE pc'[q] \in Holding
      <4>3. pc[q] \in Holding /\ q # p
        BY <4>2, <3>1, <1>5
      <4>4. lock = [owner |-> q, written |-> TRUE]
        BY <4>3, <1>4 DEF OnFile
      <4>5. lock # None /\ lock.written /\ lock.owner = q
        BY <4>4, LockIsSomething
      <4>6. seen'[p] = q
        BY <4>5, <2>2 DEF Read
      <4>7. QED
        BY <4>3, <4>6
    <3>3. QED
      BY <3>1, <3>2, <1>4, <1>5, <1>6 DEF AloneInv, OnFile
  <2>3. CASE Judge(p)
    <3>1. lock' = lock /\ pc[p] = "judging" /\ pc'[p] \in {"off", "removing"}
      BY <2>3 DEF Judge
    <3>2. \A q \in Processes : pc'[q] \in Holding => pc[q] \in Holding /\ q # p
      BY <3>1, <1>5
    <3>3. pc'[p] = "removing" => \A q \in Processes : pc[q] \notin Holding
      BY <2>3, <1>4, <3>1, NoneAssumption DEF Judge, IsProcessAlive
    <3>4. QED
      BY <3>1, <3>2, <3>3, <1>4, <1>5, <1>6 DEF AloneInv, OnFile
  <2>4. QED
    BY <1>7, <2>1, <2>2, <2>3
<1>8. CASE Open(p) \/ Reopen(p) \/ Remove(p)
  <2>1. CASE lock = None /\ lock' = [owner |-> p, written |-> FALSE]
             /\ pc'[p] \in {"writing", "rewriting"}
    <3>1. \A q \in Processes : pc[q] \notin Holding
      BY <2>1, <1>4, LockIsSomething DEF OnFile
    <3>2. QED
      BY <2>1, <3>1, <1>5, <1>6 DEF AloneInv, OnFile
  <2>2. CASE lock' = lock /\ pc'[p] \in {"reading", "off"}
    BY <2>2, <1>4, <1>5, <1>6 DEF AloneInv, OnFile
  <2>3. CASE Remove(p)
    <3>1. \A q \in Processes : pc[q] \notin Holding
      BY <2>3, <1>4 DEF Remove
    <3>2. pc'[p] = "reopening"
      BY <2>3 DEF Remove
    <3>3. QED
      BY <3>1, <3>2, <1>5, <1>6 DEF AloneInv, OnFile
  <2>4. QED
    BY <1>8, <2>1, <2>2, <2>3 DEF Open, Reopen
<1>9. CASE Write(p) \/ Rewrite(p)
  <2>1. lock = [owner |-> p, written |-> FALSE]
    BY <1>9, <1>4 DEF Write, Rewrite
  <2>2. \A q \in Processes : pc[q] \notin Holding
    BY <2>1, <1>4 DEF OnFile
  <2>3. CASE lock' = Written(p) /\ pc'[p] = "starting"
    <3>1. lock' = [owner |-> p, written |-> TRUE]
      BY <2>1, <2>3, LockIsSomething DEF Written
    <3>2. /\ \A q \in Processes \ {p} : pc'[q] \notin Holding /\ pc'[q] \notin Acquiring
          /\ pc'[p] \notin Acquiring
      BY <2>2, <2>3, <1>5
    <3>3. OnFile'
      BY <3>1, <3>2 DEF OnFile
    <3>4. QED
      BY <3>2, <3>3 DEF AloneInv
  <2>4. CASE lock' = lock /\ pc'[p] \in {"reading", "off"}
    BY <2>4, <2>2, <1>5, <1>6 DEF AloneInv, OnFile
  <2>5. QED
    BY <1>9, <2>3, <2>4 DEF Write, Rewrite
<1>10. QED
  BY <1>7, <1>8, <1>9

\* So do the steps of a process past acquire, and the ends of processes.
LEMMA ServeKeeps ==
  ASSUME LifecycleInv, NEW p \in Processes,
         Starts(p) \/ StartFails(p) \/ Listens(p) \/ ServerError(p) \/ Connects(p)
         \/ Disconnects(p) \/ Signal(p) \/ Drain(p) \/ Release(p) \/ Leaves(p) \/ Crash(p)
         \/ PidReused(p)
  PROVE  AloneInv' /\ OpenInv'
<1> USE DEF LifecycleInv, TypeOK, process, Goto, SetPhase, SetDatabase, Dies, Acquiring, Holding
<1>1. CASE Starts(p) \/ StartFails(p)
  BY <1>1 DEF AloneInv, OnFile, OpenInv, Starts, StartFails
<1>2. CASE Listens(p) \/ ServerError(p)
  BY <1>2 DEF AloneInv, OnFile, OpenInv, Listens, ServerError
<1>3. CASE Connects(p) \/ Disconnects(p) \/ PidReused(p)
  BY <1>3 DEF AloneInv, OnFile, OpenInv, Connects, Disconnects, PidReused
<1>4. CASE Signal(p)
  BY <1>4 DEF AloneInv, OnFile, OpenInv, Signal
<1>5. CASE Drain(p)
  BY <1>5 DEF AloneInv, OnFile, OpenInv, Drain
<1>6. CASE Release(p)
  <2>1. OpenInv'
    <3>1. ~db[p]
      BY <1>6 DEF OpenInv, Release
    <3>2. QED
      BY <1>6, <3>1 DEF OpenInv, Release
  <2>2. SUFFICES ASSUME ~raced
                 PROVE  AloneInv'
    BY <1>6, <2>1 DEF AloneInv, Release
  <2>3. \A q \in Processes : pc[q] \in Holding => q = p
    BY <1>6, <2>2 DEF AloneInv, OnFile, Release
  <2>4. \A q \in Processes : pc[q] \notin {"writing", "rewriting"}
    BY <1>6, <2>2 DEF AloneInv, OnFile, Release
  <2>5. pc'[p] \in {"off", "stopped"} /\ \A q \in Processes \ {p} : pc'[q] = pc[q]
    BY <1>6 DEF Release
  <2>6. raced' = raced /\ \A q \in Processes \ {p} : seen'[q] = seen[q]
    BY <1>6 DEF Release
  <2>7. QED
    BY <2>2, <2>3, <2>4, <2>5, <2>6 DEF AloneInv, OnFile
<1>7. CASE Leaves(p) \/ Crash(p)
  BY <1>7 DEF AloneInv, OnFile, OpenInv, Leaves, Crash
<1>8. QED
  BY <1>1, <1>2, <1>3, <1>4, <1>5, <1>6, <1>7

\* Every step keeps the invariant.
LEMMA LifecycleNext == LifecycleInv /\ [Next]_vars => LifecycleInv'
<1> SUFFICES ASSUME LifecycleInv, [Next]_vars PROVE LifecycleInv'
  OBVIOUS
<1>1. CASE UNCHANGED vars
  BY <1>1 DEF vars, process, LifecycleInv, TypeOK, AloneInv, OnFile, OpenInv
<1>2. CASE Next
  <2>1. PICK p \in Processes :
          \/ Start(p) \/ Open(p) \/ Write(p) \/ Read(p) \/ Judge(p) \/ Remove(p) \/ Reopen(p)
             \/ Rewrite(p)
          \/ Starts(p) \/ StartFails(p) \/ Listens(p) \/ ServerError(p) \/ Connects(p)
             \/ Disconnects(p) \/ Signal(p) \/ Drain(p) \/ Release(p) \/ Leaves(p) \/ Crash(p)
             \/ PidReused(p)
    BY <1>2 DEF Next
  <2>2. TypeOK'
    BY <2>1, LifecycleType DEF LifecycleInv
  <2>3. AloneInv' /\ OpenInv'
    BY <2>1, AcquireKeeps, ServeKeeps
  <2>4. QED
    BY <2>2, <2>3 DEF LifecycleInv
<1>3. QED
  BY <1>1, <1>2

-----------------------------------------------------------------------------
\* The inductive invariant holds of every behaviour.
THEOREM LifecycleInvariant == Spec => []LifecycleInv
BY LifecycleInit, LifecycleNext, PTL DEF Spec

\* The state has its type.
THEOREM LifecycleTyping == Spec => []TypeOK
<1>1. LifecycleInv => TypeOK
  BY DEF LifecycleInv
<1>2. QED
  BY <1>1, LifecycleInvariant, PTL

\* A process past acquire keeps its lock file until it releases it.
THEOREM LockStaysOnFile == Spec => []HolderIsOnFile
<1>1. LifecycleInv => HolderIsOnFile
  BY DEF LifecycleInv, AloneInv, OnFile, HolderIsOnFile
<1>2. QED
  BY <1>1, LifecycleInvariant, PTL

\* The database has one user at a time.
THEOREM DatabaseIsExclusive == Spec => []DatabaseHasOneUser
<1>1. LifecycleInv => DatabaseHasOneUser
  <2>1. SUFFICES ASSUME LifecycleInv, ~raced, NEW p \in Processes, NEW q \in Processes,
                        db[p], db[q]
                 PROVE  p = q
    BY DEF DatabaseHasOneUser
  <2>2. lock = [owner |-> p, written |-> TRUE] /\ lock = [owner |-> q, written |-> TRUE]
    BY <2>1 DEF LifecycleInv, AloneInv, OnFile, OpenInv, Holding
  <2>3. QED
    BY <2>2
<1>2. QED
  BY <1>1, LifecycleInvariant, PTL

\* A process that says it is ready has the database open, and is past acquire.
THEOREM ReadinessIsTrue == Spec => []ReadyIsWhole
<1>1. LifecycleInv => ReadyIsWhole
  BY DEF LifecycleInv, OpenInv, ReadyIsWhole, Holding
<1>2. QED
  BY <1>1, LifecycleInvariant, PTL

-----------------------------------------------------------------------------
(* A run of a command *)

\* Before the request is sent, nothing has come of the run.
UnsentInv ==
  /\ client \in {"idle", "validating", "attaching"} =>
       /\ outcome = "none" /\ ~request /\ response = "none"
       /\ command = "none" /\ worker # "working"
  /\ client \in {"idle", "validating"} => worker = "none" /\ helper = "none"
  /\ client = "attaching" => job
  /\ client = "armed" => outcome = "none"

\* The worker takes one request, runs one command and answers when that has ended.
WorkerInv ==
  /\ request \/ worker = "waiting" =>
       command = "none" /\ response = "none" /\ outcome \notin Answers
  /\ request => worker # "working"
  /\ worker = "working" => command # "none" /\ response = "none" /\ outcome \notin Answers

\* An answer on its way is true of the command, which has ended or never began.
AnswerInv ==
  /\ response # "none" => command # "running"
  /\ response = "ok" => command = "zero"
  /\ response = "failed" => command \in {"none", "nonzero", "killed"}

\* A worker that is to be in a job has been put there before it is asked for anything, and
\* does not outlive the helper.
JobInv ==
  /\ job /\ (request \/ command = "running") => helper \in {"assigned", "gone"}
  /\ helper = "gone" => ~WorkerLives

RunInv ==
  /\ RunTypeOK /\ UnsentInv /\ WorkerInv /\ AnswerInv /\ JobInv
  /\ ReportIsTrue /\ CommandIsContained /\ WorkerIsGone

\* It holds before the run is asked for.
LEMMA RunStarts == RunInit => RunInv
BY DEF RunInit, RunInv, RunTypeOK, UnsentInv, WorkerInv, AnswerInv, JobInv, ReportIsTrue,
       CommandIsContained, WorkerIsGone, Outcomes, Answers, WorkerLives

\* The worker is forked from a client that has asked nothing of anybody.
LEMMA ForkSafe ==
  ASSUME RunInv, client \in {"idle", "validating"}, Fork,
         UNCHANGED <<job, aborted, response, command>>
  PROVE  RunInv'
<1> USE DEF RunInv, RunTypeOK, UnsentInv, WorkerInv, AnswerInv, JobInv, ReportIsTrue,
            CommandIsContained, WorkerIsGone, Outcomes, Answers, WorkerLives
<1>1. outcome = "none" /\ ~request /\ response = "none" /\ command = "none" /\ helper = "none"
  OBVIOUS
<1>2. CASE job
  BY <1>1, <1>2 DEF Fork
<1>3. CASE ~job
  BY <1>1, <1>3 DEF Fork
<1> QED
  BY <1>2, <1>3

\* What `run` does until it has sent the request.
LEMMA ClientBegins ==
  ASSUME RunInv, Run \/ Validated \/ Attached \/ AttachFails \/ HelperMissing
  PROVE  RunInv'
<1> USE DEF RunInv, RunTypeOK, UnsentInv, WorkerInv, AnswerInv, JobInv, ReportIsTrue,
            CommandIsContained, WorkerIsGone, Outcomes, Answers, WorkerLives
<1>1. CASE Run
  <2>1. CASE Fork
    BY <1>1, <2>1, ForkSafe DEF Run
  <2>2. CASE ~Fork
    BY <1>1, <2>2 DEF Run, ForkFails, Settle
  <2> QED
    BY <2>1, <2>2
<1>2. CASE Validated
  <2>1. CASE Fork
    BY <1>2, <2>1, ForkSafe DEF Validated
  <2>2. CASE ~Fork
    BY <1>2, <2>2 DEF Validated, ForkFails, Settle
  <2> QED
    BY <2>1, <2>2
<1>3. CASE Attached
  BY <1>3 DEF Attached
<1>4. CASE AttachFails
  BY <1>4 DEF AttachFails, Settle, KillWorker
<1>5. CASE HelperMissing
  BY <1>5 DEF HelperMissing, KillWorker
<1> QED
  BY <1>1, <1>2, <1>3, <1>4, <1>5

\* What ends a run: of all that crosses, the first to come settles it.
LEMMA ClientEnds ==
  ASSUME RunInv, Message \/ ChildEnds \/ Timeout \/ Abort \/ HelperEnds \/ AgentEnds
  PROVE  RunInv'
<1> USE DEF RunInv, RunTypeOK, UnsentInv, WorkerInv, AnswerInv, JobInv, ReportIsTrue,
            CommandIsContained, WorkerIsGone, Outcomes, Answers, WorkerLives
<1>1. CASE Message
  BY <1>1 DEF Message, Settle, KillWorker
<1>2. CASE ChildEnds
  BY <1>2 DEF ChildEnds, Settle
<1>3. CASE Timeout
  BY <1>3 DEF Timeout, Settle, KillWorker
<1>4. CASE Abort
  BY <1>4 DEF Abort, Settle, KillWorker
<1>5. CASE HelperEnds
  BY <1>5 DEF HelperEnds, Settle, KillWorker
<1>6. CASE AgentEnds
  BY <1>6 DEF AgentEnds
<1> QED
  BY <1>1, <1>2, <1>3, <1>4, <1>5, <1>6

\* What the worker and its command do.
LEMMA WorkerActs ==
  ASSUME RunInv,
         Execute \/ CommandCloses \/ CommandTimeout \/ CommandEnds \/ WorkerDies \/ WorkerLeaves
  PROVE  RunInv'
<1> USE DEF RunInv, RunTypeOK, UnsentInv, WorkerInv, AnswerInv, JobInv, ReportIsTrue,
            CommandIsContained, WorkerIsGone, Outcomes, Answers, WorkerLives
<1>1. CASE Execute
  <2>1. client \notin {"idle", "validating", "attaching"} /\ command = "none" /\ response = "none"
    BY <1>1 DEF Execute
  <2>2. CASE Reply("failed") /\ UNCHANGED command
    BY <1>1, <2>1, <2>2 DEF Execute, Reply
  <2>3. CASE worker' = "working" /\ command' = "running" /\ UNCHANGED response
    BY <1>1, <2>1, <2>3 DEF Execute
  <2> QED
    BY <1>1, <2>2, <2>3 DEF Execute
<1>2. CASE CommandCloses
  BY <1>2 DEF CommandCloses, Reply, Answer
<1>3. CASE CommandTimeout
  BY <1>3 DEF CommandTimeout
<1>4. CASE CommandEnds
  BY <1>4 DEF CommandEnds
<1>5. CASE WorkerDies
  BY <1>5 DEF WorkerDies
<1>6. CASE WorkerLeaves
  BY <1>6 DEF WorkerLeaves
<1> QED
  BY <1>1, <1>2, <1>3, <1>4, <1>5, <1>6

\* What the helper does: it ends the job's processes with the job.
LEMMA HelperActs ==
  ASSUME RunInv, Assign \/ Terminate \/ JobEnds
  PROVE  RunInv'
<1> USE DEF RunInv, RunTypeOK, UnsentInv, WorkerInv, AnswerInv, JobInv, ReportIsTrue,
            CommandIsContained, WorkerIsGone, Outcomes, Answers, WorkerLives
<1>1. CASE Assign
  BY <1>1 DEF Assign
<1>2. CASE Terminate
  BY <1>2 DEF Terminate, EndJob, KillWorker, Over
<1>3. CASE JobEnds
  BY <1>3 DEF JobEnds, KillWorker
<1> QED
  BY <1>1, <1>2, <1>3

\* Every step keeps it.
LEMMA RunKeeps == RunInv /\ [RunNext]_runVars => RunInv'
<1>1. RunInv /\ UNCHANGED runVars => RunInv'
  BY DEF runVars, RunInv, RunTypeOK, UnsentInv, WorkerInv, AnswerInv, JobInv, ReportIsTrue,
         CommandIsContained, WorkerIsGone, WorkerLives
<1> QED
  BY <1>1, ClientBegins, ClientEnds, WorkerActs, HelperActs DEF RunNext

\* What a run rests on: RunInv holds in every reachable state.
THEOREM RunInvariant == RunSpec => []RunInv
BY RunStarts, RunKeeps, PTL DEF RunSpec

\* Every variable of a run keeps its type.
THEOREM RunTyping == RunSpec => []RunTypeOK
<1>1. RunInv => RunTypeOK
  BY DEF RunInv
<1> QED
  BY <1>1, RunInvariant, PTL

\* A run reports a success only of a command that exited with 0, and a failure only of one
\* that did not, in whatever order answers, exits, timers and signals arrive.
THEOREM ReportsAreTrue == RunSpec => []ReportIsTrue
<1>1. RunInv => ReportIsTrue
  BY DEF RunInv
<1> QED
  BY <1>1, RunInvariant, PTL

\* Where there is to be a job, a command runs in one or not at all, whichever of the four
\* processes ends, and when.
THEOREM CommandsAreContained == RunSpec => []CommandIsContained
<1>1. RunInv => CommandIsContained
  BY DEF RunInv
<1> QED
  BY <1>1, RunInvariant, PTL

\* A run that is settled has left no worker behind.
THEOREM WorkersAreGone == RunSpec => []WorkerIsGone
<1>1. RunInv => WorkerIsGone
  BY DEF RunInv
<1> QED
  BY <1>1, RunInvariant, PTL

=============================================================================
