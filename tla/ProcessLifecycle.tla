--------------------------- MODULE ProcessLifecycle ---------------------------
(***************************************************************************)
(* Processes of the agent that share one data directory.                   *)
(*                                                                         *)
(* app/lifecycle/ProcessLock.ts keeps them apart with a lock file that     *)
(* names its process; a lock whose process is gone is taken over.          *)
(* bootstrap/createApplication.ts takes the lock, opens the database and   *)
(* runs the startup checks; app/local-web-server.ts then serves requests   *)
(* until lifecycle/installShutdown.ts stops it on a signal.  The command   *)
(* lines just exit, which leaves the same behind as a crash.               *)
(*                                                                         *)
(* Every await on the file system is a step.  A process is known by its    *)
(* pid, which the operating system may give to another program, or again   *)
(* to the agent, once it is free.                                          *)
(***************************************************************************)
CONSTANTS Processes, None

ASSUME NoneAssumption == None \notin Processes \cup [owner : Processes, written : BOOLEAN]

Acquiring == {"opening", "writing", "reading", "judging", "removing", "reopening", "rewriting"}
Holding == {"starting", "serving", "draining", "releasing"}
Phases == {"created", "config_loaded", "storage_ready", "providers_ready", "sandbox_ready",
           "server_ready", "failed", "stopping", "stopped"}

VARIABLES
  lock,      \* the lock file: None, or whose it is and whether the pid is in it yet
  pc,        \* the await each process is at; "off" when it does not exist
  seen,      \* what `readExisting` returned
  phase,     \* StartupState.phase
  db,        \* the database is open
  busy,      \* a connection to the server is open
  reused,    \* pids that belong to another program now
  \* History, read by no action of the program.
  raced      \* a process called `acquire` while another was in it

process == <<phase, db, busy>>
vars == <<lock, pc, seen, process, reused, raced>>

Init ==
  /\ lock = None
  /\ pc = [p \in Processes |-> "off"]
  /\ seen = [p \in Processes |-> None]
  /\ phase = [p \in Processes |-> "created"]
  /\ db = [p \in Processes |-> FALSE]
  /\ busy = [p \in Processes |-> FALSE]
  /\ reused = {} /\ raced = FALSE

Goto(p, step) == pc' = [pc EXCEPT ![p] = step]
SetPhase(p, next) == phase' = [phase EXCEPT ![p] = next]
SetDatabase(p, open) == db' = [db EXCEPT ![p] = open]

\* The process is gone, and nothing of it is left but files.
Dies(p) ==
  /\ Goto(p, "off") /\ SetPhase(p, "created") /\ SetDatabase(p, FALSE)
  /\ busy' = [busy EXCEPT ![p] = FALSE]
  /\ seen' = [seen EXCEPT ![p] = None]

-----------------------------------------------------------------------------
(* ProcessLock.acquire *)

\* A process starts and calls acquire.
Start(p) ==
  /\ pc[p] = "off" /\ p \notin reused
  /\ Goto(p, "opening")
  /\ raced' = (raced \/ \E q \in Processes : pc[q] \in Acquiring)
  /\ UNCHANGED <<lock, seen, process, reused>>

\* open(path, "wx"): succeeds only if there is no file.
Open(p) ==
  /\ pc[p] = "opening"
  /\ \/ /\ lock = None
        /\ lock' = [owner |-> p, written |-> FALSE]
        /\ Goto(p, "writing")
     \/ /\ lock # None
        /\ Goto(p, "reading")
        /\ UNCHANGED lock
  /\ UNCHANGED <<seen, process, reused, raced>>

\* The pid goes to the file that was opened, wherever the path leads by now.
Written(p) == IF lock # None /\ lock.owner = p THEN [lock EXCEPT !.written = TRUE] ELSE lock

\* writeFile: acquire returns, or goes into its `catch`.
Write(p) ==
  /\ pc[p] = "writing"
  /\ \/ /\ lock' = Written(p)
        /\ Goto(p, "starting") /\ SetPhase(p, "config_loaded")
     \/ /\ Goto(p, "reading")
        /\ UNCHANGED <<lock, phase>>
  /\ UNCHANGED <<seen, db, busy, reused, raced>>

\* readExisting: the pid in the file, if there is one.
Read(p) ==
  /\ pc[p] = "reading"
  /\ seen' = [seen EXCEPT ![p] = IF lock # None /\ lock.written THEN lock.owner ELSE None]
  /\ Goto(p, "judging")
  /\ UNCHANGED <<lock, process, reused, raced>>

\* Mutant: a lock is taken over although its process is alive.
AnyoneGone(pid) == FALSE

\* isProcessAlive: some program has the pid.
IsProcessAlive(pid) == pc[pid] # "off" \/ pid \in reused

\* Another process is running: acquire throws, and the process ends; otherwise the lock
\* is taken over.
Judge(p) ==
  /\ pc[p] = "judging"
  /\ \/ /\ seen[p] \notin {None, p} /\ IsProcessAlive(seen[p])
        /\ Dies(p)
     \/ /\ ~(seen[p] \notin {None, p} /\ IsProcessAlive(seen[p]))
        /\ Goto(p, "removing")
        /\ UNCHANGED <<seen, process>>
  /\ UNCHANGED <<lock, reused, raced>>

\* rm(path, force): whatever is there.
Remove(p) ==
  /\ pc[p] = "removing"
  /\ lock' = None
  /\ Goto(p, "reopening")
  /\ UNCHANGED <<seen, process, reused, raced>>

\* The second open: if it fails, acquire throws.
Reopen(p) ==
  /\ pc[p] = "reopening"
  /\ \/ /\ lock = None
        /\ lock' = [owner |-> p, written |-> FALSE]
        /\ Goto(p, "rewriting")
        /\ UNCHANGED <<seen, process>>
     \/ /\ lock # None
        /\ Dies(p)
        /\ UNCHANGED lock
  /\ UNCHANGED <<reused, raced>>

\* The second writeFile: if it fails, acquire throws and the empty file stays.
Rewrite(p) ==
  /\ pc[p] = "rewriting"
  /\ \/ /\ lock' = Written(p)
        /\ Goto(p, "starting") /\ SetPhase(p, "config_loaded")
        /\ UNCHANGED <<seen, db, busy>>
     \/ /\ Dies(p)
        /\ UNCHANGED lock
  /\ UNCHANGED <<reused, raced>>

-----------------------------------------------------------------------------
(* createApplication, after the lock *)

\* The next stretch of startup succeeds: the database, the tools and the provider (the
\* phase tools_ready lasts for no await), the checks.
Starts(p) ==
  /\ pc[p] = "starting"
  /\ \/ /\ phase[p] = "config_loaded"
        /\ SetPhase(p, "storage_ready") /\ SetDatabase(p, TRUE)
        /\ UNCHANGED pc
     \/ /\ phase[p] = "storage_ready"
        /\ SetPhase(p, "providers_ready")
        /\ UNCHANGED <<pc, db>>
     \/ /\ phase[p] = "providers_ready"
        /\ SetPhase(p, "sandbox_ready") /\ Goto(p, "serving")
        /\ UNCHANGED db
  /\ UNCHANGED <<lock, seen, busy, reused, raced>>

\* The `catch`: the database is closed, then the lock released.
StartFails(p) ==
  /\ pc[p] = "starting"
  /\ SetPhase(p, "failed") /\ SetDatabase(p, FALSE)
  /\ Goto(p, "releasing")
  /\ UNCHANGED <<lock, seen, busy, reused, raced>>

-----------------------------------------------------------------------------
(* The web server *)

\* setPhase throws once the process has failed or stopped.
MaySetPhase(p) == phase[p] \notin {"failed", "stopped"}

\* The server listens.
Listens(p) ==
  /\ pc[p] = "serving" /\ phase[p] = "sandbox_ready"
  /\ SetPhase(p, "server_ready")
  /\ UNCHANGED <<lock, pc, seen, db, busy, reused, raced>>

\* The server emits "error": the database is closed, the lock stays.  If it never
\* listened, nothing keeps the process any longer.
ServerError(p) ==
  /\ pc[p] \in {"serving", "draining", "releasing"} /\ phase[p] # "failed"
  /\ \/ /\ phase[p] # "sandbox_ready"
        /\ SetPhase(p, "failed") /\ SetDatabase(p, FALSE)
        /\ UNCHANGED <<pc, seen, busy>>
     \/ /\ phase[p] = "sandbox_ready"
        /\ Dies(p)
  /\ UNCHANGED <<lock, reused, raced>>

\* A client connects; its connection ends.
Connects(p) ==
  /\ pc[p] = "serving" /\ phase[p] \in {"server_ready", "failed"}
  /\ busy' = [busy EXCEPT ![p] = ~@]
  /\ UNCHANGED <<lock, pc, seen, phase, db, reused, raced>>
Disconnects(p) ==
  /\ pc[p] \in {"draining", "releasing", "stopped"} /\ busy[p]
  /\ busy' = [busy EXCEPT ![p] = FALSE]
  /\ UNCHANGED <<lock, pc, seen, phase, db, reused, raced>>

\* A signal, which cannot come between listen() and its callback: the server stops
\* accepting.  After a failure setPhase throws and the process ends there.
Signal(p) ==
  /\ pc[p] = "serving" /\ phase[p] # "sandbox_ready"
  /\ \/ /\ MaySetPhase(p)
        /\ SetPhase(p, "stopping") /\ Goto(p, "draining")
        /\ UNCHANGED <<seen, db, busy>>
     \/ /\ ~MaySetPhase(p)
        /\ Dies(p)
  /\ UNCHANGED <<lock, reused, raced>>

\* Mutant: shutdown waits for the last connection.
DrainsWhenIdle(p) == ~busy[p]

\* The last connection has ended, or five seconds have passed.
Drains(p) == TRUE

\* Mutant: the database is left to the end of the process.
DrainKeepsDatabase(p) ==
  /\ pc[p] = "draining"
  /\ Drains(p)
  /\ Goto(p, "releasing")
  /\ UNCHANGED <<lock, seen, process, reused, raced>>

\* The wait is over: the end of the session is logged and the database closed.
Drain(p) ==
  /\ pc[p] = "draining"
  /\ Drains(p)
  /\ SetDatabase(p, FALSE)
  /\ Goto(p, "releasing")
  /\ UNCHANGED <<lock, seen, phase, busy, reused, raced>>

\* release: the file is removed, whoever's it is.  A process that failed ends, by the
\* error that is rethrown or by setPhase.
Release(p) ==
  /\ pc[p] = "releasing"
  /\ lock' = None
  /\ \/ /\ MaySetPhase(p)
        /\ SetPhase(p, "stopped") /\ Goto(p, "stopped")
        /\ UNCHANGED <<seen, db, busy>>
     \/ /\ ~MaySetPhase(p)
        /\ Dies(p)
  /\ UNCHANGED <<reused, raced>>

\* Nothing is left to wait for.
Leaves(p) ==
  /\ pc[p] = "stopped" /\ ~busy[p]
  /\ Dies(p)
  /\ UNCHANGED <<lock, reused, raced>>

\* The process ends anywhere: killed, crashed, or a command line that exits.
Crash(p) ==
  /\ pc[p] # "off"
  /\ Dies(p)
  /\ UNCHANGED <<lock, reused, raced>>

\* The operating system gives a free pid to another program, or gets it back.
PidReused(p) ==
  /\ pc[p] = "off"
  /\ reused' = IF p \in reused THEN reused \ {p} ELSE reused \cup {p}
  /\ UNCHANGED <<lock, pc, seen, process, raced>>

Next ==
  \E p \in Processes :
    \/ Start(p) \/ Open(p) \/ Write(p) \/ Read(p) \/ Judge(p)
    \/ Remove(p) \/ Reopen(p) \/ Rewrite(p)
    \/ Starts(p) \/ StartFails(p)
    \/ Listens(p) \/ ServerError(p) \/ Connects(p) \/ Disconnects(p)
    \/ Signal(p) \/ Drain(p) \/ Release(p) \/ Leaves(p)
    \/ Crash(p) \/ PidReused(p)

\* File operations answer and the timer fires; nothing obliges a client to leave.
Fairness == \A p \in Processes : WF_vars(Drain(p)) /\ WF_vars(Release(p))

Spec == Init /\ [][Next]_vars
FairSpec == Spec /\ Fairness

-----------------------------------------------------------------------------
(* Properties *)

\* The type of every variable.
TypeOK ==
  /\ lock \in [owner : Processes, written : BOOLEAN] \cup {None}
  /\ pc \in [Processes -> Acquiring \cup Holding \cup {"off", "stopped"}]
  /\ seen \in [Processes -> Processes \cup {None}]
  /\ phase \in [Processes -> Phases]
  /\ db \in [Processes -> BOOLEAN] /\ busy \in [Processes -> BOOLEAN]
  /\ reused \subseteq Processes /\ raced \in BOOLEAN

\* A process that is past acquire has its pid in the lock file until it releases it:
\* neither a process that is refused nor one that stops late or crashes takes it away.
\* Unless two processes were in acquire at once.
HolderIsOnFile ==
  ~raced => \A p \in Processes :
    pc[p] \in Holding => lock = [owner |-> p, written |-> TRUE]

\* Two processes never have the database open at once, however they fail and stop;
\* again unless two were in acquire at once.
DatabaseHasOneUser == ~raced => \A p, q \in Processes : db[p] /\ db[q] => p = q

\* While a process answers that it is ready, it holds the lock and the database is open.
ReadyIsWhole ==
  \A p \in Processes : phase[p] = "server_ready" => pc[p] \in Holding /\ db[p]

\* A shutdown comes to its end, whatever the clients do.
StopEnds == \A p \in Processes : pc[p] = "draining" ~> pc[p] \in {"stopped", "off"}

\* security/RELEASE-GATE.md: "Only one runtime process can hold the application lock."
OneHolder == \A p, q \in Processes : pc[p] \in Holding /\ pc[q] \in Holding => p = q

=============================================================================
