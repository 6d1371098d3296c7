---------------------------- MODULE ToolExecutor ----------------------------
(***************************************************************************)
(* What the callers of the supervised executor rely on: which tool calls   *)
(* it has been asked about, which of them it holds for a human, and which  *)
(* one it runs.  A call is held or run when it is new, or run after it was *)
(* held; one that was refused, rejected, run or lost with the process is   *)
(* never run again; and one tool runs at a time.                           *)
(*                                                                         *)
(* SupervisedExecution implements this.  InteractiveSession and            *)
(* ComputerActions, which know the executor only from outside, implement   *)
(* it too: what they take the executor to do is nothing else.              *)
(***************************************************************************)
CONSTANT Calls

VARIABLES
  seen,     \* the calls whose fate the executor has decided
  held,     \* the calls that wait for a human
  running   \* the call whose tool runs, if any

executorVars == <<seen, held, running>>

Init == seen = {} /\ held = {} /\ running = {}

\* Calls that the executor is asked about in this step.  Between two awaits of one caller
\* it may refuse several calls, and the tool that ran may have ended.
Admits == seen \subseteq seen' /\ seen' \subseteq Calls

Refuse == Admits /\ held' = held /\ running' \in {running, {}}

Hold(c) ==
  /\ Admits /\ c \in seen' \ seen
  /\ held' = held \cup {c} /\ running' = {}

Run(c) ==
  /\ Admits /\ c \in seen' \ seen
  /\ held' = held /\ running' = {c}

\* A held call is approved; the lock was free.
Resume(c) ==
  /\ c \in held /\ running = {}
  /\ held' = held \ {c} /\ running' = {c}
  /\ UNCHANGED seen

\* A held call is rejected, or approved in vain.
Drop(c) ==
  /\ c \in held
  /\ held' = held \ {c}
  /\ UNCHANGED <<seen, running>>

\* The process ends.
Exit == Admits /\ held' = {} /\ running' = {}

Next ==
  \/ Refuse \/ Exit
  \/ \E c \in Calls : Hold(c) \/ Run(c) \/ Resume(c) \/ Drop(c)

Spec == Init /\ [][Next]_executorVars

=============================================================================
