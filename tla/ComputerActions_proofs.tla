------------------------ MODULE ComputerActions_proofs ------------------------
(***************************************************************************)
(* Safety of ComputerActions for every set of actions, every number of     *)
(* overlapping approvals and every verification policy.                    *)
(*                                                                         *)
(* ActionInv is inductive.  An action that the executor holds has not been *)
(* started and has no record but those of its proposal (HeldInv), so what  *)
(* starts it, or rejects it, does so once; while an approval is under way  *)
(* no other one has the action's tool or its observations (FlowInv), so    *)
(* what is recorded at the end of the tool is what the tool has done.      *)
(*                                                                         *)
(* ClosedInv adds that nobody is at work on an action whose last record is *)
(* written.  The end of the module shows that the workflow implements the  *)
(* contract of ToolExecutor, which SupervisedExecution keeps.              *)
(***************************************************************************)
EXTENDS ComputerActions, TLAPS

Running(f, a) == flow[f].at = "running" /\ flow[f].action = a

\* What the workflow has never heard of can be proposed.
FreshInv ==
  \A a \in Actions : log[a] = {} /\ a \notin unlogged => runs[a] = 0 /\ a \notin queued

\* Nothing has become of an action that the executor holds.
HeldInv ==
  \A a \in held : runs[a] = 0 /\ log[a] \subseteq {"proposed", "approval_requested"}

\* An action that was not started has left no trace of a start.
UnstartedInv ==
  \A a \in Actions : runs[a] = 0 =>
    /\ captures[a] = 0 /\ a \notin returned /\ ~UnderWay(a)
    /\ log[a] \cap {"approved", "executed"} = {}

\* "executed" is the last record of an approval, and a verdict follows it.
RecordInv ==
  \A a \in Actions :
    /\ "executed" \in log[a] => "approved" \in log[a] /\ a \in returned
    /\ log[a] \cap Verdicts # {} => "executed" \in log[a]

\* An approval under way has its action to itself.
FlowInv ==
  \A f \in Flows :
    /\ flow[f].at = "idle" => flow[f] = Idle
    /\ flow[f].at # "idle" =>
         /\ flow[f].action \in Actions
         /\ \A g \in Flows : flow[g].action = flow[f].action => g = f
    /\ flow[f].at = "running" =>
         /\ lock = flow[f].action /\ flow[f].action \notin returned
         /\ captures[flow[f].action] = 0 /\ flow[f].attempts = 0
    /\ flow[f].at = "observing" =>
         /\ "executed" \in log[flow[f].action] /\ flow[f].action \notin queued
         /\ captures[flow[f].action] = flow[f].attempts

\* The executor is busy with an action while an approval runs it.
LockInv == lock \in Actions => \E f \in Flows : Running(f, lock)

\* What returned has left the queue.
QueueInv == \A a \in queued \ unlogged : a \notin returned

ActionInv ==
  /\ TypeOK /\ FreshInv /\ HeldInv /\ UnstartedInv /\ RecordInv
  /\ FlowInv /\ LockInv /\ QueueInv
  /\ DecidedOnce /\ LogIsTrue /\ QueuedIsHeld /\ ObservingIsBounded

-----------------------------------------------------------------------------
(* The steps *)

\* The initial states satisfy the invariant.
LEMMA InitSafe == Init => ActionInv
<1> SUFFICES ASSUME Init PROVE ActionInv
  OBVIOUS
<1> USE PolicyAssumption, ActionAssumption DEF Init, Idle
<1>1. TypeOK
  BY DEF TypeOK
<1>2. FreshInv /\ HeldInv /\ UnstartedInv /\ RecordInv /\ FlowInv /\ LockInv /\ QueueInv
  BY DEF FreshInv, HeldInv, UnstartedInv, UnderWay, RecordInv, Verdicts, FlowInv, LockInv, QueueInv
<1>3. DecidedOnce /\ LogIsTrue /\ QueuedIsHeld /\ ObservingIsBounded
  BY DEF DecidedOnce, LogIsTrue, Verdicts, QueuedIsHeld, ObservingIsBounded
<1> QED
  BY <1>1, <1>2, <1>3 DEF ActionInv

\* What appending records to an action's log does.
LEMMA Recorded ==
  ASSUME TypeOK, NEW a \in Actions, NEW rs \in SUBSET Records,
         log' = [log EXCEPT ![a] = @ \cup rs]
  PROVE  /\ log' \in [Actions -> SUBSET Records]
         /\ log'[a] = log[a] \cup rs
         /\ \A b \in Actions \ {a} : log'[b] = log[b]
<1>1. log \in [Actions -> SUBSET Records]
  BY DEF TypeOK
<1>2. log[a] \cup rs \in SUBSET Records
  BY <1>1
<1> QED
  BY <1>1, <1>2

\* A proposal is of an action nobody has heard of.
LEMMA ProposeSafe ==
  ASSUME ActionInv, NEW a \in Actions, Propose(a)
  PROVE  ActionInv'
<1> USE PolicyAssumption, ActionAssumption
        DEF Propose, Suspend, RecordProposal, ProposalUnrecorded, Append, AppendFails, history
<1>1. runs[a] = 0 /\ a \notin queued /\ captures[a] = 0 /\ a \notin returned /\ ~UnderWay(a)
  BY DEF ActionInv, FreshInv, UnstartedInv
<1>2. PICK rs \in SUBSET {"proposed", "approval_requested"} :
        /\ log' = [log EXCEPT ![a] = @ \cup rs]
        /\ \/ rs # {} /\ unlogged' = unlogged /\ queued' = queued \cup {a}
           \/ unlogged' = unlogged \cup {a} /\ queued' = queued
  <2>1. CASE RecordProposal(a) /\ queued' = queued \cup {a}
    <3> DEFINE both == {"proposed", "approval_requested"}
    <3>1. log' = [log EXCEPT ![a] = @ \cup both] /\ unlogged' = unlogged
      BY <2>1
    <3>2. both \in SUBSET both /\ both # {}
      OBVIOUS
    <3> QED
      BY ONLY <2>1, <3>1, <3>2
  <2>2. CASE ProposalUnrecorded(a) /\ UNCHANGED queued
    BY <2>2
  <2> QED
    BY <2>1, <2>2
<1>3. /\ log' \in [Actions -> SUBSET Records]
      /\ log'[a] = log[a] \cup rs
      /\ \A b \in Actions \ {a} : log'[b] = log[b]
  BY <1>2, Recorded DEF ActionInv, Records
<1>4. log[a] = {} /\ a \notin unlogged /\ UNCHANGED <<lock, flow, runs, returned, overlapped, captures>>
  OBVIOUS
<1>5. held' = held \cup {a}
  OBVIOUS
<1>6. TypeOK'
  BY <1>2, <1>3, <1>4, <1>5 DEF ActionInv, TypeOK
<1>7. \A f \in Flows : flow[f].at = "observing" => flow[f].action \in Actions \ {a}
  BY <1>1 DEF ActionInv, FlowInv, UnderWay
<1>8. FreshInv'
  BY <1>1, <1>2, <1>3, <1>4, <1>5 DEF ActionInv, FreshInv, TypeOK
<1>9. HeldInv'
  BY <1>1, <1>2, <1>3, <1>4, <1>5 DEF ActionInv, HeldInv, TypeOK
<1>10. UnstartedInv'
  BY <1>1, <1>2, <1>3, <1>4, <1>5 DEF ActionInv, UnstartedInv, UnderWay, TypeOK
<1>11. RecordInv'
  BY <1>1, <1>2, <1>3, <1>4, <1>5 DEF ActionInv, RecordInv, Verdicts, TypeOK
<1>12. FlowInv'
  BY <1>1, <1>2, <1>3, <1>4, <1>5 DEF ActionInv, FlowInv, UnderWay, TypeOK
<1>13. LockInv' /\ QueueInv'
  <2>1. LockInv /\ QueueInv /\ lock' = lock /\ flow' = flow /\ returned' = returned
    BY <1>4 DEF ActionInv
  <2>2. LockInv'
    BY ONLY <2>1 DEF LockInv, Running
  <2>3. queued' \subseteq queued \cup {a} /\ unlogged \subseteq unlogged' /\ a \notin returned
    BY <1>1, <1>2
  <2>4. QueueInv'
    BY ONLY <2>1, <2>3 DEF QueueInv
  <2> QED
    BY <2>2, <2>4
<1>14. DecidedOnce'
  <2> SUFFICES ASSUME NEW b \in Actions
               PROVE  /\ runs'[b] <= 1
                      /\ "rejected" \in log'[b] => runs'[b] = 0 /\ "approved" \notin log'[b]
    BY DEF DecidedOnce
  <2>1. CASE b = a
    <3>1. log'[b] \subseteq {"proposed", "approval_requested"} /\ runs'[b] = 0
      BY <1>1, <1>2, <1>3, <1>4, <2>1
    <3> QED
      BY ONLY <3>1
  <2>2. CASE b # a
    <3>1. log'[b] = log[b] /\ runs' = runs
      BY <1>3, <1>4, <2>2
    <3>2. DecidedOnce
      BY DEF ActionInv
    <3>3. b \in Actions
      OBVIOUS
    <3> QED
      BY ONLY <3>1, <3>2, <3>3 DEF DecidedOnce
  <2> QED
    BY <2>1, <2>2
<1>15. LogIsTrue'
  <2> SUFFICES ASSUME NEW b \in Actions \ (overlapped' \cup unlogged')
               PROVE  /\ b \in returned' <=> {"approved", "executed"} \subseteq log'[b]
                      /\ "execution_failed" \in log'[b] => b \notin returned' /\ lock' # b
                      /\ log'[b] \cap Verdicts # {} => "executed" \in log'[b]
    BY DEF LogIsTrue
  <2>1. CASE b = a
    <3>1. log'[b] \subseteq {"proposed", "approval_requested"} /\ b \notin returned'
      BY <1>1, <1>2, <1>3, <1>4, <2>1
    <3> QED
      BY ONLY <3>1 DEF Verdicts
  <2>2. CASE b # a
    <3>1. log'[b] = log[b] /\ returned' = returned /\ lock' = lock /\ overlapped' = overlapped
      BY <1>3, <1>4, <2>2
    <3>2. b \in Actions \ (overlapped \cup unlogged)
      BY <1>2, <3>1
    <3>3. LogIsTrue
      BY DEF ActionInv
    <3> QED
      BY ONLY <3>1, <3>2, <3>3 DEF LogIsTrue
  <2> QED
    BY <2>1, <2>2
<1>16. QueuedIsHeld'
  <2>1. QueuedIsHeld /\ flow' = flow
    BY <1>4 DEF ActionInv
  <2>2. queued' \subseteq queued \cup {a} /\ unlogged \subseteq unlogged'
    BY <1>2
  <2> QED
    BY ONLY <2>1, <2>2, <1>5 DEF QueuedIsHeld, UnderWay
<1>17. ObservingIsBounded'
  BY <1>1, <1>2, <1>3, <1>4, <1>5, <1>7 DEF ActionInv, ObservingIsBounded, TypeOK
<1> QED
  BY <1>6, <1>8, <1>9, <1>10, <1>11, <1>12, <1>13, <1>14, <1>15, <1>16, <1>17 DEF ActionInv

\* A rejection is of an action nobody has started.
LEMMA RejectSafe ==
  ASSUME ActionInv, NEW a \in Actions, Reject(a)
  PROVE  ActionInv'
<1> USE PolicyAssumption, ActionAssumption DEF Reject, RecordRejection, Append, AppendFails, history
<1>1. /\ runs[a] = 0 /\ a \in queued /\ a \in held /\ captures[a] = 0 /\ a \notin returned
      /\ ~UnderWay(a) /\ log[a] \subseteq {"proposed", "approval_requested"}
  BY DEF ActionInv, HeldInv, UnstartedInv
<1>2. PICK rs \in SUBSET {"rejected"} :
        /\ log' = [log EXCEPT ![a] = @ \cup rs]
        /\ \/ rs # {} /\ unlogged' = unlogged /\ queued' = queued \ {a}
           \/ unlogged' = unlogged \cup {a} /\ queued' = queued
  OBVIOUS
<1>3. /\ log' \in [Actions -> SUBSET Records]
      /\ log'[a] = log[a] \cup rs
      /\ \A b \in Actions \ {a} : log'[b] = log[b]
  BY <1>2, Recorded DEF ActionInv, Records
<1>4. /\ UNCHANGED <<lock, flow, runs, returned, overlapped, captures>>
      /\ held' = held \ {a}
  OBVIOUS
<1>5. TypeOK'
  BY <1>2, <1>3, <1>4 DEF ActionInv, TypeOK
<1>6. FreshInv' /\ HeldInv'
  BY <1>1, <1>2, <1>3, <1>4 DEF ActionInv, FreshInv, HeldInv, TypeOK
<1>7. UnstartedInv'
  BY <1>1, <1>2, <1>3, <1>4 DEF ActionInv, UnstartedInv, UnderWay, TypeOK
<1>8. RecordInv'
  BY <1>1, <1>2, <1>3, <1>4 DEF ActionInv, RecordInv, Verdicts, TypeOK
<1>9. \A f \in Flows : flow[f].action # a
  BY <1>1 DEF UnderWay
<1>10. FlowInv'
  BY <1>2, <1>3, <1>4, <1>9 DEF ActionInv, FlowInv, TypeOK
<1>11. LockInv' /\ QueueInv'
  BY <1>1, <1>2, <1>4 DEF ActionInv, LockInv, Running, QueueInv, TypeOK
<1>12. DecidedOnce'
  BY <1>1, <1>2, <1>3, <1>4 DEF ActionInv, DecidedOnce, TypeOK
<1>13. LogIsTrue'
  BY <1>1, <1>2, <1>3, <1>4 DEF ActionInv, LogIsTrue, Verdicts, TypeOK
<1>14. QueuedIsHeld'
  BY <1>1, <1>2, <1>4 DEF ActionInv, QueuedIsHeld, UnderWay, TypeOK
<1>15. \A f \in Flows : flow[f].at = "observing" => flow[f].action \in Actions \ {a}
  BY <1>9 DEF ActionInv, FlowInv
<1>16. ObservingIsBounded'
  BY <1>2, <1>3, <1>4, <1>15 DEF ActionInv, ObservingIsBounded, TypeOK
<1> QED
  BY <1>5, <1>6, <1>7, <1>8, <1>10, <1>11, <1>12, <1>13, <1>14, <1>16 DEF ActionInv

\* The part of Approve in which the tool is started.
Start(f, a) ==
  /\ Approve(f, a)
  /\ a \in held /\ lock = "none" /\ lock' = a
  /\ runs' = [runs EXCEPT ![a] = @ + 1]
  /\ flow' = [flow EXCEPT ![f] = [at |-> "running", action |-> a, attempts |-> 0]]
  /\ UNCHANGED <<queued, log, unlogged>>

\* The part in which the executor refuses.
Refuse(f, a) == Approve(f, a) /\ RecordFailure(a) /\ UNCHANGED <<lock, flow, runs>>

\* The executor forgets the call it starts: nobody can start it again.
LEMMA StartSafe ==
  ASSUME ActionInv, NEW f \in Flows, NEW a \in Actions, Start(f, a)
  PROVE  ActionInv'
<1> USE PolicyAssumption, ActionAssumption
<1>1. /\ runs[a] = 0 /\ a \in queued /\ a \in held /\ captures[a] = 0 /\ a \notin returned
      /\ log[a] \subseteq {"proposed", "approval_requested"} /\ lock = "none"
      /\ \A g \in Flows : flow[g].action # a
  BY DEF Start, Approve, ActionInv, HeldInv, UnstartedInv, UnderWay
<1>2. /\ held' = held \ {a} /\ lock' = a /\ runs' = [runs EXCEPT ![a] = @ + 1]
      /\ UNCHANGED <<queued, log, unlogged, returned, captures>>
      /\ overlapped' = overlapped
  BY <1>1 DEF Start, Approve
<1>3. TypeOK'
  BY <1>2 DEF Start, ActionInv, TypeOK
<1>4. /\ flow'[f] = [at |-> "running", action |-> a, attempts |-> 0]
      /\ \A g \in Flows \ {f} : flow'[g] = flow[g]
      /\ flow[f] = Idle
  BY DEF Start, Approve, ActionInv, TypeOK
<1>5. /\ runs'[a] = 1
      /\ \A b \in Actions \ {a} : runs'[b] = runs[b]
  BY <1>1, <1>2 DEF ActionInv, TypeOK
<1>6. \A b \in Actions \ {a} : UnderWay(b)' <=> UnderWay(b)
  BY <1>4 DEF UnderWay, Idle
<1>7. FreshInv' /\ HeldInv'
  BY <1>1, <1>2, <1>5 DEF ActionInv, FreshInv, HeldInv, TypeOK
<1>8. UnstartedInv'
  BY <1>2, <1>5, <1>6 DEF ActionInv, UnstartedInv
<1>9. RecordInv'
  BY <1>2 DEF ActionInv, RecordInv
<1>10. \A g \in Flows : flow[g].at # "running"
  BY <1>1 DEF ActionInv, FlowInv
<1>11. FlowInv'
  BY <1>1, <1>2, <1>4, <1>10 DEF ActionInv, FlowInv, Idle
<1>12. LockInv' /\ QueueInv'
  BY <1>2, <1>4 DEF ActionInv, LockInv, Running, QueueInv
<1>13. DecidedOnce'
  BY <1>1, <1>2, <1>5 DEF ActionInv, DecidedOnce
<1>14. LogIsTrue'
  BY <1>1, <1>2 DEF ActionInv, LogIsTrue, Verdicts
<1>15. UnderWay(a)'
  BY <1>4 DEF UnderWay
<1>16. QueuedIsHeld'
  BY <1>2, <1>6, <1>15 DEF ActionInv, QueuedIsHeld, TypeOK
<1>17. ObservingIsBounded'
  BY <1>2, <1>4 DEF ActionInv, ObservingIsBounded
<1> QED
  BY <1>3, <1>7, <1>8, <1>9, <1>11, <1>12, <1>13, <1>14, <1>16, <1>17 DEF ActionInv

\* A refused approval takes the action out of the queue, unless it cannot be recorded.
LEMMA RefuseSafe ==
  ASSUME ActionInv, NEW f \in Flows, NEW a \in Actions, Refuse(f, a)
  PROVE  ActionInv'
<1> USE PolicyAssumption, ActionAssumption
<1>1. /\ a \in queued /\ held' = held \ {a}
      /\ overlapped' = IF UnderWay(a) THEN overlapped \cup {a} ELSE overlapped
      /\ UNCHANGED <<lock, flow, runs, returned, captures>>
  BY DEF Refuse, Approve, UnderWay
<1>2. PICK rs \in SUBSET {"execution_failed"} :
        /\ log' = [log EXCEPT ![a] = @ \cup rs]
        /\ \/ rs # {} /\ unlogged' = unlogged /\ queued' = queued \ {a}
           \/ rs = {} /\ unlogged' = unlogged \cup {a} /\ queued' = queued
  BY DEF Refuse, RecordFailure, Append, AppendFails
<1>3. /\ log' \in [Actions -> SUBSET Records]
      /\ log'[a] = log[a] \cup rs
      /\ \A b \in Actions \ {a} : log'[b] = log[b]
  BY <1>2, Recorded DEF ActionInv, Records
<1>4. TypeOK'
  BY <1>1, <1>2, <1>3 DEF ActionInv, TypeOK
<1>5. FreshInv' /\ HeldInv'
  BY <1>1, <1>2, <1>3 DEF ActionInv, FreshInv, HeldInv, TypeOK
<1>6. UnstartedInv'
  BY <1>1, <1>2, <1>3 DEF ActionInv, UnstartedInv, UnderWay, TypeOK
<1>7. RecordInv'
  BY <1>1, <1>2, <1>3 DEF ActionInv, RecordInv, Verdicts, TypeOK
<1>8. /\ \A b \in Actions : "executed" \in log[b] <=> "executed" \in log'[b]
      /\ \A b \in Actions : log'[b] \cap Verdicts = log[b] \cap Verdicts
  BY <1>2, <1>3 DEF Verdicts
<1>9. FlowInv'
  BY <1>1, <1>2, <1>8 DEF ActionInv, FlowInv
<1>10. LockInv' /\ QueueInv'
  BY <1>1, <1>2 DEF ActionInv, LockInv, Running, QueueInv
<1>11. DecidedOnce'
  BY <1>1, <1>2, <1>3 DEF ActionInv, DecidedOnce
<1>12. a \notin overlapped' => lock # a
  BY <1>1 DEF ActionInv, LockInv, Running, UnderWay, TypeOK
<1>13. a \in unlogged \/ a \notin returned
  BY <1>1 DEF ActionInv, QueueInv
<1>14. overlapped \subseteq overlapped' /\ unlogged \subseteq unlogged'
  BY <1>1, <1>2
<1>15. LogIsTrue'
  BY <1>1, <1>2, <1>3, <1>8, <1>12, <1>13, <1>14 DEF ActionInv, LogIsTrue
<1>16. QueuedIsHeld'
  BY <1>1, <1>2 DEF ActionInv, QueuedIsHeld, UnderWay
<1>17. \A g \in Flows : flow[g].at = "observing" => flow[g].action \in Actions
  BY DEF ActionInv, FlowInv
<1>18. \A b \in Actions : log'[b] \cap {"confirmed", "failed"} = log[b] \cap {"confirmed", "failed"}
  BY <1>2, <1>3
<1>19. ObservingIsBounded'
  BY <1>1, <1>17, <1>18 DEF ActionInv, ObservingIsBounded
<1> QED
  BY <1>4, <1>5, <1>6, <1>7, <1>9, <1>10, <1>11, <1>15, <1>16, <1>19 DEF ActionInv

\* What is known of an action while its tool runs.
LEMMA WhileRunning ==
  ASSUME ActionInv, NEW f \in Flows, NEW a, Running(f, a)
  PROVE  /\ a \in Actions /\ lock = a /\ a \notin returned /\ captures[a] = 0
         /\ flow[f].attempts = 0 /\ runs[a] = 1 /\ a \notin held /\ "rejected" \notin log[a]
         /\ "executed" \notin log[a] /\ log[a] \cap Verdicts = {}
         /\ \A g \in Flows : flow[g].action = a => g = f
         /\ log[a] # {} \/ a \in unlogged
<1>1. /\ a \in Actions /\ lock = a /\ a \notin returned /\ captures[a] = 0
      /\ flow[f].attempts = 0 /\ \A g \in Flows : flow[g].action = a => g = f
  BY DEF ActionInv, FlowInv, Running
<1>2. runs[a] = 1
  BY <1>1 DEF ActionInv, UnstartedInv, UnderWay, Running, DecidedOnce, TypeOK
<1>3. a \notin held /\ "rejected" \notin log[a] /\ (log[a] # {} \/ a \in unlogged)
  BY <1>1, <1>2 DEF ActionInv, HeldInv, DecidedOnce, FreshInv
<1>4. "executed" \notin log[a] /\ log[a] \cap Verdicts = {}
  BY <1>1 DEF ActionInv, RecordInv
<1> QED
  BY <1>1, <1>2, <1>3, <1>4

\* The end of a tool is recorded of the one action that it is the end of.
LEMMA FinishSafe ==
  ASSUME ActionInv, NEW f \in Flows, NEW ok \in BOOLEAN, NEW expected \in BOOLEAN,
         Finish(f, ok, expected)
  PROVE  ActionInv'
<1> USE PolicyAssumption, ActionAssumption
<1> DEFINE a == flow[f].action
<1>1. /\ lock' = "none" /\ returned' = IF ok THEN returned \cup {a} ELSE returned
      /\ UNCHANGED <<held, runs, overlapped, captures>>
      /\ Running(f, a)
  BY DEF Finish, Running
<1>2. /\ a \in Actions /\ lock = a /\ a \notin returned /\ captures[a] = 0
      /\ flow[f].attempts = 0 /\ runs[a] = 1 /\ a \notin held /\ "rejected" \notin log[a]
      /\ "executed" \notin log[a] /\ log[a] \cap Verdicts = {}
      /\ \A g \in Flows : flow[g].action = a => g = f
      /\ log[a] # {} \/ a \in unlogged
  BY <1>1, WhileRunning
<1>3. PICK rs \in SUBSET {"approved", "executed", "execution_failed"} :
        /\ log' = [log EXCEPT ![a] = @ \cup rs]
        /\ \/ ok /\ rs = {"approved", "executed"} /\ unlogged' = unlogged /\ queued' = queued \ {a}
           \/ ~ok /\ rs = {"execution_failed"} /\ unlogged' = unlogged /\ queued' = queued \ {a}
           \/ rs \subseteq {"approved"} /\ unlogged' = unlogged \cup {a} /\ queued' = queued
  BY DEF Finish, RecordExecution, RecordFailure, Append, AppendFails
<1>4. /\ log' \in [Actions -> SUBSET Records]
      /\ log'[a] = log[a] \cup rs
      /\ \A b \in Actions \ {a} : log'[b] = log[b]
  BY <1>2, <1>3, Recorded DEF ActionInv, Records
<1>5. /\ \/ flow'[f] = Idle
         \/ /\ flow'[f] = [at |-> "observing", action |-> a, attempts |-> 0]
            /\ "executed" \in log'[a]
      /\ \A g \in Flows \ {f} : flow'[g] = flow[g]
      /\ flow' \in [Flows -> [at : {"idle", "running", "observing"}, action : Actions \cup {"none"},
                              attempts : 0..(MaxObservations - 1)]]
  BY <1>2 DEF Finish, ActionInv, TypeOK, Idle
<1> HIDE DEF a
<1>6. TypeOK'
  BY <1>1, <1>2, <1>3, <1>4, <1>5 DEF ActionInv, TypeOK
<1>7. FreshInv' /\ HeldInv'
  BY <1>1, <1>2, <1>3, <1>4 DEF ActionInv, FreshInv, HeldInv, TypeOK
<1>8. \A b \in Actions \ {a} : UnderWay(b)' => UnderWay(b)
  BY <1>2, <1>5 DEF UnderWay, Idle
<1>9. UnstartedInv'
  BY <1>1, <1>2, <1>4, <1>8 DEF ActionInv, UnstartedInv
<1>10. RecordInv'
  BY <1>1, <1>2, <1>3, <1>4 DEF ActionInv, RecordInv, Verdicts
<1>11. \A g \in Flows \ {f} : flow[g].at # "running" /\ flow[g].action # a
  BY <1>2 DEF ActionInv, FlowInv, TypeOK
<1>12. FlowInv'
  BY <1>1, <1>2, <1>3, <1>4, <1>5, <1>11 DEF ActionInv, FlowInv, Idle
<1>13. LockInv' /\ QueueInv'
  BY <1>1, <1>2, <1>3 DEF ActionInv, LockInv, QueueInv
<1>14. DecidedOnce'
  BY <1>1, <1>2, <1>3, <1>4 DEF ActionInv, DecidedOnce
<1>15. LogIsTrue'
  BY <1>1, <1>2, <1>3, <1>4 DEF ActionInv, LogIsTrue, Verdicts
<1>16. \A b \in Actions \ {a} : UnderWay(b) => UnderWay(b)'
  BY <1>1, <1>5 DEF UnderWay, Running, a
<1>17. QueuedIsHeld'
  BY <1>1, <1>3, <1>16 DEF ActionInv, QueuedIsHeld, TypeOK
<1>18. log'[a] \cap {"confirmed", "failed"} = {}
  BY <1>2, <1>3, <1>4 DEF Verdicts
<1>19. \A g \in Flows \ {f} : flow[g].at = "observing" => flow[g].action \in Actions \ {a}
  BY <1>11 DEF ActionInv, FlowInv
<1>20. ObservingIsBounded'
  BY <1>1, <1>4, <1>5, <1>18, <1>19 DEF ActionInv, ObservingIsBounded, Idle
<1> QED
  BY <1>6, <1>7, <1>9, <1>10, <1>12, <1>13, <1>14, <1>15, <1>17, <1>20 DEF ActionInv

\* The end of an observation: the records rs are written, and the flow is r afterwards.
Observed(f, r, rs) ==
  LET a == flow[f].action IN
  /\ flow[f].at = "observing"
  /\ rs \subseteq Verdicts
  /\ log' = [log EXCEPT ![a] = @ \cup rs]
  /\ unlogged' = unlogged \/ unlogged' = unlogged \cup {a}
  /\ flow' = [flow EXCEPT ![f] = r]
  /\ \/ /\ r = Idle
        /\ captures' = captures \/ captures' = [captures EXCEPT ![a] = @ + 1]
     \/ /\ r = [at |-> "observing", action |-> a, attempts |-> flow[f].attempts + 1]
        /\ captures' = [captures EXCEPT ![a] = @ + 1]
        /\ rs \cap {"confirmed", "failed"} = {} /\ flow[f].attempts + 1 < MaxObservations
  /\ UNCHANGED <<queued, held, lock, history>>

\* A verdict is recorded of an action whose tool has returned, and every attempt counts.
LEMMA ObservedSafe ==
  ASSUME ActionInv, NEW f \in Flows, NEW r, NEW rs, Observed(f, r, rs)
  PROVE  ActionInv'
<1> DEFINE a == flow[f].action
<1>1. a \in Actions /\ flow[f].at = "observing"
  BY DEF Observed, ActionInv, FlowInv
<1> USE PolicyAssumption, ActionAssumption
<1>2. /\ "executed" \in log[a] /\ a \notin queued /\ captures[a] = flow[f].attempts
      /\ flow[f].attempts \in 0..(MaxObservations - 1)
      /\ \A g \in Flows : flow[g].action = a => g = f
      /\ log[a] \cap {"confirmed", "failed"} = {}
  BY <1>1 DEF ActionInv, FlowInv, TypeOK, ObservingIsBounded
<1>3. a \in returned /\ "approved" \in log[a]
  BY <1>1, <1>2 DEF ActionInv, RecordInv
<1>4. /\ runs[a] = 1 /\ a \notin held /\ "rejected" \notin log[a] /\ lock # a
      /\ a \notin overlapped \cup unlogged => "execution_failed" \notin log[a]
  <2>1. UnderWay(a)
    BY <1>1 DEF UnderWay
  <2>2. runs[a] = 1
    BY <2>1, <1>1 DEF ActionInv, UnstartedInv, DecidedOnce, TypeOK
  <2>3. a \notin held /\ "rejected" \notin log[a]
    BY <2>2, <1>1 DEF ActionInv, HeldInv, DecidedOnce
  <2>4. lock # a
    BY <1>1, <1>2 DEF ActionInv, LockInv, Running
  <2>5. a \notin overlapped \cup unlogged => "execution_failed" \notin log[a]
    BY <1>1, <1>3 DEF ActionInv, LogIsTrue
  <2> QED
    BY <2>2, <2>3, <2>4, <2>5
<1>5. /\ log' \in [Actions -> SUBSET Records]
      /\ log'[a] = log[a] \cup rs
      /\ \A b \in Actions \ {a} : log'[b] = log[b]
  BY <1>1, Recorded DEF Observed, ActionInv, Records, Verdicts
<1>6. rs \subseteq Verdicts
  BY DEF Observed
<1>7. /\ captures' \in [Actions -> Nat]
      /\ captures'[a] \in {captures[a], captures[a] + 1}
      /\ \A b \in Actions \ {a} : captures'[b] = captures[b]
      /\ r # Idle => captures'[a] = captures[a] + 1
  BY <1>1 DEF Observed, ActionInv, TypeOK, Idle
<1>8. /\ flow'[f] = r
      /\ \A g \in Flows \ {f} : flow'[g] = flow[g]
      /\ UNCHANGED <<queued, held, lock, runs, returned, overlapped>>
  BY DEF Observed, history, ActionInv, TypeOK
<1>9. \/ r = Idle
      \/ /\ r = [at |-> "observing", action |-> a, attempts |-> flow[f].attempts + 1]
         /\ rs \cap {"confirmed", "failed"} = {} /\ flow[f].attempts + 1 < MaxObservations
  BY DEF Observed
<1>10. unlogged' = unlogged \/ unlogged' = unlogged \cup {a}
  BY DEF Observed
<1>11. flow' = [flow EXCEPT ![f] = r]
  BY DEF Observed
<1>12. flow[f].action = a
  OBVIOUS
<1> HIDE DEF a
<1>13. r \in [at : {"idle", "running", "observing"}, action : Actions \cup {"none"},
            attempts : 0..(MaxObservations - 1)]
  BY <1>1, <1>2, <1>9 DEF Idle
<1>14. TypeOK'
  BY <1>1, <1>5, <1>7, <1>8, <1>10, <1>11, <1>13 DEF ActionInv, TypeOK
<1>15. FreshInv' /\ HeldInv'
  <2>1. \A b \in Actions : log[b] # {} => log'[b] # {}
    BY <1>5
  <2>2. log'[a] # {}
    BY <1>2, <2>1, <1>1
  <2>3. FreshInv'
    BY <1>5, <1>8, <1>10, <2>2 DEF ActionInv, FreshInv
  <2>4. HeldInv'
    BY <1>4, <1>5, <1>8 DEF ActionInv, HeldInv, TypeOK
  <2> QED
    BY <2>3, <2>4
<1>16. \A b \in Actions \ {a} : UnderWay(b)' <=> UnderWay(b)
  BY <1>1, <1>8, <1>9, <1>12 DEF UnderWay, Idle
<1>17. UnstartedInv'
  BY <1>4, <1>5, <1>7, <1>8, <1>16 DEF ActionInv, UnstartedInv
<1>18. RecordInv'
  BY <1>2, <1>5, <1>8 DEF ActionInv, RecordInv, Verdicts
<1>19. FlowInv'
  BY <1>1, <1>2, <1>5, <1>7, <1>8, <1>9 DEF ActionInv, FlowInv, Idle
<1>20. LockInv' /\ QueueInv'
  BY <1>1, <1>8, <1>10 DEF ActionInv, LockInv, Running, QueueInv
<1>21. DecidedOnce'
  BY <1>5, <1>6, <1>8 DEF ActionInv, DecidedOnce, Verdicts
<1>22. LogIsTrue'
  BY <1>3, <1>5, <1>6, <1>8, <1>10 DEF ActionInv, LogIsTrue, Verdicts
<1>23. QueuedIsHeld'
  BY <1>2, <1>8, <1>10, <1>16 DEF ActionInv, QueuedIsHeld, TypeOK
<1>24. \A g \in Flows \ {f} : flow[g].at = "observing" => flow[g].action \in Actions \ {a}
  BY <1>2 DEF ActionInv, FlowInv
<1>25. ObservingIsBounded'
  BY <1>2, <1>5, <1>7, <1>8, <1>9, <1>24 DEF ActionInv, ObservingIsBounded, Idle, TypeOK
<1> QED
  BY <1>14, <1>15, <1>17, <1>18, <1>19, <1>20, <1>21, <1>22, <1>23, <1>25 DEF ActionInv

\* What an observation, or its failure, does is what ObservedSafe says.
LEMMA ObserveSafe ==
  ASSUME ActionInv, NEW f \in Flows, NEW o \in Observation, Observe(f, o)
  PROVE  ActionInv'
<1> DEFINE a == flow[f].action
<1>1. /\ a \in Actions /\ flow[f].at = "observing" /\ flow[f].attempts \in Nat
      /\ flow[f] = [at |-> "observing", action |-> a, attempts |-> flow[f].attempts]
  BY DEF Observe, ActionInv, FlowInv, TypeOK
<1>2. captures' = [captures EXCEPT ![a] = @ + 1] /\ UNCHANGED <<queued, held, lock, history>>
  BY DEF Observe
<1>3. CASE /\ RecordPostCondition(a, o) /\ ObserveAgain(Verdict(o), NextAttempt(f))
           /\ flow' = [flow EXCEPT ![f] = [@ EXCEPT !.attempts = NextAttempt(f)]]
  <2>1. /\ log' = [log EXCEPT ![a] = @ \cup {"inconclusive"}] /\ unlogged' = unlogged
        /\ flow[f].attempts + 1 < MaxObservations
    BY <1>3 DEF RecordPostCondition, Append, ObserveAgain, NextAttempt
  <2>2. [flow[f] EXCEPT !.attempts = NextAttempt(f)]
          = [at |-> "observing", action |-> a, attempts |-> flow[f].attempts + 1]
    BY <1>1 DEF NextAttempt
  <2>3. flow' = [flow EXCEPT ![f] = [at |-> "observing", action |-> a,
                                     attempts |-> flow[f].attempts + 1]]
    BY <1>3, <2>2
  <2>4. Observed(f, [at |-> "observing", action |-> a, attempts |-> flow[f].attempts + 1],
                 {"inconclusive"})
    BY <1>1, <1>2, <2>1, <2>3 DEF Observed, Verdicts
  <2> QED
    BY <2>4, ObservedSafe
<1>4. CASE RecordPostCondition(a, o) /\ flow' = [flow EXCEPT ![f] = Idle]
  <2>1. Verdict(o) \in Verdicts
    BY DEF Verdict, Verdicts
  <2>2. Observed(f, Idle, {Verdict(o)})
    BY <1>1, <1>2, <1>4, <2>1 DEF Observed, RecordPostCondition, Append
  <2> QED
    BY <2>2, ObservedSafe
<1>5. CASE AppendFails(a, {}) /\ flow' = [flow EXCEPT ![f] = Idle]
  <2>1. Observed(f, Idle, {})
    BY <1>1, <1>2, <1>5 DEF Observed, AppendFails
  <2> QED
    BY <2>1, ObservedSafe
<1> QED
  BY <1>3, <1>4, <1>5 DEF Observe

\* A capture that fails ends the call and leaves no record.
LEMMA CaptureFailsSafe ==
  ASSUME ActionInv, NEW f \in Flows, CaptureFails(f)
  PROVE  ActionInv'
<1>1. log' = [log EXCEPT ![flow[f].action] = @ \cup {}]
  BY DEF CaptureFails, ActionInv, TypeOK
<1>2. Observed(f, Idle, {})
  BY <1>1 DEF CaptureFails, Observed
<1> QED
  BY <1>2, ObservedSafe

\* Another tool does not touch the workflow.
LEMMA OtherToolSafe == ASSUME ActionInv, OtherTool PROVE ActionInv'
<1> USE ActionAssumption
<1>1. /\ lock \notin Actions /\ lock' \in {"none", "other"} /\ lock' \notin Actions
      /\ UNCHANGED <<queued, held, flow, log, runs, returned, overlapped, unlogged, captures>>
  BY DEF OtherTool, history
<1>2. TypeOK' /\ FreshInv' /\ HeldInv' /\ UnstartedInv' /\ RecordInv' /\ QueueInv'
  BY <1>1 DEF ActionInv, TypeOK, FreshInv, HeldInv, UnstartedInv, UnderWay, RecordInv, QueueInv
<1>3. FlowInv' /\ LockInv'
  BY <1>1 DEF ActionInv, FlowInv, LockInv
<1>4. DecidedOnce' /\ LogIsTrue' /\ QueuedIsHeld' /\ ObservingIsBounded'
  BY <1>1 DEF ActionInv, DecidedOnce, LogIsTrue, QueuedIsHeld, UnderWay, ObservingIsBounded
<1> QED
  BY <1>2, <1>3, <1>4 DEF ActionInv

\* Where nothing changes the invariant stays.
LEMMA StutterSafe == ASSUME ActionInv, UNCHANGED vars PROVE ActionInv'
<1>1. UNCHANGED <<queued, held, lock, flow, log, runs, returned, overlapped, unlogged, captures>>
  BY DEF vars, history
<1>2. TypeOK' /\ FreshInv' /\ HeldInv' /\ UnstartedInv' /\ RecordInv' /\ QueueInv'
  BY <1>1 DEF ActionInv, TypeOK, FreshInv, HeldInv, UnstartedInv, UnderWay, RecordInv, QueueInv
<1>3. FlowInv' /\ LockInv'
  BY <1>1 DEF ActionInv, FlowInv, LockInv, Running
<1>4. DecidedOnce' /\ LogIsTrue' /\ QueuedIsHeld' /\ ObservingIsBounded'
  BY <1>1 DEF ActionInv, DecidedOnce, LogIsTrue, QueuedIsHeld, UnderWay, ObservingIsBounded
<1> QED
  BY <1>2, <1>3, <1>4 DEF ActionInv

-----------------------------------------------------------------------------
(* The theorems *)

\* What the desktop actions rest on: ActionInv holds in every reachable state.
THEOREM ActionInvariant == Spec => []ActionInv
<1>1. ASSUME ActionInv, [Next]_vars PROVE ActionInv'
  <2>1. ASSUME NEW a \in Actions, Propose(a) \/ Reject(a) PROVE ActionInv'
    BY <2>1, <1>1, ProposeSafe, RejectSafe
  <2>2. ASSUME NEW f \in Flows, NEW a \in Actions, Approve(f, a) PROVE ActionInv'
    <3>1. Start(f, a) \/ Refuse(f, a)
      BY <2>2 DEF Approve, Resumes, Start, Refuse
    <3> QED
      BY <3>1, <1>1, StartSafe, RefuseSafe
  <2>3. ASSUME NEW f \in Flows, NEW ok \in BOOLEAN, NEW expected \in BOOLEAN,
               Finish(f, ok, expected)
        PROVE  ActionInv'
    BY <2>3, <1>1, FinishSafe
  <2>4. ASSUME NEW f \in Flows, NEW o \in Observation, Observe(f, o) PROVE ActionInv'
    BY <2>4, <1>1, ObserveSafe
  <2>5. ASSUME NEW f \in Flows, CaptureFails(f) PROVE ActionInv'
    BY <2>5, <1>1, CaptureFailsSafe
  <2> QED
    BY <1>1, <2>1, <2>2, <2>3, <2>4, <2>5, OtherToolSafe, StutterSafe DEF Next
<1> QED
  BY InitSafe, <1>1, PTL DEF Spec

\* Every variable keeps its type.
THEOREM Typing == Spec => []TypeOK
<1>1. ActionInv => TypeOK
  BY DEF ActionInv
<1> QED
  BY <1>1, ActionInvariant, PTL

\* However proposals, approvals and rejections overlap, and whatever could not be recorded,
\* no action runs twice and none runs that a human rejected.
THEOREM DecisionsCountOnce == Spec => []DecidedOnce
<1>1. ActionInv => DecidedOnce
  BY DEF ActionInv
<1> QED
  BY <1>1, ActionInvariant, PTL

\* The records of an action say what became of it, however many actions are approved at once,
\* if it was not itself approved twice at a time and its records could be written.
THEOREM RecordsAreTrue == Spec => []LogIsTrue
<1>1. ActionInv => LogIsTrue
  BY DEF ActionInv
<1> QED
  BY <1>1, ActionInvariant, PTL

\* Every action the workflow offers can be decided or is being decided, if its records could
\* be written.
THEOREM QueueCanBeDecided == Spec => []QueuedIsHeld
<1>1. ActionInv => QueuedIsHeld
  BY DEF ActionInv
<1> QED
  BY <1>1, ActionInvariant, PTL

\* No action is observed more often than the policy says, whatever the policy.
THEOREM ObservationsAreBounded == Spec => []ObservingIsBounded
<1>1. ActionInv => ObservingIsBounded
  BY DEF ActionInv
<1> QED
  BY <1>1, ActionInvariant, PTL

-----------------------------------------------------------------------------
(* The last record *)

\* Nobody is at work on an action whose life is over, and nobody can begin.
ClosedInv == \A a \in Actions : Closed(a) => a \notin queued /\ ~UnderWay(a)

\* A step that is about one open action changes nothing for the closed ones.
LEMMA OneActs ==
  ASSUME ClosedInv, NEW a \in Actions, ~Closed(a),
         \A b \in Actions \ {a} :
           /\ log'[b] = log[b] /\ runs'[b] = runs[b]
           /\ b \in queued' <=> b \in queued
           /\ b \in overlapped' <=> b \in overlapped
           /\ UnderWay(b)' => UnderWay(b),
         Closed(a)' => a \notin queued' /\ ~UnderWay(a)'
  PROVE  /\ ClosedInv'
         /\ \A b \in Actions : Closed(b) => log'[b] = log[b] /\ runs'[b] = runs[b]
BY DEF ClosedInv, Closed

\* A flow that stays with its action, or leaves it, takes no other one up.
LEMMA OneFlow ==
  ASSUME NEW f \in Flows, NEW a, flow'[f].action \in {a, "none"},
         \A g \in Flows \ {f} : flow'[g] = flow[g]
  PROVE  \A b \in Actions \ {a} : UnderWay(b)' => UnderWay(b)
<1>1. ASSUME NEW b \in Actions \ {a}, NEW g \in Flows, flow'[g].action = b
      PROVE  UnderWay(b)
  <2>1. b # "none"
    BY ActionAssumption
  <2>2. g # f
    BY <1>1, <2>1
  <2> QED
    BY <1>1, <2>2 DEF UnderWay
<1> QED
  BY <1>1 DEF UnderWay

\* A proposal opens an action.
LEMMA ProposeOpens ==
  ASSUME ActionInv, ClosedInv, NEW a \in Actions, Propose(a)
  PROVE  /\ ClosedInv'
         /\ \A b \in Actions : Closed(b) => log'[b] = log[b] /\ runs'[b] = runs[b]
<1>1. /\ log[a] = {} /\ UNCHANGED <<flow, runs, overlapped>>
      /\ queued' = queued \/ queued' = queued \cup {a}
      /\ \E rs \in SUBSET {"proposed", "approval_requested"} : log' = [log EXCEPT ![a] = @ \cup rs]
  BY DEF Propose, Suspend, RecordProposal, ProposalUnrecorded, Append, AppendFails, history
<1>2. /\ log'[a] \subseteq {"proposed", "approval_requested"}
      /\ \A b \in Actions \ {a} : log'[b] = log[b]
  BY <1>1 DEF ActionInv, TypeOK
<1>3. ~Closed(a) /\ ~Closed(a)'
  BY <1>1, <1>2 DEF Closed
<1>4. \A b \in Actions : UnderWay(b)' => UnderWay(b)
  BY <1>1 DEF UnderWay
<1> QED
  BY <1>1, <1>2, <1>3, <1>4, OneActs

\* A rejection closes an action that nobody is approving, or is not recorded.
LEMMA RejectCloses ==
  ASSUME ActionInv, ClosedInv, NEW a \in Actions, Reject(a)
  PROVE  /\ ClosedInv'
         /\ \A b \in Actions : Closed(b) => log'[b] = log[b] /\ runs'[b] = runs[b]
<1>1. /\ a \in queued /\ a \in held /\ UNCHANGED <<flow, runs, overlapped>>
      /\ \/ log' = [log EXCEPT ![a] = @ \cup {"rejected"}] /\ queued' = queued \ {a}
         \/ log' = [log EXCEPT ![a] = @ \cup {}] /\ queued' = queued
  BY DEF Reject, RecordRejection, Append, AppendFails, history
<1>2. ~Closed(a) /\ ~UnderWay(a)
  BY <1>1 DEF ClosedInv, ActionInv, HeldInv, UnstartedInv
<1>3. \A b \in Actions : UnderWay(b)' => UnderWay(b)
  BY <1>1 DEF UnderWay
<1>4. \A b \in Actions \ {a} : log'[b] = log[b] /\ (b \in queued' <=> b \in queued)
  BY <1>1 DEF ActionInv, TypeOK
<1>5. Closed(a)' => a \notin queued'
  <2>1. CASE queued' = queued \ {a}
    BY <2>1
  <2>2. CASE log' = [log EXCEPT ![a] = @ \cup {}]
    <3>1. log'[a] = log[a]
      BY <2>2 DEF ActionInv, TypeOK
    <3> QED
      BY <1>1, <1>2, <3>1 DEF Closed
  <2> QED
    BY <1>1, <2>1, <2>2
<1> QED
  BY <1>1, <1>2, <1>3, <1>4, <1>5, OneActs

\* An approval closes an action that it fails for, unless another one is under way.
LEMMA ApproveCloses ==
  ASSUME ActionInv, ClosedInv, NEW f \in Flows, NEW a \in Actions, Approve(f, a)
  PROVE  /\ ClosedInv'
         /\ \A b \in Actions : Closed(b) => log'[b] = log[b] /\ runs'[b] = runs[b]
<1>1. /\ a \in queued /\ ~Closed(a)
      /\ overlapped' = IF UnderWay(a) THEN overlapped \cup {a} ELSE overlapped
  BY DEF Approve, UnderWay, ClosedInv
<1>2. CASE Start(f, a)
  <2>1. /\ UNCHANGED <<queued, log>> /\ runs' = [runs EXCEPT ![a] = @ + 1]
        /\ flow' = [flow EXCEPT ![f] = [at |-> "running", action |-> a, attempts |-> 0]]
    BY <1>2 DEF Start
  <2>2. \A b \in Actions \ {a} : UnderWay(b)' => UnderWay(b)
    <3>1. flow'[f].action = a /\ \A g \in Flows \ {f} : flow'[g] = flow[g]
      BY <2>1 DEF ActionInv, TypeOK
    <3> QED
      BY <3>1, OneFlow
  <2>3. ~Closed(a)'
    BY <1>1, <2>1 DEF Closed
  <2>4. \A b \in Actions \ {a} : runs'[b] = runs[b]
    BY <2>1 DEF ActionInv, TypeOK
  <2> QED
    BY <1>1, <2>1, <2>2, <2>3, <2>4, OneActs
<1>3. CASE Refuse(f, a)
  <2>1. /\ UNCHANGED <<flow, runs>>
        /\ \/ log' = [log EXCEPT ![a] = @ \cup {"execution_failed"}] /\ queued' = queued \ {a}
           \/ log' = [log EXCEPT ![a] = @ \cup {}] /\ queued' = queued
    BY <1>3 DEF Refuse, RecordFailure, Append, AppendFails
  <2>2. \A b \in Actions : UnderWay(b)' <=> UnderWay(b)
    BY <2>1 DEF UnderWay
  <2>3. \A b \in Actions \ {a} : log'[b] = log[b] /\ (b \in queued' <=> b \in queued)
    BY <2>1 DEF ActionInv, TypeOK
  <2>4. Closed(a)' => a \notin queued' /\ ~UnderWay(a)
    <3>1. CASE log' = [log EXCEPT ![a] = @ \cup {}]
      <4>1. log'[a] = log[a]
        BY <3>1 DEF ActionInv, TypeOK
      <4> QED
        BY <1>1, <4>1 DEF Closed
    <3>2. CASE log' = [log EXCEPT ![a] = @ \cup {"execution_failed"}] /\ queued' = queued \ {a}
      <4>1. log'[a] = log[a] \cup {"execution_failed"}
        BY <3>2 DEF ActionInv, TypeOK
      <4> QED
        BY <1>1, <3>2, <4>1 DEF Closed
    <3> QED
      BY <2>1, <3>1, <3>2
  <2> QED
    BY <1>1, <2>1, <2>2, <2>3, <2>4, OneActs
<1> QED
  BY <1>2, <1>3 DEF Approve, Resumes, Start, Refuse

\* A tool that failed closes its action, which no other approval can have.
LEMMA FinishCloses ==
  ASSUME ActionInv, ClosedInv, NEW f \in Flows, NEW ok \in BOOLEAN, NEW expected \in BOOLEAN,
         Finish(f, ok, expected)
  PROVE  /\ ClosedInv'
         /\ \A b \in Actions : Closed(b) => log'[b] = log[b] /\ runs'[b] = runs[b]
<1>0. PICK a : a = flow[f].action
  OBVIOUS
<1>1. Running(f, a) /\ UNCHANGED <<runs, overlapped>>
  BY <1>0 DEF Finish, Running
<1>2. /\ a \in Actions /\ "executed" \notin log[a] /\ UnderWay(a)
      /\ \A g \in Flows : flow[g].action = a => g = f
  BY <1>1, WhileRunning DEF UnderWay, Running
<1>3. ~Closed(a)
  BY <1>2 DEF ClosedInv
<1>4. /\ queued' = queued \/ queued' = queued \ {a}
      /\ \E rs : log' = [log EXCEPT ![a] = @ \cup rs]
  BY <1>0 DEF Finish, RecordExecution, RecordFailure, Append, AppendFails
<1>5. \A b \in Actions \ {a} : log'[b] = log[b] /\ (b \in queued' <=> b \in queued)
  BY <1>4 DEF ActionInv, TypeOK
<1>6. \A b \in Actions \ {a} : UnderWay(b)' => UnderWay(b)
  <2>1. PICK r : /\ flow' = [flow EXCEPT ![f] = r]
                 /\ r = Idle \/ r = [flow[f] EXCEPT !.at = "observing"]
    BY DEF Finish
  <2>2. flow'[f].action \in {a, "none"} /\ \A g \in Flows \ {f} : flow'[g] = flow[g]
    BY <1>0, <2>1 DEF Idle, ActionInv, TypeOK
  <2> QED
    BY <2>2, OneFlow
<1>7. Closed(a)' => a \notin queued' /\ ~UnderWay(a)'
  <2>1. CASE \E rs \in SUBSET {"approved", "executed"} : log' = [log EXCEPT ![a] = @ \cup rs]
    <3>1. PICK rs \in SUBSET {"approved", "executed"} : log'[a] = log[a] \cup rs
      BY <1>2, <2>1 DEF ActionInv, TypeOK
    <3> QED
      BY <1>1, <1>3, <3>1 DEF Closed
  <2>2. CASE log' = [log EXCEPT ![a] = @ \cup {"execution_failed"}] /\ queued' = queued \ {a}
    <3>1. "executed" \notin log'[a]
      BY <1>2, <2>2 DEF ActionInv, TypeOK
    <3>2. flow' = [flow EXCEPT ![f] = Idle]
      BY <1>0, <3>1 DEF Finish
    <3>3. ~UnderWay(a)'
      BY <1>2, <3>2, ActionAssumption DEF UnderWay, Idle, ActionInv, TypeOK
    <3> QED
      BY <2>2, <3>3
  <2> QED
    BY <1>0, <2>1, <2>2 DEF Finish, RecordExecution, RecordFailure, Append, AppendFails
<1> QED
  BY <1>1, <1>2, <1>3, <1>5, <1>6, <1>7, OneActs

\* A verdict that says something closes its action and ends the observing.
LEMMA ObserveCloses ==
  ASSUME ActionInv, ClosedInv, NEW f \in Flows, NEW o \in Observation, Observe(f, o)
  PROVE  /\ ClosedInv'
         /\ \A b \in Actions : Closed(b) => log'[b] = log[b] /\ runs'[b] = runs[b]
<1>0. PICK a : a = flow[f].action
  OBVIOUS
<1>1. flow[f].at = "observing" /\ UNCHANGED <<queued, runs, overlapped>>
  BY DEF Observe, history
<1>2. /\ a \in Actions /\ a \notin queued /\ UnderWay(a)
      /\ \A g \in Flows : flow[g].action = a => g = f
  BY <1>0, <1>1 DEF ActionInv, FlowInv, UnderWay
<1>3. ~Closed(a)
  BY <1>2 DEF ClosedInv
<1>4. \E rs : log' = [log EXCEPT ![a] = @ \cup rs]
  BY <1>0 DEF Observe, RecordPostCondition, Append, AppendFails
<1>5. \A b \in Actions \ {a} : log'[b] = log[b]
  BY <1>4 DEF ActionInv, TypeOK
<1>6. \A b \in Actions \ {a} : UnderWay(b)' => UnderWay(b)
  <2>1. PICK r : /\ flow' = [flow EXCEPT ![f] = r]
                 /\ r = Idle \/ r = [flow[f] EXCEPT !.attempts = NextAttempt(f)]
    BY DEF Observe
  <2>2. flow'[f].action \in {a, "none"} /\ \A g \in Flows \ {f} : flow'[g] = flow[g]
    BY <1>0, <2>1 DEF Idle, ActionInv, TypeOK
  <2> QED
    BY <2>2, OneFlow
<1>7. Closed(a)' => ~UnderWay(a)'
  <2>1. CASE flow' = [flow EXCEPT ![f] = Idle]
    BY <1>2, <2>1, ActionAssumption DEF UnderWay, Idle, ActionInv, TypeOK
  <2>2. CASE Verdict(o) = "inconclusive" /\ log' = [log EXCEPT ![a] = @ \cup {Verdict(o)}]
    <3>1. log'[a] = log[a] \cup {"inconclusive"}
      BY <1>2, <2>2 DEF ActionInv, TypeOK
    <3> QED
      BY <1>1, <1>3, <3>1 DEF Closed
  <2> QED
    BY <1>0, <2>1, <2>2 DEF Observe, ObserveAgain, RecordPostCondition, Append
<1> QED
  BY <1>1, <1>2, <1>3, <1>5, <1>6, <1>7, OneActs

\* Every step leaves the closed actions alone, and closes only what nobody is at work on.
LEMMA ClosedStep ==
  ASSUME ActionInv, ClosedInv, [Next]_vars
  PROVE  /\ ClosedInv'
         /\ \A b \in Actions : Closed(b) => log'[b] = log[b] /\ runs'[b] = runs[b]
<1>1. ASSUME UNCHANGED <<queued, log, runs, overlapped>>,
             \A b \in Actions : UnderWay(b)' => UnderWay(b)
      PROVE  /\ ClosedInv'
             /\ \A b \in Actions : Closed(b) => log'[b] = log[b] /\ runs'[b] = runs[b]
  BY <1>1 DEF ClosedInv, Closed
<1>2. ASSUME NEW f \in Flows, CaptureFails(f)
      PROVE  /\ UNCHANGED <<queued, log, runs, overlapped>>
             /\ \A b \in Actions : UnderWay(b)' => UnderWay(b)
  <2>1. UNCHANGED <<queued, log, runs, overlapped>> /\ flow' = [flow EXCEPT ![f] = Idle]
    BY <1>2 DEF CaptureFails, history
  <2>2. flow'[f].action = "none" /\ \A g \in Flows \ {f} : flow'[g] = flow[g]
    BY <2>1 DEF Idle, ActionInv, TypeOK
  <2>3. \A b \in Actions \ {"none"} : UnderWay(b)' => UnderWay(b)
    BY <2>2, OneFlow
  <2> QED
    BY <2>1, <2>3, ActionAssumption
<1>3. ASSUME OtherTool \/ UNCHANGED vars
      PROVE  /\ UNCHANGED <<queued, log, runs, overlapped>>
             /\ \A b \in Actions : UnderWay(b)' => UnderWay(b)
  BY <1>3 DEF OtherTool, vars, history, UnderWay
<1> QED
  BY <1>1, <1>2, <1>3, ProposeOpens, RejectCloses, ApproveCloses, FinishCloses, ObserveCloses
  DEF Next

\* A rejection, a failure and a verdict that says something are last words: nothing that is
\* still under way, or comes late, adds a record or runs the action again.
THEOREM LastWords == Spec => LastRecordStays
<1>1. Init => ClosedInv
  BY DEF Init, ClosedInv, Closed
<1>2. ActionInv /\ ClosedInv /\ [Next]_vars => ClosedInv'
  BY ClosedStep
<1>3. ActionInv /\ ClosedInv /\ [Next]_vars =>
        [\A a \in Actions : Closed(a) => log'[a] = log[a] /\ runs'[a] = runs[a]]_vars
  BY ClosedStep
<1> QED
  BY <1>1, <1>2, <1>3, ActionInvariant, PTL DEF Spec, LastRecordStays

-----------------------------------------------------------------------------
(* The contract of ToolExecutor, which the workflow relies on *)

\* The calls the executor has been asked about.
Proposed == {a \in Actions : log[a] # {} \/ a \in unlogged}

\* Where the records only grow and nothing else that the contract looks at changes, the
\* step is hidden from it.
LEMMA ContractStays ==
  ASSUME UNCHANGED <<held, lock>>, Proposed' = Proposed
  PROVE  UNCHANGED Executor!executorVars
BY DEF Proposed, Executor!executorVars

\* What is written about an action that was proposed decides about nothing new.
LEMMA RecordsKeepProposed ==
  ASSUME TypeOK, NEW a \in Proposed, NEW rs, log' = [log EXCEPT ![a] = @ \cup rs],
         unlogged' = unlogged \/ unlogged' = unlogged \cup {a}
  PROVE  Proposed' = Proposed
<1>1. a \in Actions /\ log'[a] = log[a] \cup rs /\ \A b \in Actions \ {a} : log'[b] = log[b]
  BY DEF Proposed, TypeOK
<1>2. \A b \in Actions : (log'[b] # {} \/ b \in unlogged') <=> (log[b] # {} \/ b \in unlogged)
  BY <1>1 DEF Proposed
<1> QED
  BY <1>2 DEF Proposed

\* What is queued, held or started was proposed.
LEMMA KnownIsProposed ==
  ASSUME ActionInv, NEW a \in Actions, a \in queued \/ runs[a] # 0 \/ UnderWay(a)
  PROVE  a \in Proposed
BY DEF ActionInv, FreshInv, UnstartedInv, Proposed

\* A proposal makes the executor hold a call it had not heard of.
LEMMA ProposeContract ==
  ASSUME ActionInv, NEW a \in Actions, Propose(a)
  PROVE  Executor!Hold(a)
<1>1. /\ lock = "none" /\ lock' = "none" /\ held' = held \cup {a} /\ a \notin Proposed
      /\ log' = [log EXCEPT ![a] = @ \cup {"proposed", "approval_requested"}] \/ a \in unlogged'
      /\ unlogged \subseteq unlogged'
  BY DEF Propose, Suspend, RecordProposal, ProposalUnrecorded, Append, AppendFails, Proposed
<1>2. \A b \in Actions \ {a} : log'[b] = log[b]
  BY DEF Propose, RecordProposal, ProposalUnrecorded, Append, AppendFails, ActionInv, TypeOK
<1>3. a \in Proposed'
  BY <1>1 DEF Proposed, ActionInv, TypeOK
<1>4. Proposed \subseteq Proposed' /\ Proposed' \subseteq Actions
  BY <1>1, <1>2, <1>3 DEF Proposed
<1>5. {lock'} \cap Actions = {}
  BY <1>1, ActionAssumption
<1> QED
  BY <1>1, <1>3, <1>4, <1>5 DEF Executor!Hold, Executor!Admits, Proposed

\* An approval resumes a call that the executor held while nothing ran, or drops it, or
\* finds that the executor no longer holds it.
LEMMA ApproveContract ==
  ASSUME ActionInv, NEW f \in Flows, NEW a \in Actions, Approve(f, a)
  PROVE  [Executor!Next]_(Executor!executorVars)
<1>1. a \in Proposed /\ held' = held \ {a}
  BY KnownIsProposed DEF Approve
<1>2. CASE Start(f, a)
  <2>1. a \in held /\ lock = "none" /\ lock' = a /\ UNCHANGED <<log, unlogged>>
    BY <1>2 DEF Start
  <2>2. {lock} \cap Actions = {} /\ {lock'} \cap Actions = {a}
    BY <2>1, ActionAssumption
  <2>3. Executor!Resume(a)
    BY <1>1, <2>1, <2>2 DEF Executor!Resume
  <2> QED
    BY <2>3 DEF Executor!Next
<1>3. CASE Refuse(f, a)
  <2>1. lock' = lock /\ \E rs : /\ log' = [log EXCEPT ![a] = @ \cup rs]
                                /\ unlogged' = unlogged \/ unlogged' = unlogged \cup {a}
    BY <1>3 DEF Refuse, RecordFailure, Append, AppendFails
  <2>2. Proposed' = Proposed
    BY <1>1, <2>1, RecordsKeepProposed DEF ActionInv
  <2>3. CASE a \in held
    <3>1. Executor!Drop(a)
      BY <1>1, <2>1, <2>2, <2>3 DEF Executor!Drop, Proposed
    <3> QED
      BY <3>1 DEF Executor!Next
  <2>4. CASE a \notin held
    BY <1>1, <2>1, <2>2, <2>4, ContractStays
  <2> QED
    BY <2>3, <2>4
<1> QED
  BY <1>2, <1>3 DEF Approve, Resumes, Start, Refuse

\* The tool's end leaves nothing running.
LEMMA FinishContract ==
  ASSUME ActionInv, NEW f \in Flows, NEW ok \in BOOLEAN, NEW expected \in BOOLEAN,
         Finish(f, ok, expected)
  PROVE  Executor!Refuse
<1> DEFINE a == flow[f].action
<1>1. a \in Actions /\ a \in Proposed /\ Running(f, a)
  <2>1. Running(f, a)
    BY DEF Finish, Running
  <2>2. a \in Actions /\ runs[a] = 1
    BY <2>1, WhileRunning
  <2> QED
    BY <2>1, <2>2, KnownIsProposed
<1>2. lock' = "none" /\ held' = held
      /\ \E rs : /\ log' = [log EXCEPT ![a] = @ \cup rs]
                 /\ unlogged' = unlogged \/ unlogged' = unlogged \cup {a}
  BY DEF Finish, RecordExecution, RecordFailure, Append, AppendFails
<1>3. Proposed' = Proposed /\ Proposed' \subseteq Actions
  BY <1>1, <1>2, RecordsKeepProposed DEF ActionInv, Proposed
<1>4. {lock'} \cap Actions = {}
  BY <1>2, ActionAssumption
<1> QED
  BY <1>2, <1>3, <1>4 DEF Executor!Refuse, Executor!Admits, Proposed

\* A rejection drops a call that the executor holds.
LEMMA RejectContract ==
  ASSUME ActionInv, NEW a \in Actions, Reject(a)
  PROVE  Executor!Drop(a)
<1>1. a \in Proposed
  BY KnownIsProposed DEF Reject
<1>2. /\ a \in held /\ held' = held \ {a} /\ lock' = lock
      /\ \E rs : /\ log' = [log EXCEPT ![a] = @ \cup rs]
                 /\ unlogged' = unlogged \/ unlogged' = unlogged \cup {a}
  BY DEF Reject, RecordRejection, Append, AppendFails
<1>3. Proposed' = Proposed
  BY <1>1, <1>2, RecordsKeepProposed DEF ActionInv
<1> QED
  BY <1>2, <1>3 DEF Executor!Drop, Proposed

\* Observing an action is nothing to the executor.
LEMMA ObserveContract ==
  ASSUME ActionInv, NEW f \in Flows,
         (\E o \in Observation : Observe(f, o)) \/ CaptureFails(f)
  PROVE  UNCHANGED Executor!executorVars
<1>1. flow[f].action \in Proposed
  <2>1. flow[f].action \in Actions
    BY DEF Observe, CaptureFails, ActionInv, FlowInv
  <2> QED
    BY <2>1, KnownIsProposed DEF UnderWay
<1>2. UNCHANGED <<held, lock>>
  BY DEF Observe, CaptureFails
<1>3. \/ log' = log /\ unlogged' = unlogged
      \/ \E rs : /\ log' = [log EXCEPT ![flow[f].action] = @ \cup rs]
                 /\ unlogged' = unlogged \/ unlogged' = unlogged \cup {flow[f].action}
  BY DEF Observe, CaptureFails, RecordPostCondition, Append, AppendFails
<1>4. Proposed' = Proposed
  BY <1>1, <1>3, RecordsKeepProposed DEF ActionInv, Proposed
<1> QED
  BY <1>2, <1>4, ContractStays

\* Every step of the workflow, and of what it takes the executor to do, is a step of the
\* contract, or is hidden from it.
LEMMA ContractStep == ActionInv /\ [Next]_vars => [Executor!Next]_(Executor!executorVars)
<1> SUFFICES ASSUME ActionInv, [Next]_vars
             PROVE  [Executor!Next]_(Executor!executorVars)
  OBVIOUS
<1>1. ASSUME NEW a \in Actions, Propose(a) \/ Reject(a)
      PROVE  Executor!Next
  BY <1>1, ProposeContract, RejectContract DEF Executor!Next
<1>2. ASSUME NEW f \in Flows, NEW a \in Actions, Approve(f, a)
      PROVE  [Executor!Next]_(Executor!executorVars)
  BY <1>2, ApproveContract
<1>3. ASSUME NEW f \in Flows, NEW ok \in BOOLEAN, NEW expected \in BOOLEAN,
             Finish(f, ok, expected)
      PROVE  Executor!Next
  BY <1>3, FinishContract DEF Executor!Next
<1>4. ASSUME NEW f \in Flows, (\E o \in Observation : Observe(f, o)) \/ CaptureFails(f)
      PROVE  UNCHANGED Executor!executorVars
  BY <1>4, ObserveContract
<1>5. ASSUME OtherTool
      PROVE  UNCHANGED Executor!executorVars
  <2>1. {lock} \cap Actions = {} /\ {lock'} \cap Actions = {} /\ UNCHANGED <<held, log, unlogged>>
    BY <1>5, ActionAssumption DEF OtherTool
  <2> QED
    BY <2>1 DEF Executor!executorVars
<1>6. CASE UNCHANGED vars
  BY <1>6 DEF vars, Executor!executorVars
<1> QED
  BY <1>1, <1>2, <1>3, <1>4, <1>5, <1>6 DEF Next

\* The workflow implements ToolExecutor: however approvals, rejections and other tools
\* overlap, it takes no more from the executor than SupervisedExecution gives.
THEOREM ContractIsEnough == Spec => KeepsContract
<1>1. Init => Executor!Init
  BY ActionAssumption DEF Init, Executor!Init
<1>2. ActionInv /\ [Next]_vars => [Executor!Next]_(Executor!executorVars)
  BY ContractStep
<1> QED
  BY <1>1, <1>2, ActionInvariant, PTL DEF Spec, KeepsContract, Executor!Spec

=============================================================================
