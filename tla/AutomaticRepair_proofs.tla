------------------------ MODULE AutomaticRepair_proofs ------------------------
(***************************************************************************)
(* Safety of AutomaticRepair for every set of calls and scripts, every     *)
(* command line, and whatever limits are asked for.                        *)
(*                                                                         *)
(* LoopInv is inductive.  A loop counts its attempts from the first, so    *)
(* its repairs are fewer than its attempts, which stop at the limit; and   *)
(* while nobody else writes, the scripts before the one that is running    *)
(* pass, because every repair starts the verification from the beginning.  *)
(***************************************************************************)
EXTENDS AutomaticRepair, TLAPS

CallInv(r) ==
  /\ loop[r].at = "idle" => loop[r] = Idle /\ repairs[r] = 0
  /\ loop[r].at # "ended" => loop[r].result = "none"
  /\ loop[r].at = "verifying" =>
       /\ loop[r].attempt \in 1..Limit /\ repairs[r] < loop[r].attempt
       /\ loop[r].step \in 1..Len(Chosen)
       /\ r \notin disturbed => \A i \in 1..(loop[r].step - 1) : fault[Chosen[i]] = "none"
  /\ loop[r].at = "repairing" =>
       loop[r].attempt \in 1..(Limit - 1) /\ repairs[r] < loop[r].attempt

LoopInv == TypeOK /\ (\A r \in Runs : CallInv(r)) /\ RepairsAreBounded /\ OkIsVerified

-----------------------------------------------------------------------------
(* The operators *)

\* The engine runs scripts of the project, three at most, and not both of "check" and
\* "typecheck".
LEMMA ChosenType ==
  /\ Chosen \in Seq(Scripts) /\ Len(Chosen) \in 0..3
  /\ Chosen # <<>> => Len(Chosen) \in 1..3
  /\ \A i \in 1..Len(Chosen) : Chosen[i] \in Scripts
BY DEF Chosen, IfScript

\* Every script of the project is run, but for "typecheck" beside "check".
LEMMA ChosenIsAll ==
  \A s \in Scripts :
    s # "typecheck" \/ "check" \notin Scripts => \E i \in 1..Len(Chosen) : Chosen[i] = s
BY ScriptAssumption DEF Chosen, IfScript, ScriptNames

\* Whatever is asked for, a loop has between one and three attempts.
LEMMA LimitType == Limit \in 1..3
BY AttemptAssumption DEF Limit

\* A script that succeeds has nothing wrong with it; what it says otherwise is a cause.
LEMMA ExecutionType ==
  ASSUME TypeOK, NEW s \in Scripts
  PROVE  /\ Execution(s).ok \in BOOLEAN /\ Execution(s).stderr \in Causes \cup {"none"}
         /\ Execution(s).ok => fault[s] = "none"
<1>1. CASE Blocked(command[s])
  BY <1>1 DEF Execution
<1>2. CASE ~Blocked(command[s])
  BY <1>2 DEF Execution, TypeOK
<1> QED
  BY <1>1, <1>2

-----------------------------------------------------------------------------
(* The steps *)

Rec == [at : {"idle", "verifying", "repairing", "ended"}, attempt : 0..3, step : 0..3,
        result : {"none", "ok", "failed", "threw", "paused", "done", "handed over"}]

\* Before any call is made the invariant holds.
LEMMA InitSafe == Init => LoopInv
<1> SUFFICES ASSUME Init PROVE LoopInv
  OBVIOUS
<1>1. TypeOK
  BY LimitType DEF Init, TypeOK, Idle
<1>2. \A r \in Runs : CallInv(r)
  BY DEF Init, CallInv, Idle
<1>3. RepairsAreBounded /\ OkIsVerified
  BY LimitType DEF Init, RepairsAreBounded, OkIsVerified, Idle
<1> QED
  BY <1>1, <1>2, <1>3 DEF LoopInv

\* What ends a call, or begins a verification, does to the call's record.
LEMMA EndRecord ==
  ASSUME TypeOK, NEW r \in Runs, NEW result, End(r, result),
         result \in {"ok", "failed", "threw", "paused", "done", "handed over"}
  PROVE  /\ loop' \in [Runs -> Rec] /\ loop'[r].at = "ended" /\ loop'[r].result = result
         /\ \A q \in Runs \ {r} : loop'[q] = loop[q]
<1>1. loop \in [Runs -> Rec]
  BY DEF TypeOK, Rec
<1>2. [loop[r] EXCEPT !.at = "ended", !.result = result]
        \in [at : {"ended"}, attempt : 0..3, step : 0..3, result : {result}]
  BY <1>1 DEF Rec
<1> QED
  BY <1>1, <1>2 DEF End, Rec

\* A verification begins with the first script, or ends the call when there is none.
LEMMA VerifyRecord ==
  ASSUME TypeOK, NEW r \in Runs, NEW attempt \in 1..3, Verify(r, attempt),
         loop[r].result = "none"
  PROVE  /\ loop' \in [Runs -> Rec]
         /\ \A q \in Runs \ {r} : loop'[q] = loop[q]
         /\ \/ /\ Chosen = <<>> /\ loop'[r].at = "ended" /\ loop'[r].result = "ok"
            \/ /\ Chosen # <<>> /\ loop'[r].at = "verifying" /\ loop'[r].result = "none"
               /\ loop'[r].attempt = attempt /\ loop'[r].step = 1
<1>1. CASE Chosen = <<>>
  BY <1>1, EndRecord DEF Verify
<1>2. CASE Chosen # <<>>
  <2>1. loop \in [Runs -> Rec]
    BY DEF TypeOK, Rec
  <2>2. [loop[r] EXCEPT !.at = "verifying", !.attempt = attempt, !.step = 1]
          \in [at : {"verifying"}, attempt : {attempt}, step : {1}, result : {"none"}]
    BY <2>1 DEF Rec
  <2>3. loop' = [loop EXCEPT ![r] = [loop[r] EXCEPT !.at = "verifying", !.attempt = attempt,
                                                    !.step = 1]]
    BY <1>2 DEF Verify
  <2>4. loop'[r] = [loop[r] EXCEPT !.at = "verifying", !.attempt = attempt, !.step = 1]
    BY <2>1, <2>3
  <2> HIDE DEF Verify
  <2>5. [loop[r] EXCEPT !.at = "verifying", !.attempt = attempt, !.step = 1] \in Rec
    <3>1. ASSUME NEW x \in Rec, NEW at \in {"idle", "verifying", "repairing", "ended"},
                 NEW k \in 0..3, NEW n \in 0..3
          PROVE  [x EXCEPT !.at = at, !.attempt = k, !.step = n] \in Rec
      BY DEF Rec
    <3>2. /\ loop[r] \in Rec /\ "verifying" \in {"idle", "verifying", "repairing", "ended"}
          /\ attempt \in 0..3 /\ 1 \in 0..3
      BY <2>1
    <3> QED
      BY <3>1, <3>2, Zenon
  <2>6. loop' \in [Runs -> Rec] /\ \A q \in Runs \ {r} : loop'[q] = loop[q]
    BY <2>1, <2>3, <2>5
  <2> QED
    BY <1>2, <2>2, <2>4, <2>6
<1> QED
  BY <1>1, <1>2

\* A call that writes to the workspace disturbs every other one that is under way.
LEMMA OthersDisturbed ==
  ASSUME LoopInv, NEW r \in Runs, Changed(r),
         loop' \in [Runs -> Rec], \A q \in Runs \ {r} : loop'[q] = loop[q],
         repairs' \in [Runs -> 0..Limit], \A q \in Runs \ {r} : repairs'[q] = repairs[q],
         cause' \in [Runs -> Causes \cup {"none"}],
         UNCHANGED <<mode, debugger, command>>,
         CallInv(r)', repairs'[r] < Limit, r \in disturbed' \/ loop'[r].result # "ok" \/ Chosen = <<>>
  PROVE  LoopInv'
<1>1. /\ fault' \in [Scripts -> Causes \cup {"none"}] /\ disturbed' \subseteq Runs
      /\ \A q \in Runs \ {r} : loop[q] # Idle => q \in disturbed'
  BY DEF Changed, LoopInv, TypeOK
<1>2. TypeOK'
  BY <1>1 DEF LoopInv, TypeOK, Rec
<1>3. ASSUME NEW q \in Runs \ {r} PROVE CallInv(q)'
  BY <1>1, <1>3 DEF LoopInv, CallInv, Idle
<1>4. \A q \in Runs : CallInv(q)'
  BY <1>3
<1>5. RepairsAreBounded'
  BY DEF LoopInv, RepairsAreBounded
<1>6. OkIsVerified'
  BY <1>1, ChosenType DEF OkIsVerified, Idle
<1> QED
  BY <1>2, <1>4, <1>5, <1>6 DEF LoopInv

\* The model's work, which may write to the workspace, and the first verification.
LEMMA WorkSafe == ASSUME LoopInv, NEW r \in Runs, Work(r) PROVE LoopInv'
<1>1. /\ Changed(r) /\ UNCHANGED <<mode, debugger, command, repairs, cause>>
      /\ loop[r] = Idle
  BY DEF Work
<1>2. repairs'[r] = 0 /\ 0 < Limit /\ r \notin disturbed' /\ loop[r].result = "none"
  BY <1>1, LimitType DEF LoopInv, CallInv, Changed, Idle
<1>3. CASE \E result \in {"threw", "paused", "handed over", "done"} : End(r, result)
  <2>1. PICK result \in {"threw", "paused", "handed over", "done"} : End(r, result)
    BY <1>3
  <2>2. /\ loop' \in [Runs -> Rec] /\ loop'[r].at = "ended" /\ loop'[r].result = result
        /\ \A q \in Runs \ {r} : loop'[q] = loop[q]
    BY <2>1, EndRecord DEF LoopInv
  <2>3. CallInv(r)'
    BY <2>2 DEF CallInv
  <2> QED
    BY <1>1, <1>2, <2>2, <2>3, OthersDisturbed DEF LoopInv, TypeOK
<1>4. CASE Verify(r, 1)
  <2>1. /\ loop' \in [Runs -> Rec]
        /\ \A q \in Runs \ {r} : loop'[q] = loop[q]
        /\ \/ /\ Chosen = <<>> /\ loop'[r].at = "ended" /\ loop'[r].result = "ok"
           \/ /\ Chosen # <<>> /\ loop'[r].at = "verifying" /\ loop'[r].result = "none"
              /\ loop'[r].attempt = 1 /\ loop'[r].step = 1
    BY <1>2, <1>4, VerifyRecord DEF LoopInv
  <2>2. CallInv(r)'
    BY <1>2, <2>1, LimitType, ChosenType DEF CallInv
  <2> QED
    BY <1>1, <1>2, <2>1, <2>2, OthersDisturbed DEF LoopInv, TypeOK
<1> QED
  BY <1>3, <1>4 DEF Work

\* A repair is counted, and verification begins again with the first script.
LEMMA RepairEndsSafe == ASSUME LoopInv, NEW r \in Runs, RepairEnds(r) PROVE LoopInv'
<1>1. /\ Changed(r) /\ UNCHANGED <<mode, debugger, command>> /\ loop[r].at = "repairing"
      /\ repairs' = [repairs EXCEPT ![r] = IF @ < Limit THEN @ + 1 ELSE @]
      /\ cause' = [cause EXCEPT ![r] = "none"]
  BY DEF RepairEnds
<1>2. /\ loop[r].attempt \in 1..(Limit - 1) /\ repairs[r] \in 0..Limit
      /\ repairs[r] < loop[r].attempt /\ loop[r].result = "none"
      /\ repairs \in [Runs -> 0..Limit]
  BY <1>1 DEF LoopInv, CallInv, TypeOK
<1>3. /\ repairs'[r] = repairs[r] + 1 /\ repairs'[r] < Limit /\ repairs'[r] < loop[r].attempt + 1
      /\ repairs' \in [Runs -> 0..Limit] /\ \A q \in Runs \ {r} : repairs'[q] = repairs[q]
  BY <1>1, <1>2, LimitType
<1>4. cause' \in [Runs -> Causes \cup {"none"}]
  BY <1>1 DEF LoopInv, TypeOK
<1>5. r \notin disturbed' /\ loop[r].attempt + 1 \in 1..3 /\ loop[r].attempt + 1 <= Limit
  BY <1>1, <1>2, LimitType DEF Changed
<1>6. CASE \E result \in {"failed", "threw"} : End(r, result)
  <2>1. PICK result \in {"failed", "threw"} : End(r, result)
    BY <1>6
  <2>2. /\ loop' \in [Runs -> Rec] /\ loop'[r].at = "ended" /\ loop'[r].result = result
        /\ \A q \in Runs \ {r} : loop'[q] = loop[q]
    BY <2>1, EndRecord DEF LoopInv
  <2>3. CallInv(r)'
    BY <2>2 DEF CallInv
  <2> QED
    BY <1>1, <1>3, <1>4, <2>2, <2>3, OthersDisturbed
<1>7. CASE Verify(r, loop[r].attempt + 1)
  <2>1. /\ loop' \in [Runs -> Rec]
        /\ \A q \in Runs \ {r} : loop'[q] = loop[q]
        /\ \/ /\ Chosen = <<>> /\ loop'[r].at = "ended" /\ loop'[r].result = "ok"
           \/ /\ Chosen # <<>> /\ loop'[r].at = "verifying" /\ loop'[r].result = "none"
              /\ loop'[r].attempt = loop[r].attempt + 1 /\ loop'[r].step = 1
    BY <1>2, <1>5, <1>7, VerifyRecord DEF LoopInv
  <2>2. CallInv(r)'
    BY <1>2, <1>3, <1>5, <2>1, LimitType, ChosenType DEF CallInv
  <2> QED
    BY <1>1, <1>3, <1>4, <2>1, <2>2, OthersDisturbed
<1> QED
  BY <1>6, <1>7 DEF RepairEnds

\* A script that passes is one more that passes, the first that fails ends the verification.
LEMMA ScriptEndsSafe == ASSUME LoopInv, NEW r \in Runs, ScriptEnds(r) PROVE LoopInv'
<1> DEFINE s == Chosen[loop[r].step]
           n == loop[r].step
<1>1. /\ loop[r].at = "verifying" /\ UNCHANGED <<mode, debugger, command, fault, repairs, disturbed>>
      /\ n \in 1..Len(Chosen) /\ loop[r].attempt \in 1..Limit /\ repairs[r] < loop[r].attempt
      /\ r \notin disturbed => \A i \in 1..(n - 1) : fault[Chosen[i]] = "none"
      /\ loop[r].result = "none" /\ loop \in [Runs -> Rec]
  BY DEF ScriptEnds, LoopInv, CallInv, TypeOK, Rec
<1>2. s \in Scripts /\ Len(Chosen) \in 0..3
  BY <1>1, ChosenType
<1>3. /\ Execution(s).ok \in BOOLEAN /\ Execution(s).stderr \in Causes \cup {"none"}
      /\ Execution(s).ok => fault[s] = "none"
  BY <1>2, ExecutionType DEF LoopInv
<1>4. \/ Execution(s).ok /\ n = Len(Chosen) /\ End(r, "ok") /\ UNCHANGED cause
      \/ /\ Execution(s).ok /\ n # Len(Chosen) /\ UNCHANGED cause
         /\ loop' = [loop EXCEPT ![r].step = @ + 1]
      \/ /\ MayRepair(r) /\ loop' = [loop EXCEPT ![r].at = "repairing"]
         /\ cause' = [cause EXCEPT ![r] = Execution(s).stderr]
      \/ End(r, "failed") /\ UNCHANGED cause
  BY <1>3 DEF ScriptEnds
<1>5. cause' \in [Runs -> Causes \cup {"none"}]
  BY <1>3, <1>4 DEF LoopInv, TypeOK
<1>6. RepairsAreBounded'
  BY <1>1 DEF LoopInv, RepairsAreBounded
<1>7. SUFFICES /\ loop' \in [Runs -> Rec] /\ CallInv(r)'
               /\ \A q \in Runs \ {r} : loop'[q] = loop[q]
               /\ r \notin disturbed /\ loop'[r].result = "ok" =>
                    \A i \in 1..Len(Chosen) : fault[Chosen[i]] = "none"
  <2>1. TypeOK'
    BY <1>1, <1>5, <1>7 DEF LoopInv, TypeOK, Rec
  <2>2. \A q \in Runs : CallInv(q)'
    BY <1>1, <1>7 DEF LoopInv, CallInv
  <2>3. OkIsVerified'
    BY <1>1, <1>7 DEF LoopInv, OkIsVerified
  <2> QED
    BY <1>6, <2>1, <2>2, <2>3 DEF LoopInv
<1> HIDE DEF s, n
<1>8. CASE Execution(s).ok /\ n = Len(Chosen) /\ End(r, "ok")
  <2>1. /\ loop' \in [Runs -> Rec] /\ loop'[r].at = "ended" /\ loop'[r].result = "ok"
        /\ \A q \in Runs \ {r} : loop'[q] = loop[q]
    BY <1>8, EndRecord DEF LoopInv
  <2>2. r \notin disturbed => \A i \in 1..Len(Chosen) : fault[Chosen[i]] = "none"
    BY <1>1, <1>2, <1>3, <1>8 DEF s, n
  <2> QED
    BY <2>1, <2>2 DEF CallInv
<1>9. CASE End(r, "failed")
  <2>1. /\ loop' \in [Runs -> Rec] /\ loop'[r].at = "ended" /\ loop'[r].result = "failed"
        /\ \A q \in Runs \ {r} : loop'[q] = loop[q]
    BY <1>9, EndRecord DEF LoopInv
  <2> QED
    BY <2>1 DEF CallInv
<1>10. CASE Execution(s).ok /\ n # Len(Chosen) /\ loop' = [loop EXCEPT ![r].step = @ + 1]
  <2>1. /\ loop'[r] = [at |-> "verifying", attempt |-> loop[r].attempt, step |-> n + 1,
                       result |-> "none"]
        /\ \A q \in Runs \ {r} : loop'[q] = loop[q]
    BY <1>1, <1>10 DEF Rec, n
  <2>2. n + 1 \in 1..Len(Chosen) /\ n + 1 \in 0..3
    <3>1. n \in 1..Len(Chosen) /\ n # Len(Chosen)
      BY <1>1, <1>10
    <3>2. Len(Chosen) \in 0..3
      BY <1>2
    <3>3. ASSUME NEW m \in 0..3, NEW k \in 1..m, k # m PROVE k + 1 \in 1..m /\ k + 1 \in 0..3
      BY <3>3
    <3> QED
      BY <3>1, <3>2, <3>3
  <2>3. loop' \in [Runs -> Rec]
    <3>1. loop[r].attempt \in 0..3
      BY <1>1 DEF Rec
    <3>2. [at |-> "verifying", attempt |-> loop[r].attempt, step |-> n + 1, result |-> "none"] \in Rec
      BY <2>2, <3>1 DEF Rec
    <3> QED
      BY <1>1, <1>10, <2>1, <3>2
  <2>4. r \notin disturbed => \A i \in 1..n : fault[Chosen[i]] = "none"
    BY <1>1, <1>2, <1>3, <1>10 DEF s, n
  <2>5. CallInv(r)'
    BY <1>1, <2>1, <2>2, <2>4 DEF CallInv
  <2> QED
    BY <2>1, <2>3, <2>5
<1>11. CASE MayRepair(r) /\ loop' = [loop EXCEPT ![r].at = "repairing"]
  <2>1. /\ loop'[r] = [at |-> "repairing", attempt |-> loop[r].attempt, step |-> n, result |-> "none"]
        /\ \A q \in Runs \ {r} : loop'[q] = loop[q]
        /\ loop' \in [Runs -> Rec]
    BY <1>1, <1>11 DEF Rec, n
  <2>2. CallInv(r)'
    BY <1>1, <1>11, <2>1, LimitType DEF CallInv, MayRepair
  <2> QED
    BY <2>1, <2>2
<1> QED
  BY <1>4, <1>8, <1>9, <1>10, <1>11

\* Where nothing changes the invariant stays.
LEMMA StutterSafe == ASSUME LoopInv, UNCHANGED vars PROVE LoopInv'
<1>1. TypeOK'
  BY DEF vars, LoopInv, TypeOK
<1>2. ASSUME NEW r \in Runs PROVE CallInv(r)'
  BY <1>2 DEF vars, LoopInv, CallInv
<1>3. RepairsAreBounded' /\ OkIsVerified'
  BY DEF vars, LoopInv, RepairsAreBounded, OkIsVerified
<1> QED
  BY <1>1, <1>2, <1>3 DEF LoopInv

-----------------------------------------------------------------------------
(* The theorems *)

\* What the automatic mode rests on: LoopInv holds in every reachable state.
THEOREM LoopInvariant == Spec => []LoopInv
<1>1. ASSUME LoopInv, [Next]_vars PROVE LoopInv'
  <2>1. ASSUME NEW r \in Runs, Work(r) \/ ScriptEnds(r) \/ RepairEnds(r) PROVE LoopInv'
    BY <2>1, <1>1, WorkSafe, ScriptEndsSafe, RepairEndsSafe
  <2> QED
    BY <1>1, <2>1, StutterSafe DEF Next
<1> QED
  BY InitSafe, <1>1, PTL DEF Spec

\* Every variable keeps its type.
THEOREM Typing == Spec => []TypeOK
<1>1. LoopInv => TypeOK
  BY DEF LoopInv
<1> QED
  BY <1>1, LoopInvariant, PTL

\* A loop repairs at most twice, and less than that if it was asked to, however many loops
\* work on the workspace and whatever the debugger says.
THEOREM RepairsEnd == Spec => []RepairsAreBounded
<1>1. LoopInv => RepairsAreBounded
  BY DEF LoopInv
<1> QED
  BY <1>1, LoopInvariant, PTL

\* A loop that says all is well, says so of a workspace on which every chosen script passes,
\* unless another loop has written to it meanwhile.
THEOREM OkMeansVerified == Spec => []OkIsVerified
<1>1. LoopInv => OkIsVerified
  BY DEF LoopInv
<1> QED
  BY <1>1, LoopInvariant, PTL

=============================================================================
