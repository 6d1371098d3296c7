---------------------------- MODULE ApprovalGate ----------------------------
(***************************************************************************)
(* What the supervised executor promises about one action, whatever        *)
(* happens to the others: a green action may run once; a yellow action     *)
(* runs once, after it was held for a human and the human granted it; a    *)
(* red action never runs; and a process exit ends everything under way, so *)
(* that nothing asked for, held or granted before it goes on after it.     *)
(***************************************************************************)
EXTENDS Naturals

CONSTANTS Actions

VARIABLES
  kind,   \* the risk of each action, "unknown" before it was proposed
  gate,   \* where each action stands
  life    \* the process the gate is in

gateVars == <<kind, gate, life>>

Kinds == {"unknown", "green", "yellow", "red"}
Places == {"new", "asked", "held", "granted", "running", "over"}

GateTypeOK ==
  /\ kind \in [Actions -> Kinds]
  /\ gate \in [Actions -> Places]
  /\ life \in Nat

Init ==
  /\ kind = [a \in Actions |-> "unknown"]
  /\ gate = [a \in Actions |-> "new"]
  /\ life = 1

Move(a, from, to) ==
  /\ gate[a] = from
  /\ gate' = [gate EXCEPT ![a] = to]

\* The action is proposed, once: a green one may run at once, a yellow one may be put to
\* a human, and any may be turned down.
Propose(a, k) ==
  /\ kind[a] = "unknown"
  /\ kind' = [kind EXCEPT ![a] = k]
  /\ \/ k = "green" /\ Move(a, "new", "running")
     \/ k = "yellow" /\ Move(a, "new", "asked")
     \/ Move(a, "new", "over")
  /\ UNCHANGED life

Await(a) == Move(a, "asked", "held") /\ UNCHANGED <<kind, life>>

Grant(a) == Move(a, "held", "granted") /\ UNCHANGED <<kind, life>>

Run(a) == Move(a, "granted", "running") /\ UNCHANGED <<kind, life>>

\* The action is rejected or granted in vain, is refused after it was granted, or ends.
Close(a) ==
  /\ \E from \in {"held", "granted", "running"} : Move(a, from, "over")
  /\ UNCHANGED <<kind, life>>

\* The process ends and another takes its place: what was proposed to it is over.
Exit ==
  /\ life' = life + 1
  /\ gate' = [a \in Actions |-> IF gate[a] = "new" THEN "new" ELSE "over"]
  /\ UNCHANGED kind

Next ==
  \/ \E a \in Actions, k \in Kinds \ {"unknown"} : Propose(a, k)
  \/ \E a \in Actions : Await(a) \/ Grant(a) \/ Run(a) \/ Close(a)
  \/ Exit

Spec == Init /\ [][Next]_gateVars

=============================================================================
