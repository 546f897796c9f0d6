---------------------------- MODULE RunContract ----------------------------
(***************************************************************************)
(* What a run of the orchestration graph promises to the people who start  *)
(* it, whatever its nodes do: it works within a budget, it may stop to ask,*)
(* it does nothing more once a human has told it to stop, it ends at most  *)
(* once, and it never works on forever without asking or ending.           *)
(***************************************************************************)
EXTENDS Naturals

CONSTANT Budget     \* units of work a run may spend

VARIABLES
  phase,     \* "working", "asking" or "over"
  work,      \* units of work spent
  stopping,  \* a human told the run to stop
  outcome    \* how it ended

contract == <<phase, work, stopping, outcome>>

Outcomes == {"succeeded", "cancelled", "failed", "crashed"}

TypeOK ==
  /\ phase \in {"working", "asking", "over"}
  /\ work \in 0..Budget
  /\ stopping \in BOOLEAN
  /\ outcome \in Outcomes \cup {"none"}

Init == phase = "working" /\ work = 0 /\ stopping = FALSE /\ outcome = "none"

Work ==
  /\ phase = "working" /\ ~stopping /\ work < Budget
  /\ work' = work + 1
  /\ UNCHANGED <<phase, stopping, outcome>>

Ask ==
  /\ phase = "working" /\ ~stopping
  /\ phase' = "asking"
  /\ UNCHANGED <<work, stopping, outcome>>

Answer ==
  /\ phase = "asking"
  /\ phase' = "working"
  /\ UNCHANGED <<work, stopping, outcome>>

ToldToStop ==
  /\ phase = "working" /\ ~stopping
  /\ stopping' = TRUE
  /\ UNCHANGED <<phase, work, outcome>>

\* A run that was told to stop does not end as a success.
Close(result) ==
  /\ phase = "working"
  /\ stopping = (result \in {"cancelled", "failed"}) \/ result = "crashed"
  /\ phase' = "over" /\ outcome' = result
  /\ UNCHANGED <<work, stopping>>

Progress == Work \/ Ask \/ ToldToStop \/ \E result \in Outcomes : Close(result)

Next == Progress \/ Answer

Spec == Init /\ [][Next]_contract /\ WF_contract(Progress)
=============================================================================
