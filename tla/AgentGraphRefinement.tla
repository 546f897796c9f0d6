------------------------ MODULE AgentGraphRefinement ------------------------
(* The orchestration graph implements the contract of a run. *)
EXTENDS AgentGraph

\* The run's contract, read off the graph: a status set by the gate tells the
\* run to stop; a node's exception or LangGraph's limit crashes it.
Contract == INSTANCE RunContract WITH
  Budget <- MaxSteps,
  phase <- IF node \in Stopped THEN "over" ELSE IF paused THEN "asking" ELSE "working",
  work <- steps_used,
  stopping <- status \in {"cancelled", "failed"},
  outcome <- CASE node = "END" -> status
               [] node \in Stopped \ {"END"} -> "crashed"
               [] OTHER -> "none"

\* The graph keeps the run's contract (RunContract.tla).
KeepsContract == Contract!Spec

\* The contract without its fairness.
KeepsContractSafely ==
  Contract!Init /\ [][Contract!Next]_(Contract!contract)
=============================================================================
