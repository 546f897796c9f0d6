--------------------------- MODULE MCAgentGraph ---------------------------
(* Instances of AgentGraph for TLC. *)
EXTENDS AgentGraphRefinement

CONSTANTS a, b

\* Two tasks in dependency order; the empty draft (TLC takes it only where the
\* code lets it through); a task that waits for itself and is never selectable.
ChainDrafts == {<<>>, <<PendingTask(a, {}), PendingTask(b, {a})>>}
StuckDraft == <<PendingTask(b, {b}), PendingTask(a, {})>>
MixedDrafts == ChainDrafts \cup {StuckDraft}
\* The model repeats an id; next to a task with an id of its own, too.
TwinDrafts == {<<PendingTask(a, {}), PendingTask(a, {})>>}
MixedTwins == {<<PendingTask(a, {}), PendingTask(b, {a}), PendingTask(a, {b})>>}
AllDrafts == MixedDrafts \cup TwinDrafts \cup MixedTwins

\* The human reverses the list, so that the dependency comes second.
EditedLists == {<<PendingTask(b, {a}), PendingTask(a, {})>>}
NoLists == {}
=============================================================================
