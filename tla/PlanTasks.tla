----------------------------- MODULE PlanTasks -----------------------------
(***************************************************************************)
(* The task list of a plan (graph/state.py, Task) and the coder's choice   *)
(* of the next task (graph/nodes/coder.py).  Titles, descriptions, paths   *)
(* and criteria are left out: no decision of the graph reads them.         *)
(* Ids are not unique: nothing in the schema or the planner makes them so. *)
(***************************************************************************)
EXTENDS Naturals, Sequences

CONSTANTS Ids,      \* the ids the planner or a human may give to a task
          NoTask    \* current_task_id is None

ASSUME NoTaskAssumption == NoTask \notin Ids

\* "in_progress" lives only inside a coder attempt, "skipped" is written nowhere:
\* a draft or an edit may carry them all the same.
TaskStatus == {"pending", "in_progress", "done", "failed", "skipped"}

TaskType == [id : Ids, depends_on : SUBSET Ids, status : TaskStatus,
             attempts : Nat]

PendingTask(id, deps) ==
  [id |-> id, depends_on |-> deps, status |-> "pending", attempts |-> 0]

DoneIds(ts) == {ts[i].id : i \in {j \in DOMAIN ts : ts[j].status = "done"}}

\* The first index of ts in S, 0 when S is empty.
FirstOf(S) == IF S = {} THEN 0 ELSE CHOOSE i \in S : \A j \in S : i <= j

EligibleIgnoringDependencies(ts, i) == ts[i].status = "pending"

EligibleUnlessFailed(ts, i) ==
  ts[i].status # "failed" /\ ts[i].depends_on \subseteq DoneIds(ts)

Eligible(ts, i) ==
  ts[i].status = "pending" /\ ts[i].depends_on \subseteq DoneIds(ts)

\* Index of the first pending task whose dependencies are all done, else 0.
SelectNext(ts) == FirstOf({i \in DOMAIN ts : Eligible(ts, i)})

\* next((t for t in plan.tasks if t.id == task_id), None)
Lookup(ts, id) == FirstOf({i \in DOMAIN ts : ts[i].id = id})

\* The task the coder works on: the one current_task_id names, whatever its
\* status, else the next selectable one; 0 when there is none.
ChosenTask(ts, id) ==
  IF id # NoTask /\ Lookup(ts, id) # 0 THEN Lookup(ts, id) ELSE SelectNext(ts)

\* The id the coder leaves in current_task_id after a completed attempt.
RemainingId(ts) ==
  IF SelectNext(ts) = 0 THEN NoTask ELSE ts[SelectNext(ts)].id

Tried(t, result) == [id |-> t.id, depends_on |-> t.depends_on,
                     status |-> result, attempts |-> t.attempts + 1]

Attempted(ts, i, result) == [ts EXCEPT ![i] = Tried(ts[i], result)]

\* No rule of the code, but hypotheses of properties: no other task of ts has
\* the id of task i; no task of ts has the id of another.
OwnId(ts, i) == \A j \in DOMAIN ts : ts[j].id = ts[i].id => j = i
UniqueIds(ts) == \A i \in DOMAIN ts : OwnId(ts, i)
=============================================================================
