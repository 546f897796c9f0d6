---------------------------- MODULE AgentGraph ----------------------------
(***************************************************************************)
(* The orchestration graph of one run: the six nodes of                    *)
(* backend/app/graph/nodes, their routing, the budget circuit breaker of   *)
(* graph/instrument.py, and the interrupts a human answers.  One action is *)
(* one super-step of the compiled graph: a node's outcome, its state patch *)
(* and the edge taken from it.  What the models, the tools and the checks  *)
(* return is chosen nondeterministically among the outcomes the node tells *)
(* apart.                                                                  *)
(***************************************************************************)
EXTENDS PlanTasks, Routing

CONSTANTS
  Drafts,            \* task lists the planner's model may emit
  HumanEdits,        \* task lists a human may send with "revise"
  Decisions,         \* decision strings a human may send (the API takes any)
  Autonomy,          \* "auto", "semi" or "manual"
  MaxSteps,          \* Budget.max_steps
  MaxVerifyRetries,  \* GraphSettings.max_verify_retries
  MaxReviewCycles,   \* GraphSettings.max_review_cycles
  RecursionLimit,    \* GraphSettings.recursion_limit, per stream() call
  MaxAsks            \* bound: command approvals within one coder attempt

ASSUME GraphAssumption ==
  /\ Drafts \subseteq Seq(TaskType)
  /\ HumanEdits \subseteq Seq(TaskType)
  /\ Autonomy \in {"auto", "semi", "manual"}
  /\ {MaxSteps, MaxVerifyRetries, MaxReviewCycles, RecursionLimit, MaxAsks}
       \subseteq Nat
  /\ {"abort", "revise"} \subseteq Decisions

VARIABLES
  node,            \* the node scheduled next, or how the run stopped
  paused,          \* the run waits in an interrupt for a human
  answer,          \* the resume value for the gate's interrupt
  asks,            \* interrupts already answered inside the current node
  call_steps,      \* super-steps of the current stream() call
  status, tasks,
  current_task_id, hitl_request, hitl_response, retries,
  verify_result, review,
  steps_used,      \* Budget.steps_used
  time_over,       \* Budget.max_wall_clock_s has elapsed
  uncommitted,     \* who changed files git sees since the last commit
  answered,        \* history: a human already answered hitl_request
  approved,        \* history: a human approved the plan now in the state
  unverified,      \* history: who changed files that verify has not passed
  waived           \* history: a human sent unfinished work to finalize

control == <<node, paused, answer, asks, call_steps>>
planning == <<tasks, current_task_id>>
gates == <<verify_result, review, retries>>
budget == <<steps_used, time_over>>
workspace == <<uncommitted, unverified>>
human == <<hitl_response, approved, waived>>
vars == <<control, planning, gates, budget, workspace, human,
          status, hitl_request, answered>>

Budgeted == {"plan", "coder", "verify", "review"}
Nodes == Budgeted \cup {"human_gate", "finalize"}
\* "END" is finalize's edge; an exception of a node, or LangGraph's own
\* GraphRecursionError, stops the stream without it.
Stopped == {"END", "node_raised", "recursion_error"}

\* The coder writes with its tools and its commands; everything else that
\* writes to the work tree is a stray: the checks, which leave caches and
\* output behind, and what is left of a command that was cut off.
Writers == {"coder", "stray"}

NoEdits == [given |-> "none", list |-> <<>>]
Malformed == [given |-> "malformed", list |-> <<>>]
EditsType == {NoEdits, Malformed} \cup [given : {"tasks"}, list : HumanEdits]
\* A resume value: edits matter only next to "revise".
NoAnswer == [given |-> FALSE, decision |-> "none", edits |-> NoEdits]
Answers == [given : {TRUE}, decision : Decisions, edits : {NoEdits}]
             \cup [given : {TRUE}, decision : {"revise"}, edits : EditsType]

TypeOK ==
  /\ node \in Nodes \cup Stopped
  /\ paused \in BOOLEAN
  /\ answer \in Answers \cup {NoAnswer}
  /\ asks \in Nat
  /\ call_steps \in Nat
  /\ status \in {"planning", "cancelled", "failed", "succeeded"}
  /\ tasks \in Seq(TaskType)
  /\ current_task_id \in Ids \cup {NoTask}
  /\ hitl_request \in RequestType
  /\ hitl_response \in Decisions \cup {"none", "revise"}
  /\ retries \in [verify : Nat, review : Nat]
  /\ verify_result \in {"none", "passed", "failed"}
  /\ review \in {"none", "approved", "changes_requested", "rejected"}
  /\ steps_used \in 0..MaxSteps
  /\ time_over \in BOOLEAN
  /\ uncommitted \subseteq Writers
  /\ answered \in BOOLEAN
  /\ approved \in BOOLEAN
  /\ unverified \subseteq Writers
  /\ waived \in BOOLEAN

Init ==
  /\ node = "plan" /\ paused = FALSE /\ answer = NoAnswer /\ asks = 0
  /\ call_steps = 0
  /\ status = "planning" /\ tasks = <<>>
  /\ current_task_id = NoTask
  /\ hitl_request = NoRequest /\ hitl_response = "none"
  /\ retries = [verify |-> 0, review |-> 0]
  /\ verify_result = "none" /\ review = "none"
  /\ steps_used = 0 /\ time_over = FALSE
  /\ uncommitted = {} /\ unverified = Writers
  /\ answered = FALSE /\ approved = FALSE /\ waived = FALSE
-----------------------------------------------------------------------------
(* Instrumentation: every node but human_gate and finalize is skipped once *)
(* the run-wide budget is spent, and counts one step when it completes.    *)

BudgetOverrun == steps_used > MaxSteps \/ time_over

BudgetExceeded == steps_used >= MaxSteps \/ time_over

Scheduled(n) == node = n /\ ~paused /\ call_steps < RecursionLimit

Runs(n) == Scheduled(n) /\ ~BudgetExceeded

UncountedSteps == steps_used

CountedSteps == steps_used + 1

\* The super-step ends: its patch is applied and the next node scheduled.
Completes ==
  /\ steps_used' = CountedSteps
  /\ call_steps' = call_steps + 1
  /\ asks' = 0
  /\ UNCHANGED <<paused, answer, time_over>>

\* hitl_request is overwritten, with a new request or with None.
Requests(request) == hitl_request' = request /\ answered' = FALSE

SkipNode ==
  /\ node \in Budgeted /\ Scheduled(node) /\ BudgetExceeded
  /\ Requests(Escalation("coder", "budget"))
  /\ node' = "human_gate"
  /\ call_steps' = call_steps + 1
  /\ asks' = 0
  /\ UNCHANGED <<paused, answer, planning, gates, budget, workspace, human,
                 status>>

\* The writers in w change files of the work tree.
Edits(w) ==
  /\ uncommitted' = uncommitted \cup w
  /\ unverified' = unverified \cup w

\* A node's own writing: a coder's pass through its tool loop may edit files,
\* the checks of verify leave theirs behind.
WritersOf(n) ==
  CASE n = "coder" -> {"coder"} [] n = "verify" -> {"stray"} [] OTHER -> {}

\* What a command left running when its time was up, in this run or an earlier
\* one on the same work tree, writes whenever it likes.
StrayWrites ==
  /\ node \in Nodes
  /\ Edits({"stray"})
  /\ UNCHANGED <<control, planning, gates, budget, human, status, hitl_request,
                 answered>>

\* An exception other than StructuredOutputError (a provider, sandbox or git
\* failure) leaves the node and ends the stream; a coder may have edited files.
NodeRaises ==
  /\ node \in Budgeted /\ Runs(node)
  /\ \E w \in SUBSET WritersOf(node) : Edits(w)
  /\ node' = "node_raised"
  /\ UNCHANGED <<paused, answer, asks, call_steps, planning, gates, budget,
                 human, status, hitl_request, answered>>

\* LangGraph refuses a super-step beyond the limit of the stream() call.
RecursionError ==
  /\ node \in Nodes /\ ~paused /\ call_steps >= RecursionLimit
  /\ node' = "recursion_error"
  /\ UNCHANGED <<paused, answer, asks, call_steps, planning, gates, budget,
                 workspace, human, status, hitl_request, answered>>

\* The wall-clock budget may run out between any two steps.
TimeRunsOut ==
  /\ node \in Nodes /\ ~time_over
  /\ time_over' = TRUE
  /\ UNCHANGED <<control, planning, gates, steps_used, workspace, human, status,
                 hitl_request, answered>>

\* interrupt(): the node is abandoned without a patch; it runs again from its
\* start when the human has answered.
Pauses ==
  /\ paused' = TRUE
  /\ UNCHANGED <<node, answer, asks, call_steps, planning, gates, budget, human,
                 status, hitl_request, answered>>

RespondLosingAnswer(a) ==
  /\ paused
  /\ paused' = FALSE
  /\ call_steps' = 0
  /\ asks' = IF node = "human_gate" THEN asks ELSE asks + 1
  /\ UNCHANGED <<node, answer, planning, gates, budget, workspace, human, status,
                 hitl_request, answered>>

\* Command(resume=...): a new stream() call.  Any string may be sent.
Respond(a) ==
  /\ paused
  /\ paused' = FALSE
  /\ call_steps' = 0
  /\ IF node = "human_gate" THEN answer' = a /\ UNCHANGED asks
                            ELSE asks' = asks + 1 /\ UNCHANGED answer
  /\ UNCHANGED <<node, planning, gates, budget, workspace, human, status,
                 hitl_request, answered>>
-----------------------------------------------------------------------------
(* plan *)

PlanAsks ==
  /\ Runs("plan") /\ Autonomy # "auto" /\ asks = 0
  /\ Pauses /\ UNCHANGED workspace

PlanningFailedRetriesCoder == Escalation("coder", "planning_failed")

PlanningFailed == Escalation("plan", "planning_failed")

PlanFails ==
  /\ Runs("plan")
  /\ Requests(PlanningFailed)
  /\ node' = RouteAfterPlan(hitl_request')
  /\ Completes
  /\ UNCHANGED <<planning, gates, workspace, human, status>>

ApprovalRequestedAlways == Approval

ApprovalRequest == IF Autonomy = "auto" THEN NoRequest ELSE Approval

\* An empty list is a failure, except in the re-plan after a clarification,
\* whose result is not checked.
PlanDrafts(draft) ==
  /\ Runs("plan")
  /\ draft = <<>> => asks > 0
  /\ tasks' = draft
  /\ status' = "planning"
  /\ approved' = FALSE
  /\ Requests(ApprovalRequest)
  /\ node' = RouteAfterPlan(hitl_request')
  /\ Completes
  /\ UNCHANGED <<current_task_id, gates, workspace, hitl_response, waived>>
-----------------------------------------------------------------------------
(* human_gate *)

GateAsks ==
  /\ Scheduled("human_gate") /\ hitl_request # NoRequest /\ answer = NoAnswer
  /\ Pauses /\ UNCHANGED workspace

GateDecision == IF hitl_request = NoRequest THEN "abort" ELSE answer.decision

Revises == hitl_request = Approval /\ GateDecision = "revise"

StatusIgnoringEscalationAborts ==
  IF GateDecision = "abort" /\ hitl_request = Approval THEN "cancelled"
  ELSE status

StatusAfterGate ==
  CASE GateDecision = "abort" /\ hitl_request = Approval -> "cancelled"
    [] GateDecision = "abort" /\ hitl_request.kind = "escalation" -> "failed"
    [] OTHER -> status

GateApplies ==
  /\ Scheduled("human_gate") /\ (hitl_request = NoRequest \/ answer # NoAnswer)
  /\ Revises => answer.edits # Malformed
  /\ hitl_response' = GateDecision
  /\ status' = StatusAfterGate
  /\ IF Revises /\ answer.edits # NoEdits
     THEN tasks' = answer.edits.list
     ELSE UNCHANGED tasks
  /\ node' = RouteAfterGate(hitl_request, hitl_response')
  /\ answered' = TRUE
  /\ approved' = (approved \/ (hitl_request = Approval /\ node' = "coder"))
  /\ waived' = (node' = "finalize" /\ hitl_request # FinalAccept)
  /\ answer' = NoAnswer
  /\ call_steps' = call_steps + 1
  /\ UNCHANGED <<paused, asks, current_task_id, gates, budget, workspace,
                 hitl_request>>

\* Task rejects an item of the edited task list: the exception ends the stream.
GateRaises ==
  /\ Scheduled("human_gate") /\ answer # NoAnswer
  /\ Revises /\ answer.edits = Malformed
  /\ node' = "node_raised"
  /\ UNCHANGED <<paused, answer, asks, call_steps, planning, gates, budget,
                 workspace, human, status, hitl_request, answered>>
-----------------------------------------------------------------------------
(* coder *)

Chosen == ChosenTask(tasks, current_task_id)

\* build_fix_task: there is feedback to act on.
FixWanted == verify_result = "failed" \/ review = "changes_requested"

HasWork == Chosen # 0 \/ (tasks # <<>> /\ FixWanted)

CoderRoutes ==
  /\ node' = RouteAfterCoder(hitl_request', current_task_id', NoTask)
  /\ Completes

CoderHasNoPlan ==
  /\ Runs("coder") /\ tasks = <<>>
  /\ Requests(Escalation("plan", "no_plan"))
  /\ CoderRoutes
  /\ UNCHANGED <<planning, gates, workspace, human, status>>

CoderLeavesRequest == UNCHANGED <<hitl_request, answered>>

CoderClearsRequest == Requests(NoRequest)

CoderIsIdle ==
  /\ Runs("coder") /\ tasks # <<>> /\ ~HasWork
  /\ current_task_id' = NoTask
  /\ CoderClearsRequest
  /\ CoderRoutes
  /\ UNCHANGED <<tasks, gates, workspace, human, status>>

\* A command needs approval: what the pass edited so far stays on disk.
CoderAsks(w) ==
  /\ Runs("coder") /\ HasWork /\ Autonomy # "auto" /\ asks < MaxAsks
  /\ Edits(w)
  /\ Pauses

CommitsNothing(w) ==
  /\ uncommitted' = uncommitted \cup w
  /\ unverified' = unverified \cup w

\* _commit_and_diff at the end of an attempt that edited files or did not: it
\* commits all that git sees, whoever wrote it.  The coder's own git_commit is
\* left out: the attempt ends with all committed.
Commits(w) ==
  /\ uncommitted' = {}
  /\ unverified' = unverified \cup w

CoderCompletesTask(w) ==
  /\ Runs("coder") /\ Chosen # 0
  /\ tasks' = Attempted(tasks, Chosen, "done")
  /\ current_task_id' = RemainingId(tasks')
  /\ Commits(w)
  /\ CoderClearsRequest
  /\ CoderRoutes
  /\ UNCHANGED <<gates, human, status>>

\* The signatures compared are those of this pass: a replay starts from what
\* the abandoned passes left on disk, and a stray's writing differs as well.
CoderFixes ==
  /\ Runs("coder") /\ Chosen = 0 /\ HasWork
  /\ \E w \in (SUBSET Writers) \ {{}} : Commits(w)
  /\ current_task_id' = RemainingId(tasks)
  /\ CoderClearsRequest
  /\ CoderRoutes
  /\ UNCHANGED <<tasks, gates, human, status>>

CoderFixIsNoOp ==
  /\ Runs("coder") /\ Chosen = 0 /\ HasWork
  /\ Requests(Escalation("coder", "fix_made_no_changes"))
  /\ CoderRoutes
  /\ UNCHANGED <<planning, gates, workspace, human, status>>

\* Budget or no-progress: the task fails, current_task_id stays as it was.
CoderFails(w) ==
  /\ Runs("coder") /\ HasWork
  /\ IF Chosen # 0 THEN tasks' = Attempted(tasks, Chosen, "failed")
                   ELSE UNCHANGED tasks
  /\ Commits(w)
  /\ Requests(Escalation("coder", "task_failed"))
  /\ CoderRoutes
  /\ UNCHANGED <<current_task_id, gates, human, status>>
-----------------------------------------------------------------------------
(* verify, review, finalize *)

\* merge_counts: the reducer adds a node's increment to its counter.
CountOverwritten(n) == [retries EXCEPT ![n] = 1]

CountRetry(n) == [retries EXCEPT ![n] = @ + 1]

\* The checks pass on what they find, and write while they run; nothing commits
\* what they wrote before the reviewer is asked.
VerifyPasses ==
  /\ Runs("verify")
  /\ verify_result' = "passed"
  /\ \E w \in SUBSET WritersOf("verify") :
       uncommitted' = uncommitted \cup w /\ unverified' = w
  /\ Requests(NoRequest)
  /\ node' = RouteAfterVerify(hitl_request', verify_result')
  /\ Completes
  /\ UNCHANGED <<planning, review, retries, human, status>>

VerifyFails ==
  /\ Runs("verify")
  /\ verify_result' = "failed" /\ unverified' = Writers
  /\ \E w \in SUBSET WritersOf("verify") : uncommitted' = uncommitted \cup w
  /\ retries' = CountRetry("verify")
  /\ Requests(IF retries.verify + 1 >= MaxVerifyRetries
              THEN Escalation("coder", "verify_cap") ELSE NoRequest)
  /\ node' = RouteAfterVerify(hitl_request', verify_result')
  /\ Completes
  /\ UNCHANGED <<planning, review, human, status>>

ReviewRequest(verdict) ==
  CASE verdict = "approved" /\ Autonomy = "manual" -> FinalAccept
    [] verdict = "rejected" -> Escalation("coder", "rejected")
    [] verdict = "changes_requested" /\ retries.review + 1 >= MaxReviewCycles
         -> Escalation("coder", "review_cap")
    [] OTHER -> NoRequest

Review(verdict) ==
  /\ Runs("review")
  /\ review' = verdict
  /\ retries' = IF verdict = "changes_requested" THEN CountRetry("review")
                                                 ELSE retries
  /\ Requests(ReviewRequest(verdict))
  /\ node' = RouteAfterReview(hitl_request', review')
  /\ Completes
  /\ UNCHANGED <<planning, verify_result, workspace, human, status>>

\* Malformed reviewer output: the previous review stays in the state.
ReviewFails ==
  /\ Runs("review")
  /\ Requests(Escalation("coder", "review_failed"))
  /\ node' = RouteAfterReview(hitl_request', review)
  /\ Completes
  /\ UNCHANGED <<planning, gates, workspace, human, status>>

AlwaysSucceeded == "succeeded"

FinalStatus == IF status \in {"cancelled", "failed"} THEN status ELSE "succeeded"

Finalize ==
  /\ Scheduled("finalize")
  /\ status' = FinalStatus
  /\ Requests(NoRequest)
  /\ node' = "END"
  /\ call_steps' = call_steps + 1
  /\ UNCHANGED <<paused, answer, asks, planning, gates, budget, workspace,
                 human>>

Terminated == node \in Stopped /\ UNCHANGED vars
-----------------------------------------------------------------------------
CoderStep ==
  \/ CoderHasNoPlan \/ CoderIsIdle \/ CoderFixes \/ CoderFixIsNoOp
  \/ \E w \in SUBSET WritersOf("coder") :
       CoderAsks(w) \/ CoderCompletesTask(w) \/ CoderFails(w)

PlanStep == PlanAsks \/ PlanFails \/ \E draft \in Drafts : PlanDrafts(draft)

ReviewStep ==
  \/ ReviewFails
  \/ \E verdict \in {"approved", "changes_requested", "rejected"} : Review(verdict)

\* What the driver thread does on its own.
System ==
  \/ PlanStep \/ CoderStep \/ ReviewStep \/ VerifyPasses \/ VerifyFails
  \/ GateAsks \/ GateApplies \/ GateRaises \/ Finalize
  \/ SkipNode \/ NodeRaises \/ RecursionError

\* The UI and the gate take one shape of answer; elsewhere only the fact that
\* an answer came matters, so the in-node interrupts take a single one.
Human ==
  \E a \in Answers :
    /\ node # "human_gate" => a = [given |-> TRUE, decision |-> "abort",
                                   edits |-> NoEdits]
    /\ a.edits # NoEdits => hitl_request = Approval
    /\ Respond(a)

Next == System \/ Human \/ TimeRunsOut \/ StrayWrites \/ Terminated

Spec == Init /\ [][Next]_vars

\* The driver thread keeps stepping; no human need ever answer.
FairSpec == Spec /\ WF_vars(System)

\* The closing answer of a human: the run may go on, or it ends.
Settling ==
  Respond([given |-> TRUE, edits |-> NoEdits, decision |->
             CASE hitl_request = Approval /\ node = "human_gate" -> "approve"
               [] hitl_request = FinalAccept /\ node = "human_gate" -> "accept"
               [] OTHER -> "abort"])
-----------------------------------------------------------------------------
(* Properties *)

\* The gate never asks about nothing, nor a question already answered: a node
\* that can send the run to the gate always rewrites hitl_request
\* (routing.py:3-8, the patches of plan, coder, verify and review).
GateAsksAFreshQuestion ==
  node = "human_gate" => hitl_request # NoRequest /\ ~answered

\* When the reviewer is asked, verify has passed, and since it did, and since
\* the last commit, the coder changed nothing: what is neither verified nor
\* committed then is what a check or a stray command wrote, which no node
\* commits or checks before the reviewer answers (coder.py _commit_and_diff,
\* routing.py route_after_coder and route_after_verify).  Of the commits the
\* reviewer gets the diff cut at 4000 characters (coder.py:223).
ReviewSeesVerifiedCommittedWork ==
  node = "review" =>
    verify_result = "passed" /\ "coder" \notin uncommitted \cup unverified

\* Under semi and manual autonomy the coder is never scheduled with budget to
\* run on a plan no human approved, through every failure, retry and revision
\* (plan.py _plan_ok and _plan_failed, routing.py route_after_gate).
OnlyApprovedPlansAreCoded ==
  node = "coder" /\ tasks # <<>> /\ Autonomy # "auto" /\ ~BudgetExceeded
    => approved

\* Under auto autonomy the run stops for a human only to escalate: no in-node
\* interrupt, no plan approval and no final acceptance (plan.py, coder.py,
\* review.py test autonomy_level each on its own).
AutoStopsOnlyToEscalate ==
  Autonomy = "auto" =>
    /\ hitl_request.kind \in {"none", "escalation"}
    /\ paused => node = "human_gate"

\* When the last word of a human was "abort", the run never ends succeeded
\* (human_gate.py:33-39, finalize.py _final_status).
AbortIsHonoured ==
  node = "END" /\ hitl_response = "abort" => status \in {"cancelled", "failed"}

\* A run ends succeeded only when verify passed, the reviewer approved, and the
\* coder's work is committed and unchanged since verify passed, unless a human
\* sent it to finalize as it was.  What a check or a stray command wrote is
\* excepted, as above.
SuccessIsEarned ==
  node = "END" /\ status = "succeeded" /\ ~waived =>
    /\ verify_result = "passed" /\ review = "approved"
    /\ "coder" \notin uncommitted \cup unverified

\* Escalation, and not a GraphRecursionError, ends what runs away
\* (build_graph.py:14-17 and 158-161): holds while the limit leaves room for
\* the super-steps the run budget does not count.
NeverRecursionError == node # "recursion_error"

\* As long as no id of the plan is repeated, the retry counters alone bound the
\* super-steps of a stream() call, whatever the step budget: a plan, each task
\* once, the failing verifies and the review cycles below their caps with their
\* fixes, and the way out to the gate or to finalize (the caps of verify.py and
\* review.py, the merge_counts reducer).  Nothing keeps a plan from repeating
\* an id; where it does, the lookup of current_task_id (coder.py:130) may find a
\* completed task again and again, and only the step budget bounds the stream.
RetriesBoundUnattendedWork ==
  UniqueIds(tasks) => \E plan \in Drafts \cup HumanEdits :
    call_steps <= Len(plan) + 2 * MaxVerifyRetries + 3 * MaxReviewCycles

\* Of the tasks whose id no other task of the plan has, the coder attempts only
\* one whose dependencies are done at that moment, whatever ids other tasks
\* share (coder.py select_next_task; current_task_id is looked up later, by id).
\* Of tasks that share an id it may attempt another than it selected.
DependenciesComeFirst ==
  [][\A i \in DOMAIN tasks \cap DOMAIN tasks' :
       /\ OwnId(tasks, i) /\ node = "coder"
       /\ tasks'[i].attempts > tasks[i].attempts
       => tasks[i].depends_on \subseteq DoneIds(tasks)]_vars

\* A completed task whose id no other task of the plan has is never attempted
\* again while its plan stands, whatever ids other tasks share: stale values of
\* current_task_id never name it (coder.py:131-134, 201-202).
DoneTasksStayDone ==
  [][\A i \in DOMAIN tasks :
       OwnId(tasks, i) /\ node = "coder" /\ tasks[i].status = "done"
         => tasks'[i] = tasks[i]]_vars

\* When the human, asked again and again, at last settles the question, every
\* run ends (build_graph.py:14-17, the gate's edges of routing.py:24-47).
RunEnds == SF_vars(Settling) => <>(node \in Stopped)
=============================================================================
