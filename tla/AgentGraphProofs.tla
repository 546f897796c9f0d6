-------------------------- MODULE AgentGraphProofs --------------------------
(***************************************************************************)
(* Theorems about the orchestration graph, for any task lists, answers,    *)
(* caps, budget and recursion limit: what the gate lets pass and when a    *)
(* human is asked, the order of the tasks, how a run ends (what an abort   *)
(* does, what a success rests on, that LangGraph's recursion limit is never*)
(* what ends it), that a run keeps the contract of RunContract, and how    *)
(* much work it does with nobody watching.                                 *)
(***************************************************************************)
EXTENDS AgentGraphRefinement, WellFoundedInduction, SequenceTheorems,
        FiniteSetTheorems, TLAPS
-----------------------------------------------------------------------------
(* The choice of the next task, for task lists of any length. *)

NatLess == {ss \in Nat \X Nat : ss[1] < ss[2]}

\* A nonempty set of indices has a least one, so FirstOf is never an
\* arbitrary choice.
LEMMA LeastNatural ==
  ASSUME NEW S \in SUBSET Nat, S # {}
  PROVE  \E i \in S : \A j \in S : i <= j
<1>1. IsWellFoundedOn(NatLess, Nat)
  BY NatLessThanWellFounded DEF OpToRel, NatLess
<1>2. PICK i \in S : \A j \in S : ~ (<<j, i>> \in NatLess)
  BY <1>1, WFMin
<1>3. ASSUME NEW j \in S PROVE i <= j
  <2>1. ~ (<<j, i>> \in NatLess)
    BY <1>2
  <2>2. j < i => <<j, i>> \in NatLess
    BY DEF NatLess
  <2>3. QED
    BY <2>1, <2>2
<1>4. QED
  BY <1>3

\* FirstOf returns the least index of the set, and 0 exactly for none.
LEMMA FirstOfLeast ==
  ASSUME NEW S \in SUBSET (Nat \ {0})
  PROVE  /\ S = {} => FirstOf(S) = 0
         /\ S # {} => FirstOf(S) \in S /\ \A j \in S : FirstOf(S) <= j
BY LeastNatural DEF FirstOf

\* The coder's choice is 0 or the index of a task of the list.
LEMMA ChosenIsIndex ==
  ASSUME NEW ts \in Seq(TaskType), NEW id \in Ids \cup {NoTask}
  PROVE  /\ SelectNext(ts) \in {0} \cup DOMAIN ts
         /\ Lookup(ts, id) \in {0} \cup DOMAIN ts
         /\ ChosenTask(ts, id) \in {0} \cup DOMAIN ts
<1>1. DOMAIN ts \in SUBSET (Nat \ {0})
  OBVIOUS
<1>2. \A S \in SUBSET DOMAIN ts : FirstOf(S) \in {0} \cup DOMAIN ts
  BY <1>1, FirstOfLeast
<1>3. QED
  BY <1>2 DEF SelectNext, Lookup, ChosenTask

\* A task selected from the list is pending with all its dependencies done.
LEMMA SelectedIsEligible ==
  ASSUME NEW ts \in Seq(TaskType), SelectNext(ts) # 0
  PROVE  /\ SelectNext(ts) \in DOMAIN ts
         /\ Eligible(ts, SelectNext(ts))
<1>1. {i \in DOMAIN ts : Eligible(ts, i)} \in SUBSET (Nat \ {0})
  OBVIOUS
<1>2. QED
  BY <1>1, FirstOfLeast DEF SelectNext

\* The ids of tasks are ids, and None is not one.
LEMMA IdsTyped ==
  ASSUME NEW ts \in Seq(TaskType), NEW i \in DOMAIN ts
  PROVE  ts[i].id \in Ids /\ ts[i].id # NoTask
<1>1. ts[i] \in TaskType
  BY ElementOfSeq
<1> QED
  BY <1>1, NoTaskAssumption DEF TaskType

\* An attempt keeps the list a task list of the same length and ids.
LEMMA AttemptedType ==
  ASSUME NEW ts \in Seq(TaskType), NEW i \in DOMAIN ts,
         NEW result \in TaskStatus
  PROVE  /\ Attempted(ts, i, result) \in Seq(TaskType)
         /\ Len(Attempted(ts, i, result)) = Len(ts)
<1>1. ts[i] \in TaskType /\ i \in 1..Len(ts)
  BY ElementOfSeq
<1>2. Tried(ts[i], result) \in TaskType
  BY <1>1 DEF TaskType, Tried
<1>3. QED
  BY <1>1, <1>2, ExceptSeq DEF Attempted

\* What the coder leaves in current_task_id is None or an id.
LEMMA RemainingIdType ==
  ASSUME NEW ts \in Seq(TaskType)
  PROVE  RemainingId(ts) \in Ids \cup {NoTask}
<1>1. CASE SelectNext(ts) = 0
  BY <1>1 DEF RemainingId
<1>2. CASE SelectNext(ts) # 0
  <2>1. SelectNext(ts) \in DOMAIN ts
    BY <1>2, SelectedIsEligible
  <2>2. ts[SelectNext(ts)] \in TaskType
    BY <2>1, ElementOfSeq
  <2>3. QED
    BY <1>2, <2>2 DEF RemainingId, TaskType
<1>3. QED
  BY <1>1, <1>2

\* An id that no other task has is looked up where it stands.
LEMMA LookupFinds ==
  ASSUME NEW ts \in Seq(TaskType), NEW i \in DOMAIN ts, OwnId(ts, i)
  PROVE  Lookup(ts, ts[i].id) = i
<1> DEFINE S == {j \in DOMAIN ts : ts[j].id = ts[i].id}
<1>1. S \in SUBSET (Nat \ {0}) /\ i \in S
  OBVIOUS
<1>2. FirstOf(S) \in S
  BY <1>1, FirstOfLeast
<1>3. FirstOf(S) = i
  BY <1>2 DEF OwnId
<1> QED
  BY <1>3 DEF Lookup

\* What the lookup finds has the id looked up.
LEMMA FoundHasId ==
  ASSUME NEW ts \in Seq(TaskType), NEW id, Lookup(ts, id) # 0
  PROVE  ts[Lookup(ts, id)].id = id
<1> DEFINE S == {j \in DOMAIN ts : ts[j].id = id}
<1>1. S \in SUBSET (Nat \ {0})
  OBVIOUS
<1>2. FirstOf(S) # 0 => FirstOf(S) \in S
  BY <1>1, FirstOfLeast
<1> QED
  BY <1>2 DEF Lookup

\* The id left in current_task_id is that of a task that can be selected.
LEMMA RemainingIsEligible ==
  ASSUME NEW ts \in Seq(TaskType), RemainingId(ts) # NoTask
  PROVE  \E i \in DOMAIN ts : ts[i].id = RemainingId(ts) /\ Eligible(ts, i)
<1>1. SelectNext(ts) # 0
  BY DEF RemainingId
<1> QED
  BY <1>1, SelectedIsEligible DEF RemainingId

\* A task that has this id for itself is one that can be selected.
LEMMA RemainingIsReady ==
  ASSUME NEW ts \in Seq(TaskType), NEW i \in DOMAIN ts, OwnId(ts, i),
         ts[i].id = RemainingId(ts)
  PROVE  Eligible(ts, i)
<1>1. ts[i].id \in Ids
  BY IdsTyped
<1>2. RemainingId(ts) # NoTask
  BY <1>1, NoTaskAssumption
<1> QED
  BY <1>2, RemainingIsEligible DEF OwnId

\* An attempt changes the status and the attempts of one task, nothing else.
LEMMA AttemptedTask ==
  ASSUME NEW ts \in Seq(TaskType), NEW i \in DOMAIN ts,
         NEW result \in TaskStatus, NEW us, us = Attempted(ts, i, result)
  PROVE  /\ DOMAIN us = DOMAIN ts
         /\ us[i].status = result
         /\ \A j \in DOMAIN ts : us[j].id = ts[j].id
         /\ \A j \in DOMAIN ts : us[j].depends_on = ts[j].depends_on
         /\ \A j \in DOMAIN ts \ {i} : us[j] = ts[j]
         /\ \A j \in DOMAIN ts : OwnId(us, j) <=> OwnId(ts, j)
         /\ UniqueIds(us) <=> UniqueIds(ts)
<1>1. DOMAIN us = DOMAIN ts
  BY DEF Attempted
<1>2. us[i] = Tried(ts[i], result) /\ \A j \in DOMAIN ts \ {i} : us[j] = ts[j]
  BY DEF Attempted
<1>3. /\ us[i].status = result /\ us[i].id = ts[i].id
      /\ us[i].depends_on = ts[i].depends_on
  BY <1>2 DEF Tried
<1>4. \A j \in DOMAIN ts : us[j].id = ts[j].id
  BY <1>2, <1>3
<1>5. \A j \in DOMAIN ts : OwnId(us, j) <=> OwnId(ts, j)
  BY <1>1, <1>4 DEF OwnId
<1>6. UniqueIds(us) <=> UniqueIds(ts)
  BY <1>1, <1>5 DEF UniqueIds
<1> QED
  BY <1>1, <1>2, <1>3, <1>4, <1>5, <1>6
-----------------------------------------------------------------------------
(* Requests and routes. *)

\* The requests the nodes raise are requests, and differ from None.
LEMMA RequestTypes ==
  /\ NoRequest \in RequestType /\ Approval \in RequestType
  /\ FinalAccept \in RequestType
  /\ NoRequest # Approval /\ NoRequest # FinalAccept /\ FinalAccept # Approval
  /\ \A from \in {"plan", "coder"}, why \in EscalationReasons :
       Escalation(from, why) \in EscalationType
  /\ NoRequest \notin EscalationType /\ Approval \notin EscalationType
  /\ FinalAccept \notin EscalationType
BY DEF RequestType, EscalationType, NoRequest, Approval, FinalAccept, Escalation

\* The edges of the graph lead to its nodes.
LEMMA RoutesAreNodes ==
  /\ \A q : RouteAfterPlan(q) \in {"human_gate", "coder"}
  /\ \A q, t : RouteAfterCoder(q, t, NoTask) \in {"human_gate", "coder", "verify"}
  /\ \A q, v : RouteAfterVerify(q, v) \in {"human_gate", "review", "coder"}
  /\ \A q, v : RouteAfterReview(q, v) \in {"human_gate", "finalize", "coder"}
  /\ \A q \in RequestType : \A d :
       RouteAfterGate(q, d) \in {"plan", "coder", "finalize"}
BY DEF RouteAfterPlan, RouteAfterCoder, RouteAfterVerify, RouteAfterReview,
       RouteAfterGate, RequestType, EscalationType, NoRequest, Approval, FinalAccept
\* What each kind of request makes of a decision.
LEMMA GateRoutes ==
  /\ \A d : RouteAfterGate(Approval, d)
            = IF d = "approve" THEN "coder"
              ELSE IF d = "revise" THEN "plan" ELSE "finalize"
  /\ \A q \in EscalationType : \A d :
       RouteAfterGate(q, d) = IF d = "retry" THEN q.origin ELSE "finalize"
  /\ \A d : RouteAfterGate(FinalAccept, d)
            = IF d = "accept" THEN "finalize" ELSE "coder"
  /\ \A d : RouteAfterGate(NoRequest, d) = "finalize"
<1>1. \A d : RouteAfterGate(Approval, d)
             = IF d = "approve" THEN "coder"
               ELSE IF d = "revise" THEN "plan" ELSE "finalize"
  BY DEF RouteAfterGate, Approval
<1>2. ASSUME NEW q \in EscalationType, NEW d
      PROVE  RouteAfterGate(q, d)
               = IF d = "retry" THEN q.origin ELSE "finalize"
  <2>1. q.kind = "escalation"
    BY DEF EscalationType
  <2> QED
    BY <2>1 DEF RouteAfterGate
<1>3. \A d : RouteAfterGate(FinalAccept, d)
             = IF d = "accept" THEN "finalize" ELSE "coder"
  BY DEF RouteAfterGate, FinalAccept
<1>4. \A d : RouteAfterGate(NoRequest, d) = "finalize"
  BY DEF RouteAfterGate, NoRequest
<1> QED
  BY <1>1, <1>2, <1>3, <1>4
-----------------------------------------------------------------------------
\* Whoever writes in a node is a writer.
LEMMA WritersTyped == \A n : WritersOf(n) \in SUBSET Writers
BY DEF WritersOf, Writers

\* One name per action of the graph, for the proofs by cases.
LEMMA StepCases ==
  ASSUME [Next]_vars
  PROVE  \/ PlanAsks \/ PlanFails \/ \E draft \in Drafts : PlanDrafts(draft)
         \/ CoderHasNoPlan \/ CoderIsIdle \/ CoderFixes \/ CoderFixIsNoOp
         \/ \E w \in SUBSET WritersOf("coder") : CoderAsks(w)
         \/ \E w \in SUBSET WritersOf("coder") : CoderCompletesTask(w)
         \/ \E w \in SUBSET WritersOf("coder") : CoderFails(w)
         \/ VerifyPasses \/ VerifyFails \/ ReviewFails
         \/ \E verdict \in {"approved", "changes_requested", "rejected"} :
              Review(verdict)
         \/ GateAsks \/ GateApplies \/ GateRaises \/ Finalize
         \/ SkipNode \/ NodeRaises \/ RecursionError
         \/ \E a \in Answers : Respond(a)
         \/ TimeRunsOut \/ StrayWrites
         \/ UNCHANGED vars
BY DEF Next, System, Human, PlanStep, CoderStep, ReviewStep, Terminated

\* Initially every variable has its type.
LEMMA InitTyped == Init => TypeOK
<1> SUFFICES ASSUME Init PROVE TypeOK
  OBVIOUS
<1>1. tasks \in Seq(TaskType) /\ hitl_request \in RequestType
  BY RequestTypes, EmptySeq DEF Init
<1>2. retries \in [{"verify", "review"} -> Nat] /\ steps_used \in 0..MaxSteps
  BY GraphAssumption DEF Init
<1> QED
  BY <1>1, <1>2 DEF Init, TypeOK, Nodes, Budgeted

\* Every step keeps every variable in its type.
LEMMA StepTyped == TypeOK /\ [Next]_vars => TypeOK'
<1> SUFFICES ASSUME TypeOK, [Next]_vars PROVE TypeOK'
  OBVIOUS
<1>c. /\ Chosen # 0 => Chosen \in DOMAIN tasks
      /\ RemainingId(tasks) \in Ids \cup {NoTask}
      /\ \A result \in TaskStatus :
           Chosen # 0 => /\ Attempted(tasks, Chosen, result) \in Seq(TaskType)
                         /\ RemainingId(Attempted(tasks, Chosen, result))
                              \in Ids \cup {NoTask}
  BY ChosenIsIndex, AttemptedType, RemainingIdType DEF Chosen, TypeOK
<1> USE StepCases
    DEF TypeOK, PlanAsks, PlanFails, PlanDrafts, CoderHasNoPlan, CoderIsIdle,
        CoderFixes, CoderFixIsNoOp, CoderAsks, CoderCompletesTask, CoderFails,
        VerifyPasses, VerifyFails, ReviewFails, Review, GateAsks, GateApplies,
        GateRaises, Finalize, SkipNode, NodeRaises, RecursionError, Respond,
        TimeRunsOut, StrayWrites, vars, control, planning, gates, budget, workspace, human,
        Pauses, Completes, CoderRoutes
<1>1. \/ node' \in Nodes \cup Stopped
      \/ \E q, t : \/ node' = RouteAfterPlan(q)
                   \/ node' = RouteAfterCoder(q, t, NoTask)
                   \/ node' = RouteAfterVerify(q, t)
                   \/ node' = RouteAfterReview(q, t)
                   \/ q \in RequestType /\ node' = RouteAfterGate(q, t)
  BY DEF Nodes, Stopped
<1>2. node' \in Nodes \cup Stopped
  <2> HIDE StepCases DEF TypeOK
  <2> QED BY <1>1, RoutesAreNodes DEF Nodes, Budgeted
<1>3. \/ hitl_request' \in RequestType
      \/ hitl_request' \in {NoRequest, Approval, FinalAccept}
      \/ \E from \in {"plan", "coder"}, why \in EscalationReasons :
           hitl_request' = Escalation(from, why)
  BY DEF EscalationReasons, Requests, PlanningFailed, ApprovalRequest,
         CoderClearsRequest, ReviewRequest
<1>4. hitl_request' \in RequestType
  <2> HIDE StepCases DEF TypeOK
  <2> QED BY <1>3, RequestTypes DEF RequestType
<1>5. paused' \in BOOLEAN /\ time_over' \in BOOLEAN
  OBVIOUS
<1>6. answered' \in BOOLEAN
  BY DEF Requests, CoderClearsRequest
<1>7. uncommitted' \subseteq Writers /\ unverified' \subseteq Writers
  BY WritersTyped DEF Commits, Edits, Writers
<1>8. approved' \in BOOLEAN /\ waived' \in BOOLEAN
  OBVIOUS
<1>9. call_steps' \in Nat
  <2>1. \/ UNCHANGED call_steps \/ call_steps' = 0
        \/ call_steps' = call_steps + 1
    OBVIOUS
  <2> HIDE StepCases
  <2> QED BY <2>1
<1>10. asks' \in Nat
  <2>1. UNCHANGED asks \/ asks' = 0 \/ asks' = asks + 1
    OBVIOUS
  <2> HIDE StepCases
  <2> QED BY <2>1
<1>11. steps_used' \in 0..MaxSteps
  <2>1. \/ UNCHANGED steps_used
        \/ ~BudgetExceeded /\ steps_used' = CountedSteps
    BY DEF Runs
  <2> HIDE StepCases
  <2> QED BY <2>1, GraphAssumption DEF CountedSteps, BudgetExceeded
<1>12. answer' \in Answers \cup {NoAnswer}
  OBVIOUS
<1>13. status' \in {"planning", "cancelled", "failed", "succeeded"}
  BY DEF StatusAfterGate, FinalStatus
<1>14. hitl_response' \in Decisions \cup {"none", "revise"}
  BY GraphAssumption DEF GateDecision, Answers, NoAnswer
<1>15. tasks' \in Seq(TaskType)
  BY <1>c, GraphAssumption DEF TaskStatus, Answers, NoAnswer, NoEdits,
     Malformed, EditsType, Revises, GateDecision
<1>16. current_task_id' \in Ids \cup {NoTask}
  BY <1>c, GraphAssumption DEF TaskStatus
<1>17. retries' \in [verify : Nat, review : Nat]
  <2>1. UNCHANGED retries \/ retries' \in {CountRetry("verify"), CountRetry("review")}
    OBVIOUS
  <2> HIDE StepCases
  <2> QED BY <2>1 DEF CountRetry
<1>18. /\ verify_result' \in {"none", "passed", "failed"}
       /\ review' \in {"none", "approved", "changes_requested", "rejected"}
  OBVIOUS
<1> HIDE StepCases
<1> QED
  BY <1>2, <1>4, <1>5, <1>6, <1>7, <1>8, <1>9, <1>10, <1>11, <1>12, <1>13,
     <1>14, <1>15, <1>16, <1>17, <1>18

\* No transition of the graph gives a variable a value outside its type; in
\* particular the run-wide budget never counts past max_steps.
THEOREM TypeCorrect == Spec => []TypeOK
BY InitTyped, StepTyped, PTL DEF Spec
-----------------------------------------------------------------------------
(* The gate. *)

\* A node sends the run to the gate exactly when its patch holds a request.
LEMMA GateIffRequest ==
  /\ \A q : RouteAfterPlan(q) = "human_gate" <=> q # NoRequest
  /\ \A q, t : RouteAfterCoder(q, t, NoTask) = "human_gate" <=> q # NoRequest
  /\ \A q, v : RouteAfterVerify(q, v) = "human_gate" <=> q # NoRequest
  /\ \A q, v : RouteAfterReview(q, v) = "human_gate" <=> q # NoRequest
BY DEF RouteAfterPlan, RouteAfterCoder, RouteAfterVerify, RouteAfterReview

\* Every question put to the gate is a new one: each node that can lead to the
\* gate rewrites hitl_request, and its edge leads there only with a request.
THEOREM FreshQuestions == Spec => []GateAsksAFreshQuestion
<1>1. Init => GateAsksAFreshQuestion
  BY DEF Init, GateAsksAFreshQuestion
<1>2. ASSUME TypeOK, GateAsksAFreshQuestion, [Next]_vars
      PROVE  GateAsksAFreshQuestion'
  <2> USE <1>2 DEF GateAsksAFreshQuestion
  <2>1. CASE /\ UNCHANGED <<node, hitl_request, answered>>
    BY <2>1
  <2>2. ASSUME Requests(hitl_request'), node' = "human_gate" =>
                                          hitl_request' # NoRequest
        PROVE  GateAsksAFreshQuestion'
    BY <2>2 DEF Requests
  <2>3. CASE PlanStep
    BY <2>1, <2>2, <2>3, GateIffRequest
       DEF PlanStep, PlanAsks, Pauses, PlanFails, PlanDrafts, Requests
  <2>4. CASE CoderStep
    BY <2>1, <2>2, <2>4, GateIffRequest
       DEF CoderStep, CoderHasNoPlan, CoderIsIdle, CoderFixes, CoderFixIsNoOp,
           CoderAsks, CoderCompletesTask, CoderFails, CoderRoutes, Pauses,
           CoderClearsRequest, Requests
  <2>5. CASE VerifyPasses \/ VerifyFails \/ ReviewStep
    BY <2>2, <2>5, GateIffRequest
       DEF VerifyPasses, VerifyFails, ReviewStep, Review, ReviewFails, Requests
  <2>6. CASE SkipNode
    BY <2>2, <2>6, RequestTypes DEF SkipNode, Requests, EscalationReasons
  <2>7. CASE GateApplies
    BY <2>7, RoutesAreNodes DEF GateApplies, TypeOK
  <2>8. CASE GateAsks \/ TimeRunsOut \/ StrayWrites \/ Human \/ UNCHANGED vars
    BY <2>1, <2>8
       DEF GateAsks, Pauses, TimeRunsOut, StrayWrites, Human, Respond, vars, control
  <2>9. CASE GateRaises \/ Finalize \/ NodeRaises \/ RecursionError
    BY <2>9 DEF GateRaises, Finalize, NodeRaises, RecursionError
  <2> QED
    BY <1>2, <2>3, <2>4, <2>5, <2>6, <2>7, <2>8, <2>9
       DEF Next, System, Terminated
<1> QED
  BY <1>1, <1>2, TypeCorrect, PTL DEF Spec
-----------------------------------------------------------------------------
(* Autonomy. *)

\* Under auto autonomy only an escalation stops the run: each of plan, coder
\* and review tests the autonomy level before it asks for anything else.
THEOREM AutoOnlyEscalates == Spec => []AutoStopsOnlyToEscalate
<1>1. Init => AutoStopsOnlyToEscalate
  BY DEF Init, AutoStopsOnlyToEscalate, NoRequest
<1>2. ASSUME TypeOK, AutoStopsOnlyToEscalate, [Next]_vars
      PROVE  AutoStopsOnlyToEscalate'
  <2> SUFFICES ASSUME Autonomy = "auto"
               PROVE  /\ hitl_request'.kind \in {"none", "escalation"}
                      /\ paused' => node' = "human_gate"
    BY DEF AutoStopsOnlyToEscalate
  <2> USE <1>2 DEF AutoStopsOnlyToEscalate, NoRequest, Escalation
  <2>1. CASE PlanStep
    BY <2>1 DEF PlanStep, PlanAsks, PlanFails, PlanDrafts, Completes,
                Requests, PlanningFailed, ApprovalRequest, Runs, Scheduled
  <2>2. CASE CoderStep
    <3>1. ~paused /\ UNCHANGED paused
      BY <2>2 DEF CoderStep, CoderHasNoPlan, CoderIsIdle, CoderFixes,
                  CoderFixIsNoOp, CoderAsks, CoderCompletesTask, CoderFails,
                  CoderRoutes, Completes, Runs, Scheduled
    <3>2. \/ hitl_request' \in {hitl_request, NoRequest}
          \/ \E why \in EscalationReasons : hitl_request' \in
               {Escalation("plan", why), Escalation("coder", why)}
      BY <2>2 DEF CoderStep, CoderHasNoPlan, CoderIsIdle, CoderFixes,
                  CoderFixIsNoOp, CoderAsks, CoderCompletesTask, CoderFails,
                  CoderClearsRequest, Requests, EscalationReasons
    <3> QED
      BY <3>1, <3>2
  <2>3. CASE VerifyPasses \/ VerifyFails \/ ReviewStep
    BY <2>3 DEF VerifyPasses, VerifyFails, ReviewStep, Review, ReviewFails,
                ReviewRequest, Completes, Requests, Runs, Scheduled
  <2>4. CASE SkipNode
    BY <2>4 DEF SkipNode, Scheduled, Requests
  <2>5. CASE GateAsks \/ GateApplies \/ GateRaises \/ Finalize
    BY <2>5 DEF GateAsks, GateApplies, GateRaises, Finalize, Pauses, Scheduled,
                Requests
  <2>6. CASE Human
    BY <2>6 DEF Human, Respond
  <2>7. CASE NodeRaises \/ RecursionError \/ TimeRunsOut \/ StrayWrites \/ UNCHANGED vars
    BY <2>7 DEF NodeRaises, RecursionError, TimeRunsOut, StrayWrites, vars, control, Runs,
                Scheduled
  <2> QED
    BY <2>1, <2>2, <2>3, <2>4, <2>5, <2>6, <2>7 DEF Next, System, Terminated
<1> QED
  BY <1>1, <1>2, TypeCorrect, PTL DEF Spec

\* A spent budget stays spent: no step gives steps or time back.
LEMMA BudgetStaysExceeded ==
  TypeOK /\ [Next]_vars /\ BudgetExceeded => BudgetExceeded'
<1> SUFFICES ASSUME TypeOK, [Next]_vars, BudgetExceeded PROVE BudgetExceeded'
  OBVIOUS
<1>1. steps_used' \in {steps_used, steps_used + 1}
  BY StepCases
     DEF PlanAsks, PlanFails, PlanDrafts, CoderHasNoPlan, CoderIsIdle,
         CoderFixes, CoderFixIsNoOp, CoderAsks, CoderCompletesTask, CoderFails,
         VerifyPasses, VerifyFails, ReviewFails, Review, GateAsks, GateApplies,
         GateRaises, Finalize, SkipNode, NodeRaises, RecursionError, Respond,
         TimeRunsOut, StrayWrites, vars, budget, Pauses, Completes, CountedSteps, CoderRoutes
<1>2. time_over => time_over'
  BY StepCases
     DEF PlanAsks, PlanFails, PlanDrafts, CoderHasNoPlan, CoderIsIdle,
         CoderFixes, CoderFixIsNoOp, CoderAsks, CoderCompletesTask, CoderFails,
         VerifyPasses, VerifyFails, ReviewFails, Review, GateAsks, GateApplies,
         GateRaises, Finalize, SkipNode, NodeRaises, RecursionError, Respond,
         TimeRunsOut, StrayWrites, vars, budget, Pauses, Completes, CoderRoutes
<1> QED
  BY <1>1, <1>2, GraphAssumption DEF TypeOK, BudgetExceeded

\* Without approval, and with budget left, a plan that holds tasks is not
\* beyond the plan node, its approval, or an escalation that leads back to it.
UnapprovedPlanWaits ==
  tasks # <<>> /\ Autonomy # "auto" /\ ~BudgetExceeded /\ ~approved =>
    \/ node \in {"plan", "finalize"} \cup Stopped
    \/ /\ node = "human_gate"
       /\ hitl_request = Approval \/ hitl_request.origin = "plan"

\* No failed planning, revision or retry lets the coder work, with budget to
\* run, on a plan no human approved. A draft withdraws the approval; from then
\* on only the answer "approve" to the plan leads to the coder.
THEOREM ApprovalFirst == Spec => []OnlyApprovedPlansAreCoded
<1>1. Init => UnapprovedPlanWaits
  BY DEF Init, UnapprovedPlanWaits
<1>2. ASSUME TypeOK, GateAsksAFreshQuestion, UnapprovedPlanWaits, [Next]_vars
      PROVE  UnapprovedPlanWaits'
  <2> USE <1>2 DEF UnapprovedPlanWaits
  <2>1. CASE PlanStep
    <3>1. CASE PlanAsks
      BY <3>1 DEF PlanAsks, Pauses, Runs, Scheduled
    <3>2. CASE PlanFails
      BY <3>2, GateIffRequest
         DEF PlanFails, Requests, PlanningFailed, Escalation, NoRequest
    <3>3. ASSUME NEW draft \in Drafts, PlanDrafts(draft), Autonomy # "auto"
          PROVE  UnapprovedPlanWaits'
      BY <3>3, GateIffRequest, RequestTypes
         DEF PlanDrafts, Requests, ApprovalRequest
    <3> QED
      BY <2>1, <3>1, <3>2, <3>3 DEF PlanStep
  <2>2. CASE CoderStep \/ VerifyPasses \/ VerifyFails \/ ReviewStep
    <3>1. node \in {"coder", "verify", "review"} /\ ~BudgetExceeded
      BY <2>2 DEF CoderStep, CoderHasNoPlan, CoderIsIdle, CoderFixes,
                  CoderFixIsNoOp, CoderAsks, CoderCompletesTask, CoderFails,
                  VerifyPasses, VerifyFails, ReviewStep, Review, ReviewFails,
                  Runs, Scheduled
    <3>2. UNCHANGED approved
      BY <2>2 DEF CoderStep, CoderHasNoPlan, CoderIsIdle, CoderFixes,
                  CoderFixIsNoOp, CoderAsks, CoderCompletesTask, CoderFails,
                  VerifyPasses, VerifyFails, ReviewStep, Review, ReviewFails,
                  Pauses, human
    <3>3. UNCHANGED tasks \/ Chosen # 0
      BY <2>2 DEF CoderStep, CoderHasNoPlan, CoderIsIdle, CoderFixes,
                  CoderFixIsNoOp, CoderAsks, CoderCompletesTask, CoderFails,
                  VerifyPasses, VerifyFails, ReviewStep, Review, ReviewFails,
                  Pauses, planning
    <3>4. Chosen # 0 => tasks # <<>>
      BY <1>2, ChosenIsIndex DEF Chosen, TypeOK
    <3> QED
      BY <3>1, <3>2, <3>3, <3>4 DEF Stopped
  <2>3. CASE SkipNode
    BY <2>3, BudgetStaysExceeded, <1>2 DEF SkipNode
  <2>4. CASE GateApplies
    <3>1. /\ node = "human_gate" /\ UNCHANGED <<hitl_request, steps_used, time_over>>
          /\ node' = RouteAfterGate(hitl_request, hitl_response')
          /\ hitl_request = Approval \/ UNCHANGED tasks
          /\ approved' = (approved \/ (hitl_request = Approval /\ node' = "coder"))
      BY <2>4 DEF GateApplies, Scheduled, Revises, budget
    <3>2. CASE hitl_request = Approval \/ hitl_request.origin = "plan"
      <4>1. CASE hitl_request = Approval
        <5>1. node' \in {"plan", "finalize"} \/ (node' = "coder" /\ approved')
          BY <3>1, <4>1, GateRoutes
        <5> QED
          BY <5>1
      <4>2. CASE hitl_request \in EscalationType /\ hitl_request.origin = "plan"
        BY <3>1, <4>2, GateRoutes
      <4> QED
        BY <1>2, <3>2, <4>1, <4>2
           DEF TypeOK, RequestType, FinalAccept, NoRequest
    <3>3. CASE ~(hitl_request = Approval \/ hitl_request.origin = "plan")
      BY <3>1, <3>3 DEF Stopped, BudgetExceeded
    <3> QED
      BY <3>2, <3>3
  <2>5. CASE GateAsks \/ Human \/ TimeRunsOut \/ StrayWrites \/ UNCHANGED vars
    BY <2>5, <1>2, BudgetStaysExceeded
       DEF GateAsks, Pauses, Human, Respond, TimeRunsOut, StrayWrites, vars, control,
           planning, human
  <2>6. CASE GateRaises \/ Finalize \/ NodeRaises \/ RecursionError
    BY <2>6 DEF GateRaises, Finalize, NodeRaises, RecursionError, Stopped
  <2> QED
    BY <1>2, <2>1, <2>2, <2>3, <2>4, <2>5, <2>6 DEF Next, System, Terminated
<1>3. UnapprovedPlanWaits => OnlyApprovedPlansAreCoded
  BY DEF UnapprovedPlanWaits, OnlyApprovedPlansAreCoded, Stopped
<1> QED
  BY <1>1, <1>2, <1>3, FreshQuestions, TypeCorrect, PTL DEF Spec
-----------------------------------------------------------------------------
(* The order of tasks. *)

\* A plan is made and approved before any task is current; a task that has the
\* current id for itself is not done, and all it depends on is.
CurrentTaskIsReady ==
  /\ node = "plan" \/ tasks = <<>> => current_task_id = NoTask
  /\ /\ node = "human_gate"
     /\ hitl_request = Approval \/ hitl_request.origin = "plan"
     => current_task_id = NoTask
  /\ \A i \in DOMAIN tasks :
       tasks[i].id = current_task_id /\ OwnId(tasks, i) =>
         /\ tasks[i].status # "done"
         /\ tasks[i].depends_on \subseteq DoneIds(tasks)

\* Where the coder attempts a task with an id of its own, that task is not
\* done, and its dependencies are.
LEMMA ChosenIsReady ==
  ASSUME TypeOK, CurrentTaskIsReady, Chosen # 0, OwnId(tasks, Chosen)
  PROVE  /\ Chosen \in DOMAIN tasks /\ tasks[Chosen].status # "done"
         /\ tasks[Chosen].depends_on \subseteq DoneIds(tasks)
<1>0. tasks \in Seq(TaskType) /\ Chosen \in DOMAIN tasks
  BY ChosenIsIndex DEF TypeOK, Chosen
<1>1. CASE Chosen = Lookup(tasks, current_task_id)
  <2>1. tasks[Chosen].id = current_task_id
    BY <1>0, <1>1, FoundHasId
  <2> QED
    BY <1>0, <2>1 DEF CurrentTaskIsReady
<1>2. CASE Chosen = SelectNext(tasks)
  BY <1>0, <1>2, SelectedIsEligible DEF Eligible
<1> QED
  BY <1>1, <1>2 DEF Chosen, ChosenTask

\* A task that has the current id for itself is the one the coder works on.
LEMMA LookupChosen ==
  ASSUME tasks \in Seq(TaskType), NEW i \in DOMAIN tasks, OwnId(tasks, i),
         tasks[i].id = current_task_id
  PROVE  Chosen = i
<1>1. tasks[i].id \in Ids
  BY IdsTyped
<1>2. current_task_id # NoTask /\ Lookup(tasks, current_task_id) = i /\ i # 0
  BY <1>1, LookupFinds, NoTaskAssumption
<1> QED
  BY <1>2 DEF Chosen, ChosenTask

\* What the coder leaves in current_task_id is ready, and a task that failed
\* is still not done.
LEMMA CoderLeavesReadyTask ==
  ASSUME TypeOK, CurrentTaskIsReady, CoderStep
  PROVE  CurrentTaskIsReady'
<1>0. tasks \in Seq(TaskType) /\ node = "coder"
  BY DEF TypeOK, CoderStep, CoderHasNoPlan, CoderIsIdle, CoderFixes,
         CoderFixIsNoOp, CoderAsks, CoderCompletesTask, CoderFails, Runs, Scheduled
<1>1. ASSUME tasks' # <<>>,
             \A i \in DOMAIN tasks' :
               tasks'[i].id = current_task_id' /\ OwnId(tasks', i) =>
                 /\ tasks'[i].status # "done"
                 /\ tasks'[i].depends_on \subseteq DoneIds(tasks'),
             ~CoderHasNoPlan
      PROVE  CurrentTaskIsReady'
  <2>1. node' \in {"coder", "human_gate", "verify"}
    BY <1>0, <1>1, RoutesAreNodes
       DEF CoderStep, CoderIsIdle, CoderFixes, CoderFixIsNoOp, CoderAsks,
           CoderCompletesTask, CoderFails, CoderRoutes, Pauses
  <2>2. \/ node' = "coder"
        \/ hitl_request' = NoRequest
        \/ \E why \in EscalationReasons : hitl_request' = Escalation("coder", why)
    BY <1>0, <1>1
       DEF CoderStep, CoderIsIdle, CoderFixes, CoderFixIsNoOp,
           CoderAsks, CoderCompletesTask, CoderFails, Pauses, Requests,
           CoderClearsRequest, EscalationReasons
  <2>3. node' = "human_gate" =>
          hitl_request' # Approval /\ hitl_request'.origin # "plan"
    BY <2>2 DEF Approval, Escalation, NoRequest
  <2> QED
    BY <1>1, <2>1, <2>3 DEF CurrentTaskIsReady
<1>2. CASE CoderHasNoPlan
  BY <1>2 DEF CoderHasNoPlan, planning, CurrentTaskIsReady
<1>3. CASE CoderIsIdle
  <2>1. /\ tasks' = tasks /\ current_task_id' = NoTask /\ tasks # <<>>
        /\ ~CoderHasNoPlan
    BY <1>3 DEF CoderIsIdle, CoderHasNoPlan
  <2>2. \A i \in DOMAIN tasks : tasks[i].id # NoTask
    BY <1>0, IdsTyped
  <2> QED
    BY <1>1, <2>1, <2>2
<1>4. CASE CoderFixes
  <2>1. /\ tasks' = tasks /\ current_task_id' = RemainingId(tasks)
        /\ tasks # <<>> /\ ~CoderHasNoPlan
    BY <1>4 DEF CoderFixes, HasWork, CoderHasNoPlan
  <2> QED
    BY <1>0, <1>1, <2>1, RemainingIsReady DEF Eligible
<1>5. CASE CoderFixIsNoOp \/ \E w \in SUBSET WritersOf("coder") : CoderAsks(w)
  <2>1. /\ UNCHANGED planning /\ (Chosen # 0 => Chosen \in DOMAIN tasks)
        /\ Chosen # 0 \/ tasks # <<>>
    BY <1>5, ChosenIsIndex
       DEF CoderFixIsNoOp, CoderAsks, Pauses, HasWork, Chosen, TypeOK
  <2>2. tasks # <<>>
    BY <2>1
  <2> QED
    BY <1>1, <2>1, <2>2 DEF CurrentTaskIsReady, planning, CoderHasNoPlan
<1>6. ASSUME Chosen # 0
      PROVE  Chosen \in DOMAIN tasks /\ tasks # <<>>
  BY <1>0, <1>6, ChosenIsIndex DEF Chosen, TypeOK
<1>7. ASSUME NEW w \in SUBSET WritersOf("coder"), CoderCompletesTask(w)
      PROVE  CurrentTaskIsReady'
  <2>1. /\ Chosen # 0 /\ tasks' = Attempted(tasks, Chosen, "done")
        /\ current_task_id' = RemainingId(tasks')
    BY <1>7 DEF CoderCompletesTask
  <2>2. tasks' \in Seq(TaskType) /\ tasks' # <<>>
    BY <1>0, <1>6, <2>1, AttemptedType DEF TaskStatus
  <2> QED
    BY <1>1, <1>6, <2>1, <2>2, RemainingIsReady DEF Eligible, CoderHasNoPlan
<1>8. ASSUME NEW w \in SUBSET WritersOf("coder"), CoderFails(w)
      PROVE  CurrentTaskIsReady'
  <2>1. CASE Chosen = 0
    <3>1. UNCHANGED planning /\ tasks # <<>>
      BY <1>8, <2>1 DEF CoderFails, HasWork, planning
    <3> QED
      BY <1>1, <3>1 DEF CurrentTaskIsReady, planning, CoderHasNoPlan
  <2>2. CASE Chosen # 0
    <3>1. /\ tasks' = Attempted(tasks, Chosen, "failed")
          /\ UNCHANGED current_task_id
      BY <1>8, <2>2 DEF CoderFails
    <3>2. /\ DOMAIN tasks' = DOMAIN tasks /\ tasks'[Chosen].status = "failed"
          /\ \A j \in DOMAIN tasks : tasks'[j].id = tasks[j].id
          /\ \A j \in DOMAIN tasks : tasks'[j].depends_on = tasks[j].depends_on
          /\ \A j \in DOMAIN tasks \ {Chosen} : tasks'[j] = tasks[j]
          /\ \A j \in DOMAIN tasks : OwnId(tasks', j) <=> OwnId(tasks, j)
      BY <1>0, <1>6, <2>2, <3>1, AttemptedTask DEF TaskStatus
    <3>3. ASSUME NEW i \in DOMAIN tasks', tasks'[i].id = current_task_id',
                 OwnId(tasks', i)
          PROVE  /\ tasks'[i].status # "done"
                 /\ tasks'[i].depends_on \subseteq DoneIds(tasks')
      <4>1. i \in DOMAIN tasks /\ tasks[i].id = current_task_id /\ OwnId(tasks, i)
        BY <3>1, <3>2, <3>3
      <4>2. Chosen = i
        BY <1>0, <4>1, LookupChosen
      <4>3. /\ tasks[i].status # "done"
            /\ tasks[i].depends_on \subseteq DoneIds(tasks)
        BY <4>1 DEF CurrentTaskIsReady
      <4>4. DoneIds(tasks) \subseteq DoneIds(tasks')
        BY <3>2, <4>2, <4>3 DEF DoneIds
      <4> QED
        BY <1>6, <2>2, <3>2, <4>1, <4>2, <4>3, <4>4
    <3>4. tasks' # <<>>
      BY <1>6, <2>2, <3>2
    <3> QED
      BY <1>1, <1>6, <2>2, <3>2, <3>3, <3>4 DEF CoderHasNoPlan
  <2> QED
    BY <2>1, <2>2
<1> QED
  BY <1>2, <1>3, <1>4, <1>5, <1>7, <1>8 DEF CoderStep

\* The invariant behind the order of tasks.
LEMMA CurrentTaskStaysReady == Spec => []CurrentTaskIsReady
<1>1. Init => CurrentTaskIsReady
  BY DEF Init, CurrentTaskIsReady
<1>2. ASSUME TypeOK, CurrentTaskIsReady, [Next]_vars
      PROVE  CurrentTaskIsReady'
  <2> USE <1>2
  <2>0. \A i \in DOMAIN tasks' : tasks'[i].id # NoTask
    <3>1. tasks' \in Seq(TaskType)
      BY StepTyped DEF TypeOK
    <3> QED
      BY <3>1, IdsTyped
  <2>1. CASE PlanStep
    <3>1. node = "plan" /\ current_task_id' = NoTask
      BY <2>1 DEF PlanStep, PlanAsks, PlanFails, PlanDrafts, Pauses, planning,
                  Runs, Scheduled, CurrentTaskIsReady
    <3> QED
      BY <2>0, <3>1 DEF CurrentTaskIsReady
  <2>2. CASE VerifyPasses \/ VerifyFails \/ ReviewStep \/ SkipNode
    <3>1. /\ UNCHANGED <<tasks, current_task_id>> /\ node' # "plan"
          /\ \/ hitl_request' \in {NoRequest, FinalAccept}
             \/ \E why \in EscalationReasons :
                  hitl_request' = Escalation("coder", why)
      BY <2>2, RoutesAreNodes
         DEF VerifyPasses, VerifyFails, ReviewStep, Review, ReviewFails,
             SkipNode, Requests, ReviewRequest, planning, EscalationReasons
    <3>2. hitl_request' # Approval /\ hitl_request'.origin # "plan"
      BY <3>1 DEF Approval, FinalAccept, NoRequest, Escalation
    <3> QED
      BY <3>1, <3>2 DEF CurrentTaskIsReady
  <2>3. CASE GateApplies
    <3>1. /\ node = "human_gate" /\ node' = RouteAfterGate(hitl_request, hitl_response')
          /\ UNCHANGED <<current_task_id, hitl_request>>
          /\ hitl_request = Approval \/ UNCHANGED tasks
          /\ node' \in {"plan", "coder", "finalize"}
      BY <2>3, RoutesAreNodes DEF GateApplies, Scheduled, Revises, TypeOK
    <3>2. node' = "plan" => hitl_request = Approval \/ hitl_request.origin = "plan"
      BY <3>1, GateRoutes DEF TypeOK, RequestType
    <3>3. CASE hitl_request = Approval
      BY <2>0, <3>1, <3>2, <3>3 DEF CurrentTaskIsReady
    <3>4. CASE UNCHANGED tasks
      BY <3>1, <3>2, <3>4 DEF CurrentTaskIsReady
    <3> QED
      BY <3>1, <3>3, <3>4
  <2>4. CASE GateAsks \/ Human \/ TimeRunsOut \/ StrayWrites \/ UNCHANGED vars
    <3>1. UNCHANGED <<node, hitl_request, tasks, current_task_id>>
      BY <2>4 DEF GateAsks, Pauses, Human, Respond, TimeRunsOut, StrayWrites, vars, control,
                  planning
    <3> QED
      BY <3>1 DEF CurrentTaskIsReady
  <2>5. CASE GateRaises \/ Finalize \/ NodeRaises \/ RecursionError
    <3>1. /\ UNCHANGED <<tasks, current_task_id>>
          /\ node' \in Stopped
      BY <2>5 DEF GateRaises, Finalize, NodeRaises, RecursionError, planning,
                  Stopped
    <3> QED
      BY <3>1 DEF CurrentTaskIsReady, Stopped
  <2> QED
    BY <2>1, <2>2, <2>3, <2>4, <2>5, CoderLeavesReadyTask
       DEF Next, System, Terminated
<1> QED
  BY <1>1, <1>2, TypeCorrect, PTL DEF Spec

\* A step taken at the coder changes at most the task it chose.
LEMMA CoderChangesChosenTask ==
  ASSUME TypeOK, [Next]_vars, node = "coder"
  PROVE  \/ UNCHANGED tasks
         \/ /\ Chosen # 0
            /\ \E result \in TaskStatus : tasks' = Attempted(tasks, Chosen, result)
<1>1. CASE CoderStep
  BY <1>1 DEF CoderStep, CoderHasNoPlan, CoderIsIdle, CoderFixes, CoderFixIsNoOp,
              CoderAsks, CoderCompletesTask, CoderFails, Pauses, planning,
              TaskStatus
<1>2. CASE ~CoderStep
  BY <1>2 DEF Next, System, Human, Terminated, PlanStep, PlanAsks, PlanFails,
              PlanDrafts, ReviewStep, Review, ReviewFails, VerifyPasses,
              VerifyFails, GateAsks, GateApplies, GateRaises, Finalize, SkipNode,
              NodeRaises, RecursionError, Respond, TimeRunsOut, StrayWrites, vars, planning,
              Pauses, Runs, Scheduled
<1> QED
  BY <1>1, <1>2

\* No step of a run attempts a task that has its id for itself before all it
\* depends on is done, however long current_task_id was kept, whatever failed,
\* was fixed, asked or sent back in between, and whatever ids other tasks share.
\* Of tasks that share an id it may attempt the first again (coder.py:130).
THEOREM DependenciesFirst == Spec => DependenciesComeFirst
<1>1. ASSUME TypeOK, CurrentTaskIsReady, [Next]_vars
      PROVE  \A i \in DOMAIN tasks \cap DOMAIN tasks' :
               /\ OwnId(tasks, i) /\ node = "coder"
               /\ tasks'[i].attempts > tasks[i].attempts
               => tasks[i].depends_on \subseteq DoneIds(tasks)
  <2> SUFFICES ASSUME NEW i \in DOMAIN tasks, OwnId(tasks, i), node = "coder",
                      tasks'[i].attempts > tasks[i].attempts
               PROVE  tasks[i].depends_on \subseteq DoneIds(tasks)
    OBVIOUS
  <2>1. tasks \in Seq(TaskType) /\ tasks[i].attempts \in Nat
    <3>1. tasks \in Seq(TaskType) /\ tasks[i] \in TaskType
      BY <1>1, ElementOfSeq DEF TypeOK
    <3> QED
      BY <3>1 DEF TaskType
  <2>2. tasks' # tasks
    BY <2>1
  <2>3. Chosen # 0 /\ \E result \in TaskStatus : tasks' = Attempted(tasks, Chosen, result)
    BY <1>1, <2>2, CoderChangesChosenTask
  <2>4. Chosen \in DOMAIN tasks
    BY <1>1, <2>1, <2>3, ChosenIsIndex DEF Chosen, TypeOK
  <2>5. \A j \in DOMAIN tasks \ {Chosen} : tasks'[j] = tasks[j]
    BY <2>1, <2>3, <2>4, AttemptedTask
  <2>6. Chosen = i
    BY <2>1, <2>5
  <2> QED
    BY <1>1, <2>3, <2>6, ChosenIsReady
<1>2. ASSUME TypeOK, CurrentTaskIsReady, [Next]_vars
      PROVE  [\A i \in DOMAIN tasks \cap DOMAIN tasks' :
                /\ OwnId(tasks, i) /\ node = "coder"
                /\ tasks'[i].attempts > tasks[i].attempts
                => tasks[i].depends_on \subseteq DoneIds(tasks)]_vars
  BY <1>1, <1>2
<1> QED
  BY <1>2, TypeCorrect, CurrentTaskStaysReady, PTL DEF Spec, DependenciesComeFirst

\* A completed task that has its id for itself is not attempted again: no stale
\* value of current_task_id ever names it, whatever ids other tasks share.
THEOREM DoneStaysDone == Spec => DoneTasksStayDone
<1>1. ASSUME TypeOK, CurrentTaskIsReady, [Next]_vars
      PROVE  [\A i \in DOMAIN tasks :
                OwnId(tasks, i) /\ node = "coder" /\ tasks[i].status = "done"
                  => tasks'[i] = tasks[i]]_vars
  <2> SUFFICES ASSUME NEW i \in DOMAIN tasks, OwnId(tasks, i), node = "coder",
                      tasks[i].status = "done", tasks' # tasks
               PROVE  tasks'[i] = tasks[i]
    OBVIOUS
  <2>1. Chosen # 0 /\ \E result \in TaskStatus : tasks' = Attempted(tasks, Chosen, result)
    BY <1>1, CoderChangesChosenTask
  <2>2. Chosen \in DOMAIN tasks /\ Chosen # i
    BY <1>1, <2>1, ChosenIsReady, ChosenIsIndex DEF Chosen, TypeOK
  <2> QED
    BY <1>1, <2>1, <2>2, AttemptedTask DEF TypeOK
<1> QED
  BY <1>1, TypeCorrect, CurrentTaskStaysReady, PTL DEF Spec, DoneTasksStayDone
-----------------------------------------------------------------------------
(* The kinds of steps, as far as scheduling goes. *)

\* A step of plan, coder, verify or review that completes.
CountedStep ==
  /\ node \in Budgeted /\ ~paused /\ ~BudgetExceeded
  /\ Completes
  /\ node' \in Nodes \ {"plan"}

\* A node asks from inside, or the gate does.
Asks == PlanAsks \/ GateAsks \/ \E w \in SUBSET WritersOf("coder") : CoderAsks(w)

\* Every step is of one of these kinds, as far as scheduling goes.
LEMMA StepKinds ==
  ASSUME TypeOK, [Next]_vars
  PROVE  \/ CountedStep \/ Asks \/ SkipNode \/ GateApplies
         \/ \E a \in Answers : Respond(a)
         \/ Finalize \/ GateRaises \/ NodeRaises \/ RecursionError
         \/ TimeRunsOut \/ StrayWrites \/ UNCHANGED vars
<1>1. ASSUME PlanFails \/ \E draft \in Drafts : PlanDrafts(draft)
      PROVE  CountedStep
  BY <1>1, RoutesAreNodes
     DEF PlanFails, PlanDrafts, Runs, Scheduled, CountedStep, Nodes, Budgeted
<1>2. ASSUME CoderStep, \A w \in SUBSET WritersOf("coder") : ~CoderAsks(w)
      PROVE  CountedStep
  BY <1>2, RoutesAreNodes
     DEF CoderStep, CoderHasNoPlan, CoderIsIdle, CoderFixes, CoderFixIsNoOp,
         CoderCompletesTask, CoderFails, CoderRoutes, Runs, Scheduled,
         CountedStep, Nodes, Budgeted
<1>3. ASSUME VerifyPasses \/ VerifyFails \/ ReviewStep
      PROVE  CountedStep
  BY <1>3, RoutesAreNodes
     DEF VerifyPasses, VerifyFails, ReviewStep, Review, ReviewFails, Runs,
         Scheduled, CountedStep, Nodes, Budgeted
<1> QED
  BY <1>1, <1>2, <1>3, StepCases DEF CoderStep, ReviewStep, Asks

\* Asking, and a step that does nothing, leave the schedule alone.
LEMMA AskingIsInPlace ==
  ASSUME Asks \/ UNCHANGED vars
  PROVE  UNCHANGED <<node, answer, call_steps, steps_used, time_over, status,
                     hitl_request, tasks, current_task_id>>
BY DEF Asks, PlanAsks, GateAsks, CoderAsks, Pauses, vars, control, planning, budget
-----------------------------------------------------------------------------
(* The recursion limit. *)

\* Of the super-steps of a stream() call, only a first one through the gate
\* and a last one that skips a node are not counted against max_steps.
RoomIsLeft ==
  /\ node \in Budgeted =>
       call_steps <= steps_used \/ (call_steps <= 1 /\ BudgetExceeded)
  /\ node \in {"human_gate", "finalize"} => call_steps <= MaxSteps + 1
  /\ node = "human_gate" => steps_used >= 1 \/ BudgetExceeded
  /\ node \in Nodes /\ answer # NoAnswer =>
       node = "human_gate" /\ call_steps = 0
  /\ node # "recursion_error"

\* With a recursion limit two above the step budget, the budget or a human
\* ends a run, never LangGraph's GraphRecursionError, however often nodes are
\* retried, skipped and sent back (the claim of build_graph.py).
THEOREM RecursionLimitUnreached ==
  ASSUME MaxSteps >= 1, RecursionLimit >= MaxSteps + 2
  PROVE  Spec => []NeverRecursionError
<1>0. MaxSteps \in Nat /\ RecursionLimit \in Nat
  BY GraphAssumption
<1>1. Init => RoomIsLeft
  BY <1>0 DEF Init, RoomIsLeft, Budgeted
<1>2. ASSUME TypeOK, GateAsksAFreshQuestion, RoomIsLeft, [Next]_vars
      PROVE  RoomIsLeft'
  <2>0. /\ call_steps \in Nat /\ steps_used \in 0..MaxSteps
        /\ BudgetExceeded => BudgetExceeded'
    BY <1>2, BudgetStaysExceeded DEF TypeOK
  <2> USE <1>0, <1>2, <2>0
  <2>1. CASE CountedStep
    <3>1. /\ call_steps' = call_steps + 1 /\ steps_used' = steps_used + 1
          /\ steps_used < MaxSteps /\ UNCHANGED answer /\ node \in Budgeted
          /\ ~BudgetExceeded /\ node' \in Nodes
      BY <2>1 DEF CountedStep, Completes, CountedSteps, BudgetExceeded
    <3>2. call_steps' <= steps_used' /\ steps_used' <= MaxSteps /\ 1 <= steps_used'
      BY <3>1 DEF RoomIsLeft
    <3> QED
      BY <3>1, <3>2 DEF RoomIsLeft, Nodes, Budgeted
  <2>2. CASE SkipNode
    <3>1. /\ call_steps' = call_steps + 1 /\ node \in Budgeted
          /\ node' = "human_gate" /\ UNCHANGED answer /\ BudgetExceeded
      BY <2>2 DEF SkipNode
    <3> QED
      BY <3>1 DEF RoomIsLeft, Nodes, Budgeted
  <2>3. CASE GateApplies
    <3>1. /\ node = "human_gate" /\ answer # NoAnswer /\ answer' = NoAnswer
          /\ call_steps' = call_steps + 1 /\ UNCHANGED <<steps_used, time_over>>
          /\ node' \in {"plan", "coder", "finalize"}
      BY <2>3, RoutesAreNodes
         DEF GateApplies, Scheduled, GateAsksAFreshQuestion, TypeOK, budget
    <3>2. call_steps' = 1 /\ (steps_used' >= 1 \/ BudgetExceeded')
      BY <3>1 DEF RoomIsLeft, Nodes, BudgetExceeded
    <3> QED
      BY <3>1, <3>2 DEF RoomIsLeft, Budgeted
  <2>4. CASE Asks \/ UNCHANGED vars
    BY <2>4, AskingIsInPlace DEF RoomIsLeft, BudgetExceeded
  <2>5. ASSUME NEW a \in Answers, Respond(a) PROVE RoomIsLeft'
    <3>1. /\ UNCHANGED <<node, steps_used, time_over>> /\ call_steps' = 0
          /\ node # "human_gate" => UNCHANGED answer
      BY <2>5 DEF Respond, budget
    <3> QED
      BY <3>1 DEF RoomIsLeft, BudgetExceeded
  <2>6. CASE TimeRunsOut \/ StrayWrites
    BY <2>6 DEF TimeRunsOut, StrayWrites, control, budget, RoomIsLeft, BudgetExceeded
  <2>7. ~RecursionError
    BY DEF RecursionError, RoomIsLeft, Nodes
  <2>8. CASE Finalize \/ GateRaises \/ NodeRaises
    <3>1. node' \in {"END", "node_raised"}
      BY <2>8 DEF Finalize, GateRaises, NodeRaises
    <3> QED
      BY <3>1 DEF RoomIsLeft, Nodes, Budgeted
  <2> QED
    BY StepKinds, <2>1, <2>2, <2>3, <2>4, <2>5, <2>6, <2>7, <2>8
<1>3. RoomIsLeft => NeverRecursionError
  BY DEF RoomIsLeft, NeverRecursionError
<1> QED
  BY <1>1, <1>2, <1>3, FreshQuestions, TypeCorrect, PTL DEF Spec
-----------------------------------------------------------------------------
(* Aborts. *)

\* An abort stands until a human answers again: it ends the run as cancelled
\* or failed, or, where it refuses a finished change, sends it back to a coder
\* whose work a human will be asked about once more.
AbortStands ==
  /\ hitl_request = FinalAccept => Autonomy = "manual"
  /\ hitl_response = "abort" =>
       \/ node \in {"finalize"} \cup Stopped /\ status \in {"cancelled", "failed"}
       \/ Autonomy = "manual" /\ node \notin {"finalize", "END"}

\* Only the reviewer's approval leads past the gate to finalize, and under
\* manual autonomy not even that.
LEMMA ManualEndsAtTheGate ==
  ASSUME TypeOK, [Next]_vars, Autonomy = "manual", node \in Budgeted
  PROVE  node' # "finalize"
<1> SUFFICES ASSUME node' = "finalize" PROVE FALSE
  OBVIOUS
<1>1. /\ \A q : RouteAfterPlan(q) # "finalize"
      /\ \A q, t : RouteAfterCoder(q, t, NoTask) # "finalize"
      /\ \A q, v : RouteAfterVerify(q, v) # "finalize"
  BY RoutesAreNodes
<1>2. \/ \E verdict \in {"approved", "changes_requested", "rejected"} :
           Review(verdict)
      \/ ReviewFails
  BY <1>1, StepCases
     DEF PlanAsks, PlanFails, PlanDrafts, CoderHasNoPlan, CoderIsIdle,
         CoderFixes, CoderFixIsNoOp, CoderAsks, CoderCompletesTask, CoderFails,
         VerifyPasses, VerifyFails, GateAsks, GateApplies, GateRaises, Finalize,
         SkipNode, NodeRaises, RecursionError, Respond, TimeRunsOut, StrayWrites, vars,
         control, Pauses, CoderRoutes, Scheduled, Budgeted
<1>3. ASSUME NEW verdict \in {"approved", "changes_requested", "rejected"},
             Review(verdict)
      PROVE  FALSE
  <2>1. node' = RouteAfterReview(ReviewRequest(verdict), verdict)
    BY <1>3 DEF Review, Requests
  <2>2. verdict = "approved" => ReviewRequest(verdict) # NoRequest
    BY RequestTypes DEF ReviewRequest
  <2> QED
    BY <2>1, <2>2 DEF RouteAfterReview
<1>4. ~ReviewFails
  BY GateIffRequest, RequestTypes
     DEF ReviewFails, Requests, Escalation, NoRequest
<1> QED
  BY <1>2, <1>3, <1>4

\* A run whose last human word was "abort" never ends as succeeded: the abort
\* sets a status that finalize keeps, or the run asks again before it ends.
THEOREM AbortHonoured == Spec => []AbortIsHonoured
<1>1. Init => AbortStands
  BY RequestTypes DEF Init, AbortStands
<1>2. ASSUME TypeOK, GateAsksAFreshQuestion, AbortStands, [Next]_vars
      PROVE  AbortStands'
  <2> USE <1>2
  <2>1. hitl_request' = FinalAccept => Autonomy = "manual"
    <3>1. \/ hitl_request' \in {hitl_request, NoRequest, Approval}
          \/ \E from \in {"plan", "coder"}, why \in EscalationReasons :
               hitl_request' = Escalation(from, why)
          \/ Autonomy = "manual"
      BY StepCases DEF EscalationReasons, PlanAsks, PlanFails, PlanDrafts, CoderHasNoPlan, CoderIsIdle,
         CoderFixes, CoderFixIsNoOp, CoderAsks, CoderCompletesTask, CoderFails,
         VerifyPasses, VerifyFails, ReviewFails, Review, GateAsks, GateRaises,
         Finalize, SkipNode, NodeRaises, RecursionError, Respond, TimeRunsOut, StrayWrites,
         vars, GateApplies, Pauses, Requests, PlanningFailed,
         ApprovalRequest, CoderClearsRequest, ReviewRequest
    <3> QED
      BY <3>1, RequestTypes DEF AbortStands
  <2>2. CASE ~GateApplies /\ hitl_response' = "abort"
    <3>1. hitl_response = "abort"
      BY <2>2, StepCases DEF PlanAsks, PlanFails, PlanDrafts, CoderHasNoPlan, CoderIsIdle,
         CoderFixes, CoderFixIsNoOp, CoderAsks, CoderCompletesTask, CoderFails,
         VerifyPasses, VerifyFails, ReviewFails, Review, GateAsks, GateRaises,
         Finalize, SkipNode, NodeRaises, RecursionError, Respond, TimeRunsOut, StrayWrites,
         vars, human, Pauses
    <3>2. node \in {"finalize"} \cup Stopped =>
            /\ node' \in {"finalize"} \cup Stopped
            /\ status' \in {status, FinalStatus}
      BY <2>2, StepCases DEF PlanAsks, PlanFails, PlanDrafts, CoderHasNoPlan, CoderIsIdle,
         CoderFixes, CoderFixIsNoOp, CoderAsks, CoderCompletesTask, CoderFails,
         VerifyPasses, VerifyFails, ReviewFails, Review, GateAsks, GateRaises,
         Finalize, SkipNode, NodeRaises, RecursionError, Respond, TimeRunsOut, StrayWrites,
         vars, control, Pauses, Runs, Scheduled, Stopped, Nodes, Budgeted
    <3>3. /\ node' = "END" => node \in {"finalize", "END"}
          /\ node' = "finalize" => node \in Budgeted \cup {"finalize"}
      BY <2>2, StepCases, RoutesAreNodes DEF PlanAsks, PlanFails, PlanDrafts, CoderHasNoPlan, CoderIsIdle,
         CoderFixes, CoderFixIsNoOp, CoderAsks, CoderCompletesTask, CoderFails,
         VerifyPasses, VerifyFails, ReviewFails, Review, GateAsks, GateRaises,
         Finalize, SkipNode, NodeRaises, RecursionError, Respond, TimeRunsOut, StrayWrites,
         vars, control, Pauses, CoderRoutes, Runs, Scheduled, Budgeted
    <3> QED
      BY <2>1, <3>1, <3>2, <3>3, ManualEndsAtTheGate DEF AbortStands, FinalStatus
  <2>3. CASE GateApplies /\ hitl_response' = "abort"
    <3>1. /\ node' = RouteAfterGate(hitl_request, "abort")
          /\ GateDecision = "abort" /\ status' = StatusAfterGate
          /\ hitl_request # NoRequest
      BY <2>3 DEF GateApplies, GateAsksAFreshQuestion, Scheduled
    <3>2. CASE hitl_request \in EscalationType \/ hitl_request = Approval
      <4>1. node' = "finalize"
        BY <3>1, <3>2, GateRoutes
      <4>2. hitl_request.kind = "escalation" \/ hitl_request = Approval
        BY <3>2 DEF EscalationType
      <4>3. status' \in {"cancelled", "failed"}
        BY <3>1, <4>2 DEF StatusAfterGate
      <4> QED
        BY <2>1, <4>1, <4>3 DEF AbortStands
    <3>3. CASE hitl_request = FinalAccept
      <4>1. node' = "coder" /\ Autonomy = "manual"
        BY <3>1, <3>3, GateRoutes DEF AbortStands
      <4> QED
        BY <2>1, <4>1 DEF AbortStands
    <3> QED
      BY <3>1, <3>2, <3>3 DEF TypeOK, RequestType
  <2> QED
    BY <2>1, <2>2, <2>3 DEF AbortStands
<1>3. AbortStands => AbortIsHonoured
  BY DEF AbortStands, AbortIsHonoured
<1> QED
  BY <1>1, <1>2, <1>3, FreshQuestions, TypeCorrect, PTL DEF Spec
-----------------------------------------------------------------------------
(* The work a run hands over. *)

CheckedWork ==
  verify_result = "passed" /\ "coder" \notin uncommitted \cup unverified

\* Where the coder has changes that are not committed, it will run again on the
\* same work before anyone verifies, or the run is over. The reviewer, the human asked
\* for a final acceptance and finalize see checked work only.
WorkIsChecked ==
  /\ "coder" \in uncommitted =>
       \/ node = "coder" /\ HasWork
       \/ /\ node = "human_gate" /\ HasWork
          /\ hitl_request \in EscalationType /\ hitl_request.origin = "coder"
       \/ node \in {"finalize"} \cup Stopped
  /\ node = "review" => CheckedWork
  /\ node = "human_gate" /\ hitl_request = FinalAccept =>
       CheckedWork /\ review = "approved"
  /\ node \in {"finalize", "END"} /\ ~waived =>
       CheckedWork /\ review = "approved"

\* A new run has no work to check.
LEMMA WorkIsCheckedInitially == Init => WorkIsChecked
BY DEF Init, WorkIsChecked

\* The coder commits what it did before it goes on, except where it will run
\* again on the same work: after a command approval, or a fix without effect.
LEMMA CoderKeepsWorkChecked ==
  ASSUME TypeOK, WorkIsChecked, CoderStep
  PROVE  WorkIsChecked'
<1>1. node' \in {"coder", "human_gate", "verify"} /\ node = "coder"
  BY RoutesAreNodes
     DEF CoderStep, CoderHasNoPlan, CoderIsIdle, CoderFixes, CoderFixIsNoOp,
         CoderAsks, CoderCompletesTask, CoderFails, CoderRoutes, Pauses, Runs,
         Scheduled
<1>2. node' = "human_gate" => hitl_request' # FinalAccept
  <2>1. \/ node' = "coder"
        \/ hitl_request' = NoRequest
        \/ \E from \in {"plan", "coder"}, why \in EscalationReasons :
             hitl_request' = Escalation(from, why)
    BY <1>1
       DEF CoderStep, CoderHasNoPlan, CoderIsIdle, CoderFixes, CoderFixIsNoOp,
           CoderAsks, CoderCompletesTask, CoderFails, Pauses, Requests,
           CoderClearsRequest, EscalationReasons
  <2> QED
    BY <2>1, RequestTypes
<1>3. ASSUME "coder" \notin uncommitted' PROVE WorkIsChecked'
  BY <1>1, <1>2, <1>3 DEF WorkIsChecked
<1>4. ASSUME "coder" \in uncommitted, CoderHasNoPlan \/ CoderIsIdle PROVE FALSE
  BY <1>1, <1>4, ChosenIsIndex
     DEF WorkIsChecked, CoderHasNoPlan, CoderIsIdle, HasWork, Chosen, TypeOK,
         Stopped
<1>5. CASE CoderHasNoPlan \/ CoderIsIdle
  <2>1. UNCHANGED uncommitted
    BY <1>5 DEF CoderHasNoPlan, CoderIsIdle, workspace
  <2> QED
    BY <1>3, <1>4, <1>5, <2>1 DEF TypeOK
<1>6. CASE CoderFixes \/ \E w \in SUBSET WritersOf("coder") : CoderCompletesTask(w) \/ CoderFails(w)
  BY <1>3, <1>6 DEF CoderFixes, CoderCompletesTask, CoderFails, Commits
<1>7. CASE CoderFixIsNoOp
  <2>1. /\ HasWork' /\ hitl_request' = Escalation("coder", "fix_made_no_changes")
        /\ node' = "human_gate"
    BY <1>7, GateIffRequest
       DEF CoderFixIsNoOp, CoderRoutes, Requests, planning, gates, HasWork,
           Chosen, FixWanted, Escalation, NoRequest
  <2> QED
    BY <1>2, <2>1, RequestTypes
       DEF WorkIsChecked, EscalationReasons, Escalation
<1>8. CASE \E w \in SUBSET WritersOf("coder") : CoderAsks(w)
  <2>1. HasWork' /\ node' = "coder"
    BY <1>1, <1>8
       DEF CoderAsks, Pauses, planning, gates, HasWork, Chosen, FixWanted
  <2> QED
    BY <2>1 DEF WorkIsChecked
<1> QED
  BY <1>5, <1>6, <1>7, <1>8 DEF CoderStep

\* Verify and review keep what the checks say of the work.
LEMMA ChecksKeepWorkChecked ==
  ASSUME TypeOK, WorkIsChecked, VerifyPasses \/ VerifyFails \/ ReviewStep
  PROVE  WorkIsChecked'
<1>1. "coder" \notin uncommitted /\ "coder" \notin uncommitted'
  BY DEF WritersOf, VerifyPasses, VerifyFails, ReviewStep, Review, ReviewFails, Runs,
         Scheduled, WorkIsChecked, Stopped, workspace
<1>2. CASE VerifyPasses
  <2>1. /\ node' = "review" /\ verify_result' = "passed"
        /\ "coder" \notin unverified'
    BY <1>2 DEF VerifyPasses, WritersOf, Requests, RouteAfterVerify
  <2> QED
    BY <1>1, <2>1 DEF WorkIsChecked, CheckedWork
<1>3. CASE VerifyFails
  <2>1. \/ node' = "coder"
        \/ node' = "human_gate" /\ hitl_request' = Escalation("coder", "verify_cap")
    BY <1>3 DEF VerifyFails, Requests, RouteAfterVerify
  <2> QED
    BY <1>1, <2>1, RequestTypes
       DEF WorkIsChecked, EscalationReasons
<1>4. ASSUME NEW verdict \in {"approved", "changes_requested", "rejected"},
             Review(verdict)
      PROVE  WorkIsChecked'
  <2>1. CheckedWork /\ UNCHANGED <<verify_result, unverified>> /\ review' = verdict
    BY <1>4 DEF Review, Runs, Scheduled, WorkIsChecked, workspace
  <2>2. \/ node' = "coder"
        \/ node' = "finalize" /\ verdict = "approved"
        \/ node' = "human_gate" /\ hitl_request' = ReviewRequest(verdict)
    BY <1>4 DEF Review, Requests, RouteAfterReview
  <2>3. ReviewRequest(verdict) = FinalAccept => verdict = "approved"
    BY RequestTypes DEF ReviewRequest, EscalationReasons
  <2>4. CheckedWork'
    BY <1>1, <2>1 DEF CheckedWork
  <2> QED
    BY <1>1, <2>1, <2>2, <2>3, <2>4 DEF WorkIsChecked
<1>5. CASE ReviewFails
  <2>1. node' = "human_gate" /\ hitl_request' = Escalation("coder", "review_failed")
    BY <1>5, GateIffRequest
       DEF ReviewFails, Requests, Escalation, NoRequest
  <2> QED
    BY <1>1, <2>1, RequestTypes DEF WorkIsChecked, EscalationReasons
<1> QED
  BY <1>2, <1>3, <1>4, <1>5 DEF ReviewStep

\* What a human decides at the gate neither edits the work nor changes what
\* the coder has left to do; only a final acceptance finalizes unwaived work.
LEMMA GateKeepsWorkChecked ==
  ASSUME TypeOK, WorkIsChecked, GateApplies
  PROVE  WorkIsChecked'
<1>1. /\ node = "human_gate" /\ node' \in {"plan", "coder", "finalize"}
      /\ node' = RouteAfterGate(hitl_request, hitl_response')
      /\ UNCHANGED <<verify_result, unverified, uncommitted, review,
                     current_task_id, hitl_request>>
      /\ hitl_request = Approval \/ UNCHANGED tasks
      /\ waived' = (node' = "finalize" /\ hitl_request # FinalAccept)
  BY RoutesAreNodes
     DEF GateApplies, Scheduled, Revises, TypeOK, gates, workspace
<1>2. ASSUME "coder" \in uncommitted'
      PROVE  (node' = "coder" /\ HasWork') \/ node' = "finalize"
  <2>1. /\ HasWork /\ hitl_request \in EscalationType
        /\ hitl_request.origin = "coder"
    BY <1>1, <1>2 DEF WorkIsChecked, Stopped
  <2>2. node' \in {"coder", "finalize"}
    BY <1>1, <2>1, GateRoutes
  <2>3. HasWork'
    BY <1>1, <2>1, RequestTypes DEF HasWork, Chosen, FixWanted
  <2> QED
    BY <2>2, <2>3
<1>3. ASSUME node' = "finalize", ~waived' PROVE CheckedWork' /\ review' = "approved"
  BY <1>1, <1>3 DEF WorkIsChecked, CheckedWork
<1> QED
  BY <1>1, <1>2, <1>3 DEF WorkIsChecked

\* The invariant of the work handed over.
LEMMA WorkStaysChecked == Spec => []WorkIsChecked
<1>1. ASSUME TypeOK, WorkIsChecked, [Next]_vars PROVE WorkIsChecked'
  <2> USE <1>1
  <2>1. CASE PlanStep
    <3>1. node = "plan" /\ UNCHANGED uncommitted
      BY <2>1 DEF PlanStep, PlanAsks, PlanFails, PlanDrafts, workspace, Runs,
                  Scheduled
    <3>2. \/ node' \in {"plan", "coder"}
          \/ /\ node' = "human_gate"
             /\ hitl_request' \in {Approval, NoRequest, PlanningFailed}
      BY <2>1, RoutesAreNodes
         DEF PlanStep, PlanAsks, PlanFails, PlanDrafts, Requests, Pauses,
             ApprovalRequest, Runs, Scheduled
    <3> QED
      BY <3>1, <3>2, RequestTypes
         DEF WorkIsChecked, PlanningFailed, EscalationReasons, Stopped
  <2>2. CASE SkipNode
    <3>1. /\ node' = "human_gate" /\ hitl_request' = Escalation("coder", "budget")
          /\ node \in Budgeted
          /\ UNCHANGED uncommitted /\ (HasWork => HasWork')
      BY <2>2 DEF SkipNode, Requests, workspace, planning, gates, HasWork,
                  Chosen, FixWanted
    <3> QED
      BY <3>1, RequestTypes
         DEF WorkIsChecked, EscalationReasons, Escalation, Budgeted, Stopped
  <2>3. CASE GateAsks \/ Human \/ TimeRunsOut \/ StrayWrites \/ UNCHANGED vars
    <3>1. /\ UNCHANGED <<node, hitl_request, verify_result>>
          /\ "coder" \in uncommitted' <=> "coder" \in uncommitted
          /\ "coder" \in unverified' <=> "coder" \in unverified
          /\ UNCHANGED <<review, waived, tasks, current_task_id>>
      BY <2>3 DEF GateAsks, Pauses, Human, Respond, TimeRunsOut, StrayWrites, vars, control,
                  planning, gates, workspace, human, Edits
    <3> QED
      BY <3>1 DEF WorkIsChecked, CheckedWork, HasWork, Chosen, FixWanted
  <2>4. CASE Finalize
    <3>1. /\ node = "finalize" /\ node' = "END"
          /\ UNCHANGED <<uncommitted, verify_result, unverified, review, waived>>
      BY <2>4 DEF Finalize, Scheduled, gates, workspace, human
    <3> QED
      BY <3>1 DEF WorkIsChecked, CheckedWork, Stopped
  <2>5. CASE GateRaises \/ NodeRaises \/ RecursionError
    BY <2>5 DEF GateRaises, NodeRaises, RecursionError, WorkIsChecked, Stopped
  <2> QED
    BY <2>1, <2>2, <2>3, <2>4, <2>5, CoderKeepsWorkChecked,
       ChecksKeepWorkChecked, GateKeepsWorkChecked
       DEF Next, System, Terminated
<1> QED
  BY <1>1, WorkIsCheckedInitially, TypeCorrect, PTL DEF Spec

\* The reviewer is never scheduled on work that the coder changed since verify
\* passed, or that it changed and did not commit, whatever the checks and stray
\* commands write in between.
THEOREM ReviewedWorkIsVerified == Spec => []ReviewSeesVerifiedCommittedWork
<1>1. WorkIsChecked => ReviewSeesVerifiedCommittedWork
  BY DEF WorkIsChecked, CheckedWork, ReviewSeesVerifiedCommittedWork
<1> QED
  BY <1>1, WorkStaysChecked, PTL

\* A run that ends as succeeded did pass verify and review, and its coder changed
\* nothing since the last commit nor since verify passed, unless a human sent it
\* to finalize unfinished.
THEOREM SuccessEarned == Spec => []SuccessIsEarned
<1>1. WorkIsChecked => SuccessIsEarned
  BY DEF WorkIsChecked, CheckedWork, SuccessIsEarned
<1> QED
  BY <1>1, WorkStaysChecked, PTL
-----------------------------------------------------------------------------
(* The run's contract. *)

\* A status that tells the run to stop is set only on the way to finalize.
StoppedRunsFinalize ==
  status \in {"cancelled", "failed"} => node \in {"finalize"} \cup Stopped

\* Only a new draft, the gate and finalize write the status.
LEMMA StatusWrites ==
  ASSUME [Next]_vars
  PROVE  \/ UNCHANGED status \/ GateApplies \/ Finalize
         \/ status' = "planning" /\ CountedStep
BY StepCases, RoutesAreNodes
   DEF PlanAsks, PlanFails, PlanDrafts, CoderHasNoPlan, CoderIsIdle,
       CoderFixes, CoderFixIsNoOp, CoderAsks, CoderCompletesTask, CoderFails,
       VerifyPasses, VerifyFails, ReviewFails, Review, GateAsks,
       GateRaises, SkipNode, NodeRaises, RecursionError, Respond,
       TimeRunsOut, StrayWrites, vars, Pauses, CountedStep, Runs, Scheduled, Budgeted, Nodes

\* Nothing leaves finalize or a stopped run but the end.
LEMMA FinalizeEnds ==
  ASSUME [Next]_vars, node \in {"finalize"} \cup Stopped
  PROVE  node' \in {"finalize"} \cup Stopped
BY StepCases
   DEF PlanAsks, PlanFails, PlanDrafts, CoderHasNoPlan, CoderIsIdle,
       CoderFixes, CoderFixIsNoOp, CoderAsks, CoderCompletesTask, CoderFails,
       VerifyPasses, VerifyFails, ReviewFails, Review, GateAsks, GateApplies,
       GateRaises, Finalize, SkipNode, NodeRaises, RecursionError, Respond,
       TimeRunsOut, StrayWrites, vars, control, Pauses, Runs, Scheduled, Stopped, Nodes,
       Budgeted

\* Whoever tells the run to stop, it goes to finalize and nowhere else.
LEMMA StoppedRunsStop == Spec => []StoppedRunsFinalize
<1>1. Init => StoppedRunsFinalize
  BY DEF Init, StoppedRunsFinalize
<1>2. ASSUME TypeOK, StoppedRunsFinalize, [Next]_vars
      PROVE  StoppedRunsFinalize'
  <2> SUFFICES ASSUME status' \in {"cancelled", "failed"}
               PROVE  node' \in {"finalize"} \cup Stopped
    BY DEF StoppedRunsFinalize
  <2>1. CASE UNCHANGED status
    BY <1>2, <2>1, FinalizeEnds DEF StoppedRunsFinalize
  <2>2. CASE Finalize
    BY <2>2 DEF Finalize, Stopped
  <2>3. CASE GateApplies /\ status' # status
    <3>1. /\ node' = RouteAfterGate(hitl_request, "abort")
          /\ hitl_request = Approval \/ hitl_request.kind = "escalation"
      BY <2>3 DEF GateApplies, StatusAfterGate
    <3>2. hitl_request = Approval \/ hitl_request \in EscalationType
      BY <1>2, <3>1 DEF TypeOK, RequestType, NoRequest, FinalAccept
    <3> QED
      BY <3>1, <3>2, GateRoutes
  <2> QED
    BY <1>2, <2>1, <2>2, <2>3, StatusWrites
<1> QED
  BY <1>1, <1>2, TypeCorrect, PTL DEF Spec

\* A new run is a new run of the contract.
LEMMA ContractInit == Init => Contract!Init
BY DEF Init, Contract!Init, Stopped

\* Every super-step is one step of the contract, or none.
LEMMA ContractStep ==
  ASSUME TypeOK, StoppedRunsFinalize, [Next]_vars
  PROVE  [Contract!Next]_(Contract!contract)
<1> USE DEF Contract!contract
<1>0. /\ MaxSteps \in Nat /\ steps_used \in 0..MaxSteps
      /\ status \in {"planning", "cancelled", "failed", "succeeded"}
      /\ node \in Nodes <=> node \notin Stopped
  BY GraphAssumption DEF TypeOK, Nodes, Stopped, Budgeted
<1>1. ASSUME CountedStep, status' \in {status, "planning"}
      PROVE  Contract!Work
  <2>1. /\ node \notin Stopped /\ node' \notin Stopped /\ ~paused /\ ~paused'
        /\ status \notin {"cancelled", "failed"}
        /\ status' \notin {"cancelled", "failed"}
        /\ steps_used < MaxSteps /\ steps_used' = steps_used + 1
    BY <1>0, <1>1
       DEF CountedStep, Completes, CountedSteps, BudgetExceeded, Stopped, Nodes,
           Budgeted, StoppedRunsFinalize
  <2> QED
    BY <2>1, <1>0 DEF Contract!Work, Stopped
<1>2. ASSUME Asks
      PROVE  Contract!Ask
  <2>1. /\ node \notin Stopped /\ node # "finalize" /\ ~paused /\ paused'
        /\ UNCHANGED <<node, status, steps_used>>
    BY <1>2 DEF Asks, PlanAsks, GateAsks, CoderAsks, Pauses, Runs, Scheduled,
                Stopped, budget
  <2> QED
    BY <2>1 DEF Contract!Ask, StoppedRunsFinalize
<1>3. ASSUME NEW a \in Answers, Respond(a)
      PROVE  [Contract!Answer]_(Contract!contract)
  <2>1. paused /\ ~paused' /\ UNCHANGED <<node, status, steps_used>>
    BY <1>3 DEF Respond, budget
  <2> QED
    BY <2>1 DEF Contract!Answer
<1>4. ASSUME GateApplies
      PROVE  [Contract!ToldToStop]_(Contract!contract)
  <2>1. /\ node = "human_gate" /\ node' \in {"plan", "coder", "finalize"}
        /\ ~paused /\ ~paused' /\ UNCHANGED steps_used
        /\ status' \in {status, "cancelled", "failed"}
    BY <1>4, RoutesAreNodes
       DEF GateApplies, Scheduled, StatusAfterGate, budget, TypeOK
  <2> QED
    BY <2>1 DEF Contract!ToldToStop, StoppedRunsFinalize, Stopped
<1>5. ASSUME SkipNode \/ TimeRunsOut \/ StrayWrites \/ UNCHANGED vars
      PROVE  UNCHANGED Contract!contract
  <2>1. /\ UNCHANGED <<status, steps_used, paused>>
        /\ UNCHANGED node \/ (node \notin Stopped /\ node' = "human_gate")
    BY <1>5 DEF SkipNode, TimeRunsOut, StrayWrites, vars, control, budget, Budgeted, Stopped
  <2> QED
    BY <2>1 DEF Stopped
<1>6. ASSUME GateRaises \/ NodeRaises \/ RecursionError
      PROVE  Contract!Close("crashed")
  <2>1. /\ UNCHANGED <<status, steps_used>> /\ ~paused /\ node \notin Stopped
        /\ node' \in Stopped \ {"END"}
    BY <1>6 DEF GateRaises, NodeRaises, RecursionError, budget, Budgeted, Nodes,
                Stopped, Runs, Scheduled
  <2> QED
    BY <2>1 DEF Contract!Close
<1>7. ASSUME Finalize
      PROVE  Contract!Close(status') /\ status' \in Contract!Outcomes
  <2>1. /\ node = "finalize" /\ node' = "END" /\ ~paused /\ UNCHANGED steps_used
        /\ status' = FinalStatus
    BY <1>7 DEF Finalize, Scheduled, budget
  <2> QED
    BY <2>1, <1>0 DEF Contract!Close, Contract!Outcomes, FinalStatus, Stopped
<1> QED
  BY <1>1, <1>2, <1>3, <1>4, <1>5, <1>6, <1>7, StepKinds, StatusWrites
     DEF Contract!Next, Contract!Progress, Contract!Outcomes

\* Every run of the graph keeps the run's contract: it works within its
\* budget, does nothing more once told to stop but end, and ends at most once,
\* as a success only if nobody told it to stop.  That it also goes on when it
\* can is fairness, which the run graph_manual checks.
THEOREM ContractKept == Spec => KeepsContractSafely
<1>1. TypeOK /\ StoppedRunsFinalize /\ [Next]_vars
        => [Contract!Next]_(Contract!contract)
  BY ContractStep
<1> QED
  BY <1>1, ContractInit, TypeCorrect, StoppedRunsStop, PTL
     DEF Spec, KeepsContractSafely
-----------------------------------------------------------------------------
(* Unattended work. *)

NotDone(ts) == {i \in DOMAIN ts : ts[i].status # "done"}

\* Tasks not done are at most as many as tasks, and completing one leaves one
\* less.
LEMMA NotDoneCount ==
  ASSUME NEW ts \in Seq(TaskType)
  PROVE  /\ Cardinality(NotDone(ts)) \in 0..Len(ts)
         /\ \A i \in NotDone(ts) :
              Cardinality(NotDone(Attempted(ts, i, "done"))) + 1
                = Cardinality(NotDone(ts))
<1>0. DOMAIN ts = 1..Len(ts) /\ Len(ts) \in Nat
  OBVIOUS
<1>1. IsFiniteSet(1..Len(ts)) /\ Cardinality(1..Len(ts)) = Len(ts)
  <2>1. /\ IsFiniteSet(1..Len(ts))
        /\ Cardinality(1..Len(ts)) = IF 1 > Len(ts) THEN 0 ELSE Len(ts) - 1 + 1
    BY <1>0, FS_Interval
  <2> QED
    BY <1>0, <2>1
<1>2. NotDone(ts) \subseteq 1..Len(ts)
  BY <1>0 DEF NotDone
<1>3. IsFiniteSet(NotDone(ts)) /\ Cardinality(NotDone(ts)) <= Len(ts)
  BY <1>1, <1>2, FS_Subset
<1>4. Cardinality(NotDone(ts)) \in Nat
  BY <1>3, FS_CardinalityType
<1>5. ASSUME NEW i \in NotDone(ts)
      PROVE  Cardinality(NotDone(Attempted(ts, i, "done"))) + 1
               = Cardinality(NotDone(ts))
  <2> DEFINE us == Attempted(ts, i, "done")
  <2>1. /\ DOMAIN us = DOMAIN ts /\ us[i].status = "done"
        /\ \A j \in DOMAIN ts \ {i} : us[j] = ts[j]
    BY AttemptedTask DEF NotDone, TaskStatus
  <2>2. NotDone(us) = NotDone(ts) \ {i}
    BY <2>1 DEF NotDone
  <2>3. Cardinality(NotDone(ts) \ {i}) = Cardinality(NotDone(ts)) - 1
    BY <1>3, FS_RemoveElement
  <2>4. Cardinality(NotDone(us)) = Cardinality(NotDone(ts)) - 1
    BY <2>2, <2>3
  <2> QED
    BY <1>4, <2>4
<1> QED
  BY <1>0, <1>3, <1>4, <1>5

\* Failures below a cap that are still to come.
BelowCap(cap, used) == IF used + 1 < cap THEN cap - 1 - used ELSE 0

LEMMA BelowCapCounts ==
  ASSUME NEW cap \in Nat, NEW used \in Nat
  PROVE  /\ BelowCap(cap, used) \in Nat
         /\ cap >= 1 => BelowCap(cap, used) <= cap - 1
         /\ used + 1 < cap => BelowCap(cap, used + 1) + 1 = BelowCap(cap, used)
         /\ BelowCap(cap, used + 1) <= BelowCap(cap, used)
BY DEF BelowCap

\* The super-steps that verify and review failures below their caps still cost.
CyclesLeft == 2 * BelowCap(MaxVerifyRetries, retries.verify)
                + 3 * BelowCap(MaxReviewCycles, retries.review)

\* The coder visits each task not done, or comes once to fix.
VisitsLeft == IF Chosen # 0 THEN Cardinality(NotDone(tasks)) ELSE 1

\* The super-steps before the run is at the gate, or at its end.
StepsLeft ==
  IF node = "finalize" THEN 1
  ELSE IF node = "review" THEN 2 + CyclesLeft
  ELSE IF node = "verify" THEN 3 + CyclesLeft
  ELSE IF node = "coder" /\ tasks # <<>> THEN VisitsLeft + 3 + CyclesLeft
  ELSE IF node = "coder" THEN 1
  ELSE 0

CallBound == Len(tasks) + 2 * MaxVerifyRetries + 3 * MaxReviewCycles

\* The steps made and the steps left stay within the bound; nothing can be
\* selected any more once the coder handed over.
WorkIsBounded ==
  /\ node = "plan" => call_steps <= 1
  /\ node = "human_gate" /\ answer # NoAnswer => call_steps = 0
  /\ node \in Budgeted => answer = NoAnswer
  /\ node \in {"verify", "review"} => Chosen = 0
  /\ UniqueIds(tasks) => call_steps + StepsLeft <= CallBound
  /\ tasks = <<>> \/ \E plan \in Drafts \cup HumanEdits : Len(plan) = Len(tasks)

LEMMA StepsLeftType ==
  ASSUME TypeOK
  PROVE  /\ CyclesLeft \in Nat /\ VisitsLeft \in Nat /\ StepsLeft \in Nat
         /\ Len(tasks) \in Nat /\ CallBound \in Nat /\ call_steps \in Nat
         /\ VisitsLeft <= Len(tasks) \/ Len(tasks) = 0
         /\ MaxVerifyRetries >= 1 /\ MaxReviewCycles >= 1
              => CyclesLeft + 5 <= 2 * MaxVerifyRetries + 3 * MaxReviewCycles
<1>1. /\ tasks \in Seq(TaskType) /\ Len(tasks) \in Nat /\ call_steps \in Nat
      /\ MaxVerifyRetries \in Nat /\ MaxReviewCycles \in Nat
      /\ retries.verify \in Nat /\ retries.review \in Nat
  BY GraphAssumption DEF TypeOK
<1>2. /\ CyclesLeft \in Nat
      /\ MaxVerifyRetries >= 1 /\ MaxReviewCycles >= 1
           => CyclesLeft + 5 <= 2 * MaxVerifyRetries + 3 * MaxReviewCycles
  <2> DEFINE v == BelowCap(MaxVerifyRetries, retries.verify)
             r == BelowCap(MaxReviewCycles, retries.review)
  <2>1. /\ v \in Nat /\ (MaxVerifyRetries >= 1 => v <= MaxVerifyRetries - 1)
        /\ r \in Nat /\ (MaxReviewCycles >= 1 => r <= MaxReviewCycles - 1)
    BY <1>1, BelowCapCounts
  <2>2. CyclesLeft = 2 * v + 3 * r
    BY DEF CyclesLeft
  <2> HIDE DEF v, r
  <2> QED
    BY <1>1, <2>1, <2>2
<1>3. VisitsLeft \in Nat /\ (VisitsLeft <= Len(tasks) \/ Len(tasks) = 0)
  BY <1>1, NotDoneCount DEF VisitsLeft
<1>4. StepsLeft \in Nat
  BY <1>2, <1>3 DEF StepsLeft
<1> QED
  BY <1>1, <1>2, <1>3, <1>4 DEF CallBound

\* The run starts with nothing done and nothing spent.
LEMMA BoundedInitially == Init => WorkIsBounded
<1> SUFFICES ASSUME Init PROVE WorkIsBounded
  OBVIOUS
<1>1. TypeOK /\ node = "plan" /\ call_steps = 0 /\ answer = NoAnswer /\ tasks = <<>>
  BY InitTyped DEF Init
<1>2. StepsLeft = 0 /\ CallBound \in Nat
  BY <1>1, StepsLeftType DEF StepsLeft
<1> QED
  BY <1>1, <1>2 DEF WorkIsBounded

\* With nothing chosen nothing can be selected, and with nothing left nothing
\* is chosen.
LEMMA NothingChosen ==
  ASSUME NEW ts, SelectNext(ts) = 0
  PROVE  ChosenTask(ts, NoTask) = 0 /\ RemainingId(ts) = NoTask
BY DEF ChosenTask, RemainingId

\* What the coder does brings the run one super-step nearer to verify or to
\* the gate.
LEMMA CoderApproaches ==
  ASSUME TypeOK, TypeOK', CurrentTaskIsReady, CoderStep, CountedStep
  PROVE  /\ node' \in {"coder", "human_gate", "verify"}
         /\ node' = "verify" => Chosen' = 0
         /\ UniqueIds(tasks') => UniqueIds(tasks) /\ StepsLeft' + 1 <= StepsLeft
         /\ Len(tasks') = Len(tasks)
<1>0. /\ node = "coder" /\ tasks \in Seq(TaskType)
      /\ CyclesLeft \in Nat /\ VisitsLeft \in Nat /\ StepsLeft \in Nat
      /\ node' = RouteAfterCoder(hitl_request', current_task_id', NoTask)
      /\ UNCHANGED retries
  BY StepsLeftType
     DEF TypeOK, CoderStep, CoderHasNoPlan, CoderIsIdle, CoderFixes, CountedStep,
         Completes, CoderFixIsNoOp, CoderAsks, CoderCompletesTask, CoderFails,
         Pauses, CoderRoutes, Runs, Scheduled, gates
<1>1. CyclesLeft' = CyclesLeft
  BY <1>0 DEF CyclesLeft
<1>2. Chosen # 0 => Chosen \in DOMAIN tasks /\ tasks # <<>>
  BY <1>0, ChosenIsIndex DEF Chosen, TypeOK
<1>3. Chosen = 0 => SelectNext(tasks) = 0
  BY DEF Chosen, ChosenTask
<1>4. ASSUME node' = "human_gate", UniqueIds(tasks') => UniqueIds(tasks)
      PROVE  /\ node' = "human_gate"
             /\ UniqueIds(tasks') => UniqueIds(tasks) /\ StepsLeft' + 1 <= StepsLeft
  BY <1>0, <1>4 DEF StepsLeft
<1>5. CASE CoderHasNoPlan \/ CoderFixIsNoOp
  <2>1. node' = "human_gate" /\ UNCHANGED tasks
    BY <1>0, <1>5, GateIffRequest
       DEF CoderHasNoPlan, CoderFixIsNoOp, Requests, Escalation, NoRequest,
           planning
  <2> QED
    BY <1>4, <2>1
<1>6. ASSUME NEW w \in SUBSET WritersOf("coder"), CoderFails(w)
      PROVE  /\ node' = "human_gate" /\ Len(tasks') = Len(tasks)
             /\ UniqueIds(tasks') => UniqueIds(tasks) /\ StepsLeft' + 1 <= StepsLeft
  <2>1. node' = "human_gate"
    BY <1>0, <1>6, GateIffRequest DEF CoderFails, Requests, Escalation, NoRequest
  <2>2. UNCHANGED tasks \/ (Chosen # 0 /\ tasks' = Attempted(tasks, Chosen, "failed"))
    BY <1>6 DEF CoderFails
  <2>3. (UniqueIds(tasks') => UniqueIds(tasks)) /\ Len(tasks') = Len(tasks)
    BY <1>0, <1>2, <2>2, AttemptedTask, AttemptedType DEF TaskStatus
  <2> QED
    BY <1>4, <2>1, <2>3
<1>7. CASE CoderIsIdle \/ CoderFixes
  <2>1. /\ Chosen = 0 /\ tasks # <<>> /\ UNCHANGED tasks
        /\ current_task_id' \in {NoTask, RemainingId(tasks)}
        /\ hitl_request' = NoRequest
    BY <1>7 DEF CoderIsIdle, CoderFixes, HasWork, CoderClearsRequest, Requests
  <2>2. current_task_id' = NoTask /\ ChosenTask(tasks, NoTask) = 0
    BY <1>3, <2>1, NothingChosen
  <2>3. node' = "verify" /\ Chosen' = 0
    BY <1>0, <2>1, <2>2 DEF RouteAfterCoder, Chosen
  <2>4. StepsLeft = 1 + 3 + CyclesLeft /\ StepsLeft' = 3 + CyclesLeft
    BY <1>0, <1>1, <2>1, <2>3 DEF StepsLeft, VisitsLeft
  <2> QED
    BY <1>0, <2>1, <2>3, <2>4
<1>8. ASSUME NEW w \in SUBSET WritersOf("coder"), CoderCompletesTask(w)
      PROVE  /\ node' \in {"coder", "verify"} /\ Len(tasks') = Len(tasks)
             /\ node' = "verify" => Chosen' = 0
             /\ UniqueIds(tasks') => UniqueIds(tasks) /\ StepsLeft' + 1 <= StepsLeft
  <2>1. /\ Chosen # 0 /\ tasks' = Attempted(tasks, Chosen, "done")
        /\ current_task_id' = RemainingId(tasks') /\ hitl_request' = NoRequest
    BY <1>8 DEF CoderCompletesTask, CoderClearsRequest, Requests
  <2>2. /\ tasks' \in Seq(TaskType) /\ Len(tasks') = Len(tasks)
        /\ UniqueIds(tasks') <=> UniqueIds(tasks)
        /\ DOMAIN tasks' = DOMAIN tasks
    <3>1. "done" \in TaskStatus /\ Chosen \in DOMAIN tasks
      BY <1>2, <2>1 DEF TaskStatus
    <3>2. tasks' \in Seq(TaskType) /\ Len(tasks') = Len(tasks)
      BY <1>0, <2>1, <3>1, AttemptedType
    <3>3. (UniqueIds(tasks') <=> UniqueIds(tasks)) /\ DOMAIN tasks' = DOMAIN tasks
      BY <1>0, <2>1, <3>1, AttemptedTask
    <3> QED
      BY <3>2, <3>3
  <2>3. tasks' # <<>> /\ tasks # <<>>
    BY <1>2, <2>1, <2>2
  <2>4. CASE current_task_id' = NoTask
    <3>1. node' = "verify" /\ SelectNext(tasks') = 0
      <4>1. SelectNext(tasks') # 0 => tasks'[SelectNext(tasks')].id \in Ids
        <5>1. SelectNext(tasks') # 0 => SelectNext(tasks') \in DOMAIN tasks'
          BY <2>2, SelectedIsEligible
        <5>2. \A i \in DOMAIN tasks' : tasks'[i] \in TaskType
          BY <2>2, ElementOfSeq
        <5> QED
          BY <5>1, <5>2 DEF TaskType
      <4> QED
        BY <1>0, <2>1, <2>4, <4>1, NoTaskAssumption
           DEF RouteAfterCoder, RemainingId
    <3>2. Chosen' = 0
      BY <2>4, <3>1, NothingChosen DEF Chosen
    <3>3. UniqueIds(tasks) => VisitsLeft >= 1
      <4>1. UniqueIds(tasks) => Chosen \in NotDone(tasks)
        BY <1>2, <2>1, ChosenIsReady DEF NotDone, UniqueIds
      <4> QED
        BY <1>0, <2>1, <2>2, <4>1, NotDoneCount DEF VisitsLeft
    <3>4. StepsLeft' = 3 + CyclesLeft
      BY <1>1, <3>1 DEF StepsLeft
    <3>5. StepsLeft = VisitsLeft + 3 + CyclesLeft
      BY <1>0, <2>3 DEF StepsLeft
    <3> QED
      BY <1>0, <2>2, <3>1, <3>2, <3>3, <3>4, <3>5
  <2>5. CASE current_task_id' # NoTask
    <3>1. node' = "coder"
      BY <1>0, <2>1, <2>5 DEF RouteAfterCoder
    <3>2. ASSUME UniqueIds(tasks) PROVE StepsLeft' + 1 <= StepsLeft
      <4>1. PICK i \in DOMAIN tasks' : tasks'[i].id = current_task_id'
        BY <2>1, <2>2, <2>5, RemainingIsEligible
      <4>2. Lookup(tasks', current_task_id') # 0
        BY <2>2, <3>2, <4>1, LookupFinds DEF UniqueIds
      <4>3. Chosen' # 0
        BY <2>5, <4>2 DEF Chosen, ChosenTask
      <4>4. Chosen \in NotDone(tasks)
        BY <1>2, <2>1, <3>2, ChosenIsReady DEF NotDone, UniqueIds
      <4>5. /\ VisitsLeft = Cardinality(NotDone(tasks))
            /\ VisitsLeft' = Cardinality(NotDone(tasks'))
            /\ Cardinality(NotDone(tasks')) + 1 = Cardinality(NotDone(tasks))
        BY <1>0, <2>1, <4>3, <4>4, NotDoneCount DEF VisitsLeft
      <4>6. Cardinality(NotDone(tasks')) \in Nat
        BY <2>2, NotDoneCount
      <4>7. /\ StepsLeft = VisitsLeft + 3 + CyclesLeft
            /\ StepsLeft' = VisitsLeft' + 3 + CyclesLeft
        BY <1>0, <1>1, <2>3, <3>1 DEF StepsLeft
      <4> QED
        BY <1>0, <4>5, <4>6, <4>7
    <3> QED
      BY <2>2, <3>1, <3>2
  <2> QED
    BY <2>4, <2>5
<1>9. \A w : ~CoderAsks(w)
  BY DEF CoderAsks, Pauses, CountedStep, Completes
<1> QED
  BY <1>5, <1>4, <1>6, <1>7, <1>8, <1>9
     DEF CoderStep, CoderHasNoPlan, CoderFixIsNoOp, CoderIsIdle, CoderFixes,
         planning

\* So does every other step that counts.
LEMMA OthersApproach ==
  ASSUME TypeOK, TypeOK', WorkIsBounded, VerifyPasses \/ VerifyFails \/ ReviewStep,
         CountedStep
  PROVE  /\ node' \in {"coder", "human_gate", "review", "finalize"}
         /\ Chosen' = 0 /\ UNCHANGED tasks
         /\ StepsLeft' + 1 <= StepsLeft
<1>0. /\ CyclesLeft \in Nat /\ CyclesLeft' \in Nat
      /\ retries.verify \in Nat /\ retries.review \in Nat
      /\ MaxVerifyRetries \in Nat /\ MaxReviewCycles \in Nat
  <2>1. /\ retries.verify \in Nat /\ retries.review \in Nat
        /\ retries'.verify \in Nat /\ retries'.review \in Nat
        /\ MaxVerifyRetries \in Nat /\ MaxReviewCycles \in Nat
    BY GraphAssumption DEF TypeOK
  <2>2. /\ BelowCap(MaxVerifyRetries, retries'.verify) \in Nat
        /\ BelowCap(MaxReviewCycles, retries'.review) \in Nat
    BY <2>1, BelowCapCounts
  <2>3. CyclesLeft' \in Nat
    BY <2>2 DEF CyclesLeft
  <2> QED
    BY <2>1, <2>3, StepsLeftType
<1>1. /\ node \in {"verify", "review"} /\ UNCHANGED <<tasks, current_task_id>>
      /\ Chosen = 0
      /\ node' \in {"human_gate", "review", "coder", "finalize"}
  BY RoutesAreNodes
     DEF VerifyPasses, VerifyFails, ReviewStep, Review, ReviewFails, Runs,
         Scheduled, planning, WorkIsBounded
<1>2. Chosen' = 0
  BY <1>1 DEF Chosen
<1>3. node' = "coder" => StepsLeft' = 4 + CyclesLeft' \/ StepsLeft' = 1
  BY <1>2 DEF StepsLeft, VisitsLeft
<1>4. CASE VerifyPasses
  <2>1. node = "verify" /\ node' = "review" /\ UNCHANGED retries
    BY <1>4 DEF VerifyPasses, Runs, Scheduled, Requests, RouteAfterVerify
  <2> QED
    BY <1>0, <1>1, <1>2, <2>1 DEF StepsLeft, CyclesLeft
<1>5. CASE VerifyFails
  <2>1. /\ node = "verify" /\ retries' = CountRetry("verify")
        /\ node' = "human_gate" \/ retries.verify + 1 < MaxVerifyRetries
        /\ node' \in {"human_gate", "coder"}
    BY <1>0, <1>5
       DEF VerifyFails, Runs, Scheduled, Requests, RouteAfterVerify, Escalation,
           NoRequest
  <2>2. /\ retries'.verify = retries.verify + 1
        /\ retries'.review = retries.review
    BY <2>1 DEF CountRetry, TypeOK
  <2>3. retries.verify + 1 < MaxVerifyRetries => CyclesLeft' = CyclesLeft - 2
    BY <1>0, <2>2 DEF CyclesLeft, BelowCap
  <2>4. StepsLeft = 3 + CyclesLeft /\ (node' = "human_gate" => StepsLeft' = 0)
    BY <2>1 DEF StepsLeft
  <2>5. StepsLeft' + 1 <= StepsLeft
    <3>1. CASE node' = "human_gate"
      BY <1>0, <2>4, <3>1
    <3>2. CASE node' = "coder"
      <4>1. CyclesLeft' = CyclesLeft - 2
        BY <2>1, <2>3, <3>2
      <4>2. StepsLeft' = 4 + CyclesLeft' \/ StepsLeft' = 1
        BY <1>3, <3>2
      <4>3. CASE StepsLeft' = 4 + CyclesLeft'
        BY <1>0, <2>4, <4>1, <4>3
      <4>4. CASE StepsLeft' = 1
        BY <1>0, <2>4, <4>1, <4>4
      <4> QED
        BY <4>2, <4>3, <4>4
    <3> QED
      BY <2>1, <3>1, <3>2
  <2> QED
    BY <1>1, <1>2, <2>5
<1>6. CASE ReviewFails
  <2>1. node = "review" /\ node' = "human_gate"
    BY <1>6, GateIffRequest
       DEF ReviewFails, Runs, Scheduled, Requests, Escalation, NoRequest
  <2> QED
    BY <1>0, <1>1, <1>2, <2>1 DEF StepsLeft
<1>7. ASSUME NEW verdict \in {"approved", "changes_requested", "rejected"},
             Review(verdict)
      PROVE  StepsLeft' + 1 <= StepsLeft
  <2>1. /\ node = "review" /\ hitl_request' = ReviewRequest(verdict)
        /\ node' = RouteAfterReview(hitl_request', verdict)
    BY <1>7 DEF Review, Runs, Scheduled, Requests
  <2>2. StepsLeft = 2 + CyclesLeft
    BY <2>1 DEF StepsLeft
  <2>3. CASE node' \in {"human_gate", "finalize"}
    BY <1>0, <2>2, <2>3 DEF StepsLeft
  <2>4. CASE node' = "coder"
    <3>1. verdict = "changes_requested" /\ retries.review + 1 < MaxReviewCycles
      BY <1>0, <2>1, <2>4
         DEF ReviewRequest, RouteAfterReview, Escalation, NoRequest
    <3>2. /\ retries'.review = retries.review + 1
          /\ retries'.verify = retries.verify
      BY <1>7, <3>1 DEF Review, CountRetry, TypeOK
    <3>3. CyclesLeft' = CyclesLeft - 3
      BY <1>0, <3>1, <3>2 DEF CyclesLeft, BelowCap
    <3>4. StepsLeft' = 4 + CyclesLeft' \/ StepsLeft' = 1
      BY <1>3, <2>4
    <3>5. CASE StepsLeft' = 4 + CyclesLeft'
      BY <1>0, <2>2, <3>3, <3>5
    <3>6. CASE StepsLeft' = 1
      BY <1>0, <2>2, <3>3, <3>6
    <3> QED
      BY <3>4, <3>5, <3>6
  <2> QED
    BY <2>1, <2>3, <2>4, RoutesAreNodes
<1> QED
  BY <1>1, <1>2, <1>4, <1>5, <1>6, <1>7 DEF ReviewStep

\* A fresh start at the coder or at finalize fits the bound whatever the
\* counters already hold.
LEMMA FreshStartFits ==
  ASSUME MaxVerifyRetries >= 1, MaxReviewCycles >= 1
  PROVE  TypeOK =>
           /\ CallBound \in Nat /\ CallBound >= 5 /\ StepsLeft \in Nat
           /\ node \in {"coder", "finalize"} => StepsLeft + 2 <= CallBound
<1> SUFFICES ASSUME TypeOK
             PROVE  /\ CallBound \in Nat /\ CallBound >= 5 /\ StepsLeft \in Nat
                    /\ node \in {"coder", "finalize"} => StepsLeft + 2 <= CallBound
  OBVIOUS
<1>1. /\ CyclesLeft \in Nat /\ VisitsLeft \in Nat /\ Len(tasks) \in Nat
      /\ MaxVerifyRetries \in Nat /\ MaxReviewCycles \in Nat
      /\ CyclesLeft + 5 <= 2 * MaxVerifyRetries + 3 * MaxReviewCycles
      /\ tasks \in Seq(TaskType)
  BY StepsLeftType, GraphAssumption DEF TypeOK
<1>2. CallBound \in Nat /\ CallBound >= 5
  BY <1>1 DEF CallBound
<1>3. CASE node = "coder" /\ tasks # <<>>
  <2>1. Len(tasks) # 0
    BY <1>1, <1>3, EmptySeq
  <2>2. VisitsLeft <= Len(tasks)
    BY <2>1, StepsLeftType
  <2>3. StepsLeft = VisitsLeft + 3 + CyclesLeft
    BY <1>3 DEF StepsLeft
  <2> QED
    BY <1>1, <1>2, <2>2, <2>3 DEF CallBound
<1>4. CASE node = "finalize" \/ (node = "coder" /\ tasks = <<>>)
  <2>1. StepsLeft = 1
    BY <1>4 DEF StepsLeft
  <2> QED
    BY <1>2, <2>1
<1>5. StepsLeft \in Nat
  BY StepsLeftType
<1> QED
  BY <1>2, <1>3, <1>4, <1>5

\* Each step of a stream() call uses one of the steps left, and an answer
\* starts a new call.
LEMMA WorkStaysBounded ==
  ASSUME MaxVerifyRetries >= 1, MaxReviewCycles >= 1
  PROVE  Spec => []WorkIsBounded
<1>1. ASSUME TypeOK, TypeOK', GateAsksAFreshQuestion, CurrentTaskIsReady,
             WorkIsBounded, [Next]_vars
      PROVE  WorkIsBounded'
  <2> USE <1>1
  <2>0. /\ call_steps \in Nat /\ StepsLeft \in Nat /\ CallBound \in Nat
        /\ CallBound' \in Nat /\ CallBound' >= 5 /\ StepsLeft' \in Nat
        /\ node' \in {"coder", "finalize"} => StepsLeft' + 2 <= CallBound'
    <3>1. (TypeOK =>
             /\ CallBound \in Nat /\ CallBound >= 5 /\ StepsLeft \in Nat
             /\ node \in {"coder", "finalize"} => StepsLeft + 2 <= CallBound)'
      BY FreshStartFits, PTL
    <3> QED
      BY <3>1, StepsLeftType
  <2>1. CASE CountedStep /\ PlanStep
    <3>1. /\ node = "plan" /\ call_steps <= 1 /\ call_steps' = call_steps + 1
          /\ node' \in {"human_gate", "coder"} /\ answer' = NoAnswer
          /\ \/ tasks' \in Drafts
             \/ node' = "human_gate" /\ UNCHANGED tasks
      BY <2>1, RoutesAreNodes, GateIffRequest
         DEF CountedStep, PlanStep, PlanAsks, PlanFails, PlanDrafts, Completes,
             Pauses, Runs, Scheduled, Budgeted, WorkIsBounded, planning,
             Requests, PlanningFailed, Escalation, NoRequest
    <3>2. call_steps' + StepsLeft' <= CallBound'
      <4>1. CASE node' = "coder"
        <5>1. \A c, l, b \in Nat : c <= 1 /\ l + 2 <= b => c + 1 + l <= b
          OBVIOUS
        <5> QED
          BY <2>0, <3>1, <4>1, <5>1
      <4>2. CASE node' = "human_gate"
        <5>1. StepsLeft' = 0
          BY <4>2 DEF StepsLeft
        <5> QED
          BY <2>0, <3>1, <5>1
      <4> QED
        BY <3>1, <4>1, <4>2
    <3> QED
      BY <3>1, <3>2 DEF WorkIsBounded
  <2>2. CASE CountedStep /\ ~PlanStep
    <3>1. /\ node' \in {"coder", "human_gate", "verify", "review", "finalize"}
          /\ node' \in {"verify", "review"} => Chosen' = 0
          /\ UniqueIds(tasks') => UniqueIds(tasks) /\ StepsLeft' + 1 <= StepsLeft
          /\ Len(tasks') = Len(tasks)
      <4>1. CASE CoderStep
        BY <2>2, <4>1, CoderApproaches
      <4>2. CASE VerifyPasses \/ VerifyFails \/ ReviewStep
        BY <2>2, <4>2, OthersApproach
      <4>3. CoderStep \/ VerifyPasses \/ VerifyFails \/ ReviewStep
        <5>1. call_steps' = call_steps + 1 /\ call_steps' # call_steps
          BY <2>0, <2>2 DEF CountedStep, Completes
        <5> QED
          BY <2>2, <5>1
           DEF Next, System, Human, Terminated, GateAsks, GateApplies, GateRaises,
               Finalize, SkipNode, NodeRaises, RecursionError, Respond,
               TimeRunsOut, StrayWrites, vars, control, Scheduled, CountedStep, Budgeted,
               Nodes
      <4> QED
        BY <4>1, <4>2, <4>3
    <3>2. /\ call_steps' = call_steps + 1 /\ answer' = NoAnswer
          /\ tasks' = <<>> <=> tasks = <<>>
          /\ CallBound' = CallBound
      <4>1. tasks \in Seq(TaskType) /\ tasks' \in Seq(TaskType)
        BY DEF TypeOK
      <4> QED
        BY <2>2, <3>1, <4>1, EmptySeq
           DEF CountedStep, Completes, WorkIsBounded, CallBound
    <3>3. ASSUME UniqueIds(tasks') PROVE call_steps' + StepsLeft' <= CallBound'
      <4>1. call_steps + StepsLeft <= CallBound /\ StepsLeft' + 1 <= StepsLeft
        BY <3>1, <3>3 DEF WorkIsBounded
      <4>2. \A c, k, l, b \in Nat : c + l <= b /\ k + 1 <= l => c + 1 + k <= b
        OBVIOUS
      <4> QED
        BY <2>0, <3>2, <4>1, <4>2
    <3> QED
      BY <3>1, <3>2, <3>3 DEF WorkIsBounded
  <2>3. CASE Asks \/ TimeRunsOut \/ StrayWrites \/ UNCHANGED vars
    <3>1. UNCHANGED <<node, answer, call_steps, tasks, current_task_id, retries>>
      BY <2>3
         DEF Asks, PlanAsks, GateAsks, CoderAsks, Pauses, TimeRunsOut, StrayWrites, vars,
             control, planning, gates
    <3> QED
      BY <3>1
         DEF WorkIsBounded, StepsLeft, VisitsLeft, CyclesLeft, Chosen, CallBound
  <2>4. CASE SkipNode
    <3>1. /\ node' = "human_gate" /\ call_steps' = call_steps + 1
          /\ answer' = NoAnswer /\ UNCHANGED tasks /\ node \in Budgeted
      BY <2>4 DEF SkipNode, WorkIsBounded, planning
    <3>2. StepsLeft' = 0 /\ CallBound' = CallBound
      BY <3>1 DEF StepsLeft, CallBound
    <3>3. ASSUME UniqueIds(tasks') PROVE call_steps' + StepsLeft' <= CallBound'
      <4>1. CASE node = "plan"
        BY <2>0, <3>1, <3>2, <4>1 DEF WorkIsBounded
      <4>2. CASE node # "plan"
        <5>1. StepsLeft >= 1
          BY <2>0, <3>1, <4>2, StepsLeftType DEF StepsLeft, Budgeted
        <5> QED
          BY <2>0, <3>1, <3>2, <3>3, <5>1 DEF WorkIsBounded
      <4> QED
        BY <4>1, <4>2
    <3> QED
      BY <3>1, <3>3 DEF WorkIsBounded, Budgeted
  <2>5. CASE GateApplies
    <3>1. /\ node = "human_gate" /\ call_steps' = 1 /\ answer' = NoAnswer
          /\ node' \in {"plan", "coder", "finalize"}
          /\ UNCHANGED tasks \/ tasks' \in HumanEdits
      <4>1. /\ node = "human_gate" /\ hitl_request # NoRequest
            /\ answer # NoAnswer /\ answer \in Answers /\ call_steps = 0
        BY <2>5 DEF GateApplies, Scheduled, GateAsksAFreshQuestion, TypeOK,
                    WorkIsBounded
      <4>2. answer.edits \in EditsType
        BY <4>1 DEF Answers, EditsType
      <4>3. UNCHANGED tasks \/ tasks' \in HumanEdits
        BY <2>5, <4>2 DEF GateApplies, EditsType
      <4>4. /\ call_steps' = call_steps + 1 /\ answer' = NoAnswer
            /\ node' \in {"plan", "coder", "finalize"}
        BY <2>5, RoutesAreNodes DEF GateApplies, TypeOK
      <4> QED
        BY <2>0, <4>1, <4>3, <4>4
    <3>2. call_steps' + StepsLeft' <= CallBound'
      <4>1. CASE node' = "plan"
        <5>1. StepsLeft' = 0
          BY <4>1 DEF StepsLeft
        <5> QED
          BY <2>0, <3>1, <5>1
      <4>2. CASE node' \in {"coder", "finalize"}
        <5>1. \A l, b \in Nat : l + 2 <= b => 1 + l <= b
          OBVIOUS
        <5> QED
          BY <2>0, <3>1, <4>2, <5>1
      <4> QED
        BY <3>1, <4>1, <4>2
    <3> QED
      BY <3>1, <3>2 DEF WorkIsBounded
  <2>6. ASSUME NEW a \in Answers, Respond(a) PROVE WorkIsBounded'
    <3>1. /\ UNCHANGED <<node, tasks, current_task_id, retries>>
          /\ call_steps' = 0 /\ (node # "human_gate" => UNCHANGED answer)
      BY <2>6 DEF Respond, planning, gates
    <3>2. /\ StepsLeft' = StepsLeft /\ CallBound' = CallBound
          /\ Chosen' = Chosen
      BY <3>1 DEF StepsLeft, VisitsLeft, CyclesLeft, Chosen, CallBound
    <3>3. ASSUME UniqueIds(tasks') PROVE call_steps' + StepsLeft' <= CallBound'
      <4>1. call_steps + StepsLeft <= CallBound
        BY <3>1, <3>3 DEF WorkIsBounded
      <4> QED
        BY <2>0, <3>1, <3>2, <4>1
    <3> QED
      BY <2>0, <3>1, <3>2, <3>3 DEF WorkIsBounded, Budgeted
  <2>7. CASE Finalize
    <3>1. /\ node = "finalize" /\ node' = "END" /\ UNCHANGED tasks
          /\ call_steps' = call_steps + 1
      BY <2>7 DEF Finalize, Scheduled, planning
    <3>2. StepsLeft = 1 /\ StepsLeft' = 0 /\ CallBound' = CallBound
      BY <3>1 DEF StepsLeft, CallBound
    <3>3. ASSUME UniqueIds(tasks') PROVE call_steps' + StepsLeft' <= CallBound'
      BY <2>0, <3>1, <3>2, <3>3 DEF WorkIsBounded
    <3> QED
      BY <3>1, <3>3 DEF WorkIsBounded, Budgeted
  <2>8. CASE GateRaises \/ NodeRaises \/ RecursionError
    <3>1. /\ UNCHANGED <<tasks, call_steps>>
          /\ node' \in {"node_raised", "recursion_error"}
      BY <2>8 DEF GateRaises, NodeRaises, RecursionError, planning
    <3>2. StepsLeft' = 0 /\ CallBound' = CallBound
      BY <3>1 DEF StepsLeft, CallBound
    <3>3. ASSUME UniqueIds(tasks') PROVE call_steps' + StepsLeft' <= CallBound'
      <4>1. call_steps + StepsLeft <= CallBound
        BY <3>1, <3>3 DEF WorkIsBounded
      <4> QED
        BY <2>0, <3>1, <3>2, <4>1
    <3> QED
      BY <3>1, <3>3 DEF WorkIsBounded, Budgeted
  <2> QED
    BY <2>1, <2>2, <2>3, <2>4, <2>5, <2>6, <2>7, <2>8, StepKinds
<1>2. TypeOK /\ [Next]_vars => TypeOK'
  BY StepTyped
<1> QED
  BY <1>1, <1>2, BoundedInitially, FreshQuestions, CurrentTaskStaysReady,
     TypeCorrect, PTL DEF Spec

\* However the models answer, a stream() call over a plan that repeats no id
\* ends, or stops for a human, within a number of super-steps that the plan and
\* the two caps alone give. With a repeated id the step budget alone bounds it.
\* The argument:
\* what the coder still has to visit and the failures still below their caps
\* only ever shrink.  The code's caps are 3 and 2 (core/config.py).
THEOREM RetriesBoundWork ==
  ASSUME MaxVerifyRetries >= 1, MaxReviewCycles >= 1, Drafts # {}
  PROVE  Spec => []RetriesBoundUnattendedWork
<1>1. TypeOK /\ WorkIsBounded => RetriesBoundUnattendedWork
  <2> SUFFICES ASSUME TypeOK, WorkIsBounded, UniqueIds(tasks)
               PROVE  \E plan \in Drafts \cup HumanEdits :
                        call_steps <= Len(plan) + 2 * MaxVerifyRetries
                                        + 3 * MaxReviewCycles
    BY DEF RetriesBoundUnattendedWork
  <2>1. call_steps <= CallBound
    BY StepsLeftType DEF WorkIsBounded
  <2>2. PICK plan \in Drafts \cup HumanEdits : tasks = <<>> \/ Len(plan) = Len(tasks)
    BY DEF WorkIsBounded
  <2>3. Len(tasks) <= Len(plan)
    <3>1. Len(plan) \in Nat /\ Len(<<>>) = 0
      BY GraphAssumption
    <3> QED
      BY <2>2, <3>1
  <2>4. /\ Len(plan) \in Nat /\ Len(tasks) \in Nat /\ call_steps \in Nat
        /\ MaxVerifyRetries \in Nat /\ MaxReviewCycles \in Nat
    BY GraphAssumption DEF TypeOK
  <2> QED
    BY <2>1, <2>3, <2>4 DEF CallBound
<1> QED
  BY <1>1, WorkStaysBounded, TypeCorrect, PTL
=============================================================================
