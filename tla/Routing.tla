------------------------------ MODULE Routing ------------------------------
(***************************************************************************)
(* graph/routing.py: the conditional edges, as functions of the state      *)
(* fields they read.  A request is reduced to its kind, the node a retry   *)
(* returns to (payload.origin_node) and the reason it was raised, which    *)
(* stands for the text in `context`.                                       *)
(***************************************************************************)

NoRequest == [kind |-> "none", origin |-> "none", reason |-> "none"]
Approval == [kind |-> "plan_approval", origin |-> "none", reason |-> "review_plan"]
FinalAccept == [kind |-> "final_accept", origin |-> "none", reason |-> "accept_change"]
Escalation(from, why) == [kind |-> "escalation", origin |-> from, reason |-> why]

EscalationReasons ==
  {"planning_failed", "no_plan", "task_failed", "fix_made_no_changes",
   "verify_cap", "rejected", "review_cap", "review_failed", "budget"}

EscalationType ==
  [kind : {"escalation"}, origin : {"plan", "coder"}, reason : EscalationReasons]

RequestType == EscalationType \cup {NoRequest, Approval, FinalAccept}

RouteAfterPlan(request) ==
  IF request # NoRequest THEN "human_gate" ELSE "coder"

RouteAfterGate(request, decision) ==
  CASE request.kind = "plan_approval" /\ decision = "approve" -> "coder"
    [] request.kind = "plan_approval" /\ decision = "revise"  -> "plan"
    [] request.kind = "escalation" /\ decision = "retry"      -> request.origin
    [] request.kind = "final_accept" /\ decision # "accept"   -> "coder"
    [] OTHER                                                  -> "finalize"

RouteAfterCoder(request, task_id, no_task) ==
  CASE request # NoRequest -> "human_gate"
    [] request = NoRequest /\ task_id # no_task -> "coder"
    [] OTHER -> "verify"

RouteAfterVerify(request, result) ==
  CASE request # NoRequest -> "human_gate"
    [] request = NoRequest /\ result = "passed" -> "review"
    [] OTHER -> "coder"

RouteAfterReviewAnyVerdict(request, verdict) ==
  IF request # NoRequest THEN "human_gate" ELSE "finalize"

RouteAfterReview(request, verdict) ==
  CASE request # NoRequest -> "human_gate"
    [] request = NoRequest /\ verdict = "approved" -> "finalize"
    [] OTHER -> "coder"
=============================================================================
