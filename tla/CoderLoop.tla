----------------------------- MODULE CoderLoop -----------------------------
(***************************************************************************)
(* One attempt of the coder at a task: the tool loop of agents/coder.py    *)
(* with the budget of agents/budget.py, the authorization of run_command   *)
(* (tools/authorization.py) and the approval interrupt of                  *)
(* graph/nodes/coder.py.  An interrupt abandons the pass; the node then    *)
(* starts again from its top, on the workspace the abandoned pass left,    *)
(* and LangGraph hands its interrupts the answers given so far in order.   *)
(* A call is reduced to its effect: a "look" changes nothing the loop sees *)
(* (reading tools, git, a call that is refused before it runs), an "edit"  *)
(* may change the files.                                                   *)
(***************************************************************************)
EXTENDS Naturals, Sequences, FiniteSets

CONSTANTS
  Commands, NoCommand,  \* what run_command may be asked to run
  Allowed,              \* the commands _check_command lets through
  Contents,             \* contents of the workspace, as the signature sees it
  NoSignature, NoTool,  \* no signature recorded yet; a step without a call
  Forms,                \* of a resume value: "text" (tests, scripts), "dict" (API)
  MaxSteps,             \* CoderSettings.max_steps_per_task
  NoProgressLimit,      \* CoderSettings.no_progress_limit
  MaxBatch              \* bound: tool calls in one answer of the model

ASSUME LoopAssumption ==
  /\ Allowed \subseteq Commands /\ NoCommand \notin Commands
  /\ Contents # {} /\ {NoSignature, NoTool} \cap Contents = {}
  /\ NoSignature # NoTool /\ Forms \subseteq {"text", "dict"}
  /\ {MaxSteps, NoProgressLimit, MaxBatch} \subseteq Nat

VARIABLES
  at,         \* where the attempt is, or its outcome
  steps,      \* BudgetTracker.steps
  signature,  \* BudgetTracker._last_signature
  stalled,    \* BudgetTracker._no_progress
  batch,      \* tool calls of the current answer not handled yet
  content,    \* the files of the workspace
  answers,    \* the resume values of this attempt's interrupts
  used,       \* how many of them the current pass has been handed
  trail,      \* history: the signatures recorded in this pass
  ran,        \* history: commands run in this pass
  acted,      \* history: the last answer of the attempt a command ran under
  autonomy    \* of the run's state, which no node changes

tracker == <<steps, signature, stalled, trail>>
vars == <<at, tracker, batch, content, answers, used, ran, acted, autonomy>>

Outcomes == {"completed", "no_progress", "budget_exceeded", "raised", "skipped"}
Calls == [tool : {"look", "edit", "finish_task"}, command : {NoCommand}]
           \cup [tool : {"run_command"}, command : Commands]
Batches == UNION {[1..n -> Calls] : n \in 0..MaxBatch}
Replies == [said : {"approve", "deny"}, form : Forms]
Signatures == Contents \cup {NoTool}

TypeOK ==
  /\ at \in {"deciding", "acting", "asking"} \cup Outcomes
  /\ steps \in 0..MaxSteps
  /\ signature \in Signatures \cup {NoSignature}
  /\ stalled \in 0..NoProgressLimit
  /\ batch \in Seq(Calls) /\ Len(batch) <= MaxBatch
  /\ content \in Contents
  /\ answers \in Seq(Replies)
  /\ used \in 0..Len(answers)
  /\ trail \in Seq(Signatures)
  /\ ran \in Nat
  /\ acted \in 0..Len(answers)
  /\ autonomy \in {"auto", "semi", "manual"}

Init ==
  /\ at = "deciding"
  /\ steps = 0 /\ signature = NoSignature /\ stalled = 0 /\ trail = <<>>
  /\ batch = <<>> /\ used = 0 /\ answers = <<>>
  /\ content \in Contents
  /\ ran = 0 /\ acted = 0
  /\ autonomy \in {"auto", "semi", "manual"}
-----------------------------------------------------------------------------
StepsOverrun == steps > MaxSteps

StepsSpent == steps >= MaxSteps

\* exceeded_reason: the steps are spent, or the time or the tokens may be.
BudgetIsExceeded ==
  /\ at = "deciding"
  /\ at' = "budget_exceeded"
  /\ UNCHANGED <<tracker, batch, content, answers, used, ran, acted, autonomy>>

StalledWithoutTool(sig) ==
  IF sig \in {signature, NoTool} THEN stalled + 1 ELSE 0

StalledAfter(sig) == IF sig = signature THEN stalled + 1 ELSE 0

GivesUp(repeats) == repeats >= NoProgressLimit

\* record_progress and no_progress_reason at the end of a step.
EndsStep(sig) ==
  /\ stalled' = StalledAfter(sig)
  /\ signature' = sig
  /\ trail' = Append(trail, sig)
  /\ at' = IF GivesUp(stalled') THEN "no_progress" ELSE "deciding"

\* The model answers with some calls, or with none.
Chat(calls) ==
  /\ at = "deciding" /\ ~StepsSpent
  /\ steps' = steps + 1
  /\ batch' = calls
  /\ IF calls = <<>>
     THEN EndsStep(NoTool)
     ELSE at' = "acting" /\ UNCHANGED <<signature, stalled, trail>>
  /\ UNCHANGED <<content, answers, used, ran, acted, autonomy>>

\* chat() or the reading of the files raises through the node; a tool that
\* raises is caught and is a "look".
Raises ==
  /\ (at = "deciding" /\ ~StepsSpent) \/ at = "acting"
  /\ at' = "raised"
  /\ UNCHANGED <<tracker, batch, content, answers, used, ran, acted, autonomy>>

NextCallIs(tool) == at = "acting" /\ Head(batch).tool = tool

\* One call is done; the last one of the batch ends the step.
Handles ==
  /\ batch' = Tail(batch)
  /\ IF Tail(batch) = <<>>
     THEN EndsStep(content') /\ UNCHANGED steps
     ELSE UNCHANGED <<at, tracker>>

\* The calls behind finish_task are dropped.
FinishTask ==
  /\ NextCallIs("finish_task")
  /\ at' = "completed"
  /\ UNCHANGED <<tracker, batch, content, answers, used, ran, acted, autonomy>>

Look ==
  /\ NextCallIs("look")
  /\ content' = content
  /\ Handles
  /\ UNCHANGED <<answers, used, ran, acted, autonomy>>

Edit ==
  /\ NextCallIs("edit")
  /\ content' \in Contents
  /\ Handles
  /\ UNCHANGED <<answers, used, ran, acted, autonomy>>
-----------------------------------------------------------------------------
(* run_command *)

Command == Head(batch).command

GatedInSemiOnly == autonomy = "semi"

Gated == autonomy # "auto"

Runs ==
  /\ content' \in Contents
  /\ ran' = ran + 1
  /\ acted' = IF used' > acted THEN used' ELSE acted

\* str(answer).strip().lower() in ("approve", "yes", "true")
Accepts(reply) == reply.form = "text" /\ reply.said = "approve"

CommandRefused ==
  /\ NextCallIs("run_command") /\ Command \notin Allowed
  /\ content' = content
  /\ Handles
  /\ UNCHANGED <<answers, used, ran, acted, autonomy>>

CommandRuns ==
  /\ NextCallIs("run_command") /\ Command \in Allowed /\ ~Gated
  /\ UNCHANGED <<answers, used, autonomy>>
  /\ Runs
  /\ Handles

\* interrupt() returns at once: the answer was given to an earlier pass.
CommandAnswered ==
  /\ NextCallIs("run_command") /\ Command \in Allowed /\ Gated
  /\ used < Len(answers)
  /\ used' = used + 1
  /\ IF Accepts(answers[used'])
     THEN Runs ELSE UNCHANGED <<content, ran, acted>>
  /\ Handles
  /\ UNCHANGED <<answers, autonomy>>

CommandAsks ==
  /\ NextCallIs("run_command") /\ Command \in Allowed /\ Gated
  /\ used = Len(answers)
  /\ at' = "asking"
  /\ UNCHANGED <<tracker, batch, content, answers, used, ran, acted, autonomy>>

RemembersNothing(reply) == answers

Remembers(reply) == Append(answers, reply)

\* The human answers: a new pass, unless the run's own budget ran out
\* meanwhile (instrument.py).
Resume(reply) ==
  /\ at = "asking"
  /\ answers' = Remembers(reply)
  /\ at' \in {"deciding", "skipped"}
  /\ steps' = 0 /\ signature' = NoSignature /\ stalled' = 0 /\ trail' = <<>>
  /\ batch' = <<>> /\ used' = 0 /\ ran' = 0
  /\ UNCHANGED <<content, acted, autonomy>>

Done == at \in Outcomes /\ UNCHANGED vars

Pass ==
  \/ BudgetIsExceeded \/ Raises \/ FinishTask \/ Look \/ Edit
  \/ CommandRefused \/ CommandRuns \/ CommandAnswered \/ CommandAsks
  \/ \E calls \in Batches : Chat(calls)

Next == Pass \/ Done \/ \E reply \in Replies : Resume(reply)

Spec == Init /\ [][Next]_vars

\* The driver thread keeps running the pass.
FairSpec == Spec /\ WF_vars(Pass)
-----------------------------------------------------------------------------
(* Properties *)

\* Whenever the autonomy is not auto, each command run in a pass was let run
\* by an approval handed to that pass and to no other command of it, and only
\* an allowed command comes before a human (authorization.py:122-139,
\* whose comment insists that manual is gated too).
CommandsAreGated ==
  /\ autonomy # "auto" =>
       ran <= Cardinality({i \in 1..used : answers[i].said = "approve"})
  /\ at = "asking" => Command \in Allowed

\* The last NoProgressLimit + 1 recorded steps left the same signature.
Stuck(sigs) ==
  /\ Len(sigs) > NoProgressLimit
  /\ \A i \in (Len(sigs) - NoProgressLimit)..Len(sigs) : sigs[i] = sigs[Len(sigs)]

\* The counter of the budget tracker gives up exactly when the pass is stuck:
\* never before, and at once (budget.py:64-75, coder.py:130-133 and 155-157).
StallsAreDetected ==
  /\ at = "no_progress" => Stuck(trail)
  /\ at = "deciding" => ~Stuck(trail)

\* The step budget starts anew with every pass, and bounds the attempt all the
\* same: the answers given so far are used up by index, so a human is asked at
\* most once for each call a single pass can make.
PausesAreBounded == Len(answers) <= MaxSteps * MaxBatch

\* A human who answers every question sees the attempt end.
AttemptEnds ==
  WF_vars(\E reply \in Replies : Resume(reply)) => <>(at \in Outcomes)

\* graph/nodes/coder.py:20-24: prior steps replay before the same interrupt
\* point, and "read tools are idempotent so this is safe": an approval that a
\* command has run under runs no command a second time.
ApprovalsAreSpentOnce ==
  [][ran' > ran /\ autonomy # "auto" => used' > acted]_vars

\* README.md:619-620: the API answers pauses by "the same mechanism the tests
\* and CLI use, now over HTTP": an approval lets the command run.
ApprovalsAreHonoured ==
  Cardinality({i \in 1..used : answers[i].said = "approve"}) <= ran
=============================================================================
