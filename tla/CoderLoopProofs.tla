-------------------------- MODULE CoderLoopProofs --------------------------
(***************************************************************************)
(* Theorems about the coder's attempt, for any limits, any set of commands *)
(* and of workspace contents, any number of calls in an answer of the      *)
(* model and any number of interrupts.                                     *)
(***************************************************************************)
EXTENDS CoderLoop, FiniteSetTheorems, SequenceTheorems, TLAPS

Live == {"deciding", "acting", "asking"}

\* The budget tracker, against the signatures recorded in the pass: stalled
\* counts how often the last one was repeated at the end of the trail.
TrackerInv ==
  /\ trail \in Seq(Signatures)
  /\ stalled \in 0..NoProgressLimit
  /\ trail = <<>> => stalled = 0 /\ signature = NoSignature
  /\ trail # <<>> =>
       /\ signature = trail[Len(trail)] /\ stalled < Len(trail)
       /\ \A i \in (Len(trail) - stalled)..Len(trail) : trail[i] = signature
       /\ stalled + 1 < Len(trail) => trail[Len(trail) - stalled - 1] # signature
  /\ at \in Live => trail = <<>> \/ stalled < NoProgressLimit
  /\ at = "no_progress" => trail # <<>> /\ stalled >= NoProgressLimit

\* A batch is a sequence of at most MaxBatch calls.
LEMMA BatchesAreSequences ==
  \A calls \in Batches : calls \in Seq(Calls) /\ Len(calls) \in 0..MaxBatch
<1> SUFFICES ASSUME NEW n \in 0..MaxBatch, NEW calls \in [1..n -> Calls]
             PROVE  calls \in Seq(Calls) /\ Len(calls) \in 0..MaxBatch
  BY DEF Batches
<1> n \in Nat
  BY LoopAssumption
<1>1. calls \in Seq(Calls)
  BY SeqDef
<1> QED
  BY <1>1, LenProperties

\* Recording a signature keeps the tracker in step with the trail.
LEMMA RecordingKeepsTracker ==
  ASSUME TrackerInv, at \in Live, NEW sig \in Signatures, EndsStep(sig)
  PROVE  TrackerInv'
<1> USE DEF TrackerInv
<1> NoProgressLimit \in Nat /\ sig # NoSignature
  BY LoopAssumption DEF Signatures
<1>1. /\ trail' = Append(trail, sig) /\ signature' = sig
      /\ stalled' = IF sig = signature THEN stalled + 1 ELSE 0
      /\ at' = IF stalled' >= NoProgressLimit THEN "no_progress" ELSE "deciding"
  BY DEF EndsStep, StalledAfter, GivesUp
<1>2. /\ trail' \in Seq(Signatures) /\ Len(trail') = Len(trail) + 1
      /\ trail'[Len(trail) + 1] = sig
      /\ \A i \in 1..Len(trail) : trail'[i] = trail[i]
      /\ Len(trail) \in Nat /\ trail' # <<>>
  BY <1>1
<1>3. CASE trail = <<>>
  BY <1>1, <1>2, <1>3 DEF Live
<1>4. CASE trail # <<>> /\ sig = signature
  <2>1. stalled' = stalled + 1 /\ stalled' < Len(trail')
    BY <1>1, <1>2, <1>4
  <2>2. \A i \in (Len(trail') - stalled')..Len(trail') : trail'[i] = signature'
    <3> SUFFICES ASSUME NEW i \in (Len(trail) - stalled)..(Len(trail) + 1)
                 PROVE  trail'[i] = sig
      BY <1>1, <1>2, <2>1
    <3>1. CASE i = Len(trail) + 1
      BY <1>2, <3>1
    <3>2. CASE i # Len(trail) + 1
      <4>1. i \in 1..Len(trail) /\ i \in (Len(trail) - stalled)..Len(trail)
        BY <1>2, <1>4, <3>2
      <4> QED
        BY <1>2, <1>4, <4>1
    <3> QED
      BY <3>1, <3>2
  <2>3. stalled' + 1 < Len(trail') => trail'[Len(trail') - stalled' - 1] # signature'
    <3> SUFFICES ASSUME stalled + 1 < Len(trail)
                 PROVE  trail'[Len(trail) - stalled - 1] # sig
      BY <1>1, <1>2, <2>1
    <3>1. Len(trail) - stalled - 1 \in 1..Len(trail)
      BY <1>2
    <3> QED
      BY <1>2, <1>4, <3>1
  <2> QED
    BY <1>1, <1>2, <2>1, <2>2, <2>3 DEF Live
<1>5. CASE trail # <<>> /\ sig # signature
  BY <1>1, <1>2, <1>5 DEF Live
<1> QED
  BY <1>3, <1>4, <1>5

\* A finished call either ends the step or leaves the tracker alone.
LEMMA HandlingKeepsTracker ==
  ASSUME TrackerInv, at \in Live, content' \in Contents, Handles
  PROVE  TrackerInv'
<1>1. CASE Tail(batch) = <<>>
  BY <1>1, RecordingKeepsTracker DEF Handles, Signatures
<1>2. CASE Tail(batch) # <<>>
  BY <1>2 DEF Handles, TrackerInv, tracker
<1> QED
  BY <1>1, <1>2

\* Every action of the loop hands its call on with some content.
LEMMA CallSteps ==
  ASSUME content \in Contents,
         Look \/ Edit \/ CommandRefused \/ CommandRuns \/ CommandAnswered
  PROVE  /\ at = "acting" /\ content' \in Contents /\ Handles
         /\ UNCHANGED answers
BY DEF Look, Edit, CommandRefused, CommandRuns, CommandAnswered, Runs,
       NextCallIs

\* The tracker's counter is right in every reachable state.
LEMMA TrackerHolds == Spec => [](TrackerInv /\ content \in Contents)
<1>1. Init => TrackerInv /\ content \in Contents
  BY LoopAssumption DEF Init, TrackerInv, Live
<1>2. ASSUME TrackerInv, content \in Contents, [Next]_vars
      PROVE  (TrackerInv /\ content \in Contents)'
  <2>1. CASE BudgetIsExceeded \/ Raises \/ FinishTask
    BY <1>2, <2>1 DEF BudgetIsExceeded, Raises, FinishTask, TrackerInv, tracker,
                      Live
  <2>2. CASE Look \/ Edit \/ CommandRefused \/ CommandRuns \/ CommandAnswered
    BY <1>2, <2>2, CallSteps, HandlingKeepsTracker DEF Live
  <2>3. CASE CommandAsks
    BY <1>2, <2>3 DEF CommandAsks, NextCallIs, TrackerInv, tracker, Live
  <2>4. ASSUME NEW calls \in Batches, Chat(calls) PROVE TrackerInv'
    <3>1. CASE calls = <<>>
      BY <1>2, <2>4, <3>1, RecordingKeepsTracker DEF Chat, Live, Signatures
    <3>2. CASE calls # <<>>
      BY <1>2, <2>4, <3>2 DEF Chat, TrackerInv, Live
    <3> QED
      BY <3>1, <3>2
  <2>5. ASSUME NEW reply \in Replies, Resume(reply) PROVE TrackerInv'
    BY <2>5, LoopAssumption DEF Resume, TrackerInv, Live
  <2>6. CASE UNCHANGED vars
    BY <1>2, <2>6 DEF vars, tracker, TrackerInv
  <2> QED
    BY <1>2, <2>1, <2>2, <2>3, <2>4, <2>5, <2>6
       DEF Next, Pass, Done, Chat, Resume, BudgetIsExceeded, Raises, FinishTask,
           CommandAsks
<1> QED
  BY <1>1, <1>2, PTL DEF Spec

\* The counter with which the budget tracker gives up stands for the signatures
\* themselves: the pass ends as soon as the last NoProgressLimit + 1 of them
\* agree, and never for another reason.
THEOREM StallsDetected == Spec => []StallsAreDetected
<1>1. TrackerInv => StallsAreDetected
  <2> SUFFICES ASSUME TrackerInv PROVE StallsAreDetected
    OBVIOUS
  <2> USE DEF TrackerInv
  <2> NoProgressLimit \in Nat /\ Len(trail) \in Nat
    BY LoopAssumption
  <2>1. at = "no_progress" => Stuck(trail)
    BY DEF Stuck
  <2>2. ASSUME at = "deciding", Stuck(trail) PROVE FALSE
    <3>1. trail # <<>> /\ stalled < NoProgressLimit
      BY <2>2 DEF Stuck, Live
    <3>2. Len(trail) - stalled - 1 \in (Len(trail) - NoProgressLimit)..Len(trail)
      BY <3>1
    <3> QED
      BY <2>2, <3>1, <3>2 DEF Stuck
  <2> QED
    BY <2>1, <2>2 DEF StallsAreDetected
<1> QED
  BY <1>1, TrackerHolds, PTL
-----------------------------------------------------------------------------
(* The calls of a pass. *)

\* Every answer handed to the pass was used up by one call of the pass, and a
\* pass makes no more calls than its steps allow.
CallsInv ==
  /\ at \in {"deciding", "acting", "asking"} \cup Outcomes
  /\ steps \in 0..MaxSteps
  /\ batch \in Seq(Calls) /\ Len(batch) <= MaxBatch
  /\ answers \in Seq(Replies)
  /\ used \in 0..Len(answers)
  /\ at \in {"acting", "asking"} => batch # <<>>
  /\ at = "asking" => used = Len(answers)
  /\ at \in Live => used + Len(batch) <= steps * MaxBatch
  /\ at = "deciding" => batch = <<>>
  /\ Len(answers) <= MaxSteps * MaxBatch

\* A step more, or the room for all the steps, is so many calls more.
LEMMA RoomForCalls ==
  ASSUME NEW n \in 0..MaxSteps
  PROVE  /\ n * MaxBatch \in Nat /\ n * MaxBatch <= MaxSteps * MaxBatch
         /\ (n + 1) * MaxBatch = n * MaxBatch + MaxBatch
<1> MaxSteps \in Nat /\ MaxBatch \in Nat
  BY LoopAssumption
<1>1. (MaxSteps - n) * MaxBatch >= 0
  OBVIOUS
<1> QED
  BY <1>1

\* A finished call leaves one call less.
LEMMA HandlingShortensBatch ==
  ASSUME CallsInv, at = "acting", Handles
  PROVE  /\ batch' \in Seq(Calls) /\ Len(batch') = Len(batch) - 1
         /\ at' \in {"acting", "deciding", "no_progress"}
         /\ at' = "acting" => batch' # <<>>
         /\ at' = "deciding" => batch' = <<>>
         /\ UNCHANGED steps
<1> batch # <<>> /\ batch \in Seq(Calls)
  BY DEF CallsInv
<1> batch' = Tail(batch)
  BY DEF Handles
<1> QED
  BY DEF Handles, EndsStep, tracker

\* No pass makes more calls than its steps allow.
LEMMA CallsHold == Spec => []CallsInv
<1> USE DEF CallsInv, Live
<1> MaxSteps \in Nat /\ MaxBatch \in Nat
  BY LoopAssumption
<1>1. Init => CallsInv
  BY RoomForCalls DEF Init
<1>2. ASSUME CallsInv, [Next]_vars PROVE CallsInv'
  <2>1. CASE BudgetIsExceeded \/ Raises \/ FinishTask
    BY <1>2, <2>1 DEF BudgetIsExceeded, Raises, FinishTask, tracker, Outcomes
  <2>2. ASSUME Handles, at = "acting", UNCHANGED answers, used' \in {used, used + 1},
               used' <= Len(answers)
        PROVE  CallsInv'
    BY <1>2, <2>2, HandlingShortensBatch, RoomForCalls DEF Outcomes
  <2>3. CASE Look \/ Edit \/ CommandRefused \/ CommandRuns \/ CommandAnswered
    BY <1>2, <2>2, <2>3 DEF Look, Edit, CommandRefused, CommandRuns,
       CommandAnswered, NextCallIs
  <2>4. CASE CommandAsks
    BY <1>2, <2>4 DEF CommandAsks, NextCallIs, tracker
  <2>5. ASSUME NEW calls \in Batches, Chat(calls) PROVE CallsInv'
    <3>1. calls \in Seq(Calls) /\ Len(calls) \in 0..MaxBatch
      BY BatchesAreSequences
    <3>2. /\ steps' \in 0..MaxSteps /\ steps' = steps + 1
          /\ batch' = calls /\ UNCHANGED <<answers, used>>
      BY <1>2, <2>5 DEF Chat, StepsSpent
    <3>3. steps' * MaxBatch = steps * MaxBatch + MaxBatch
      BY <1>2, <3>2, RoomForCalls
    <3>4. used + Len(calls) <= steps' * MaxBatch
      <4>1. used <= steps * MaxBatch
        BY <1>2, <2>5 DEF Chat
      <4> QED
        BY <1>2, <3>1, <3>3, <4>1, RoomForCalls
    <3>5. at' \in {"acting", "deciding", "no_progress"}
          /\ (at' = "acting" => calls # <<>>) /\ (at' = "deciding" => calls = <<>>)
      BY <2>5 DEF Chat, EndsStep
    <3> QED
      BY <1>2, <3>1, <3>2, <3>4, <3>5 DEF Outcomes
  <2>6. ASSUME NEW reply \in Replies, Resume(reply) PROVE CallsInv'
    <3>1. answers' = Append(answers, reply) /\ at' \in {"deciding", "skipped"}
          /\ steps' = 0 /\ batch' = <<>> /\ used' = 0 /\ at = "asking"
      BY <2>6 DEF Resume, Remembers
    <3>2. Len(answers) + 1 <= steps * MaxBatch
      <4>1. Len(batch) >= 1 /\ used = Len(answers)
        BY <1>2, <3>1
      <4> QED
        BY <1>2, <3>1, <4>1, RoomForCalls
    <3>3. Len(answers') <= MaxSteps * MaxBatch
      BY <1>2, <3>1, <3>2, RoomForCalls
    <3> QED
      BY <1>2, <3>1, <3>3, RoomForCalls DEF Outcomes
  <2>7. CASE UNCHANGED vars
    BY <1>2, <2>7 DEF vars, tracker
  <2> QED
    BY <1>2, <2>1, <2>3, <2>4, <2>5, <2>6, <2>7 DEF Next, Pass, Done
<1> QED
  BY <1>1, <1>2, PTL DEF Spec

\* However the model behaves on each replay, an attempt asks the human no more
\* often than one pass can make calls.
THEOREM PausesBounded == Spec => []PausesAreBounded
<1>1. CallsInv => PausesAreBounded
  BY DEF CallsInv, PausesAreBounded
<1> QED
  BY <1>1, CallsHold, PTL

\* The rest of the types: the histories, and the autonomy of the run.
Histories ==
  /\ ran \in Nat
  /\ acted \in 0..Len(answers)
  /\ autonomy \in {"auto", "semi", "manual"}

\* Type correctness, from what the calls and the tracker keep.
THEOREM LoopTypeCorrect == Spec => []TypeOK
<1>1. Init => Histories
  BY DEF Init, Histories
<1>2. ASSUME CallsInv, Histories, [Next]_vars PROVE Histories'
  <2> USE DEF Histories
  <2>1. ASSUME Runs, UNCHANGED <<answers, autonomy>>, used' \in 0..Len(answers)
        PROVE  Histories'
    BY <1>2, <2>1 DEF Runs
  <2>2. CASE CommandRuns \/ CommandAnswered
    BY <1>2, <2>1, <2>2 DEF CommandRuns, CommandAnswered, CallsInv
  <2>3. ASSUME NEW reply \in Replies, Resume(reply) PROVE Histories'
    BY <1>2, <2>3 DEF Resume, Remembers, CallsInv
  <2>4. CASE UNCHANGED vars
    BY <1>2, <2>4 DEF vars
  <2> QED
    BY <1>2, <2>2, <2>3, <2>4
       DEF Next, Pass, Done, Chat, BudgetIsExceeded, Raises, FinishTask, Look,
           Edit, CommandRefused, CommandAsks
<1>3. ASSUME CallsInv, TrackerInv, content \in Contents, Histories
      PROVE  TypeOK
  <2>1. signature \in Signatures \cup {NoSignature}
    BY <1>3 DEF TrackerInv
  <2> QED
    BY <1>3, <2>1 DEF TypeOK, CallsInv, TrackerInv, Histories
<1> QED
  BY <1>1, <1>2, <1>3, CallsHold, TrackerHolds, PTL DEF Spec
-----------------------------------------------------------------------------
(* The gate before a command. *)

Approvals == {i \in 1..used : answers[i].said = "approve"}

GateInv ==
  /\ ran \in Nat
  /\ autonomy # "auto" => ran <= Cardinality(Approvals)
  /\ at = "asking" => Command \in Allowed

\* The approvals are finitely many.
LEMMA ApprovalsAreFinite ==
  CallsInv => IsFiniteSet(Approvals) /\ Cardinality(Approvals) \in Nat
<1> SUFFICES ASSUME CallsInv
             PROVE  IsFiniteSet(Approvals) /\ Cardinality(Approvals) \in Nat
  OBVIOUS
<1> used \in Nat
  BY DEF CallsInv
<1>1. IsFiniteSet(1..used) /\ Approvals \subseteq 1..used
  BY FS_Interval DEF Approvals
<1> QED
  BY <1>1, FS_Subset, FS_CardinalityType

\* An approval handed to the pass counts for one more.
LEMMA CountingApprovals ==
  ASSUME CallsInv, UNCHANGED answers, used' = used + 1
  PROVE  Cardinality(Approvals)' =
           IF answers[used'].said = "approve"
           THEN Cardinality(Approvals) + 1 ELSE Cardinality(Approvals)
<1> used \in Nat
  BY DEF CallsInv
<1>1. CASE answers[used'].said = "approve"
  <2>1. Approvals' = Approvals \cup {used + 1} /\ used + 1 \notin Approvals
    BY <1>1 DEF Approvals
  <2> QED
    BY <1>1, <2>1, ApprovalsAreFinite, FS_AddElement
<1>2. CASE answers[used'].said # "approve"
  <2>1. Approvals' = Approvals
    BY <1>2 DEF Approvals
  <2> QED
    BY <1>2, <2>1
<1> QED
  BY <1>1, <1>2

\* Under manual and semi autonomy no command runs in a pass without an approval
\* of its own, and a refused command never comes before a human.
THEOREM CommandsGated == Spec => []CommandsAreGated
<1>1. Init => GateInv
  <2> SUFFICES ASSUME Init PROVE GateInv
    OBVIOUS
  <2>1. Approvals = {}
    BY DEF Init, Approvals
  <2> QED
    BY <2>1, FS_EmptySet DEF Init, GateInv
<1>2. ASSUME GateInv, CallsInv, CallsInv', [Next]_vars PROVE GateInv'
  <2> USE DEF GateInv
  <2>1. ASSUME UNCHANGED <<ran, used, answers, autonomy>>, at' # "asking" PROVE GateInv'
    BY <1>2, <2>1 DEF Approvals
  <2>2. CASE BudgetIsExceeded \/ Raises \/ FinishTask
    BY <2>1, <2>2 DEF BudgetIsExceeded, Raises, FinishTask
  <2>3. CASE Look \/ Edit \/ CommandRefused
    BY <1>2, <2>1, <2>3 DEF Look, Edit, CommandRefused, NextCallIs, Handles,
       EndsStep
  <2>4. CASE CommandRuns
    BY <1>2, <2>4 DEF CommandRuns, Gated, Runs, NextCallIs, Handles, EndsStep
  <2>5. CASE CommandAnswered
    <3>1. /\ UNCHANGED <<answers, autonomy>> /\ used' = used + 1 /\ used < Len(answers)
          /\ ran' = IF Accepts(answers[used']) THEN ran + 1 ELSE ran
          /\ at' # "asking"
      BY <2>5 DEF CommandAnswered, Runs, NextCallIs, Handles, EndsStep
    <3> QED
      BY <1>2, <3>1, ApprovalsAreFinite, CountingApprovals DEF Accepts
  <2>6. CASE CommandAsks
    BY <1>2, <2>6 DEF CommandAsks, Command, Approvals
  <2>7. ASSUME NEW calls \in Batches, Chat(calls) PROVE GateInv'
    BY <2>1, <2>7 DEF Chat, EndsStep
  <2>8. ASSUME NEW reply \in Replies, Resume(reply) PROVE GateInv'
    <3>1. ran' = 0 /\ used' = 0 /\ at' # "asking" /\ UNCHANGED autonomy
      BY <2>8 DEF Resume
    <3>2. Approvals' = {}
      BY <3>1 DEF Approvals
    <3> QED
      BY <3>1, <3>2, FS_EmptySet
  <2>9. CASE UNCHANGED vars
    BY <1>2, <2>9 DEF vars, Approvals, Command
  <2> QED
    BY <1>2, <2>2, <2>3, <2>4, <2>5, <2>6, <2>7, <2>8, <2>9 DEF Next, Pass, Done
<1>3. GateInv => CommandsAreGated
  BY DEF GateInv, CommandsAreGated, Approvals
<1> QED
  BY <1>1, <1>2, <1>3, CallsHold, PTL DEF Spec
=============================================================================
