-------------------------- MODULE RunManagerProofs --------------------------
(***************************************************************************)
(* Theorems about the run manager, for any number of runs, clients and SSE *)
(* connections, any number of stream() calls and any length of event list. *)
(***************************************************************************)
EXTENDS RunManager, SequenceTheorems, TLAPS

\* One name per action, for the proofs by cases.
LEMMA ManagerStepCases ==
  ASSUME [Next]_vars
  PROVE  \/ \E r \in Runs : Start(r) \/ Thread(r)
         \/ \E c \in Clients : Answering(c)
         \/ \E t \in Tailers : Poll(t) \/ \E r \in Runs : Connect(t, r)
         \/ UNCHANGED vars
BY DEF Next, AllDone

\* Requests and connections move no thread and hold no slot.
LEMMA OthersLeaveThreads ==
  /\ \A c \in Clients : Answering(c) =>
       UNCHANGED <<slot, pc, status, events, finished, tail>>
  /\ \A t \in Tailers : Poll(t) =>
       UNCHANGED <<slot, pc, status, events, finished>>
  /\ \A t \in Tailers, r \in Runs : Connect(t, r) =>
       UNCHANGED <<slot, pc, status, events, finished>>
BY DEF Answering, ReadQuestion, CheckStatus, PutAnswer, Poll, Connect, worker,
       shared
-----------------------------------------------------------------------------
(* The run slot. *)

SlotInv ==
  /\ slot \in {0, 1}
  /\ pc \in [Runs -> Positions]
  /\ SlotIsExclusive

\* How a step of a thread treats the slot.
LEMMA SlotSteps ==
  ASSUME NEW r \in Runs, pc \in [Runs -> Positions], Start(r) \/ Thread(r)
  PROVE  \/ UNCHANGED <<slot, pc>>
         \/ /\ UNCHANGED slot
            /\ \E to \in Positions :
                 /\ pc' = [pc EXCEPT ![r] = to]
                 /\ to \in Holding <=> pc[r] \in Holding
         \/ /\ slot > 0 /\ slot' = slot - 1
            /\ pc' = [pc EXCEPT ![r] = "starting"]
         \/ /\ slot' = slot + 1 /\ pc[r] \in Holding
            /\ \E to \in Positions \ Holding : pc' = [pc EXCEPT ![r] = to]
<1> USE DEF Moves, Positions, Holding
<1>1. CASE Start(r) \/ QueueUp(r) \/ RecordError(r) \/ Finish(r)
  BY <1>1 DEF Start, QueueUp, RecordError, Finish
<1>2. CASE AcquireNow(r) \/ AcquireBlocking(r)
  BY <1>2 DEF AcquireNow, AcquireBlocking, SlotIsFree
<1>3. CASE BeginRun(r) \/ GraphInterrupts(r) \/ AwaitHuman(r) \/ TakeAnswer(r)
  BY <1>3 DEF BeginRun, GraphInterrupts, AwaitHuman, TakeAnswer
<1>4. CASE ClearPending(r) \/ ResumeRun(r)
  BY <1>4 DEF ClearPending, ResumeRun
<1>5. CASE GraphEnds(r) \/ GraphRaises(r) \/ ReportDone(r)
  BY <1>5 DEF GraphEnds, GraphRaises, ReportDone
<1>6. CASE GraphEmits(r)
  BY <1>6 DEF GraphEmits, worker
<1>7. CASE Release(r)
  <2>1. pc' = [pc EXCEPT ![r] = IF pc[r] = "failing" THEN "recording"
                                                     ELSE "finishing"]
    BY <1>7 DEF Release
  <2> QED
    BY <1>7, <2>1 DEF Release
<1> QED
  BY <1>1, <1>2, <1>3, <1>4, <1>5, <1>6, <1>7 DEF Thread

LEMMA SlotInvHolds == Spec => []SlotInv
<1>1. Init => SlotInv
  BY DEF Init, SlotInv, SlotIsExclusive, Holding, Positions
<1>2. ASSUME SlotInv, [Next]_vars PROVE SlotInv'
  <2> USE <1>2 DEF SlotInv, SlotIsExclusive
  <2>1. CASE UNCHANGED <<slot, pc>>
    BY <2>1
  <2>2. ASSUME NEW r \in Runs, NEW to \in Positions, UNCHANGED slot,
               pc' = [pc EXCEPT ![r] = to], to \in Holding <=> pc[r] \in Holding
        PROVE  SlotInv'
    BY <2>2
  <2>3. ASSUME NEW r \in Runs, slot > 0, slot' = slot - 1,
               pc' = [pc EXCEPT ![r] = "starting"]
        PROVE  SlotInv'
    <3>1. slot' = 0 /\ "starting" \in Holding /\ \A s \in Runs : pc[s] \notin Holding
      BY <2>3 DEF Holding
    <3> QED
      BY <2>3, <3>1 DEF Positions
  <2>4. ASSUME NEW r \in Runs, NEW to \in Positions \ Holding, slot' = slot + 1,
               pc[r] \in Holding, pc' = [pc EXCEPT ![r] = to]
        PROVE  SlotInv'
    <3>1. slot' = 1 /\ \A s \in Runs \ {r} : pc[s] \notin Holding
      BY <2>4
    <3> QED
      BY <2>4, <3>1
  <2>5. ASSUME NEW r \in Runs, Start(r) \/ Thread(r) PROVE SlotInv'
    BY <2>1, <2>2, <2>3, <2>4, <2>5, SlotSteps
  <2> QED
    BY <2>1, <2>5, ManagerStepCases, OthersLeaveThreads DEF vars, worker
<1> QED
  BY <1>1, <1>2, PTL DEF Spec

\* At most one run holds the slot, and the slot is free exactly when none
\* does: no path through the driver's handlers loses or doubles the permit.
THEOREM SlotExclusive == Spec => []SlotIsExclusive
<1>1. SlotInv => SlotIsExclusive
  BY DEF SlotInv
<1> QED
  BY <1>1, SlotInvHolds, PTL
-----------------------------------------------------------------------------
(* The end of a run, and of its event stream. *)

\* The run's last event says how it ended.
Reported(r) ==
  /\ status[r] \in {"done", "error"}
  /\ events[r] # <<>> /\ events[r][Len(events[r])] = status[r]

ReportInv ==
  /\ pc \in [Runs -> Positions]
  /\ status \in [Runs -> {"queued", "running", "waiting_human", "done", "error"}]
  /\ finished \in [Runs -> BOOLEAN]
  /\ events \in [Runs -> Seq(EventTypes)]
  /\ \A r \in Runs : pc[r] \in {"releasing", "finishing", "gone"} => Reported(r)
  /\ \A r \in Runs : finished[r] => pc[r] = "gone"

Statuses == {"queued", "running", "waiting_human", "done", "error"}

\* A run's thread touches its own run only, and keeps the types.
LEMMA ThreadFrame ==
  ASSUME NEW r \in Runs, ReportInv, Start(r) \/ Thread(r)
  PROVE  /\ \E p \in Positions : pc' = [pc EXCEPT ![r] = p]
         /\ \E s \in Statuses : status' = [status EXCEPT ![r] = s]
         /\ \/ UNCHANGED events
            \/ \E type \in EventTypes :
                 events' = [events EXCEPT ![r] = Append(events[r], type)]
         /\ \E f \in BOOLEAN : finished' = [finished EXCEPT ![r] = f]
<1> USE DEF ReportInv, Statuses
<1>0. /\ pc = [pc EXCEPT ![r] = pc[r]] /\ status = [status EXCEPT ![r] = status[r]]
      /\ finished = [finished EXCEPT ![r] = finished[r]]
      /\ pc[r] \in Positions /\ status[r] \in Statuses /\ finished[r] \in BOOLEAN
  OBVIOUS
<1>1. \E p \in Positions : pc' = [pc EXCEPT ![r] = p]
  <2>1. CASE Release(r)
    BY <2>1 DEF Release, Positions
  <2>2. CASE ~Release(r)
    BY <1>0, <2>2 DEF Thread, Start, AcquireNow, QueueUp, AcquireBlocking,
       BeginRun, GraphEmits, GraphInterrupts, AwaitHuman, TakeAnswer,
       ClearPending, ResumeRun, GraphEnds, GraphRaises, ReportDone, RecordError,
       Finish, Moves, worker, Positions, Holding
  <2> QED
    BY <2>1, <2>2
<1>2. \E s \in Statuses : status' = [status EXCEPT ![r] = s]
  BY <1>0 DEF Thread, Start, AcquireNow, QueueUp, AcquireBlocking, BeginRun,
     GraphEmits, GraphInterrupts, AwaitHuman, TakeAnswer, ClearPending,
     ResumeRun, GraphEnds, GraphRaises, ReportDone, Release, RecordError,
     Finish, Shows, shared
<1>3. \/ UNCHANGED events
      \/ \E type \in EventTypes :
           events' = [events EXCEPT ![r] = Append(events[r], type)]
  BY DEF Thread, Start, AcquireNow, QueueUp, AcquireBlocking, BeginRun,
     GraphEmits, GraphInterrupts, AwaitHuman, TakeAnswer, ClearPending,
     ResumeRun, GraphEnds, GraphRaises, ReportDone, Release, RecordError,
     Finish, Emits, shared, EventTypes
<1>4. \E f \in BOOLEAN : finished' = [finished EXCEPT ![r] = f]
  BY <1>0 DEF Thread, Start, AcquireNow, QueueUp, AcquireBlocking, BeginRun,
     GraphEmits, GraphInterrupts, AwaitHuman, TakeAnswer, ClearPending,
     ResumeRun, GraphEnds, GraphRaises, ReportDone, Release, RecordError,
     Finish, shared
<1> QED
  BY <1>1, <1>2, <1>3, <1>4

\* A thread reports before it finishes, and says nothing afterwards.
LEMMA ThreadReports ==
  ASSUME NEW r \in Runs, ReportInv, Start(r) \/ Thread(r)
  PROVE  /\ pc'[r] \in {"releasing", "finishing", "gone"} => Reported(r)'
         /\ finished'[r] => pc'[r] = "gone"
         /\ pc[r] # "gone"
<1> USE DEF ReportInv
<1>0. pc[r] # "gone"
  BY DEF Start, Thread, AcquireNow, QueueUp, AcquireBlocking, BeginRun,
     GraphEmits, GraphInterrupts, AwaitHuman, TakeAnswer, ClearPending,
     ResumeRun, GraphEnds, GraphRaises, ReportDone, Release, RecordError,
     Finish, Moves
<1>1. CASE ReportDone(r) \/ RecordError(r)
  <2>1. PICK type \in {"done", "error"} :
          /\ status' = [status EXCEPT ![r] = type]
          /\ events' = [events EXCEPT ![r] = Append(events[r], type)]
          /\ UNCHANGED finished
    BY <1>1 DEF ReportDone, RecordError, Shows, Emits
  <2>2. /\ status'[r] = type /\ events'[r] = Append(events[r], type)
        /\ events[r] \in Seq(EventTypes) /\ type \in EventTypes
    BY <2>1 DEF EventTypes
  <2>3. Len(events'[r]) = Len(events[r]) + 1 /\ events'[r][Len(events'[r])] = type
        /\ events'[r] # <<>>
    BY <2>2, AppendProperties
  <2> QED
    BY <1>0, <2>1, <2>2, <2>3 DEF Reported
<1>2. CASE Release(r) \/ Finish(r)
  <2>1. /\ UNCHANGED <<status, events>>
        /\ pc'[r] = "recording" \/ pc[r] \in {"releasing", "finishing"}
        /\ finished'[r] => pc'[r] = "gone"
    BY <1>0, <1>2 DEF Release, Finish, Moves, shared
  <2>2. pc'[r] # "recording" => Reported(r)'
    BY <2>1 DEF Reported
  <2> QED
    BY <1>0, <2>1, <2>2
<1>3. CASE ~(ReportDone(r) \/ RecordError(r) \/ Release(r) \/ Finish(r))
  <2>1. UNCHANGED finished
    BY <1>3 DEF Start, Thread, AcquireNow, QueueUp, AcquireBlocking, BeginRun,
       GraphEmits, GraphInterrupts, AwaitHuman, TakeAnswer, ClearPending,
       ResumeRun, GraphEnds, GraphRaises, shared
  <2>2. pc'[r] \notin {"releasing", "finishing", "gone"}
    BY <1>3 DEF Start, Thread, AcquireNow, QueueUp, AcquireBlocking, BeginRun,
       GraphEmits, GraphInterrupts, AwaitHuman, TakeAnswer, ClearPending,
       ResumeRun, GraphEnds, GraphRaises, Moves, worker
  <2> QED
    BY <1>0, <2>1, <2>2
<1> QED
  BY <1>0, <1>1, <1>2, <1>3

\* The reporting invariant.
LEMMA ReportInvHolds == Spec => []ReportInv
<1>1. Init => ReportInv
  BY EmptySeq DEF Init, ReportInv, Positions
<1>2. ASSUME ReportInv, [Next]_vars PROVE ReportInv'
  <2>1. CASE UNCHANGED <<pc, status, events, finished>>
    BY <1>2, <2>1 DEF ReportInv, Reported
  <2>2. ASSUME NEW r \in Runs, Start(r) \/ Thread(r) PROVE ReportInv'
    <3>1. PICK p \in Positions, s \in Statuses, f \in BOOLEAN :
            /\ pc' = [pc EXCEPT ![r] = p] /\ status' = [status EXCEPT ![r] = s]
            /\ finished' = [finished EXCEPT ![r] = f]
      BY <1>2, <2>2, ThreadFrame
    <3>2. /\ events' \in [Runs -> Seq(EventTypes)]
          /\ \A q \in Runs \ {r} : events'[q] = events[q]
      <4>1. CASE UNCHANGED events
        BY <1>2, <4>1 DEF ReportInv
      <4>2. ASSUME NEW type \in EventTypes,
                   events' = [events EXCEPT ![r] = Append(events[r], type)]
            PROVE  /\ events' \in [Runs -> Seq(EventTypes)]
                   /\ \A q \in Runs \ {r} : events'[q] = events[q]
        <5>1. Append(events[r], type) \in Seq(EventTypes)
          BY <1>2, AppendProperties DEF ReportInv
        <5> QED
          BY <1>2, <4>2, <5>1 DEF ReportInv
      <4> QED
        BY <1>2, <2>2, <4>1, <4>2, ThreadFrame
    <3>3. /\ pc' \in [Runs -> Positions] /\ status' \in [Runs -> Statuses]
          /\ finished' \in [Runs -> BOOLEAN]
      BY <1>2, <3>1 DEF ReportInv, Statuses
    <3>4. ASSUME NEW q \in Runs
          PROVE  /\ pc'[q] \in {"releasing", "finishing", "gone"} => Reported(q)'
                 /\ finished'[q] => pc'[q] = "gone"
      <4>1. CASE q = r
        BY <1>2, <2>2, <4>1, ThreadReports
      <4>2. CASE q # r
        <5>1. /\ pc'[q] = pc[q] /\ status'[q] = status[q]
              /\ finished'[q] = finished[q] /\ events'[q] = events[q]
          BY <1>2, <3>1, <3>2, <4>2 DEF ReportInv
        <5> QED
          BY <1>2, <5>1 DEF ReportInv, Reported
      <4> QED
        BY <4>1, <4>2
    <3> QED
      BY <3>2, <3>3, <3>4 DEF ReportInv, Statuses
  <2> QED
    BY <1>2, <2>1, <2>2, ManagerStepCases, OthersLeaveThreads
       DEF vars, worker, shared
<1> QED
  BY <1>1, <1>2, PTL DEF Spec

\* Once _finished is set, the status is terminal and the last event says so:
\* a reader that sees the flag misses nothing.
THEOREM FinishedFinal == Spec => []FinishedIsFinal
<1>1. ReportInv => FinishedIsFinal
  BY DEF ReportInv, FinishedIsFinal, Reported
<1> QED
  BY <1>1, ReportInvHolds, PTL

TailInv ==
  /\ tail \in [Tailers -> [at : {"open", "ended"}, run : Runs, index : Nat]
                          \cup {Closed}]
  /\ EndedTailSawEverything

LEMMA TailInvHolds == Spec => []TailInv
<1>1. Init => TailInv
  BY DEF Init, TailInv, EndedTailSawEverything, Closed
<1>2. ASSUME ReportInv, TailInv, [Next]_vars
      PROVE  TailInv'
  <2> USE <1>2 DEF TailInv, EndedTailSawEverything
  <2>1. CASE UNCHANGED <<events, finished, tail>>
    BY <2>1
  <2>2. ASSUME NEW r \in Runs, Start(r) \/ Thread(r) PROVE TailInv'
    <3>1. UNCHANGED tail
      BY <2>2 DEF Start, Thread, AcquireNow, QueueUp, AcquireBlocking, BeginRun,
         GraphEmits, GraphInterrupts, AwaitHuman, TakeAnswer, ClearPending,
         ResumeRun, GraphEnds, GraphRaises, ReportDone, Release, RecordError,
         Finish
    <3>2. \A q \in Runs \ {r} : events'[q] = events[q] /\ finished'[q] = finished[q]
      <4>1. \A q \in Runs \ {r} : finished'[q] = finished[q]
        BY <2>2, ThreadFrame DEF ReportInv
      <4>2. \A q \in Runs \ {r} : events'[q] = events[q]
        BY <2>2, ThreadFrame DEF ReportInv
      <4> QED
        BY <4>1, <4>2
    <3>3. ASSUME NEW t \in Tailers, tail[t].at = "ended"
          PROVE  tail[t].run \in Runs \ {r}
      <4>1. tail[t].run \in Runs /\ finished[tail[t].run]
        BY <3>3 DEF Closed
      <4>2. ~finished[r]
        BY <2>2, ThreadReports DEF ReportInv
      <4> QED
        BY <4>1, <4>2
    <3> QED
      BY <3>1, <3>2, <3>3
  <2>3. ASSUME NEW t \in Tailers, Poll(t) PROVE TailInv'
    <3>1. tail[t] \in [at : {"open", "ended"}, run : Runs, index : Nat]
      BY <2>3 DEF Poll, Closed
    <3>2. Len(events[tail[t].run]) \in Nat
      BY <3>1, LenProperties DEF ReportInv
    <3>3. PICK i \in Nat, a \in {"open", "ended"} :
            /\ tail' = [tail EXCEPT ![t] = [at |-> a, run |-> tail[t].run, index |-> i]]
            /\ a = "ended" => Ends(t) /\ i = tail[t].index
      <4>1. CASE Ends(t)
        BY <2>3, <3>1, <4>1 DEF Poll
      <4>2. CASE ~Ends(t)
        BY <2>3, <3>1, <3>2, <4>2 DEF Poll
      <4> QED
        BY <4>1, <4>2
    <3>4. UNCHANGED <<events, finished>>
      BY <2>3, OthersLeaveThreads
    <3> QED
      BY <3>1, <3>3, <3>4 DEF Ends
  <2>4. ASSUME NEW t \in Tailers, NEW r \in Runs, Connect(t, r) PROVE TailInv'
    <3>1. /\ tail' = [tail EXCEPT ![t] = [at |-> "open", run |-> r, index |-> 0]]
          /\ UNCHANGED <<events, finished>>
      BY <2>4, OthersLeaveThreads DEF Connect
    <3> QED
      BY <3>1
  <2> QED
    BY <2>1, <2>2, <2>3, <2>4, ManagerStepCases, OthersLeaveThreads
       DEF vars, shared
<1> QED
  BY <1>1, <1>2, ReportInvHolds, PTL DEF Spec

\* The SSE endpoint ends a stream only when every event the run will ever have
\* has been sent, whatever its worker was doing between two polls.
THEOREM EndedTailComplete == Spec => []EndedTailSawEverything
<1>1. TailInv => EndedTailSawEverything
  BY DEF TailInv
<1> QED
  BY <1>1, TailInvHolds, PTL
-----------------------------------------------------------------------------
(* Questions, stream() calls and what a finished run was told. *)

\* Each stream() call asks at most one question, so the two counts stay in step.
\* A thread only gets to its end with a graph that ended or no call left.
CountsAt(r) ==
  /\ pc[r] \in {"unborn", "arriving", "blocked", "starting", "streaming"} =>
       loops[r] = asked[r] + 1
  /\ pc[r] \in {"pausing", "awaiting", "taking", "resuming"} => loops[r] = asked[r]
  /\ pc[r] = "ending" => graph[r] = "ended" \/ loops[r] = LoopLimit
  /\ status[r] = "done" =>
       /\ pc[r] \in {"releasing", "finishing", "gone"}
       /\ graph[r] = "ended" \/ loops[r] = LoopLimit

CountInv ==
  /\ pending \in [Runs -> 0..LoopLimit]
  /\ asked \in [Runs -> 0..LoopLimit]
  /\ resume_q \in [Runs -> Seq(1..LoopLimit)]
  /\ taken \in [Runs -> 0..LoopLimit]
  /\ loops \in [Runs -> 1..LoopLimit]
  /\ graph \in [Runs -> {"working", "paused", "ended"}]
  /\ client \in [Clients -> [at : {"read", "checked"}, run : Runs,
                             question : 1..LoopLimit] \cup {Idle}]
  /\ answered \in [Clients -> [Runs -> 0..LoopLimit]]
  /\ \A r \in Runs : CountsAt(r)

LEMMA CountInit == Init => CountInv
  BY ManagerAssumption, EmptySeq DEF Init, CountInv, CountsAt

LEMMA ThreadKeepsCounts ==
  ASSUME ReportInv, CountInv, NEW r \in Runs, Start(r) \/ Thread(r)
  PROVE  CountInv'
<1> USE ManagerAssumption DEF ReportInv, CountInv, CountsAt
<1>1. CASE Start(r) \/ AcquireNow(r) \/ AcquireBlocking(r)
  <2>1. CASE Start(r)
    BY <2>1 DEF Start, Moves, shared, people
  <2>2. CASE AcquireNow(r)
    BY <2>2 DEF AcquireNow, Moves, shared, people
  <2>3. CASE AcquireBlocking(r)
    BY <2>3 DEF AcquireBlocking, Moves, shared, people
  <2> QED
    BY <1>1, <2>1, <2>2, <2>3
<1>2. CASE QueueUp(r) \/ BeginRun(r) \/ AwaitHuman(r)
  <2>1. CASE QueueUp(r)
    BY <2>1 DEF QueueUp, Moves, Shows, people
  <2>2. CASE BeginRun(r)
    BY <2>2 DEF BeginRun, Moves, Shows, people
  <2>3. CASE AwaitHuman(r)
    BY <2>3 DEF AwaitHuman, Moves, Shows, people
  <2> QED
    BY <1>2, <2>1, <2>2, <2>3
<1>3. CASE GraphEmits(r)
  BY <1>3 DEF GraphEmits, worker, people
<1>4. CASE GraphInterrupts(r)
  BY <1>4 DEF GraphInterrupts, Moves, people
<1>5. CASE TakeAnswer(r)
  <2>1. Head(resume_q[r]) \in 1..LoopLimit /\ Tail(resume_q[r]) \in Seq(1..LoopLimit)
    BY <1>5, HeadTailProperties DEF TakeAnswer
  <2>2. /\ resume_q' \in [Runs -> Seq(1..LoopLimit)] /\ taken' \in [Runs -> 0..LoopLimit]
        /\ UNCHANGED <<asked, loops, graph, status, pending, people>>
        /\ pc' = [pc EXCEPT ![r] = "taking"] /\ pc[r] = "awaiting"
    BY <1>5, <2>1 DEF TakeAnswer, Moves
  <2> QED
    BY <2>2 DEF people
<1>6. CASE ClearPending(r)
  BY <1>6 DEF ClearPending, Moves, people
<1>7. CASE ResumeRun(r)
  <2>1. CASE LastCall(r)
    BY <1>7, <2>1 DEF ResumeRun, LastCall, Moves, Shows, people
  <2>2. CASE ~LastCall(r)
    <3>1. loops[r] + 1 \in 1..LoopLimit /\ loops[r] = asked[r] /\ status[r] # "done"
      <4>1. /\ loops[r] \in 1..LoopLimit /\ LoopLimit \in Nat /\ ~(loops[r] >= LoopLimit)
            /\ pc[r] = "resuming"
        BY <1>7, <2>2 DEF ResumeRun, LastCall
      <4>2. loops[r] + 1 \in 1..LoopLimit
        BY <4>1
      <4>3. loops[r] = asked[r] /\ status[r] # "done"
        BY <4>1
      <4> QED
        BY <4>2, <4>3
    <3>2. /\ loops' = [loops EXCEPT ![r] = loops[r] + 1]
          /\ graph' = [graph EXCEPT ![r] = "working"]
          /\ pc' = [pc EXCEPT ![r] = "streaming"]
          /\ status' = [status EXCEPT ![r] = "running"]
          /\ UNCHANGED <<asked, taken, pending, resume_q, people>>
      BY <1>7, <2>2 DEF ResumeRun, Moves, Shows
    <3> QED
      BY <3>1, <3>2 DEF people
  <2> QED
    BY <2>1, <2>2
<1>8. CASE GraphEnds(r) \/ GraphRaises(r)
  <2>1. CASE GraphEnds(r)
    BY <2>1 DEF GraphEnds, Moves, shared, people
  <2>2. CASE GraphRaises(r)
    BY <2>2 DEF GraphRaises, Moves, shared, people
  <2> QED
    BY <1>8, <2>1, <2>2
<1>9. CASE ReportDone(r) \/ RecordError(r)
  <2>1. CASE ReportDone(r)
    BY <2>1 DEF ReportDone, Moves, Shows, people
  <2>2. CASE RecordError(r)
    BY <2>2 DEF RecordError, Moves, Shows, people
  <2> QED
    BY <1>9, <2>1, <2>2
<1>10. CASE Finish(r)
  BY <1>10 DEF Finish, Moves, people
<1>11. CASE Release(r)
  BY <1>11 DEF Release, shared, people
<1> QED
  BY <1>1, <1>2, <1>3, <1>4, <1>5, <1>6, <1>7, <1>8, <1>9, <1>10, <1>11 DEF Thread

\* What a request of client c may do.
LEMMA ClientSteps ==
  ASSUME ReportInv, CountInv, NEW c \in Clients, Answering(c)
  PROVE  /\ UNCHANGED <<worker, status, pending>>
         /\ \/ \E r \in Runs :
                 /\ client[c] = Idle /\ pending[r] # 0 /\ pending[r] # answered[c][r]
                 /\ client' = [client EXCEPT ![c] = [at |-> "read", run |-> r,
                                                     question |-> pending[r]]]
                 /\ UNCHANGED <<resume_q, answered>>
            \/ /\ client[c].at = "read"
               /\ UNCHANGED <<resume_q, answered>>
               /\ \E a \in {"checked", "idle"} :
                    client' = [client EXCEPT ![c] =
                                 IF a = "idle" THEN Idle
                                 ELSE [at |-> "checked", run |-> client[c].run,
                                       question |-> client[c].question]]
            \/ /\ client[c].at = "checked"
               /\ client[c] \in [at : {"read", "checked"}, run : Runs,
                                 question : 1..LoopLimit]
               /\ LET r == client[c].run
                      k == client[c].question
                  IN  /\ resume_q' = [resume_q EXCEPT ![r] = Append(resume_q[r], k)]
                      /\ answered' = [answered EXCEPT ![c][r] = k]
               /\ client' = [client EXCEPT ![c] = Idle]
<1>0. client[c] # Idle => client[c] \in [at : {"read", "checked"}, run : Runs,
                                         question : 1..LoopLimit]
  BY DEF CountInv
<1>1. CASE \E r \in Runs : ReadQuestion(c, r)
  BY <1>1 DEF ReadQuestion, shared
<1>2. CASE CheckStatus(c)
  <2>1. client[c] \in [at : {"read", "checked"}, run : Runs, question : 1..LoopLimit]
    BY <1>0, <1>2 DEF CheckStatus, Idle
  <2>2. [client[c] EXCEPT !.at = "checked"] =
          [at |-> "checked", run |-> client[c].run, question |-> client[c].question]
    BY <2>1
  <2>3. CASE status[client[c].run] = "waiting_human"
    BY <1>2, <2>2, <2>3 DEF CheckStatus, shared
  <2>4. CASE status[client[c].run] # "waiting_human"
    BY <1>2, <2>4 DEF CheckStatus, shared
  <2> QED
    BY <2>3, <2>4
<1>3. CASE PutAnswer(c)
  BY <1>0, <1>3 DEF PutAnswer, Idle
<1> QED
  BY <1>1, <1>2, <1>3 DEF Answering

LEMMA CountInvHolds == Spec => []CountInv
<1>1. ASSUME ReportInv, CountInv, [Next]_vars PROVE CountInv'
  <2> USE <1>1
  <2>1. ASSUME NEW c \in Clients, Answering(c) PROVE CountInv'
    <3>1. UNCHANGED <<worker, status, pending>>
      BY <2>1, ClientSteps
    <3>2. CASE UNCHANGED <<resume_q, answered>>
      <4>1. client' \in [Clients -> [at : {"read", "checked"}, run : Runs,
                                     question : 1..LoopLimit] \cup {Idle}]
        <5>1. client[c] # Idle => client[c] \in [at : {"read", "checked"}, run : Runs,
                                                 question : 1..LoopLimit]
          BY DEF CountInv
        <5>2. \A r \in Runs : pending[r] # 0 => pending[r] \in 1..LoopLimit
          BY ManagerAssumption DEF CountInv
        <5>3. PICK s \in [at : {"read", "checked"}, run : Runs,
                          question : 1..LoopLimit] \cup {Idle} :
                client' = [client EXCEPT ![c] = s]
          BY <2>1, <3>2, <5>1, <5>2, ClientSteps DEF Idle
        <5> QED
          BY <5>3 DEF CountInv
      <4> QED
        BY <3>1, <3>2, <4>1 DEF CountInv, CountsAt, worker
    <3>3. ASSUME client[c] \in [at : {"read", "checked"}, run : Runs,
                                question : 1..LoopLimit],
                 resume_q' = [resume_q EXCEPT ![client[c].run] =
                                Append(resume_q[client[c].run], client[c].question)],
                 answered' = [answered EXCEPT ![c][client[c].run] = client[c].question],
                 client' = [client EXCEPT ![c] = Idle]
          PROVE  CountInv'
      <4> DEFINE r == client[c].run
                 k == client[c].question
      <4>1. r \in Runs /\ k \in 1..LoopLimit /\ k \in 0..LoopLimit
        BY <3>3, ManagerAssumption
      <4> HIDE DEF r, k
      <4>2. Append(resume_q[r], k) \in Seq(1..LoopLimit)
        BY <4>1, AppendProperties DEF CountInv
      <4>3. resume_q' \in [Runs -> Seq(1..LoopLimit)]
        BY <3>3, <4>1, <4>2 DEF CountInv, r, k
      <4>4. answered' \in [Clients -> [Runs -> 0..LoopLimit]]
        BY <3>3, <4>1 DEF CountInv, r, k
      <4>5. client' \in [Clients -> [at : {"read", "checked"}, run : Runs,
                                     question : 1..LoopLimit] \cup {Idle}]
        BY <3>3 DEF CountInv
      <4> QED
        BY <3>1, <4>3, <4>4, <4>5 DEF CountInv, CountsAt, worker
    <3> QED
      BY <2>1, <3>2, <3>3, ClientSteps
  <2>2. ASSUME UNCHANGED <<worker, status, pending, resume_q, people>> PROVE CountInv'
    BY <2>2 DEF CountInv, CountsAt, worker, people
  <2>3. /\ \A t \in Tailers : Poll(t) => UNCHANGED <<worker, status, pending, resume_q, people>>
        /\ \A t \in Tailers, r \in Runs :
             Connect(t, r) => UNCHANGED <<worker, status, pending, resume_q, people>>
        /\ UNCHANGED vars => UNCHANGED <<worker, status, pending, resume_q, people>>
    BY DEF Poll, Connect, vars, shared, worker, people
  <2> QED
    BY <2>1, <2>2, <2>3, ManagerStepCases, ThreadKeepsCounts
<1> QED
  BY <1>1, CountInit, ReportInvHolds, PTL DEF Spec

\* Every variable keeps its type: no run asks more questions, nor makes more
\* stream() calls, than it is given.
THEOREM ManagerTypeCorrect == Spec => []TypeOK
<1>1. Spec => []SlotInv
  BY SlotInvHolds
<1>2. Spec => []TailInv
  BY TailInvHolds
<1>3. SlotInv /\ ReportInv /\ TailInv /\ CountInv => TypeOK
  BY ManagerAssumption DEF SlotInv, ReportInv, TailInv, CountInv, TypeOK
<1> QED
  BY <1>1, <1>2, <1>3, ReportInvHolds, CountInvHolds, PTL

\* A run reported done has a graph that ended, or spent its stream() calls.
THEOREM DoneIsEarned == Spec => []DoneMeansEnded
<1>1. CountInv => DoneMeansEnded
  BY DEF CountInv, CountsAt, DoneMeansEnded
<1> QED
  BY <1>1, CountInvHolds, PTL
-----------------------------------------------------------------------------
(* One client: its answers and the questions they were meant for. *)

\* Questions are asked and cleared by the thread; the client has one answer per
\* question, on its way, in the queue, or taken.
AnswersAt(c, r) ==
  /\ pending[r] # 0 => /\ pending[r] = asked[r]
                       /\ pc[r] \in {"pausing", "awaiting", "taking"}
  /\ answered[c][r] <= asked[r]
  /\ client[c].run = r => /\ client[c].question = asked[r]
                          /\ answered[c][r] < asked[r]
                          /\ pc[r] \in {"pausing", "awaiting"}
  /\ answered[c][r] < asked[r] => resume_q[r] = <<>>
  /\ resume_q[r] # <<>> => /\ resume_q[r] = <<asked[r]>>
                           /\ pc[r] \in {"pausing", "awaiting"}
  /\ pc[r] \in {"taking", "resuming"} =>
       taken[r] = asked[r] /\ answered[c][r] = asked[r]

AnswersInv(c) == \A r \in Runs : AnswersAt(c, r)

LEMMA ThreadKeepsAnswers ==
  ASSUME NEW c \in Clients, ReportInv, CountInv, AnswersInv(c),
         NEW r \in Runs, Start(r) \/ Thread(r)
  PROVE  AnswersInv(c)'
<1> USE DEF ReportInv, CountInv, AnswersInv, AnswersAt
\* Steps that move the thread, but not away from a question.
<1>1. ASSUME NEW p \in Positions, p \notin {"taking", "resuming"},
             pc[r] \in {"pausing", "awaiting", "taking"} => p \in {"pausing", "awaiting"},
             pc' = [pc EXCEPT ![r] = p],
             UNCHANGED <<asked, taken, pending, resume_q, people>>
      PROVE  AnswersInv(c)'
  <2>1. pc'[r] = p /\ \A q \in Runs \ {r} : pc'[q] = pc[q]
    BY <1>1
  <2>2. UNCHANGED <<asked, taken, pending, resume_q, client, answered>>
    BY <1>1 DEF people
  <2> QED
    BY <1>1, <2>1, <2>2
<1>2. CASE \/ Start(r) \/ AcquireNow(r) \/ AcquireBlocking(r) \/ QueueUp(r)
           \/ BeginRun(r) \/ AwaitHuman(r) \/ GraphEnds(r) \/ GraphRaises(r)
           \/ ReportDone(r) \/ RecordError(r) \/ Finish(r) \/ Release(r)
  <2>1. UNCHANGED <<asked, taken, pending, resume_q, people>>
    BY <1>2 DEF Start, AcquireNow, AcquireBlocking, QueueUp, BeginRun, AwaitHuman,
       GraphEnds, GraphRaises, ReportDone, RecordError, Finish, Release, shared
  <2>2. \E p \in Positions \ {"taking", "resuming"} :
          /\ pc' = [pc EXCEPT ![r] = p]
          /\ pc[r] \in {"pausing", "awaiting", "taking"} => p \in {"pausing", "awaiting"}
    <3>1. CASE Release(r)
      BY <3>1 DEF Release, Positions, Holding
    <3>2. CASE ~Release(r)
      BY <1>2, <3>2 DEF Start, AcquireNow, AcquireBlocking, QueueUp, BeginRun, AwaitHuman,
         GraphEnds, GraphRaises, ReportDone, RecordError, Finish, Moves, Positions, Holding
    <3> QED
      BY <3>1, <3>2
  <2> QED
    BY <1>1, <2>1, <2>2
<1>3. CASE GraphEmits(r)
  BY <1>3 DEF GraphEmits, worker, people
<1>4. CASE GraphInterrupts(r)
  <2>1. /\ pc' = [pc EXCEPT ![r] = "pausing"] /\ pc[r] = "streaming"
        /\ asked' = [asked EXCEPT ![r] = asked[r] + 1]
        /\ pending' = [pending EXCEPT ![r] = asked[r] + 1]
        /\ UNCHANGED <<resume_q, taken, client, answered>>
    BY <1>4 DEF GraphInterrupts, Moves, people
  <2>2. client[c].run # r /\ answered[c][r] <= asked[r] /\ resume_q[r] = <<>>
    BY <2>1
  <2>3. asked[r] \in Nat /\ answered[c][r] \in Nat
    BY ManagerAssumption
  <2>4. AnswersAt(c, r)'
    BY <2>1, <2>2, <2>3
  <2>5. ASSUME NEW q \in Runs, q # r PROVE AnswersAt(c, q)'
    <3>1. /\ pc'[q] = pc[q] /\ asked'[q] = asked[q] /\ pending'[q] = pending[q]
          /\ taken'[q] = taken[q] /\ resume_q'[q] = resume_q[q]
          /\ client'[c] = client[c] /\ answered'[c][q] = answered[c][q]
      BY <2>1, <2>5
    <3> QED
      BY <3>1
  <2> QED
    BY <2>4, <2>5
<1>5. CASE TakeAnswer(r)
  <2>1. resume_q[r] = <<asked[r]>> /\ client[c].run # r /\ answered[c][r] = asked[r]
    BY <1>5 DEF TakeAnswer
  <2>2. Head(resume_q[r]) = asked[r] /\ Tail(resume_q[r]) = <<>>
    BY <2>1
  <2>3. /\ resume_q' = [resume_q EXCEPT ![r] = <<>>]
        /\ taken' = [taken EXCEPT ![r] = asked[r]]
        /\ pc' = [pc EXCEPT ![r] = "taking"] /\ pc[r] = "awaiting"
        /\ UNCHANGED <<asked, pending, people>>
    BY <1>5, <2>2 DEF TakeAnswer, Moves
  <2> QED
    BY <2>1, <2>3 DEF people
<1>6. CASE ClearPending(r)
  BY <1>6 DEF ClearPending, Moves, people
<1>7. CASE ResumeRun(r)
  <2>1. \E p \in {"streaming", "ending"} : pc' = [pc EXCEPT ![r] = p]
    BY <1>7 DEF ResumeRun, Moves
  <2> QED
    BY <1>7, <2>1 DEF ResumeRun, people
<1> QED
  BY <1>2, <1>3, <1>4, <1>5, <1>6, <1>7 DEF Thread

LEMMA ClientKeepsAnswers ==
  ASSUME NEW c \in Clients, ReportInv, CountInv, AnswersInv(c), Answering(c)
  PROVE  AnswersInv(c)'
<1> USE ManagerAssumption
<1>0. UNCHANGED <<pc, asked, taken, pending>>
  BY ClientSteps DEF worker
<1>1. ASSUME NEW r \in Runs, pending[r] # 0, pending[r] # answered[c][r],
             client' = [client EXCEPT ![c] = [at |-> "read", run |-> r,
                                              question |-> pending[r]]],
             UNCHANGED <<resume_q, answered>>
      PROVE  AnswersInv(c)'
  <2>1. /\ pending[r] = asked[r] /\ answered[c][r] < asked[r]
        /\ pc[r] \in {"pausing", "awaiting"}
    BY <1>1 DEF AnswersInv, AnswersAt, CountInv
  <2>2. client'[c].run = r /\ client'[c].question = asked[r]
    BY <1>1, <2>1 DEF CountInv
  <2> QED
    BY <1>0, <1>1, <2>1, <2>2 DEF AnswersInv, AnswersAt
<1>2. ASSUME client' = [client EXCEPT ![c] = Idle], UNCHANGED <<resume_q, answered>>
      PROVE  AnswersInv(c)'
  <2>1. client'[c] = Idle /\ Idle.run \notin Runs
    BY <1>2 DEF CountInv, Idle
  <2> QED
    BY <1>0, <1>2, <2>1 DEF AnswersInv, AnswersAt
<1>3. ASSUME client[c] \in [at : {"read", "checked"}, run : Runs, question : 1..LoopLimit],
             resume_q' = [resume_q EXCEPT ![client[c].run] =
                            Append(resume_q[client[c].run], client[c].question)],
             answered' = [answered EXCEPT ![c][client[c].run] = client[c].question],
             client' = [client EXCEPT ![c] = Idle]
      PROVE  AnswersInv(c)'
  <2> DEFINE r == client[c].run
  <2>1. /\ r \in Runs /\ client[c].question = asked[r] /\ resume_q[r] = <<>>
        /\ pc[r] \in {"pausing", "awaiting"} /\ asked[r] \in 0..LoopLimit
    BY <1>3 DEF AnswersInv, AnswersAt, CountInv
  <2> HIDE DEF r
  <2>2. /\ resume_q' = [resume_q EXCEPT ![r] = <<asked[r]>>]
        /\ answered' = [answered EXCEPT ![c][r] = asked[r]]
        /\ client'[c] = Idle /\ Idle.run \notin Runs
    BY <1>3, <2>1 DEF r, CountInv, Idle
  <2>3. /\ resume_q'[r] = <<asked[r]>> /\ answered'[c][r] = asked[r]
        /\ \A q \in Runs \ {r} : resume_q'[q] = resume_q[q] /\ answered'[c][q] = answered[c][q]
    BY <2>1, <2>2 DEF CountInv
  <2> QED
    BY <1>0, <2>1, <2>2, <2>3 DEF AnswersInv, AnswersAt
<1>4. CASE client[c].at = "read" /\ UNCHANGED <<resume_q, answered>>
          /\ \E a \in {"checked", "idle"} :
               client' = [client EXCEPT ![c] =
                            IF a = "idle" THEN Idle
                            ELSE [at |-> "checked", run |-> client[c].run,
                                  question |-> client[c].question]]
  <2>1. CASE client' = [client EXCEPT ![c] = Idle]
    BY <1>2, <1>4, <2>1
  <2>2. CASE client' = [client EXCEPT ![c] = [at |-> "checked", run |-> client[c].run,
                                              question |-> client[c].question]]
    <3>1. client'[c].run = client[c].run /\ client'[c].question = client[c].question
      BY <2>2 DEF CountInv
    <3> QED
      BY <1>0, <1>4, <3>1 DEF AnswersInv, AnswersAt
  <2> QED
    BY <1>4, <2>1, <2>2
<1>5. CASE /\ client[c].at = "checked"
           /\ client[c] \in [at : {"read", "checked"}, run : Runs,
                             question : 1..LoopLimit]
           /\ LET r == client[c].run
                  k == client[c].question
              IN  /\ resume_q' = [resume_q EXCEPT ![r] = Append(resume_q[r], k)]
                  /\ answered' = [answered EXCEPT ![c][r] = k]
           /\ client' = [client EXCEPT ![c] = Idle]
  BY <1>3, <1>5
<1> QED
  BY <1>1, <1>4, <1>5, ClientSteps

\* With one client, however its requests interleave with the worker threads,
\* no run resumes with an answer to an earlier question.
THEOREM AnswersMatch ==
  ASSUME NEW c, Clients = {c}
  PROVE  Spec => []AnswersMatchQuestions
<1> c \in Clients
  OBVIOUS
<1>1. Init => AnswersInv(c)
  <2> SUFFICES ASSUME Init, NEW r \in Runs PROVE AnswersAt(c, r)
    BY DEF AnswersInv
  <2>1. client[c] = Idle /\ Idle.run = NoRun /\ NoRun # r
    BY ManagerAssumption DEF Init, Idle
  <2>2. /\ pending[r] = 0 /\ asked[r] = 0 /\ answered[c][r] = 0 /\ resume_q[r] = <<>>
        /\ pc[r] = "unborn"
    BY DEF Init
  <2> QED
    BY <2>1, <2>2 DEF AnswersAt
<1>2. ASSUME ReportInv, CountInv, AnswersInv(c), [Next]_vars PROVE AnswersInv(c)'
  <2> USE <1>2
  <2>1. ASSUME UNCHANGED <<pc, asked, taken, pending, resume_q, people>>
        PROVE  AnswersInv(c)'
    BY <2>1 DEF AnswersInv, AnswersAt, people
  <2>2. /\ \A t \in Tailers : Poll(t) =>
              UNCHANGED <<pc, asked, taken, pending, resume_q, people>>
        /\ \A t \in Tailers, r \in Runs : Connect(t, r) =>
              UNCHANGED <<pc, asked, taken, pending, resume_q, people>>
        /\ UNCHANGED vars => UNCHANGED <<pc, asked, taken, pending, resume_q, people>>
    BY DEF Poll, Connect, vars, shared, worker, people
  <2> QED
    BY <2>1, <2>2, ManagerStepCases, ThreadKeepsAnswers, ClientKeepsAnswers
<1>3. AnswersInv(c) => AnswersMatchQuestions
  BY DEF AnswersInv, AnswersAt, AnswersMatchQuestions
<1> QED
  BY <1>1, <1>2, <1>3, ReportInvHolds, CountInvHolds, PTL DEF Spec
=============================================================================
