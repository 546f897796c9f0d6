----------------------------- MODULE RunManager -----------------------------
(***************************************************************************)
(* backend/app/api/run_manager.py and the endpoints of api/server.py: one  *)
(* daemon thread per run, a single run slot, a resume queue per run fed by *)
(* request handlers that check the status without a lock, and SSE tailers. *)
(* The graph is reduced to what its stream shows the driver: node events,  *)
(* an interrupt, its end, an exception.                                    *)
(***************************************************************************)
EXTENDS Naturals, Sequences

CONSTANTS
  Runs,        \* runs that may be started
  NoRun,       \* an idle client, a closed connection
  Clients,     \* people (browser tabs) answering questions
  Tailers,     \* open SSE connections
  LoopLimit,   \* stream() calls per run (80 in the code)
  MaxEmits     \* bound: a graph is silent once its run has so many events

ASSUME ManagerAssumption ==
  /\ LoopLimit \in Nat \ {0} /\ MaxEmits \in Nat
  /\ NoRun \notin Runs

VARIABLES
  slot,        \* free permits of _run_slot
  pc,          \* where each worker thread is
  status,      \* Run.status
  pending,     \* Run.pending_interrupt: number of the question, 0 for None
  asked,       \* questions the run has asked so far
  resume_q,    \* Run._resume_q: each answer is the question it was meant for
  taken,       \* history: the question answered by the decision last taken
  loops,       \* stream() calls made
  graph,       \* "working", "paused" at an interrupt, or "ended"
  events,      \* Run.events, by type
  finished,    \* Run._finished
  client,      \* each client: what it is doing, and the question it read
  answered,    \* history: the last question of each run a client answered
  tail         \* each SSE connection: its run, its index, how it stands

worker == <<pc, asked, taken, loops, graph>>
shared == <<status, pending, resume_q, events, finished>>
people == <<client, answered>>
vars == <<slot, worker, shared, people, tail>>

EventTypes == {"queued", "node", "interrupt", "resumed", "done", "error"}

\* Positions of _drive and _run_graph between acquire() and release().
Holding == {"starting", "streaming", "pausing", "awaiting", "taking",
            "resuming", "ending", "releasing", "failing"}
Positions == Holding \cup {"unborn", "arriving", "blocked", "recording",
                           "finishing", "gone"}

Idle == [at |-> "idle", run |-> NoRun, question |-> 0]
Closed == [at |-> "closed", run |-> NoRun, index |-> 0]

TypeOK ==
  /\ slot \in 0..1
  /\ pc \in [Runs -> Positions]
  /\ status \in [Runs -> {"queued", "running", "waiting_human", "done", "error"}]
  /\ pending \in [Runs -> 0..LoopLimit]
  /\ asked \in [Runs -> 0..LoopLimit]
  /\ resume_q \in [Runs -> Seq(1..LoopLimit)]
  /\ taken \in [Runs -> 0..LoopLimit]
  /\ loops \in [Runs -> 1..LoopLimit]
  /\ graph \in [Runs -> {"working", "paused", "ended"}]
  /\ events \in [Runs -> Seq(EventTypes)]
  /\ finished \in [Runs -> BOOLEAN]
  /\ client \in [Clients -> [at : {"read", "checked"}, run : Runs,
                             question : 0..LoopLimit] \cup {Idle}]
  /\ answered \in [Clients -> [Runs -> 0..LoopLimit]]
  /\ tail \in [Tailers -> [at : {"open", "ended"}, run : Runs, index : Nat]
                           \cup {Closed}]

Init ==
  /\ slot = 1
  /\ pc = [r \in Runs |-> "unborn"]
  /\ status = [r \in Runs |-> "running"]
  /\ pending = [r \in Runs |-> 0]
  /\ asked = [r \in Runs |-> 0]
  /\ resume_q = [r \in Runs |-> <<>>]
  /\ taken = [r \in Runs |-> 0]
  /\ loops = [r \in Runs |-> 1]
  /\ graph = [r \in Runs |-> "working"]
  /\ events = [r \in Runs |-> <<>>]
  /\ finished = [r \in Runs |-> FALSE]
  /\ client = [c \in Clients |-> Idle]
  /\ answered = [c \in Clients |-> [r \in Runs |-> 0]]
  /\ tail = [t \in Tailers |-> Closed]
-----------------------------------------------------------------------------
(* The worker thread of run r.  The thread's own steps between two shared  *)
(* accesses are one action; a status write and the event appended right    *)
(* after it are one action, no reader relates the two.                     *)

Moves(r, from, to) == pc[r] = from /\ pc' = [pc EXCEPT ![r] = to]
Emits(r, type) == events' = [events EXCEPT ![r] = Append(@, type)]
Shows(r, s) == status' = [status EXCEPT ![r] = s]

Start(r) ==
  /\ Moves(r, "unborn", "arriving")
  /\ UNCHANGED <<slot, asked, taken, loops, graph, shared, people, tail>>

AcquireNow(r) ==
  /\ slot > 0 /\ slot' = slot - 1
  /\ Moves(r, "arriving", "starting")
  /\ UNCHANGED <<asked, taken, loops, graph, shared, people, tail>>

QueueUp(r) ==
  /\ slot = 0
  /\ Moves(r, "arriving", "blocked")
  /\ Shows(r, "queued") /\ Emits(r, "queued")
  /\ UNCHANGED <<slot, asked, taken, loops, graph, pending, resume_q, finished,
                 people, tail>>

SlotIsFree == slot > 0

AcquireBlocking(r) ==
  /\ SlotIsFree /\ slot' = slot - 1
  /\ Moves(r, "blocked", "starting")
  /\ UNCHANGED <<asked, taken, loops, graph, shared, people, tail>>

BeginRun(r) ==
  /\ Moves(r, "starting", "streaming")
  /\ Shows(r, "running")
  /\ UNCHANGED <<slot, asked, taken, loops, graph, pending, resume_q, events,
                 finished, people, tail>>

\* A node_start, node_end or tool event reaches the sink.
GraphEmits(r) ==
  /\ pc[r] = "streaming" /\ Len(events[r]) < MaxEmits
  /\ Emits(r, "node")
  /\ UNCHANGED <<slot, worker, status, pending, resume_q, finished, people, tail>>

GraphInterrupts(r) ==
  /\ Moves(r, "streaming", "pausing")
  /\ graph' = [graph EXCEPT ![r] = "paused"]
  /\ asked' = [asked EXCEPT ![r] = @ + 1]
  /\ pending' = [pending EXCEPT ![r] = asked[r] + 1]
  /\ UNCHANGED <<slot, taken, loops, status, resume_q, events, finished, people,
                 tail>>

AwaitHuman(r) ==
  /\ Moves(r, "pausing", "awaiting")
  /\ Shows(r, "waiting_human") /\ Emits(r, "interrupt")
  /\ UNCHANGED <<slot, asked, taken, loops, graph, pending, resume_q, finished,
                 people, tail>>

PeeksAnswer(r) ==
  /\ resume_q[r] # <<>>
  /\ Moves(r, "awaiting", "taking")
  /\ taken' = [taken EXCEPT ![r] = Head(resume_q[r])]
  /\ UNCHANGED <<slot, asked, loops, graph, shared, people, tail>>

\* _resume_q.get() returns.
TakeAnswer(r) ==
  /\ resume_q[r] # <<>>
  /\ Moves(r, "awaiting", "taking")
  /\ resume_q' = [resume_q EXCEPT ![r] = Tail(@)]
  /\ taken' = [taken EXCEPT ![r] = Head(resume_q[r])]
  /\ UNCHANGED <<slot, asked, loops, graph, status, pending, events, finished,
                 people, tail>>

ClearPending(r) ==
  /\ Moves(r, "taking", "resuming")
  /\ pending' = [pending EXCEPT ![r] = 0]
  /\ UNCHANGED <<slot, asked, taken, loops, graph, status, resume_q, events,
                 finished, people, tail>>

LastCallTooEarly(r) == loops[r] + 1 >= LoopLimit

LastCall(r) == loops[r] >= LoopLimit

\* After the last permitted stream() call the loop falls through to the end.
ResumeRun(r) ==
  /\ pc[r] = "resuming"
  /\ Shows(r, "running") /\ Emits(r, "resumed")
  /\ IF ~LastCall(r)
     THEN /\ Moves(r, "resuming", "streaming")
          /\ loops' = [loops EXCEPT ![r] = @ + 1]
          /\ graph' = [graph EXCEPT ![r] = "working"]
     ELSE /\ Moves(r, "resuming", "ending")
          /\ UNCHANGED <<loops, graph>>
  /\ UNCHANGED <<slot, asked, taken, pending, resume_q, finished, people, tail>>

GraphEnds(r) ==
  /\ Moves(r, "streaming", "ending")
  /\ graph' = [graph EXCEPT ![r] = "ended"]
  /\ UNCHANGED <<slot, asked, taken, loops, shared, people, tail>>

\* build_graph, the stream or the reading of the final state raises.
GraphRaises(r) ==
  /\ pc[r] \in {"streaming", "ending"}
  /\ pc' = [pc EXCEPT ![r] = "failing"]
  /\ UNCHANGED <<slot, asked, taken, loops, graph, shared, people, tail>>

ReportDone(r) ==
  /\ Moves(r, "ending", "releasing")
  /\ Shows(r, "done") /\ Emits(r, "done")
  /\ UNCHANGED <<slot, asked, taken, loops, graph, pending, resume_q, finished,
                 people, tail>>

ForgetsSlot(r) ==
  /\ pc[r] \in {"releasing", "failing"}
  /\ slot' = IF pc[r] = "failing" THEN slot ELSE slot + 1
  /\ pc' = [pc EXCEPT ![r] = IF @ = "failing" THEN "recording" ELSE "finishing"]
  /\ UNCHANGED <<asked, taken, loops, graph, shared, people, tail>>

\* The inner finally.
Release(r) ==
  /\ pc[r] \in {"releasing", "failing"}
  /\ slot' = slot + 1
  /\ pc' = [pc EXCEPT ![r] = IF @ = "failing" THEN "recording" ELSE "finishing"]
  /\ UNCHANGED <<asked, taken, loops, graph, shared, people, tail>>

RecordError(r) ==
  /\ Moves(r, "recording", "finishing")
  /\ Shows(r, "error") /\ Emits(r, "error")
  /\ UNCHANGED <<slot, asked, taken, loops, graph, pending, resume_q, finished,
                 people, tail>>

\* The outer finally.
FinishesBeforeReporting(r) ==
  /\ pc[r] \in {"recording", "finishing"}
  /\ finished' = [finished EXCEPT ![r] = TRUE]
  /\ pc' = [pc EXCEPT ![r] = IF @ = "finishing" THEN "gone" ELSE @]
  /\ UNCHANGED <<slot, asked, taken, loops, graph, status, pending, resume_q,
                 events, people, tail>>

Finish(r) ==
  /\ Moves(r, "finishing", "gone")
  /\ finished' = [finished EXCEPT ![r] = TRUE]
  /\ UNCHANGED <<slot, asked, taken, loops, graph, status, pending, resume_q,
                 events, people, tail>>

Thread(r) ==
  \/ AcquireNow(r) \/ QueueUp(r) \/ AcquireBlocking(r) \/ BeginRun(r)
  \/ GraphEmits(r) \/ GraphInterrupts(r) \/ AwaitHuman(r) \/ TakeAnswer(r)
  \/ ClearPending(r) \/ ResumeRun(r) \/ GraphEnds(r) \/ GraphRaises(r)
  \/ ReportDone(r) \/ Release(r) \/ RecordError(r) \/ Finish(r)
-----------------------------------------------------------------------------
(* A client reads the pending question and posts an answer; the endpoint   *)
(* checks the status and then puts the decision, in two steps.             *)

ReadQuestion(c, r) ==
  /\ client[c] = Idle /\ pending[r] # 0 /\ pending[r] # answered[c][r]
  /\ client' = [client EXCEPT ![c] = [at |-> "read", run |-> r,
                                      question |-> pending[r]]]
  /\ UNCHANGED <<slot, worker, shared, answered, tail>>

\* 409 when the run is not awaiting a human: the client may try again.
CheckStatus(c) ==
  /\ client[c].at = "read"
  /\ client' = [client EXCEPT ![c] =
                  IF status[@.run] = "waiting_human"
                  THEN [@ EXCEPT !.at = "checked"] ELSE Idle]
  /\ UNCHANGED <<slot, worker, shared, answered, tail>>

PutAnswer(c) ==
  LET r == client[c].run IN
  /\ client[c].at = "checked"
  /\ resume_q' = [resume_q EXCEPT ![r] = Append(@, client[c].question)]
  /\ answered' = [answered EXCEPT ![c][r] = client[c].question]
  /\ client' = [client EXCEPT ![c] = Idle]
  /\ UNCHANGED <<slot, worker, status, pending, events, finished, tail>>

Answering(c) == (\E r \in Runs : ReadQuestion(c, r)) \/ CheckStatus(c) \/ PutAnswer(c)
-----------------------------------------------------------------------------
(* GET /events: events_from(index) is one locked read of the new events    *)
(* and of the finished flag.                                               *)

Connect(t, r) ==
  /\ tail[t] = Closed /\ pc[r] # "unborn"
  /\ tail' = [tail EXCEPT ![t] = [at |-> "open", run |-> r, index |-> 0]]
  /\ UNCHANGED <<slot, worker, shared, people>>

EndsWhenFinished(t) == finished[tail[t].run]

Ends(t) ==
  finished[tail[t].run] /\ tail[t].index = Len(events[tail[t].run])

Poll(t) ==
  /\ tail[t].at = "open"
  /\ \/ Ends(t) /\ tail' = [tail EXCEPT ![t].at = "ended"]
     \/ /\ ~Ends(t)
        /\ tail' = [tail EXCEPT ![t].index = Len(events[tail[t].run])]
  /\ UNCHANGED <<slot, worker, shared, people>>

AllDone ==
  /\ \A r \in Runs : pc[r] = "gone"
  /\ UNCHANGED vars

Next ==
  \/ \E r \in Runs : Start(r) \/ Thread(r)
  \/ \E c \in Clients : Answering(c)
  \/ \E t \in Tailers : Poll(t) \/ \E r \in Runs : Connect(t, r)
  \/ AllDone

Spec == Init /\ [][Next]_vars

\* Threads are scheduled, an open connection keeps polling, and each client
\* answers what it reads; nobody need start a run or open a connection.
FairSpec ==
  /\ Spec
  /\ \A r \in Runs : WF_vars(Thread(r))
  /\ \A c \in Clients : WF_vars(Answering(c))
  /\ \A t \in Tailers : WF_vars(Poll(t))
-----------------------------------------------------------------------------
(* Properties *)

\* One graph at a time, and the permit is never lost nor returned twice, on
\* every path through _drive's exception handlers (run_manager.py:173-188).
SlotIsExclusive ==
  /\ \A r, s \in Runs : pc[r] \in Holding /\ pc[s] \in Holding => r = s
  /\ slot = 1 <=> \A r \in Runs : pc[r] \notin Holding

\* _finished is set only after the last event and the terminal status, so what
\* a tailer reads together with the flag is complete (run_manager.py:165-188).
FinishedIsFinal ==
  \A r \in Runs : finished[r] =>
    /\ status[r] \in {"done", "error"}
    /\ events[r] # <<>> /\ events[r][Len(events[r])] = status[r]

\* A tailer that was told the stream is over has been sent every event there
\* is or ever will be (server.py:96-107).
EndedTailSawEverything ==
  \A t \in Tailers : tail[t].at = "ended" =>
    tail[t].index = Len(events[tail[t].run]) /\ finished[tail[t].run]

\* The decision a run resumes with was meant for the question it asked.
AnswersMatchQuestions ==
  \A r \in Runs : pc[r] \in {"taking", "resuming"} => taken[r] = asked[r]

\* A run reported done is one whose graph ended, unless it spent every stream()
\* call it is given: then it is reported done at an interrupt, its question
\* answered and its graph abandoned (run_manager.py:214-237).
DoneMeansEnded ==
  \A r \in Runs : status[r] = "done" => graph[r] = "ended" \/ loops[r] = LoopLimit

\* With a human who answers, every started run ends, the queued ones too.
EveryRunFinishes == \A r \in Runs : pc[r] # "unborn" ~> finished[r]

\* No tailer hangs (run_manager.py:170-171).
NoTailerHangs == \A t \in Tailers : tail[t].at = "open" ~> tail[t].at = "ended"
=============================================================================
