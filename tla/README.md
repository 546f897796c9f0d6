# A TLA+ model of Software_Team_AI

The repository runs a software team of language models: a planner, a coder and a
reviewer are nodes of a LangGraph graph, a human is asked at gates and interrupts, and a
small HTTP server starts runs, streams their events and takes the human's answers. This
directory models the parts whose control decides whether a run is correct, checks them with
TLC on small instances and proves the main properties with TLAPS for all instances.

Paths below are relative to `backend/app/` unless they start with `docs/` or `README.md`.

## 1. The system

| Component | State it keeps | Operations | Talks to |
|---|---|---|---|
| Orchestration graph (`graph/build_graph.py`, `routing.py`, `instrument.py`, `nodes/*`) | `AgentState`: plan with task statuses, `current_task_id`, `hitl_request`/`hitl_response`, `verify_result`, `review`, `retries`, `status`, `budget` | six nodes, five conditional edges, the budget wrapper of each node | agents (calls), workspace (git), human (interrupt), checkpointer |
| Run manager and API (`api/run_manager.py`, `api/server.py`) | `Run` objects, one run slot, a resume queue per run, an event list per run | start, drive, respond, tail events | the graph's `stream()`, HTTP clients, SSE connections |
| Coder loop (`agents/coder.py`, `agents/budget.py`, `tools/authorization.py`) | messages, `BudgetTracker`, the files of the workspace | chat, handle a tool call, record progress | provider, tools, the approval hook (an interrupt) |
| Planner and reviewer (`agents/planner.py`, `agents/reviewer.py`) | messages | a bounded read-only loop, then one structured call | provider, read tools |
| Structured calls and providers (`providers/*`) | tools supported or not | a ladder of repair attempts, transport retries | Ollama |
| Verification (`verify/runner.py`) | none | detect the checks a tree calls for, run them all | sandbox |
| Workspace, git, sandbox, tools (`workspace/lifecycle.py`, `tools/*`) | a directory, its repository, `base_commit`, run branches | create, attach, start a run, commit, clean up; read, edit, run a command | graph, coder |
| Retrieval (`rag/*`) | the table of chunks shared by all processes; in each process a keyword index per project | index, re-index what changed, invalidate, retrieve | files, git, embedder, database |
| Memory (`memory/*`, `graph/planning_context.py`) | a table of runs, a table of facts | record a run, write notes, ingest decision records, build the planner's context | finalize, plan, embedder, database |
| Evaluation (`evals/*`, `scripts/run_evals.py`, `rag/evaluation.py`) | reports of an invocation, the saved baseline, the rows its projects leave | run tasks, clean up, aggregate, compare, exit | graph, retrieval, memory |
| Checkpointing (`graph/checkpointer.py`) | LangGraph checkpoints | pick a saver | `scripts/smoke_graph.py`, tests |
| Core services (`core/*`), frontend, scripts, infra | settings; UI state | configuration; rendering | everything; API |

How they interact: a request handler starts a daemon thread; the thread waits for the run
slot, then consumes the graph's stream. A node runs to its end, its patch is merged into the
state and an edge picks the next node. An interrupt ends the stream; the thread blocks on
the run's queue until a request handler puts an answer there, and starts a new stream with
it. An interrupted node then runs *again from its start*: nothing it assigned survives, what
it did to the workspace does.

What is hard here:

* one field, `hitl_request`, drives every edge and is overwritten by every node, so a node
  that forgets to rewrite it sends the run the wrong way;
* answers are checked and queued without a lock, by handlers of several clients;
* a node replays after each interrupt inside it, with a model free to answer differently;
* counters (steps, retries, stalls, `stream()` calls) bound everything, each at its own place;
* the wall-clock budget may run out between any two steps, also while a human thinks;
* exceptions of providers, git and the schema of edited tasks leave a node anywhere;
* threads contend for one slot that must be returned on every path;
* the tables of retrieval and memory are rewritten in several statements, with an embedder
  and a database that may fail at each, while another process reads them;
* a workspace is made in several steps, a process may die between any two, and what a
  timed-out command started goes on writing;
* retries are nested three deep: transport, repair of an answer, steps of a loop;
* an evaluation runs unattended, may raise anywhere, and must clean up and end all the same.

What makes each part correct, as properties: section 4. Hazards by line: `PROJECT.json`.

## 2. Modules

| Module | What it models |
|---|---|
| `PlanTasks` | tasks, `select_next_task`, the lookup of `current_task_id` (pure operators) |
| `Routing` | the conditional edges as functions of the fields they read |
| `AgentGraph` | one run of the graph; EXTENDS the two above |
| `RunContract` | abstract: what a run promises whoever started it |
| `AgentGraphRefinement` | the mapping from `AgentGraph` to `RunContract` |
| `MCAgentGraph` | task lists and edits for TLC |
| `RunManager` (`MCRunManager`) | threads, slot, queue, endpoints, SSE tailers |
| `CoderLoop` | one attempt of the coder with its replays |
| `ModelCalls` | one call of the planner or the reviewer: grounding loop, structured answer, transport |
| `Ranking` | a stable sort by score, best first (pure operator; `RankFusion` and `Memory` EXTEND it) |
| `Chunker`, `RankFusion` | chunking of a file, reciprocal rank fusion (pure operators) |
| `Retrieval` (`MCRetrieval`) | files, the table, the two indexing jobs, the caches and searches of every process; EXTENDS the two above |
| `Memory` (`MCMemory`) | the log of runs, the facts, ingestion, the planner's context |
| `EvalSuite` (`MCEvalSuite`) | the evaluation command line, one invocation after another |
| `WorkTree` (`MCWorkTree`) | one project directory: lifecycle, git, timed-out commands, verification |
| `AgentGraphProofs`, `RunManagerProofs`, `CoderLoopProofs`, `ModelCallsProofs`, `RetrievalProofs`, `MemoryProofs`, `EvalSuiteProofs`, `WorkTreeProofs` | the theorems |

### AgentGraph

One action is one super-step: a node's outcome, its whole patch, the wrapper's step count
and the edge taken. `node` is the node scheduled next or how the run stopped. What models,
tools and checks return is chosen among the outcomes the node's code tells apart:
`PlanDrafts`/`PlanFails`/`PlanAsks`, `GateAsks`/`GateApplies`/`GateRaises`,
`CoderHasNoPlan`/`CoderIsIdle`/`CoderAsks`/`CoderCompletesTask`/`CoderFixes`/
`CoderFixIsNoOp`/`CoderFails`, `VerifyPasses`/`VerifyFails`, `Review`/`ReviewFails`,
`Finalize`; around them `SkipNode` (the circuit breaker), `NodeRaises`, `RecursionError`,
`TimeRunsOut` and `Respond` (the resumed stream).

* A request is its kind, the node a retry returns to, and the reason that stands for its
  text. A verify or review outcome is its verdict; the issue list is folded into the
  effective verdict of `review.py`.
* `task.status = "in_progress"` is assigned inside a pass; a checkpoint holds the state as of
  the end of a super-step, so an abandoned pass leaves no trace of it.
* Plan versions, titles, texts, changed files, retrieved context and tokens (which the code
  never counts) are left out: no edge reads them.
* LangGraph itself is external. Its recursion limit is one counter per `stream()` call; its
  exact off-by-one is not modelled, and the theorem below leaves room for it (the code's
  defaults are 200 against 60).
* `uncommitted` and `unverified` name who changed files since the last commit, and since verify
  last passed: the coder, or a stray. Strays are the checks of verify, which leave caches and
  output behind, and what a timed-out command left running (`StrayWrites`, at any moment). A
  commit takes in all of it, as `git add -A` does; nothing commits or verifies again what a stray
  writes after the coder's last commit, and so the properties speak of the coder's work.
* History variables (`answered`, `approved`, `unverified`, `waived`) only record; no guard reads
  them.
* Nothing in the code keeps a plan from repeating a task id. `PlanTasks!OwnId` and `UniqueIds`
  are no part of the model but hypotheses of three properties, stated with each; the drafts
  checked include plans that repeat an id, alone and next to a task with an id of its own.

### RunManager

Each thread's steps between two accesses to shared state are one action, so a run is
interleaved with clients and tailers at every such access; a status write and the event
appended right after it are one action. A client reads the pending question, posts, the
handler checks the status and, in a later step, queues the answer. The graph is reduced to
what the driver sees of it: events, an interrupt, an end, an exception.

### CoderLoop

A pass starts in `deciding`; `Chat` takes one answer of the model, a batch of calls handled
one by one. A call is its effect: `look` changes nothing the loop sees, `edit` may change the
files, `run_command` goes through the allowlist and the approval gate. `answers` are the
resume values LangGraph keeps for the node, handed out by order; `Resume` adds one and starts
the node again with a fresh budget on the workspace as it is. The model's next answers are
unconstrained on a replay. `skipped` is the circuit breaker of the graph, met on a resume.

### ModelCalls

The planner and the reviewer have one shape: up to `GroundingSteps` answers whose calls go to
read-only tools, then one structured answer with `MaxRepair` repairs, every request behind
`TransportRetries` attempts. A tool call is its name, and a tool that is refused, unknown or
raises in its run is observed like any other (`ExecuteTool`); a path that cannot be resolved
raises out of the call, before any `try` (`ToolRaises`, `tools/authorization.py:117`). An emission is told apart by what the code
looks at: the emit call, the bare content, an envelope around it, and whether each validates;
whether the provider supports tools is fixed per call. `GivesUpAs` is the `ProviderError` that
nobody below the node catches, `GiveUp` the `StructuredOutputError` that becomes a question to
the human. A native call whose arguments are JSON but no object raises out of the provider
(`AnswerIsMalformed`, `providers/ollama.py:185`).

### Retrieval

`Chunker.Chunks` is `chunk_source` of a file: one chunk per definition (the first on its span),
the preamble spanning from the first to the last line outside them, windows for a file that does
not parse, nothing for one that cannot be read. A row is project, path, symbol, lines and text;
the stored hash of a chunk is its text. `disk` is edited at any moment. Its paths are
those a listing may name: what git ignores, files of no known language, and names git quotes
(outside ASCII) are never indexed and have no path here. A job is its phase:
`StartFull` deletes the project's rows first, `GatherFile` reads one file, `AddAll` stores them;
`StartIncremental` reads the stored hashes, `ReindexFile` skips or replaces one file,
`DeleteGone` removes one path the listing lacks. `JobRaises` may end a job between any two of
these and in the middle of the insert. `Invalidate` is the caller dropping its own keyword index
after the job. A search is two steps, `VectorArm` on the table of that moment and `KeywordArm`
on the cached index; `Found` is what it returns. A client is a process with its own cache; the
server of the repository never indexes, scripts and evaluation do.

The scores of BM25 and of the embedding are the constants `Relevance` and `Nearness`; the order
and the cut of each arm, their fusion and the final cut are the code's.

### Memory

A text is the set of its tokens. `log` is the run table in the order of `created_at`, `facts`
a bag of facts, `down` says which of the database and the embedder answers. Ingestion is four
steps, `IngestReads` (all records parsed, one that is not UTF-8 raises), `IngestClears`,
`IngestWrites` (all rows, or an exception with some of them), `IngestReturns`. One runs at a
time, as the script does; what one that fails has cleared stays lost until the next returns. The planner's
context changes nothing, so it is two operators, `Attempts` and `Conventions`, whose properties
are checked in every state for every request.

### EvalSuite

An invocation takes a category and perhaps `--update-baseline`, runs the tasks of its category
one after the other and exits. `stage` is what is left of the current task: index, stream,
answer, evaluate, the three deletes of the cleanup, report. A raise anywhere puts the error in
the report and goes to the cleanup. The database fails and recovers between any two steps,
within `MaxOutages`, and holds the tables somebody has created: the indexer makes the one of
chunks, the first record of a run its own, the API server and `scripts/seed_memory.py` those of
memory (`EnsureSchema`), the harness none. A delete raises without its table as it does without
the database, and the deletes behind it are skipped. Metrics that decide nothing (rates of the graph runs) are left out;
`Precision` is the one that is compared.

### WorkTree

`files` is the working tree, `commits` the history as trees, HEAD last: the code only appends.
`Begin` is `create` or `attach` with or without `exist_ok`, then files are copied one by one,
the repository is made and `TakeBase` reuses HEAD or commits. `Crash` drops the handle between
any two steps and leaves the directory. `Staged` is what `git add -A` takes: all but the files
`.gitignore` names at that moment and HEAD does not have (one `.gitignore`, at the top). The
ignored files of an imported project are on disk and not in its base; `ignoring` remembers
which, because a session that edits `.gitignore` may commit them as its own. A command that ran out of time leaves an orphan that
writes on (`OrphanWrites`): the sandbox kills the process it launched and not what that started.
Verification is one check per `LaunchCheck`/`CheckEnds`, a check that hangs being cut off by
the timeout; while it runs it writes what it likes (`CheckWrites`). A tree is files, so an empty
`tests/` directory, which also calls for pytest, has none here.

### How the modules compose

`CoderLoop` refines what `AgentGraph` calls `CoderAsks`, `CoderCompletesTask`, `CoderFixes`,
`CoderFails` and `NodeRaises`: its interrupts are `asks`, its outcomes `completed`,
`no_progress`/`budget_exceeded`, `raised` and `skipped` are those actions and `SkipNode`.
`AgentGraph`'s `Respond` and its stops are what `RunManager` abstracts as an interrupt, an end
and an exception of the graph. `ModelCalls` is
what `AgentGraph` calls `PlanDrafts`/`PlanFails`/`NodeRaises` and `Review`/`ReviewFails`/
`NodeRaises`: `returned`, `unstructured`, and `unreachable` or `raised`. `EvalSuite`'s `IndexRepository` is a
full job of `Retrieval`, its streams are runs of `AgentGraph` answered `abort`. `Commits` of
`AgentGraph` is `CommitTask` of `WorkTree`, and its verify outcomes are the verdicts there. These
correspondences are by reading; the formal ones are `AgentGraph` to `RunContract` (refinement),
and `Retrieval` over `Chunker` and `RankFusion`, with `Memory`'s ranking beside it over `Ranking`
(composition).

## 3. Runs

| Run | Instance | Shows |
|---|---|---|
| `graph_manual` | manual autonomy, two chained tasks or a stuck one, any decision, edited or malformed task lists, `RecursionLimit` 10 below the step budget 11 so that it is met; 515 thousand states | typing and safety with every gate live, the refinement of `RunContract`, and that a run ends when its human settles |
| `graph_auto` | auto autonomy, also drafts with a repeated id, alone or next to a task with its own, 16 steps, the caps of the code; 1.2 million states | no recursion error and only escalations, for all of them; while no id is repeated, retries bound the work; of tasks with an id of their own, dependencies come first and done ones stay done |
| `manager` | two runs, one client, one tailer, two `stream()` calls, two events; 290 thousand states | slot, stream end, answers, progress |
| `coder` | every autonomy, three steps, two calls per answer, an allowed and a refused command, two contents; 967 thousand states | gate, no-progress detector, bound on pauses, end of the attempt |
| `model_calls` | a read tool, retrieval and a write tool, an unknown name, two grounding steps, two calls per answer, two repairs, three transport attempts; 176 thousand states | well-formed conversations, honest errors, bounded requests |
| `retrieval` | one project, two paths, six kinds of file, a process that indexes and one that only searches, two edits, two jobs; 2.2 million states | the table after a job, coverage of lines, the indexer's cache, the fusion |
| `memory` | two records, two texts, two summaries and the empty one, three runs in a window of two, a note; 637 thousand states | ingestion, ranking, what the planner is shown |
| `evals` | four of the five tasks in the suite's order (`defect_injection` has the stages of `rag_required`), two cases, a cap of two streams, one outage, tables that may be missing; 553 thousand states | the regression gate, what the cleanup may leave, the end of an unattended suite |
| `worktree` | a project of a test, a `.gitignore` and a local file it names, three commits, one write between two of them, one run branch; 543 thousand states | the base of the diff and what the diff shows, with `.gitignore` edited or removed on the way, and that verification ends |
| `claim_respond` | two clients | `api/run_manager.py:157`: two answers to one question, the second taken for the next |
| `claim_replay` | | `nodes/coder.py:23`: an approved command runs again on a later replay |
| `claim_approval` | text and dictionary answers | README.md:619: an approval sent through the API is a denial |

The `claim_*` runs each check one sentence of the repository and find it violated by what the
code does; the findings in `PROJECT.json` quote the sentences. Other disagreements met on the
way, without a run of their own:

* Graph: a decision nobody offered leaves the gate and ends the run `succeeded`
  (`nodes/human_gate.py:29`; docs/ARCHITECTURE.md:114 says re-prompt). Where a plan repeats an
  id, the lookup by id finds the first, completed task and the coder runs it again and never
  the pending one, until the step budget ends the run (`nodes/coder.py:130`;
  `nodes/coder.py:5-6` says a pending task is selected and run). `request_changes` sends the
  coder back with nothing to do (`nodes/coder.py:139`; docs/ARCHITECTURE.md:113). A fix that
  edited before an approval is compared with a signature taken anew on the replay and escalated
  as a no-op (`nodes/coder.py:186-187`). Tasks edited in a revision are replaced by the next
  draft (`routing.py:35`; docs/build-plans/PHASE-2.md:49). An empty plan drafted after a
  clarification is put up for approval (`nodes/plan.py:114`; docs/ARCHITECTURE.md:101).
  `verify` is entered with failed or blocked tasks (docs/ARCHITECTURE.md:126 says all are
  done), `attempts` is never compared with a cap (docs/ARCHITECTURE.md:127), `tokens_used` is
  never incremented (`instrument.py:39`). A run that spends its 80 `stream()` calls is reported
  `done` at an interrupt (`DoneMeansEnded` states what does hold). The diff a reviewer gets is
  cut at 4000 characters (`nodes/coder.py:223`), and what the checks write after the commit is
  in no diff.
* Retrieval: when git fails, `ls_files` lists nothing and a job empties the index without an error
  (`tools/git.py:65`); an incremental job leaves a chunk that only moved with its old line numbers
  (`rag/indexer.py:76`); a process that does not index keeps its first keyword index for ever
  (`rag/retriever.py:68`); of two definitions on one span the second symbol is not indexed
  (`rag/chunker.py:202`); git quotes names outside ASCII, which then have no known language and
  are not indexed (`tools/git.py:67`, `rag/indexer.py:104`).
* Workspaces: the ignored files of an imported project are missing from its base commit, and
  appear as the session's work once `.gitignore` no longer names them (`tools/git.py:71`,
  `workspace/lifecycle.py:67`); the sandbox's "hard timeout" (`tools/sandbox.py:5-6`) stops only the process it
  launched; `create` inside another repository initialises none (`tools/git.py:50`); a tree no
  check applies to passes verification (`verify/runner.py:66`).
* Evaluation: `evals/regression.py:11-12` says the first run without a baseline records one;
  `scripts/run_evals.py:99` saves only with `--update-baseline`, and then returns 0 whatever was
  measured. On a fresh database the first delete of the cleanup finds no table of chunks and
  raises, so the records of the first runs stay (`evals/tasks.py:170-179`). A baseline saved by a
  run that measured no precision disarms the gate (`evals/regression.py:47`).

### Bounds, and why they are enough

* Two tasks give every relation the code looks at: first and next, dependency and dependant,
  two with one id, one that waits for itself. Two ids suffice for edits that reorder them.
* `MaxSteps` 11 in `graph_manual` is a plan, two tasks, a failing and a passing verify, two fixes
  and two reviews with room for a revision; 16 in `graph_auto` is above the bound the retry
  counters give (14), so that it is the counters that bound. Caps of 2 have a first failure below
  the cap and a second at it; a counter that is overwritten instead of added to shows only at 3,
  the verify cap of `graph_auto`. The code's values are 60, 3 and 2.
* `MaxAsks` 1: one replay of a coder pass is enough for stale signatures; longer sequences of
  approvals are `CoderLoop`'s.
* `LoopLimit` 2 and `MaxEmits` 2: one question answered and one at the limit (80 in the code);
  `claim_respond` uses 3. A third run, tailer or client adds no new pair of steps; the proofs
  cover any number.
* `CoderLoop`: `MaxSteps` 3 with `NoProgressLimit` 2 has a counter reset below the limit;
  `MaxBatch` 2 has a call after another and one dropped behind `finish_task`.
* `ModelCalls`: two grounding steps are one that calls and one that stops or runs into the limit;
  two repairs have a first, a second and a last attempt; three transport attempts are the code's.
* `Retrieval`: `MaxJobs` 2 is a job that fails and the one that repairs it, or one that fills a
  cache's table and one that outdates it; `MaxEdits` 2 fills one path and changes or removes it,
  or fills both. `WindowLines` 2 makes a file of windows with a blank one between written ones.
  `RrfK` 4 and `CandidateK` 3 keep the ratio the fusion needs (`CandidateK < RrfK + 2`; the code
  has 60 and 20); `Unit` is their common denominator. Files are six: definitions with a line
  before, with a blank line inserted, between other lines, nested, broken, and unreadable.
* `Memory`: `MaxRuns` 3 over a window of 2 drops the oldest; `MaxEdits` 2 writes a record and
  changes or removes it; the cap of 5 holds a bullet of one token and an empty one, not two
  of one token, and is exceeded by a first bullet of two.
* `EvalSuite`: `StreamCap` 2 (60 in the code) has an answer below the cap and the stream at it;
  one outage, which may last, spoils the deletes of one task or of all that follow. `Cases` 2 has
  fewer, equal and more hits than a saved baseline.
* `WorkTree`: three commits are a base, a task's and the one a later session must make; a write
  before and after each can edit or remove `.gitignore` and the file it names. Three paths are one
  more than a copy that dies half way needs. `package.json` is left to the proofs: its check is
  one more after the others.

Every run checks deadlock too: a stopped system stutters in
`Terminated`, `AllDone` or `Done`.

### Fairness

* `AgentGraph!FairSpec`: weak fairness of the driver thread's step, which is a loop that
  only blocks on the queue. Nothing is assumed of the human; `RunEnds` states its assumption
  in its formula: asked again and again, the human at last gives the closing answer (strong
  fairness, because in between the run is not paused).
* `RunManager!FairSpec`: weak fairness of each thread (the operating system schedules it), of
  each open tailer (its loop sleeps and polls), and of each client (a human answers; without
  one the slot is never freed, since it is held through human pauses). A thread blocked on
  the slot needs no strong fairness in the instance: runs are started once and each frees the
  slot for good.
* `CoderLoop!FairSpec`: weak fairness of the pass; `AttemptEnds` assumes in its formula that
  the human answers.
* `EvalSuite!Spec`: weak fairness of the task in progress, one sequential process that waits for
  nobody; none of the command line's caller or of the database, whose outages raise.
* `WorkTree!Spec`: weak fairness of the verification's steps, which includes the sandbox's
  timeout: a check that hangs is ended by it. None of the agent, of orphans or of crashes.
* `ModelCalls`, `Retrieval` and `Memory` state no liveness: each call ends by its counters, which
  the bounds on requests and on files express as safety.

## 4. Theorems

All hold for every value of the constants allowed by the modules' assumptions
(`NoTaskAssumption`, `GraphAssumption`, `ManagerAssumption`, `LoopAssumption`,
`CallsAssumption`, `ChunkerAssumption`, `FusionAssumption`, `RetrievalAssumption`,
`MemoryAssumption`, `EvalAssumption`, `WorkTreeAssumption`), and by nothing else unless the table
says so. Those that are more than typing: the decisions offered include `abort` and `revise`;
files are as the parser gives them (`WellFormed`: a definition is a node within its file's own
lines); `CandidateK < RrfK + 2`, which the settings' 20 and 60 satisfy, and `Unit` is divisible by
the denominators of the fusion, so that its fractions are integers; records and the words of a
request are finitely many, similarities are integers, lengths are naturals; the suite names no
task twice.

| Theorem | Says | Argument |
|---|---|---|
| `TypeCorrect` | `TypeOK` of the graph | inductive as it stands; routes are nodes (`RoutesAreNodes`), edits are task lists |
| `FreshQuestions` | the gate never asks nothing, nor an answered question | `GateIffRequest`: every edge into the gate is taken with the request written in the same step |
| `AutoOnlyEscalates` | under auto only escalations stop a run | inductive with typing |
| `ApprovalFirst` | no unapproved plan is coded under semi or manual | needs `UnapprovedPlanWaits`: while a plan is unapproved the run is at `plan`, at the gate, or on its way out, and no retry leads to the coder unless the budget is spent |
| `RecursionLimitUnreached` | with `RecursionLimit >= MaxSteps + 2` no recursion error | `RoomIsLeft`: uncounted super-steps of one stream are at most one gate and one finalize, so `call_steps` stays within `steps_used` plus what remains of the way out |
| `AbortHonoured` | after a last word "abort" no run succeeds | `AbortStands`: an abort that is not an escalation's or an approval's cannot reach `END` without another answer |
| `ReviewedWorkIsVerified` | the reviewer is asked only after verify passed, with nothing of the coder's changed since then or since the last commit, whatever strays write | `WorkIsChecked`: where the coder has uncommitted changes it will run again on the same work before anyone verifies, or the run is over |
| `SuccessEarned` | a success nobody waved through is approved, and the coder's work in it committed and unchanged since verify passed | same invariant, with the review kept through `finalize` |
| `DependenciesFirst` | of the tasks with an id of their own the coder attempts none before what it depends on is done, whatever ids other tasks share and whatever was retried, fixed, asked or sent back in between | `CurrentTaskIsReady`: no task is current before a plan is approved, and a task that has the current id for itself is not done while all it depends on is; the next one is eligible when it is chosen (`SelectedIsEligible`), and no other step undoes a task |
| `DoneStaysDone` | a done task with an id of its own is not attempted again | the same invariant: such a task, when it is named, is not done when the coder starts |
| `ContractKept` | every step of the graph is a step of `RunContract` or leaves it as it is (`KeepsContractSafely`) | step mapping, action by action; needs `StoppedRunsFinalize`: a failed or aborted run is at `finalize` or at an end |
| `RetriesBoundWork` | if the two caps are at least 1 and the planner can draft at all, a stream no human interrupts, of a plan that repeats no id, takes at most `Len(plan) + 2 * MaxVerifyRetries + 3 * MaxReviewCycles` super-steps of a plan drafted or edited | `WorkIsBounded`: `call_steps` plus `StepsLeft`, what the visits and the failures below the caps still allow, stays within the bound; every step of the coder takes one from `VisitsLeft`, the number of tasks not done, or leads on to verify or the gate |
| `SlotExclusive` | one run holds the slot, the permit is never lost nor doubled | `SlotInv`, by the way each step treats the slot (`SlotSteps`) |
| `FinishedFinal` | a finished run has its last event and its terminal status | `ReportInv`: positions after the report keep it as the last event |
| `EndedTailComplete` | an ended tailer read everything | `TailInv`, and that no event follows `_finished` |
| `ManagerTypeCorrect` | `TypeOK` of `RunManager` | `SlotInv`, `ReportInv`, `TailInv` and `CountInv` together |
| `DoneIsEarned` | `done` is reported only of a graph that ended or a loop that ran out | `CountInv`: at each position of the thread, how many streams were made against how many questions were asked |
| `AnswersMatch` | an answer is taken for the question it was given to, if there is one client | `AnswersInv`: the queue holds at most one answer, to the question asked last, and only while that question waits; with two clients it is false (`claim_respond`) |
| `StallsDetected` | the no-progress counter gives up exactly when the last signatures agree | `TrackerInv`: the counter is the number of repetitions at the end of the trail |
| `PausesBounded` | an attempt asks at most as often as one pass can call | `CallsInv`: answers used and calls left fit in the steps taken, and a pass asks only when all answers are used |
| `CommandsGated` | no command without an approval of its own in the pass | counts the approvals handed out (`CountingApprovals`) |
| `LoopTypeCorrect` | `TypeOK` of the attempt | from `CallsInv` and `TrackerInv` |
| `CallTypeCorrect` | `TypeOK` of `ModelCalls` | `CallInv` |
| `UnstructuredIsHonest` | the unstructured error means `MaxRepair + 1` invalid answers, an unreachable model is never one | `CountersInv`: while emitting, the attempts are the invalid answers |
| `RequestsStayBounded` | a call costs at most `(GroundingSteps + MaxRepair + 1) * TransportRetries` requests | `CostInv`: the requests sent are at most `TransportRetries` per answer had, and the failed ones of the next |
| `ConversationWellFormed` | in every request each tool call of an earlier answer is answered once, in order | `ConversationInv`: what is not answered yet of the last answer is the pending calls, the rest is well formed |
| `RetrievalTypeCorrect` | `TypeOK` of `Retrieval` | inductive as it stands |
| `IndexerIsUpToDate` | the process that indexed last, and well, searches what is stored | `WriterInv`: while a job runs, its rows are marked unfinished as soon as one changed, and no search of the same process is under way |
| `IndexIsInSync` | a job that ends well leaves the table in step with every file nobody touched | `SyncInv`: `FullInv` (the table holds none of the project's rows until they are added; what is gathered is what is on disk) and `IncrementalInv` (files to visit are as stored, visited ones have the texts on disk, what is left over is gone or will be) |
| `LinesAreIndexed` | after a job that ended well every written line of a readable file nobody touched is in some stored chunk | `IndexIsInSync`, and two facts of the chunker for every file: a written line is in a top-level definition or in the preamble (`StructureHoldsEveryLine`), and in some window (`WindowsHoldEveryLine`, by division) |
| `AgreementComesFirst` | a chunk both arms found is ranked above every chunk of one arm and is not cut for it | two weights outweigh one (`TwoOutweighOne`, from `CandidateK < RrfK + 2`); the sort is an order (`BestFirstSorts`); `FiniteInv`: the rows searched are finite, so that both lists are sequences |
| `IngestionReplaces` | an ingestion that returns has replaced the decisions by those of the records read; none, whole or failed, costs or doubles a note | `FactsInv`: the facts are the notes written and, depending on the phase of the ingestion, old decisions, none, or the new ones |
| `BestRunsFirst` | the attempts shown to the planner are the best of the window, in order: words in common, then failure, then recency | `LogInv` types the log; the weights of `ScoresCompare` make the score such an order for any number of runs; `BestFirstSorts` |
| `PlannerIsTold` | the last failure comes first unless a run has more in common, something is shown whenever there is something, and no more than the cap | the above, and `Capping`: a section keeps its first bullet, and more only within the cap |
| `GateIsRight` | the gate fails an invocation exactly when the retrieval task got through and finds less than the saved baseline | `SuiteInv`: a report without error carries what the code finds once its evaluation is over (`MeasureInv`), and each task is reported at most once (`QueueInv`); rates of the same cases compare as their hits do |
| `RowsCleared` | without an outage rows are left only among the records of runs, and only if the invocation found no table of chunks or none of facts | `RowsInv`: while the database has not failed, the chunks of a task are still among the stages to clear, and so are its records unless a table before theirs was missing (`StageInv`) |
| `WorkTreeTypeCorrect` | `TypeOK` of `WorkTree` | with `ProgressInv` and `VerifyInv` |
| `AttachIsComplete` | the base commit has every file of the imported project nobody wrote to, unless `.gitignore` named it then | `ProgressInv` (files not to be copied any more are there) and `BaseInv` |
| `DiffIsHonest` | the diff shows files written in this session, and ignored ones only if `.gitignore` was written to | `BaseInv`: where nobody wrote, base, HEAD and directory agree, or the file was ignored and HEAD has it only if `.gitignore` was written to (`FileAtBase`) |

Every safety property a passing run checks is stated by a theorem; the run shows it on a small
instance first. The strengthened invariants of the graph were also checked with TLC on
`graph_manual`'s instance before they were proved. Of the type invariants only `AgentGraph`'s is a
run's as well; those of `RunManager`, `CoderLoop`, `ModelCalls`, `Retrieval` and `WorkTree` are
theorems alone, and `Memory` and `EvalSuite` need no more typing than `LogInv`, `FactsInv` and
`SuiteInv` say. Sorting is defined by how many come before (`Ranking`) and windows and gaps by
comprehension, not by recursion over the sequence, so that they can be reasoned about without
induction over data. `BestFirstSorts` stands in both `MemoryProofs` and `RetrievalProofs`: each
module of theorems needs only the component it is about.

Only model-checked:

* liveness: `RunEnds`, `EveryRunFinishes`, `NoTailerHangs`, `AttemptEnds`, `SuiteEnds`,
  `VerifyEnds`, and of the refinement `KeepsContract` the contract's fairness. Fairness and ENABLED
  are beyond the prover. Their safety counterparts are proved: `RetriesBoundWork`,
  `PausesBounded`, `RequestsStayBounded`;
* the three `claim_*` properties, which the code violates;
* correspondences between modules that are by reading (section 2).

## 5. Not modelled

* Checkpointing: only `scripts/smoke_graph.py` and tests pick a durable saver. The run manager
  uses the in-memory one and a run does not survive its process, so there is no resume after a
  restart to model.
* `WorkspaceManager` is modelled (`WorkTree`) although only tests call it today: it is what the
  documents give a run.
* What tools read, match and print; the Git commands that only report; the wire format of the
  provider, streaming and embeddings (their values are the constants `Nearness`).
* Scores: BM25 and cosine similarity are constants; `graph/retrieval.py` only records.
* The metrics the evaluation prints without deciding anything, the scripted models of its tasks,
  the text of the report.
* Core services (settings, logging, tracing), the frontend, the other scripts, which drive once
  what is modelled elsewhere, and infrastructure.

## 6. Plan

Done: the modules of section 2, the runs of section 3, the theorems of section 4. Left, in order:

1. Compositions: `CoderLoop` implementing the coder actions of `AgentGraph`, `ModelCalls` its
   plan and review outcomes, `RunManager` with `AgentGraph` behind its stream; then the theorems
   each gives the other.
2. Action properties of `RunManager` and `WorkTree` that the invariants already imply: a terminal
   status is never overwritten, the base of a workspace moves only with a new session.
3. The first part of each liveness property that is safety: a variant that decreases at every step
   of `CoderLoop`'s pass and of `WorkTree`'s verification.
4. Two projects in one table, as `Retrieval` allows, at a size TLC can take.
