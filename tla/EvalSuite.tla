----------------------------- MODULE EvalSuite -----------------------------
(* The evaluation harness (scripts/run_evals.py, app/evals, rag/evaluation.py):
   a command line runs the tasks of the suite one after the other, reduces
   their reports to metrics, compares them with the saved baseline and exits
   0, 1 (the deterministic metric dropped) or 2 (no such category).  A task
   prepares a repository, indexes it, streams graph runs to their end with
   every question answered "abort", and deletes its rows in a `finally`.  The
   database they all use may be down for a while, and need not hold every table
   yet: the harness itself creates none, the code it calls some.  Embedders,
   models and graphs may raise.  One evaluation runs at a time.

   Left out: what the graph runs measure (status, verdicts, symbols, steps):
   those metrics are printed and saved, and decide nothing. *)
EXTENDS Integers, FiniteSets, Sequences, SequencesExt

CONSTANTS Suite,        \* ALL_TASKS by their categories, or the part a run keeps
          Cases,        \* the fixed queries of the retrieval task
          StreamCap,    \* how often run_graph streams before it gives up: 60
          MaxOutages    \* bound: database outages in one invocation

Categories == {"happy_path", "rag_required", "defect_injection",
               "cross_run_memory", "retrieval"}

ASSUME EvalAssumption == /\ Suite \in Seq(Categories) /\ IsInjective(Suite)
                         /\ Cases \in Nat \ {0}
                         /\ StreamCap \in Nat \ {0}
                         /\ MaxOutages \in Nat

VARIABLES
    args,      \* the command line in progress: its category and --update-baseline
    exit,      \* the exit status of the last invocation, NoExit while one runs
    queue,     \* the tasks still to run, the current one first
    stage,     \* what is left to do of the current task, <<>> before it begins
    streams,   \* streams made by the current run_graph
    report,    \* the current task's report in the making
    reports,   \* the reports of this invocation
    left,      \* rows of the current task's project: which tables hold some
    leaks,     \* the tables in which tasks of this invocation left rows behind
    down,      \* is the database down?
    schema,    \* the tables the database holds
    lacked,    \* history: the tables it did not hold when the invocation began
    outages,   \* outages of this invocation
    hits,      \* the cases the program's present code finds in its top k
    baseline   \* the saved precision@k, NoData without one

vars == <<args, exit, queue, stage, streams, report, reports, left, leaks, down,
          schema, lacked, outages, hits, baseline>>
db == <<down, outages, lacked>>
world == <<hits, baseline>>
suite == <<args, exit, queue, reports, leaks>>

(* Rates are fractions <<numerator, denominator>>; no data is no fraction. *)
NoData == <<>>
Rate(n, d) == IF d = 0 THEN NoData ELSE <<n, d>>
Below(a, b) == a[1] * b[2] < b[1] * a[2]

Tables == {"chunks", "facts", "records"}
Clearing == <<"chunks", "facts", "records">>
Stages(task) ==
    CASE task = "cross_run_memory" -> <<"graph", "graph">>
      [] task = "happy_path"       -> <<"graph">>
      [] task = "retrieval"        -> <<"index", "evaluate">>
      [] OTHER                     -> <<"index", "graph">>

Blank(category) == [category |-> category, error |-> FALSE, precision |-> NoData]

(* metrics.aggregate, for the one metric that is compared. *)
PrecisionOrZero(rs) ==
    LET found == SelectSeq(rs, LAMBDA r: r.category = "retrieval")
    IN  IF found = <<>> THEN NoData
        ELSE IF found[1].precision = NoData THEN <<0, Cases>> ELSE found[1].precision
Precision(rs) ==
    LET measured == {i \in DOMAIN rs: /\ rs[i].category = "retrieval"
                                      /\ rs[i].precision # NoData}
        found == {hit \in measured \X (1..Cases): hit[2] <= rs[hit[1]].precision[1]}
    IN  Rate(Cardinality(found), Cases * Cardinality(measured))

(* MetricDelta.is_gated_regression, for the one deterministic metric. *)
GatedRegression(current, saved) ==
    current # NoData /\ saved # NoData /\ Below(current, saved)

Commands == [category: {"all", "unknown"} \cup Range(Suite), update: BOOLEAN]
Selected(category) ==   \* every task of the suite has a category of its own
    CASE category = "all"             -> Suite
      [] category \in Range(Suite)    -> <<category>>
      [] OTHER                        -> <<>>

NoExit == -1
Init ==
    /\ args = [category |-> "all", update |-> FALSE] /\ exit = 0
    /\ queue = <<>> /\ stage = <<>> /\ streams = 0
    /\ report = Blank("happy_path") /\ reports = <<>>
    /\ left = {} /\ leaks = {}
    /\ schema \in SUBSET Tables /\ lacked = Tables \ schema
    /\ down = FALSE /\ outages = 0
    /\ hits \in 0..Cases /\ baseline = NoData
-----------------------------------------------------------------------------
(* Outside the harness: the database fails and recovers, and the server's start
   or the seeding script creates the tables of facts and records. *)
DatabaseFails ==
    /\ ~down /\ outages < MaxOutages /\ exit = NoExit
    /\ down' = TRUE /\ outages' = outages + 1
    /\ UNCHANGED <<suite, stage, streams, report, left, schema, lacked, world>>

DatabaseRecovers ==
    /\ down /\ down' = FALSE
    /\ UNCHANGED <<suite, stage, streams, report, left, schema, lacked, outages, world>>

EnsureSchema ==
    /\ ~down
    /\ \E tables \in {{"facts"}, {"facts", "records"}}: schema' = schema \cup tables
    /\ UNCHANGED <<suite, stage, streams, report, left, db, world>>

(* main: the selected tasks, or exit 2 when the category names none.  The code
   that the retrieval task indexes may have changed since the last time. *)
Invoke ==
    /\ exit # NoExit
    /\ args' \in Commands
    /\ exit' = IF Selected(args'.category) = <<>> THEN 2 ELSE NoExit
    /\ queue' = Selected(args'.category)
    /\ reports' = <<>> /\ leaks' = {} /\ outages' = 0
    /\ lacked' = Tables \ schema
    /\ report' = Blank("happy_path")
    /\ hits' \in 0..Cases
    /\ UNCHANGED <<stage, streams, left, down, schema, baseline>>

(* A task begins: a fresh project, hence no rows.  _new_repo stands before the
   `try`: when git fails nothing is cleared, and nothing has to be. *)
BeginTask ==
    /\ exit = NoExit /\ queue # <<>> /\ stage = <<>>
    /\ report' = Blank(Head(queue)) /\ left' = {} /\ streams' = 0
    /\ stage' = Append(Stages(Head(queue)) \o Clearing, "report")
    /\ UNCHANGED <<suite, db, schema, world>>

RepositoryFails ==
    /\ exit = NoExit /\ queue # <<>> /\ stage = <<>> /\ Head(queue) # "retrieval"
    /\ report' = [Blank(Head(queue)) EXCEPT !.error = TRUE]
    /\ left' = {} /\ streams' = 0
    /\ stage' = <<"report">>
    /\ UNCHANGED <<suite, db, schema, world>>

At(s) == stage # <<>> /\ Head(stage) = s
Forward == stage' = Tail(stage)
(* What an exception leads to: the `finally` of the task, then its error report. *)
AfterErrorReportOnly == <<"report">>
AfterError == Append(Clearing, "report")
Raises ==
    /\ report' = [report EXCEPT !.error = TRUE]
    /\ stage' = AfterError

(* index_project: it creates its table, clears, embeds and adds; with the
   database down it raises, and so it may half way when the embedder does. *)
IndexRepository ==
    /\ At("index") /\ ~down
    /\ schema' = schema \cup {"chunks"}
    /\ left' = left \cup {"chunks"} /\ Forward
    /\ UNCHANGED <<suite, streams, report, db, world>>

IndexRaises ==
    /\ At("index") /\ Raises
    /\ \/ UNCHANGED <<schema, left>>
       \/ /\ ~down
          /\ schema' = schema \cup {"chunks"}
          /\ left' \in {left, left \cup {"chunks"}}
    /\ UNCHANGED <<suite, streams, db, world>>

(* evaluate_retrieval over the index just built: the share of the cases whose
   symbol is among the first k.  Every search asks the database. *)
EvaluateRetrieval ==
    /\ At("evaluate") /\ ~down /\ Forward
    /\ report' = [report EXCEPT !.precision = <<hits, Cases>>]
    /\ UNCHANGED <<suite, streams, left, db, schema, world>>

EvaluateRaises ==
    /\ At("evaluate") /\ Raises
    /\ UNCHANGED <<suite, streams, left, db, schema, world>>

(* run_graph.  A stream stops at a question or at the end.  After a question
   the next stream resumes with "abort", until the cap: then the run is scored
   where it stands.  A run that ends has stored its record, and created the table
   for it, unless the database was down (finalize ignores that). *)
StreamsUncounted(n) == n
StreamsAfter(n) == n + 1

StreamAsks ==
    /\ At("graph")
    /\ streams' = StreamsAfter(streams)
    /\ stage' = <<"answer">> \o Tail(stage)
    /\ UNCHANGED <<suite, report, left, db, schema, world>>

AnswerAbort ==
    /\ At("answer")
    /\ IF streams < StreamCap
       THEN stage' = <<"graph">> \o Tail(stage) /\ UNCHANGED streams
       ELSE streams' = 0 /\ Forward
    /\ UNCHANGED <<suite, report, left, db, schema, world>>

StreamEnds ==
    /\ At("graph") /\ Forward /\ streams' = 0
    /\ IF down
       THEN UNCHANGED <<schema, left>>
       ELSE schema' = schema \cup {"records"} /\ left' = left \cup {"records"}
    /\ UNCHANGED <<suite, report, db, world>>

StreamRaises ==
    /\ At("graph") /\ Raises /\ streams' = 0
    /\ UNCHANGED <<suite, left, db, schema, world>>

(* _cleanup: three deletes in one `try`; the first that fails, because the
   database is down or has no such table, skips the rest. *)
ClearTable ==
    /\ stage # <<>> /\ Head(stage) \in Tables
    /\ IF down \/ Head(stage) \notin schema
       THEN stage' = <<"report">> /\ UNCHANGED left
       ELSE left' = left \ {Head(stage)} /\ Forward
    /\ UNCHANGED <<suite, streams, report, db, schema, world>>

(* An error report carries nothing but its category and its error. *)
Reported == IF report.error THEN [Blank(report.category) EXCEPT !.error = TRUE] ELSE report
EndTask ==
    /\ At("report")
    /\ reports' = Append(reports, Reported)
    /\ leaks' = leaks \cup left
    /\ stage' = <<>> /\ queue' = Tail(queue)
    /\ UNCHANGED <<args, exit, streams, report, left, db, schema, world>>

(* The end of main: --update-baseline saves and passes, whatever was measured. *)
Settle ==
    /\ exit = NoExit /\ queue = <<>> /\ stage = <<>>
    /\ IF args.update
       THEN baseline' = Precision(reports) /\ exit' = 0
       ELSE /\ exit' = IF GatedRegression(Precision(reports), baseline) THEN 1 ELSE 0
            /\ UNCHANGED baseline
    /\ UNCHANGED <<args, queue, stage, streams, report, reports, left, leaks, db, schema,
                    hits>>

Task == \/ BeginTask \/ RepositoryFails
        \/ IndexRepository \/ IndexRaises \/ EvaluateRetrieval \/ EvaluateRaises
        \/ StreamAsks \/ AnswerAbort \/ StreamEnds \/ StreamRaises
        \/ ClearTable \/ EndTask \/ Settle
Next == DatabaseFails \/ DatabaseRecovers \/ EnsureSchema \/ Invoke \/ Task

Spec == Init /\ [][Next]_vars /\ WF_vars(Task)
-----------------------------------------------------------------------------
(* The gate is right about the code: it exits 1 exactly when the retrieval task
   got through and the code finds fewer of its cases than the saved baseline
   says, however many other tasks raised and in whatever order the earlier
   invocations measured, saved or failed (run_evals.main, is_gated_regression). *)
Measured == \E i \in DOMAIN reports: /\ reports[i].category = "retrieval"
                                     /\ ~reports[i].error
TheGateIsRight ==
    exit # NoExit /\ ~args.update /\ reports # <<>> =>
        (exit = 1 <=> Measured /\ baseline # NoData /\ Below(<<hits, Cases>>, baseline))

(* Which rows tasks leave behind, and when.  Without an outage the chunks of a
   task are always cleared, wherever it raised; the records of its graph runs
   stay only when the invocation found no table of chunks or none of facts, whose
   delete then raises and skips the one of the records (tasks._cleanup).  That no
   table of records was there costs nothing.  So a first evaluation on a fresh
   database leaves records behind, and one on a database the server has used and
   some project was indexed in does not. *)
RowsAreCleared ==
    outages = 0 => /\ leaks \subseteq {"records"}
                   /\ leaks # {} => lacked \cap {"chunks", "facts"} # {}

(* Nobody answers an evaluation: an invocation ends all the same, however
   often the graph asks, because run_graph stops after StreamCap streams. *)
SuiteEnds == [](exit = NoExit => <>(exit # NoExit))
=============================================================================
