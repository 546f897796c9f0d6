------------------------------- MODULE Memory -------------------------------
(***************************************************************************)
(* The memory of one project: the log of its runs (memory/episodic.py),    *)
(* its durable facts (memory/long_term.py) with the ingestion of decision  *)
(* records (memory/ingest.py), the context the planner is given before it  *)
(* plans (graph/planning_context.py) and the record finalize leaves.       *)
(*                                                                         *)
(* A text is the set of its tokens.  The database and the embedding model  *)
(* go down and come back at any moment; whoever needs one that is down     *)
(* gets an exception.                                                      *)
(***************************************************************************)
EXTENDS Integers, Sequences, FiniteSets, Bags, SequencesExt, Ranking

CONSTANTS
  Statuses,          \* terminal statuses of a run
  Texts,             \* texts of summaries and facts: sets of tokens
  Requests,          \* what users ask: sets of tokens
  Records,           \* the files of docs/adr/ but README.md
  NoRecord, NoTitle, Garbled,  \* no such file, no title line, not UTF-8
  Nearness(_, _),    \* similarity of a request and a fact
  Length(_),         \* length of the bullet a text becomes
  EpisodicK, LongTermK,  \* PlannerSettings.memory_episodic_k, _long_term_k
  Window,            \* memory_episodic_candidate_window
  SectionCap,        \* memory_max_section_chars
  MaxRuns, MaxEdits, MaxNotes  \* bounds: runs, edits of a record, notes

ASSUME MemoryAssumption ==
  /\ {EpisodicK, LongTermK, Window} \subseteq Nat \ {0}
  /\ {SectionCap, MaxRuns, MaxEdits, MaxNotes} \subseteq Nat
  /\ {NoRecord, NoTitle, Garbled} \cap Texts = {}
  /\ IsFiniteSet(Records)
  /\ \A request \in Requests :
       /\ IsFiniteSet(request)
       /\ \A text \in Texts : Nearness(request, text) \in Int
  /\ \A text \in Texts \cup {{}} : Length(text) \in Nat

VARIABLES
  log,      \* rows of memory_episodic, in the order of created_at
  facts,    \* rows of memory_semantic, a bag
  adrs,     \* [Records -> what the file holds]
  ingest,   \* the ingestion in progress: its phase and the facts it read
  down,     \* what is down, of {"database", "embedder"}
  noted,    \* history: the bag of notes written
  edits     \* bound

vars == <<log, facts, adrs, ingest, down, noted, edits>>

Summaries == Texts \cup {{}}  \* a run that failed before its plan has none
Facts == [kind : {"decision", "note"}, text : Texts]
Decisions == {f \in Facts : f.kind = "decision"}
Only(bag, kind) == [f \in {g \in DOMAIN bag : g.kind = kind} |-> bag[f]]

NoIngest == [phase |-> "none", read |-> EmptyBag]

Init ==
  /\ log = <<>> /\ facts = EmptyBag /\ noted = EmptyBag
  /\ adrs = [r \in Records |-> NoRecord]
  /\ ingest = NoIngest
  /\ down = {} /\ edits = 0
-----------------------------------------------------------------------------
(***************************************************************************)
(* Writers.                                                                *)
(***************************************************************************)
\* _record_episode, once per run; with the database down the record is lost
\* and nothing else happens.
FinishRun(status, summary) ==
  /\ Len(log) < MaxRuns
  /\ "database" \notin down
  /\ log' = Append(log, [status |-> status, summary |-> summary])
  /\ UNCHANGED <<facts, adrs, ingest, down, noted, edits>>

\* LongTermMemory.write
WriteNote(text) ==
  LET note == [kind |-> "note", text |-> text]
  IN /\ BagCardinality(noted) < MaxNotes
     /\ down = {}
     /\ facts' = facts (+) SetToBag({note})
     /\ noted' = noted (+) SetToBag({note})
     /\ UNCHANGED <<log, adrs, ingest, down, edits>>

EditRecord(r) ==
  /\ edits < MaxEdits /\ edits' = edits + 1
  /\ \E content \in (Texts \cup {NoRecord, NoTitle, Garbled}) \ {adrs[r]} :
       adrs' = [adrs EXCEPT ![r] = content]
  /\ UNCHANGED <<log, facts, ingest, down, noted>>

\* parse_adr on every record: one with a title is one decision.
Parsed ==
  [f \in {d \in Decisions : \E r \in Records : adrs[r] = d.text} |->
     Cardinality({r \in Records : adrs[r] = f.text})]

\* ingest_adrs reads every record; one that cannot be read raises.
IngestReads ==
  /\ ingest.phase = "none"
  /\ \A r \in Records : adrs[r] # Garbled
  /\ ingest' = [phase |-> "read", read |-> Parsed]
  /\ UNCHANGED <<log, facts, adrs, down, noted, edits>>

\* Deleting by text what is about to be written anew, and no more.
WithoutKnown(bag, read) ==
  [f \in {g \in DOMAIN bag : g \notin DOMAIN read} |-> bag[f]]

\* clear_project(kind="decision")
WithoutDecisions(bag, read) == Only(bag, "note")

IngestClears ==
  /\ ingest.phase = "read"
  /\ IF "database" \in down
     THEN ingest' = NoIngest /\ UNCHANGED facts
     ELSE /\ ingest' = [ingest EXCEPT !.phase = "cleared"]
          /\ facts' = WithoutDecisions(facts, ingest.read)
  /\ UNCHANGED <<log, adrs, down, noted, edits>>

\* What of a bag of facts may be in the table when an exception ends its writing.
Parts(bag) ==
  {part \in UNION {[kept -> 1..Cardinality(Records)] : kept \in SUBSET DOMAIN bag} :
     part \sqsubseteq bag}

\* write_many: all facts, or an exception with some of them inserted.
IngestWrites ==
  /\ ingest.phase = "cleared"
  /\ \/ /\ down = {} \/ ingest.read = EmptyBag
        /\ facts' = facts (+) ingest.read
        /\ ingest' = [ingest EXCEPT !.phase = "written"]
     \/ /\ ingest.read # EmptyBag
        /\ IF down = {}
           THEN \E some \in Parts(ingest.read) : facts' = facts (+) some
           ELSE UNCHANGED facts
        /\ ingest' = NoIngest
  /\ UNCHANGED <<log, adrs, down, noted, edits>>

IngestReturns ==
  /\ ingest.phase = "written" /\ ingest' = NoIngest
  /\ UNCHANGED <<log, facts, adrs, down, noted, edits>>
-----------------------------------------------------------------------------
(***************************************************************************)
(* What build_planner_context gives the planner at any moment: two sections*)
(* that read and change nothing.                                           *)
(***************************************************************************)
\* recent: the newest rows first.
OldestRuns(window) == SubSeq(log, 1, IF Len(log) < window THEN Len(log) ELSE window)

RecentRuns(window) ==
  LET n == IF Len(log) < window THEN Len(log) ELSE window
  IN [i \in 1..n |-> log[Len(log) + 1 - i]]

Overlap(run, request) == Cardinality((run.summary \cup {run.status}) \cap request)

Failed(run) == run.status # "succeeded"

\* _relevance with recency counted in runs, not as a fraction of them.
RelevanceUnscaled(run, request, i, n) ==
  4 * Overlap(run, request) + (IF Failed(run) THEN 3 ELSE 0) + (n - (i - 1))

\* _relevance times 4n, of the i-th of n candidates: overlap + 0.75 for a
\* failure + 0.25 * recency.
Relevance(run, request, i, n) ==
  4 * n * Overlap(run, request) + (IF Failed(run) THEN 3 * n ELSE 0) + (n - (i - 1))

\* relevant: positions in the candidates, best first.
Ranked(recent, request) ==
  LET n == Len(recent)
      scored == {<<Relevance(recent[i], request, i, n), i>> : i \in 1..n}
  IN Take(BestFirst(scored), EpisodicK)

\* The characters the first n bullets take, each with a line end.
Used(bullets, n) ==
  Cardinality(UNION {{i} \X (0..Length(bullets[i])) : i \in 1..n})

\* _cap_section: the first bullet always, then while they fit.
Capped(bullets) ==
  SubSeq(bullets, 1, Cardinality({n \in DOMAIN bullets :
                                    n = 1 \/ Used(bullets, n) <= SectionCap}))

\* LongTermMemory.search: a row for each copy of a fact.
Nearest(request) ==
  LET rows == UNION {{<<f, copy>> : copy \in 1..facts[f]} : f \in DOMAIN facts}
  IN BestRows([r \in rows |-> Nearness(request, r[1].text)], LongTermK)

\* The candidates of the episodic section, none when its source raises.
Candidates == IF "database" \in down THEN <<>> ELSE RecentRuns(Window)

\* _episodic_section
Attempts(request) ==
  LET ranked == Ranked(Candidates, request)
  IN Capped([i \in DOMAIN ranked |-> Candidates[ranked[i]].summary])

\* _long_term_section: its search needs both the embedder and the database.
Conventions(request) ==
  LET found == IF down # {} THEN <<>> ELSE Nearest(request)
  IN Capped([i \in DOMAIN found |-> found[i][1].text])

BackendChanges(b) ==
  /\ down' = IF b \in down THEN down \ {b} ELSE down \cup {b}
  /\ UNCHANGED <<log, facts, adrs, ingest, noted, edits>>

Ingesting == IngestReads \/ IngestClears \/ IngestWrites \/ IngestReturns

Next ==
  \/ \E status \in Statuses, text \in Summaries : FinishRun(status, text)
  \/ \E text \in Texts : WriteNote(text)
  \/ \E r \in Records : EditRecord(r)
  \/ Ingesting
  \/ \E b \in {"database", "embedder"} : BackendChanges(b)

Spec == Init /\ [][Next]_vars
-----------------------------------------------------------------------------
\* An ingestion that returns has made the project's decisions those of the
\* records it read, each once per record: nothing of a record since removed or
\* edited, nothing doubled, whatever failed ingestions left; and no ingestion,
\* finished or failed half way, costs or doubles a fact of another kind
\* (ingest_adrs, clear_project with a kind).
IngestReplaces ==
  /\ ingest.phase = "written" => Only(facts, "decision") = ingest.read
  /\ Only(facts, "note") = noted

\* The attempts are the best of the candidates in order: one more shared token
\* outranks a failure and any recency, a failure outranks recency, and the
\* newer run comes first otherwise (_relevance, relevant).
BestAttemptsFirst ==
  \A request \in Requests :
    LET runs == Candidates
        ranked == Ranked(runs, request)
        Better(i, j) ==
          LET o == Overlap(runs[i], request)  u == Overlap(runs[j], request)
          IN \/ o > u
             \/ o = u /\ Failed(runs[i]) /\ ~Failed(runs[j])
             \/ o = u /\ (Failed(runs[i]) <=> Failed(runs[j])) /\ i < j
    IN /\ \A a, b \in DOMAIN ranked : a < b => Better(ranked[a], ranked[b])
       /\ \A a \in DOMAIN ranked, j \in DOMAIN runs \ ToSet(ranked) :
            Better(ranked[a], j)

\* What the planner is shown: first how the last run failed, when no run of the
\* window has more in common with the request; a section whenever there is
\* anything to say, the attempts also with the embedder down; and no more than
\* the cap, unless the first bullet alone exceeds it (recent, relevant,
\* _cap_section, the exceptions caught by each section).
PlannerSeesWhatMatters ==
  \A request \in Requests :
    LET last == Len(log)
        attempts == Attempts(request)
        conventions == Conventions(request)
    IN /\ /\ "database" \notin down /\ last > 0 /\ Failed(log[last])
          /\ \A i \in DOMAIN log : i + Window > last =>
               Overlap(log[i], request) <= Overlap(log[last], request)
          => attempts # <<>> /\ attempts[1] = log[last].summary
       /\ "database" \notin down /\ log # <<>> => attempts # <<>>
       /\ down = {} /\ facts # EmptyBag => conventions # <<>>
       /\ \A s \in {attempts, conventions} :
            Len(s) > 1 => Used(s, Len(s)) <= SectionCap
=============================================================================
