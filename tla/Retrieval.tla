----------------------------- MODULE Retrieval -----------------------------
(***************************************************************************)
(* The retrieval stack of rag/: the files of each project's workspace, the *)
(* table of chunks (vector_store.py), the two indexing jobs (indexer.py)   *)
(* and the retriever with its keyword cache (retriever.py,                 *)
(* keyword_index.py) of every process.                                     *)
(*                                                                         *)
(* A client is a process with a RagStack of its own; the table is shared.  *)
(* One indexing job runs at a time, files are edited and other clients     *)
(* search meanwhile.  Between two calls of a job the database or the       *)
(* embedding model may fail, which raises out of the job.                  *)
(***************************************************************************)
EXTENDS Chunker, RankFusion, FiniteSets

CONSTANTS
  Projects, Queries,
  Paths,             \* what a listing may name, see Listings
  Clients, Indexers, \* processes; those that also index (scripts, evals)
  Files,             \* what a path may hold, see Chunker
  Absent,            \* no file at that path
  NoJob, NoIndex, NoSearch,
  Nearness(_, _),    \* cosine similarity of a query and a text
  Relevance(_, _),   \* BM25 score of a query and a row's document
  TopK,              \* RagSettings.top_k
  MaxEdits, MaxJobs  \* bounds: edits of a file, jobs started

ASSUME RetrievalAssumption ==
  /\ Absent \notin Files /\ Indexers \subseteq Clients
  /\ {TopK, MaxEdits, MaxJobs} \subseteq Nat
  /\ CandidateK < RrfK + 2
  /\ \A file \in Files : WellFormed(file)

VARIABLES
  disk,      \* [Projects -> [Paths -> file or Absent]]
  table,     \* the rows of rag_chunks
  keyword,   \* Retriever._keyword_cache of each client
  job,       \* the indexing job in progress, or NoJob
  search,    \* the retrieve call between its two arms
  writer,    \* history: who last changed a project's rows, and if it went well
  edits, jobs

vars == <<disk, table, keyword, job, search, writer, edits, jobs>>

Row(p, path, c) == [project |-> p, path |-> path, symbol |-> c.symbol,
                    first |-> c.first, last |-> c.last, text |-> c.text]

ChunksAt(p, path) ==
  IF disk[p][path] = Absent THEN {} ELSE Chunks(disk[p][path])

\* _chunk_file
RowsOnDisk(p, path) == {Row(p, path, c) : c \in ChunksAt(p, path)}
RowsOf(p) == {r \in table : r.project = p}
RowsAt(p, path) == {r \in RowsOf(p) : r.path = path}
Texts(rows) == {r.text : r \in rows}

\* hashes_by_path
StoredHashes(p) == [path \in Paths |-> Texts(RowsAt(p, path))]

AllRows ==
  UNION {{Row(p, path, c) : c \in Chunks(f)} :
           p \in Projects, path \in Paths, f \in Files}

(***************************************************************************)
(* A job: todo, the listed files not visited yet; gathered, the rows of a  *)
(* full index to come; stored, the hashes an incremental one compares with;*)
(* gone, the stored paths its listing lacks; listed, whether the listing   *)
(* was had.  History: touched, the paths edited since.                     *)
(***************************************************************************)
Jobs ==
  [client : Indexers, project : Projects, kind : {"full", "incremental"},
   phase : {"files", "add", "delete", "indexed"}, todo : SUBSET Paths,
   gathered : SUBSET AllRows, stored : [Paths -> SUBSET Texts(AllRows)],
   gone : SUBSET Paths, listed : BOOLEAN, touched : SUBSET Paths]

TypeOK ==
  /\ disk \in [Projects -> [Paths -> Files \cup {Absent}]]
  /\ table \subseteq AllRows
  /\ keyword \in [Clients -> [Projects -> (SUBSET AllRows) \cup {NoIndex}]]
  /\ job \in Jobs \cup {NoJob}
  /\ search # NoSearch => /\ search.client \in Clients
                         /\ search.project \in Projects /\ search.query \in Queries
  /\ writer \in [Projects -> [client : Indexers, ok : BOOLEAN] \cup {NoJob}]
  /\ edits \in 0..MaxEdits /\ jobs \in 0..MaxJobs

\* A new workspace is empty.
Init ==
  /\ disk = [p \in Projects |-> [path \in Paths |-> Absent]]
  /\ table = {}
  /\ keyword = [c \in Clients |-> [p \in Projects |-> NoIndex]]
  /\ job = NoJob /\ search = NoSearch
  /\ writer = [p \in Projects |-> NoJob]
  /\ edits = 0 /\ jobs = 0
-----------------------------------------------------------------------------
(***************************************************************************)
(* The workspace.                                                          *)
(***************************************************************************)
EditFile(p, path) ==
  /\ edits < MaxEdits /\ edits' = edits + 1
  /\ \E f \in (Files \cup {Absent}) \ {disk[p][path]} :
       disk' = [disk EXCEPT ![p][path] = f]
  /\ job' = IF job # NoJob /\ job.project = p
            THEN [job EXCEPT !.touched = @ \cup {path}] ELSE job
  /\ UNCHANGED <<table, keyword, search, writer, jobs>>

\* _source_files.  Paths are those that git lists and that have a language it
\* knows: an ignored file, one of another kind, or one whose name git quotes is
\* never indexed, and stands for no path here.  Of these, a listing names every
\* file there is, and perhaps a tracked one that is not; nothing at all when git
\* fails, whose exit status ls_files ignores.
Listings(p) ==
  LET there == {path \in Paths : disk[p][path] # Absent}
  IN {[paths |-> there \cup more, had |-> TRUE] : more \in SUBSET (Paths \ there)}
       \cup {[paths |-> {}, had |-> FALSE]}
-----------------------------------------------------------------------------
(***************************************************************************)
(* Indexing.                                                               *)
(***************************************************************************)
NewJob(c, p, kind, listing) ==
  [client |-> c, project |-> p, kind |-> kind, phase |-> "files",
   todo |-> listing.paths, gathered |-> {}, stored |-> StoredHashes(p),
   gone |-> {path \in Paths \ listing.paths : RowsAt(p, path) # {}},
   listed |-> listing.had, touched |-> {}]

Begins(c, p, kind) ==
  /\ job = NoJob /\ jobs < MaxJobs /\ jobs' = jobs + 1
  /\ search # NoSearch => search.client # c
  /\ \E listing \in Listings(p) : job' = NewJob(c, p, kind, listing)
  /\ UNCHANGED <<disk, keyword, search, edits>>

Says(j, ok) == [client |-> j.client, ok |-> ok]

\* index_project up to its listing: the rows go first.
StartFull(c, p) ==
  /\ Begins(c, p, "full")
  /\ table' = table \ RowsOf(p)
  /\ writer' = [writer EXCEPT ![p] = [client |-> c, ok |-> FALSE]]

\* reindex_changed up to its listing.
StartIncremental(c, p) ==
  /\ Begins(c, p, "incremental")
  /\ UNCHANGED <<table, writer>>

\* index_project visits one file of its listing.
GatherFile(path) ==
  /\ job # NoJob /\ job.kind = "full" /\ job.phase = "files" /\ path \in job.todo
  /\ job' = [job EXCEPT !.todo = @ \ {path},
                        !.gathered = @ \cup RowsOnDisk(job.project, path)]
  /\ UNCHANGED <<disk, table, keyword, search, writer, edits, jobs>>

FilesDone ==
  /\ job # NoJob /\ job.phase = "files" /\ job.todo = {}
  /\ job' = [job EXCEPT !.phase =
               IF job.kind = "incremental" THEN "delete"
               ELSE IF job.gathered # {} THEN "add" ELSE "indexed"]
  /\ UNCHANGED <<disk, table, keyword, search, writer, edits, jobs>>

\* embed_chunks and add_chunks
AddAll ==
  /\ job # NoJob /\ job.phase = "add"
  /\ table' = table \cup job.gathered
  /\ job' = [job EXCEPT !.phase = "indexed"]
  /\ UNCHANGED <<disk, keyword, search, writer, edits, jobs>>

HasNewText(stored, rows) == ~ (Texts(rows) \subseteq stored)

\* reindex_changed compares the hash sets of a file.
Changed(stored, rows) == Texts(rows) # stored

\* reindex_changed visits one file: skipped, or embedded and replaced.
ReindexFile(path) ==
  /\ job # NoJob /\ job.kind = "incremental" /\ job.phase = "files"
  /\ path \in job.todo
  /\ LET rows == RowsOnDisk(job.project, path)
         changed == Changed(job.stored[path], rows)
     IN /\ table' = IF changed
                    THEN (table \ RowsAt(job.project, path)) \cup rows
                    ELSE table
        /\ job' = [job EXCEPT !.todo = @ \ {path}]
        /\ writer' = IF changed
                     THEN [writer EXCEPT ![job.project] = Says(job, FALSE)]
                     ELSE writer
  /\ UNCHANGED <<disk, keyword, search, edits, jobs>>

\* The loop over the deleted paths.
DeleteGone ==
  /\ job # NoJob /\ job.phase = "delete"
  /\ IF job.gone = {}
     THEN /\ job' = [job EXCEPT !.phase = "indexed"]
          /\ UNCHANGED <<table, writer>>
     ELSE \E path \in job.gone :
            /\ table' = table \ RowsAt(job.project, path)
            /\ job' = [job EXCEPT !.gone = @ \ {path}]
            /\ writer' = [writer EXCEPT ![job.project] = Says(job, FALSE)]
  /\ UNCHANGED <<disk, keyword, search, edits, jobs>>

InvalidatedIfEmpty(c, p) ==
  [keyword EXCEPT ![c][p] = IF RowsOf(p) = {} THEN NoIndex ELSE @]

\* Retriever.invalidate
Invalidated(c, p) == [keyword EXCEPT ![c][p] = NoIndex]

\* The caller of the job invalidates its own retriever, then goes on.
Invalidate ==
  /\ job # NoJob /\ job.phase = "indexed"
  /\ keyword' = Invalidated(job.client, job.project)
  /\ writer' = [writer EXCEPT ![job.project] = Says(job, TRUE)]
  /\ job' = NoJob
  /\ UNCHANGED <<disk, table, search, edits, jobs>>

\* A call of the job raises: what is stored so far stays, a part of the rows
\* being added included, and nobody invalidates.  In the files of a full index
\* only the listing can raise.
JobRaises ==
  /\ job # NoJob /\ job.phase # "indexed"
  /\ job.kind = "full" /\ job.phase = "files" => job.gathered = {}
  /\ \E some \in IF job.phase = "add" THEN SUBSET job.gathered ELSE {{}} :
       table' = table \cup some
  /\ job' = NoJob
  /\ UNCHANGED <<disk, keyword, search, writer, edits, jobs>>
-----------------------------------------------------------------------------
(***************************************************************************)
(* Searching.                                                              *)
(***************************************************************************)
\* The order and the limit of a query; the domain of the values are the rows.
Best(value) == BestRows(value, CandidateK)

\* Retriever.retrieve up to the vector query; a client that is indexing does
\* nothing else, and an empty query vector skips the arm.
VectorArm(c, p, q) ==
  /\ search = NoSearch
  /\ job # NoJob => job.client # c
  /\ \E vec \in {Best([r \in RowsOf(p) |-> Nearness(q, r.text)]), <<>>} :
       search' = [client |-> c, project |-> p, query |-> q, vec |-> vec]
  /\ UNCHANGED <<disk, table, keyword, job, writer, edits, jobs>>

\* _keyword_index: the cached one, or one of the rows stored now.
Snapshot(c, p) == IF keyword[c][p] = NoIndex THEN RowsOf(p) ELSE keyword[c][p]

\* KeywordIndex.query
Lexical(q, rows) ==
  Best([r \in {s \in rows : Relevance(q, s) > 0} |-> Relevance(q, r)])

\* What the call in progress returns.
Found ==
  Fuse(search.vec,
       Lexical(search.query, Snapshot(search.client, search.project)), TopK)

\* Retriever.retrieve from the keyword arm on: it returns Found.
KeywordArm ==
  /\ search # NoSearch /\ search' = NoSearch
  /\ LET c == search.client  p == search.project
     IN keyword' = [keyword EXCEPT ![c][p] = Snapshot(c, p)]
  /\ UNCHANGED <<disk, table, job, writer, edits, jobs>>

Indexing ==
  \/ \E c \in Indexers, p \in Projects : StartFull(c, p) \/ StartIncremental(c, p)
  \/ \E path \in Paths : GatherFile(path) \/ ReindexFile(path)
  \/ FilesDone \/ AddAll \/ DeleteGone \/ Invalidate \/ JobRaises

Searching ==
  \/ \E c \in Clients, p \in Projects, q \in Queries : VectorArm(c, p, q)
  \/ KeywordArm

Next ==
  \/ \E p \in Projects, path \in Paths : EditFile(p, path)
  \/ Indexing
  \/ Searching

Spec == Init /\ [][Next]_vars
-----------------------------------------------------------------------------
\* A job that ends well leaves the table in step with every file nobody edited
\* meanwhile, whatever failed jobs before it left behind: row for row after a
\* full index, hash for hash after an incremental one, which does not see that
\* a chunk moved (Indexer.index_project, reindex_changed).
IndexMatchesDisk ==
  job # NoJob /\ job.phase = "indexed" /\ job.listed =>
    \A path \in Paths \ job.touched :
      LET rows == RowsAt(job.project, path)
          files == RowsOnDisk(job.project, path)
      IN /\ job.kind = "full" => rows = files
         /\ Texts(rows) = Texts(files)

\* No written line of a readable file is lost between chunker and table: after
\* a job that ends well some stored chunk of the file has it (chunk_source).
EveryLineIsIndexed ==
  job # NoJob /\ job.phase = "indexed" /\ job.listed =>
    \A path \in Paths \ job.touched :
      LET file == disk[job.project][path]
      IN file # Absent /\ file.status # "unreadable" =>
           \A n \in Written(file) : \E r \in RowsAt(job.project, path) :
             \E i \in DOMAIN r.text : r.text[i] = file.lines[n]

\* The process that indexed a project last, and well, searches the rows that
\* are stored now: its keyword index is gone or is of these rows
\* (Retriever.invalidate after the job, _keyword_index).
IndexerSearchesWhatItStored ==
  \A p \in Projects :
    writer[p] # NoJob /\ writer[p].ok =>
      keyword[writer[p].client][p] \in {NoIndex, RowsOf(p)}

\* A chunk both arms found is never ranked below, nor cut for, a chunk only one
\* arm found, however high that arm has it (rrf_scores; CandidateK < RrfK + 2).
AgreementWins ==
  search # NoSearch =>
    LET lex == Lexical(search.query, Snapshot(search.client, search.project))
        both == ToSet(search.vec) \cap ToSet(lex)
        found == Found
    IN \A i \in DOMAIN found :
         found[i] \notin both => both \subseteq {found[j] : j \in 1..(i - 1)}
=============================================================================
