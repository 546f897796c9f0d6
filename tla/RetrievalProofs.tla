-------------------------- MODULE RetrievalProofs --------------------------
(***************************************************************************)
(* Theorems about the table of chunks, the chunker, the keyword caches and *)
(* the fusion of the two arms, for any files whose definitions lie within  *)
(* them, any number of projects, processes, jobs and edits, any scores,    *)
(* and any failures between two calls of a job.                            *)
(***************************************************************************)
EXTENDS Retrieval, WellFoundedInduction, FunctionTheorems, FiniteSetTheorems,
        SequenceTheorems, TLAPS

\* Rows know where they belong.
LEMMA RowsBelong ==
  ASSUME NEW p \in Projects, NEW path \in Paths
  PROVE  /\ \A r \in RowsOnDisk(p, path) : r.project = p /\ r.path = path
         /\ disk[p][path] = Absent => RowsOnDisk(p, path) = {}
BY DEF RowsOnDisk, ChunksAt, Row

LEMMA RowsAreRows ==
  ASSUME TypeOK, NEW p \in Projects, NEW path \in Paths
  PROVE  RowsOnDisk(p, path) \subseteq AllRows
<1>1. CASE disk[p][path] = Absent
  BY <1>1, RowsBelong
<1>2. CASE disk[p][path] # Absent
  <2>1. disk[p][path] \in Files
    BY <1>2 DEF TypeOK
  <2> DEFINE rows == {Row(p, path, c) : c \in Chunks(disk[p][path])}
  <2>2. RowsOnDisk(p, path) = rows
    BY <1>2 DEF RowsOnDisk, ChunksAt
  <2>3. rows \in {{Row(q, at, c) : c \in Chunks(f)} :
                    q \in Projects, at \in Paths, f \in Files}
    BY <2>1
  <2> HIDE DEF rows
  <2> QED
    BY <2>2, <2>3 DEF AllRows
<1> QED
  BY <1>1, <1>2

LEMMA InitialTypes == Init => TypeOK
<1> SUFFICES ASSUME Init PROVE TypeOK
  OBVIOUS
<1>1. edits \in 0..MaxEdits /\ jobs \in 0..MaxJobs
  BY RetrievalAssumption DEF Init
<1>2. /\ disk \in [Projects -> [Paths -> Files \cup {Absent}]] /\ table \subseteq AllRows
      /\ keyword \in [Clients -> [Projects -> (SUBSET AllRows) \cup {NoIndex}]]
      /\ writer \in [Projects -> [client : Indexers, ok : BOOLEAN] \cup {NoJob}]
  <2> DEFINE Caches == (SUBSET AllRows) \cup {NoIndex}
             Writers == [client : Indexers, ok : BOOLEAN] \cup {NoJob}
  <2>1. NoIndex \in Caches /\ NoJob \in Writers
    OBVIOUS
  <2> HIDE DEF Caches, Writers
  <2>2. keyword \in [Clients -> [Projects -> Caches]] /\ writer \in [Projects -> Writers]
    BY <2>1 DEF Init
  <2> QED
    BY <2>2 DEF Init, Caches, Writers
<1> QED
  BY <1>1, <1>2 DEF Init, TypeOK

\* A new job is a job.
LEMMA NewJobIsAJob ==
  ASSUME TypeOK, NEW c \in Indexers, NEW p \in Projects,
         NEW kind \in {"full", "incremental"}, NEW listing \in Listings(p)
  PROVE  NewJob(c, p, kind, listing) \in Jobs
<1>1. listing.paths \subseteq Paths /\ listing.had \in BOOLEAN
  <2>1. CASE listing = [paths |-> {}, had |-> FALSE]
    BY <2>1
  <2>2. CASE listing # [paths |-> {}, had |-> FALSE]
    <3> DEFINE there == {path \in Paths : disk[p][path] # Absent}
    <3>1. PICK more \in SUBSET (Paths \ there) :
            listing = [paths |-> there \cup more, had |-> TRUE]
      BY <2>2 DEF Listings
    <3> QED
      BY <3>1
  <2> QED
    BY <2>1, <2>2
<1>2. StoredHashes(p) \in [Paths -> SUBSET Texts(AllRows)]
  BY DEF TypeOK, StoredHashes, RowsAt, RowsOf, Texts
<1> QED
  BY <1>1, <1>2 DEF NewJob, Jobs

\* Where a job goes from its files.
LEMMA FilesDoneSteps ==
  ASSUME job \in Jobs, FilesDone
  PROVE  /\ job'.gathered = job.gathered /\ job'.project = job.project
         /\ job'.kind = job.kind /\ job'.client = job.client
         /\ job'.listed = job.listed /\ job'.touched = job.touched
         /\ job'.todo = {} /\ job'.gone = job.gone /\ job'.stored = job.stored
         /\ job'.phase = "add" => job.kind = "full"
         /\ job'.phase = "delete" => job.kind = "incremental"
         /\ job'.phase = "indexed" => job.kind = "full" /\ job.gathered = {}
         /\ job.phase = "files" /\ job'.phase # "files"
<1> DEFINE phase == IF job.kind = "incremental" THEN "delete"
                    ELSE IF job.gathered # {} THEN "add" ELSE "indexed"
<1>1. job' = [job EXCEPT !.phase = phase] /\ job.todo = {} /\ job.phase = "files"
  BY DEF FilesDone
<1>2. /\ phase = "add" => job.kind = "full"
      /\ phase = "indexed" => job.kind = "full" /\ job.gathered = {}
      /\ phase = "delete" => job.kind = "incremental"
      /\ phase # "files"
  BY DEF Jobs
<1> HIDE DEF phase
<1>3. /\ job'.phase = phase /\ job'.gathered = job.gathered /\ job'.project = job.project
      /\ job'.kind = job.kind /\ job'.client = job.client /\ job'.listed = job.listed
      /\ job'.touched = job.touched /\ job'.todo = job.todo /\ job'.gone = job.gone
      /\ job'.stored = job.stored
  BY <1>1 DEF Jobs
<1> QED
  BY <1>1, <1>2, <1>3

\* The types are kept by every step.
LEMMA TypeStep == ASSUME TypeOK, Next PROVE TypeOK'
<1> USE RetrievalAssumption
<1>1. ASSUME NEW p \in Projects, NEW path \in Paths, EditFile(p, path) PROVE TypeOK'
  <2>1. disk' \in [Projects -> [Paths -> Files \cup {Absent}]] /\ edits' \in 0..MaxEdits
    BY <1>1 DEF TypeOK, EditFile
  <2>2. job' \in Jobs \cup {NoJob}
    BY <1>1 DEF TypeOK, EditFile, Jobs
  <2> QED
    BY <1>1, <2>1, <2>2 DEF TypeOK, EditFile
<1>2. ASSUME NEW c \in Indexers, NEW p \in Projects, StartFull(c, p) \/ StartIncremental(c, p)
      PROVE  TypeOK'
  <2>1. job' \in Jobs /\ jobs' \in 0..MaxJobs /\ UNCHANGED <<disk, keyword, search, edits>>
    BY <1>2, NewJobIsAJob DEF StartFull, StartIncremental, Begins, TypeOK
  <2>2. table' \subseteq AllRows
        /\ writer' \in [Projects -> [client : Indexers, ok : BOOLEAN] \cup {NoJob}]
    <3>1. CASE StartFull(c, p)
      <4>1. [client |-> c, ok |-> FALSE] \in [client : Indexers, ok : BOOLEAN]
        OBVIOUS
      <4> QED
        BY <3>1, <4>1 DEF StartFull, TypeOK
    <3>2. CASE StartIncremental(c, p)
      BY <3>2 DEF StartIncremental, TypeOK
    <3> QED
      BY <1>2, <3>1, <3>2
  <2> QED
    BY <2>1, <2>2 DEF TypeOK
<1>3. ASSUME NEW path \in Paths, GatherFile(path) PROVE TypeOK'
  <2>1. job \in Jobs /\ RowsOnDisk(job.project, path) \subseteq AllRows
    BY <1>3, RowsAreRows DEF GatherFile, TypeOK, Jobs
  <2>2. job' \in Jobs
    BY <1>3, <2>1 DEF GatherFile, Jobs
  <2> QED
    BY <1>3, <2>2 DEF GatherFile, TypeOK
<1>4. ASSUME NEW path \in Paths, ReindexFile(path) PROVE TypeOK'
  <2>1. job \in Jobs /\ RowsOnDisk(job.project, path) \subseteq AllRows
    BY <1>4, RowsAreRows DEF ReindexFile, TypeOK, Jobs
  <2>2. job' \in Jobs /\ UNCHANGED <<disk, keyword, search, edits, jobs>>
    BY <1>4, <2>1 DEF ReindexFile, Jobs
  <2>3. table' \subseteq AllRows
    BY <1>4, <2>1 DEF ReindexFile, TypeOK
  <2>4. writer' \in [Projects -> [client : Indexers, ok : BOOLEAN] \cup {NoJob}]
    BY <1>4, <2>1 DEF ReindexFile, TypeOK, Jobs, Says
  <2> QED
    BY <2>2, <2>3, <2>4 DEF TypeOK
<1>5. CASE FilesDone \/ AddAll
  <2>1. job \in Jobs
    BY <1>5 DEF FilesDone, AddAll, TypeOK
  <2>2. job' \in Jobs
    BY <1>5, <2>1 DEF FilesDone, AddAll, Jobs
  <2>3. table' \subseteq AllRows
    BY <1>5, <2>1 DEF FilesDone, AddAll, TypeOK, Jobs
  <2> QED
    BY <1>5, <2>2, <2>3 DEF FilesDone, AddAll, TypeOK
<1>6. CASE DeleteGone
  <2>1. job \in Jobs
    BY <1>6 DEF DeleteGone, TypeOK
  <2>2. CASE job.gone = {}
    <3>1. job' = [job EXCEPT !.phase = "indexed"]
          /\ UNCHANGED <<table, writer, disk, keyword, search, edits, jobs>>
      BY <1>6, <2>2 DEF DeleteGone
    <3>2. job' \in Jobs
      BY <2>1, <3>1 DEF Jobs
    <3> QED
      BY <3>1, <3>2 DEF TypeOK
  <2>3. CASE job.gone # {}
    <3>1. PICK path \in job.gone :
            /\ table' = table \ RowsAt(job.project, path)
            /\ job' = [job EXCEPT !.gone = @ \ {path}]
            /\ writer' = [writer EXCEPT ![job.project] = Says(job, FALSE)]
      BY <1>6, <2>3 DEF DeleteGone
    <3>2. job' \in Jobs /\ table' \subseteq AllRows
      BY <2>1, <3>1 DEF Jobs, TypeOK
    <3>3. Says(job, FALSE) \in [client : Indexers, ok : BOOLEAN]
      BY <2>1 DEF Jobs, Says
    <3>4. writer' \in [Projects -> [client : Indexers, ok : BOOLEAN] \cup {NoJob}]
      BY <3>1, <3>3 DEF TypeOK
    <3> QED
      BY <1>6, <3>2, <3>4 DEF DeleteGone, TypeOK
  <2> QED
    BY <2>2, <2>3
<1>7. CASE Invalidate
  <2>1. job \in Jobs
    BY <1>7 DEF Invalidate, TypeOK
  <2>2. Says(job, TRUE) \in [client : Indexers, ok : BOOLEAN]
    BY <2>1 DEF Jobs, Says
  <2>3. keyword' \in [Clients -> [Projects -> (SUBSET AllRows) \cup {NoIndex}]]
    <3> DEFINE Caches == (SUBSET AllRows) \cup {NoIndex}
    <3>1. NoIndex \in Caches /\ keyword \in [Clients -> [Projects -> Caches]]
      BY DEF TypeOK
    <3> HIDE DEF Caches
    <3>2. keyword' \in [Clients -> [Projects -> Caches]]
      BY <1>7, <3>1 DEF Invalidate, Invalidated
    <3> QED
      BY <3>2 DEF Caches
  <2>4. writer' \in [Projects -> [client : Indexers, ok : BOOLEAN] \cup {NoJob}]
    BY <1>7, <2>2 DEF Invalidate, TypeOK
  <2> QED
    BY <1>7, <2>3, <2>4 DEF Invalidate, TypeOK
<1>8. CASE JobRaises
  BY <1>8 DEF JobRaises, TypeOK, Jobs
<1>9. CASE Searching
  <2>1. ASSUME NEW c \in Clients, NEW p \in Projects, NEW q \in Queries, VectorArm(c, p, q)
        PROVE  TypeOK'
    BY <2>1 DEF VectorArm, TypeOK
  <2>2. CASE KeywordArm
    <3>1. search.client \in Clients /\ search.project \in Projects
      BY <2>2 DEF KeywordArm, TypeOK
    <3>2. Snapshot(search.client, search.project) \in (SUBSET AllRows) \cup {NoIndex}
      BY <3>1 DEF Snapshot, TypeOK, RowsOf
    <3>3. keyword' \in [Clients -> [Projects -> (SUBSET AllRows) \cup {NoIndex}]]
      BY <2>2, <3>1, <3>2 DEF KeywordArm, TypeOK
    <3> QED
      BY <2>2, <3>3 DEF KeywordArm, TypeOK
  <2> QED
    BY <1>9, <2>1, <2>2 DEF Searching
<1> QED
  BY <1>1, <1>2, <1>3, <1>4, <1>5, <1>6, <1>7, <1>8, <1>9 DEF Next, Indexing

\* Every variable keeps its type: in particular the table and the caches hold
\* rows that some file at that path once had.
THEOREM RetrievalTypeCorrect == Spec => []TypeOK
<1>1. TypeOK /\ [Next]_vars => TypeOK'
  BY TypeStep DEF vars, TypeOK
<1> QED
  BY InitialTypes, <1>1, PTL DEF Spec
-----------------------------------------------------------------------------
(* What a process searches. *)

\* While a full job runs its project's rows are nobody's; rows of one project are
\* changed for that project only.
WriterInv ==
  /\ IndexerSearchesWhatItStored
  /\ job # NoJob =>
       /\ \A r \in job.gathered : r.project = job.project
       /\ job.phase = "add" => job.kind = "full"
       /\ job.kind = "full" => writer[job.project] = [client |-> job.client, ok |-> FALSE]

\* A change to the rows of one project, by somebody who has not finished.
LEMMA RowsOfOneProject ==
  ASSUME TypeOK, WriterInv, NEW p \in Projects, NEW w, ~w.ok,
         \A q \in Projects \ {p} : RowsOf(q)' = RowsOf(q),
         writer' = [writer EXCEPT ![p] = w], UNCHANGED keyword
  PROVE  IndexerSearchesWhatItStored'
<1> SUFFICES ASSUME NEW q \in Projects, writer'[q] # NoJob, writer'[q].ok
             PROVE  keyword[writer'[q].client][q] \in {NoIndex, RowsOf(q)'}
  BY DEF IndexerSearchesWhatItStored
<1>1. q # p /\ writer'[q] = writer[q]
  BY DEF TypeOK
<1> QED
  BY <1>1 DEF WriterInv, IndexerSearchesWhatItStored

LEMMA WriterStep == ASSUME TypeOK, WriterInv, Next PROVE WriterInv'
<1>1. ASSUME NEW p \in Projects, NEW path \in Paths, EditFile(p, path) PROVE WriterInv'
  <2>1. IndexerSearchesWhatItStored'
    BY <1>1 DEF EditFile, WriterInv, IndexerSearchesWhatItStored, RowsOf
  <2>2. CASE job' = job
    BY <1>1, <2>1, <2>2 DEF EditFile, WriterInv
  <2>3. CASE job # NoJob /\ job' = [job EXCEPT !.touched = @ \cup {path}]
    BY <1>1, <2>1, <2>3 DEF EditFile, WriterInv, TypeOK, Jobs
  <2> QED
    BY <1>1, <2>2, <2>3 DEF EditFile
<1>2. ASSUME NEW c \in Indexers, NEW p \in Projects, StartFull(c, p) PROVE WriterInv'
  <2>1. PICK listing \in Listings(p) : job' = NewJob(c, p, "full", listing)
    BY <1>2 DEF StartFull, Begins
  <2>2. \A q \in Projects \ {p} : RowsOf(q)' = RowsOf(q)
    BY <1>2 DEF StartFull, RowsOf
  <2>3. IndexerSearchesWhatItStored'
    <3> DEFINE w == [client |-> c, ok |-> FALSE]
    <3>1. ~w.ok
      OBVIOUS
    <3>2. writer' = [writer EXCEPT ![p] = w] /\ UNCHANGED keyword
      BY <1>2 DEF StartFull, Begins
    <3> HIDE DEF w
    <3> QED
      BY <2>2, <3>1, <3>2, RowsOfOneProject
  <2> QED
    BY <1>2, <2>1, <2>3 DEF StartFull, WriterInv, NewJob, TypeOK
<1>3. ASSUME NEW c \in Indexers, NEW p \in Projects, StartIncremental(c, p) PROVE WriterInv'
  <2>1. PICK listing \in Listings(p) : job' = NewJob(c, p, "incremental", listing)
    BY <1>3 DEF StartIncremental, Begins
  <2> QED
    BY <1>3, <2>1 DEF StartIncremental, Begins, WriterInv, NewJob,
       IndexerSearchesWhatItStored, RowsOf
<1>4. ASSUME NEW path \in Paths, GatherFile(path) PROVE WriterInv'
  <2>1. job \in Jobs /\ \A r \in RowsOnDisk(job.project, path) : r.project = job.project
    BY <1>4, RowsBelong DEF GatherFile, TypeOK, Jobs
  <2>2. job' = [job EXCEPT !.todo = job.todo \ {path},
                           !.gathered = job.gathered \cup RowsOnDisk(job.project, path)]
    BY <1>4 DEF GatherFile
  <2>3. /\ job'.gathered = job.gathered \cup RowsOnDisk(job.project, path)
        /\ job'.project = job.project /\ job'.kind = job.kind
        /\ job'.phase = job.phase /\ job'.client = job.client
    BY <2>1, <2>2 DEF Jobs
  <2> QED
    BY <1>4, <2>1, <2>3 DEF GatherFile, WriterInv, IndexerSearchesWhatItStored, RowsOf
<1>5. CASE FilesDone
  <2>1. job \in Jobs
    BY <1>5 DEF FilesDone, TypeOK
  <2>2. /\ job'.gathered = job.gathered /\ job'.project = job.project
        /\ job'.kind = job.kind /\ job'.client = job.client
        /\ job'.phase = "add" => job.kind = "full"
    BY <2>1, <1>5, FilesDoneSteps
  <2> QED
    BY <1>5, <2>1, <2>2 DEF FilesDone, WriterInv, IndexerSearchesWhatItStored, RowsOf
\* A full job adds, all or a part: its project's rows were nobody's already.
<1>6. ASSUME job # NoJob, job.phase = "add", NEW some \in SUBSET job.gathered,
             table' = table \cup some, UNCHANGED <<keyword, writer>>
      PROVE  IndexerSearchesWhatItStored'
  <2>1. /\ job \in Jobs /\ writer[job.project] = [client |-> job.client, ok |-> FALSE]
        /\ \A r \in some : r.project = job.project
    BY <1>6 DEF WriterInv, TypeOK
  <2>2. \A q \in Projects \ {job.project} : RowsOf(q)' = RowsOf(q)
    BY <1>6, <2>1 DEF RowsOf
  <2>3. /\ writer' = [writer EXCEPT ![job.project] = writer[job.project]]
        /\ ~writer[job.project].ok /\ job.project \in Projects
    BY <1>6, <2>1 DEF TypeOK, Jobs
  <2> QED
    BY <1>6, <2>2, <2>3, RowsOfOneProject
<1>7. CASE AddAll
  <2>1. IndexerSearchesWhatItStored'
    BY <1>6, <1>7 DEF AddAll
  <2> QED
    BY <1>7, <2>1 DEF AddAll, WriterInv, TypeOK, Jobs
<1>8. ASSUME NEW path \in Paths, ReindexFile(path) PROVE WriterInv'
  <2>1. job \in Jobs
    BY <1>8 DEF ReindexFile, TypeOK
  <2>2. /\ job'.gathered = job.gathered /\ job'.project = job.project
        /\ job'.kind = job.kind /\ job'.client = job.client /\ job'.phase = job.phase
        /\ job.kind # "full"
    BY <1>8, <2>1 DEF ReindexFile, Jobs
  <2>3. CASE UNCHANGED <<table, writer>>
    BY <1>8, <2>2, <2>3 DEF ReindexFile, WriterInv, IndexerSearchesWhatItStored, RowsOf
  <2>4. CASE /\ table' = (table \ RowsAt(job.project, path)) \cup RowsOnDisk(job.project, path)
             /\ writer' = [writer EXCEPT ![job.project] = Says(job, FALSE)]
    <3>1. \A q \in Projects \ {job.project} : RowsOf(q)' = RowsOf(q)
      BY <2>1, <2>4, RowsBelong DEF RowsOf, RowsAt, Jobs
    <3>2. ~Says(job, FALSE).ok /\ job.project \in Projects
      BY <2>1 DEF Says, Jobs
    <3>3. IndexerSearchesWhatItStored'
      BY <1>8, <2>4, <3>1, <3>2, RowsOfOneProject DEF ReindexFile
    <3> QED
      BY <1>8, <2>2, <3>3 DEF ReindexFile, WriterInv
  <2> QED
    BY <1>8, <2>3, <2>4 DEF ReindexFile
<1>9. CASE DeleteGone
  <2>1. job \in Jobs
    BY <1>9 DEF DeleteGone, TypeOK
  <2>2. CASE job.gone = {}
    <3>1. job' = [job EXCEPT !.phase = "indexed"] /\ UNCHANGED <<table, writer, keyword>>
      BY <1>9, <2>2 DEF DeleteGone
    <3> QED
      <4>1. /\ job'.gathered = job.gathered /\ job'.project = job.project
            /\ job'.kind = job.kind /\ job'.client = job.client /\ job'.phase = "indexed"
        BY <2>1, <3>1 DEF Jobs
      <4>2. IndexerSearchesWhatItStored'
        BY <3>1 DEF WriterInv, IndexerSearchesWhatItStored, RowsOf
      <4> QED
        BY <1>9, <3>1, <4>1, <4>2 DEF DeleteGone, WriterInv
  <2>3. CASE job.gone # {}
    <3>1. PICK path \in job.gone :
            /\ table' = table \ RowsAt(job.project, path)
            /\ job' = [job EXCEPT !.gone = @ \ {path}]
            /\ writer' = [writer EXCEPT ![job.project] = Says(job, FALSE)]
            /\ UNCHANGED keyword
      BY <1>9, <2>3 DEF DeleteGone
    <3>2. \A q \in Projects \ {job.project} : RowsOf(q)' = RowsOf(q)
      BY <3>1 DEF RowsOf, RowsAt
    <3>3. ~Says(job, FALSE).ok /\ job.project \in Projects
      BY <2>1 DEF Says, Jobs
    <3>4. IndexerSearchesWhatItStored'
      BY <3>1, <3>2, <3>3, RowsOfOneProject
    <3>5. writer'[job.project] = [client |-> job.client, ok |-> FALSE]
      BY <3>1, <3>3 DEF TypeOK, Says
    <3> QED
      <4>1. /\ job'.gathered = job.gathered /\ job'.project = job.project
            /\ job'.kind = job.kind /\ job'.client = job.client /\ job'.phase = job.phase
        BY <2>1, <3>1 DEF Jobs
      <4> QED
        BY <1>9, <3>4, <3>5, <4>1 DEF DeleteGone, WriterInv
  <2> QED
    BY <2>2, <2>3
<1>10. CASE Invalidate
  <2>1. job \in Jobs /\ job' = NoJob /\ UNCHANGED table
    BY <1>10 DEF Invalidate, TypeOK
  <2> SUFFICES ASSUME NEW p \in Projects, writer'[p] # NoJob, writer'[p].ok
               PROVE  keyword'[writer'[p].client][p] \in {NoIndex, RowsOf(p)'}
    BY <2>1 DEF WriterInv, IndexerSearchesWhatItStored
  <2>2. RowsOf(p)' = RowsOf(p)
    BY <2>1 DEF RowsOf
  <2>3. CASE p = job.project
    <3>1. writer'[p].client = job.client /\ job.client \in Clients
      BY <1>10, <2>1, <2>3, RetrievalAssumption DEF Invalidate, Says, TypeOK, Jobs
    <3> QED
      BY <1>10, <2>3, <3>1 DEF Invalidate, Invalidated, TypeOK
  <2>4. CASE p # job.project
    <3>1. writer'[p] = writer[p] /\ writer[p].client \in Clients
      BY <1>10, <2>4, RetrievalAssumption DEF Invalidate, TypeOK
    <3>2. keyword'[writer[p].client][p] = keyword[writer[p].client][p]
      BY <1>10, <2>4, <3>1 DEF Invalidate, Invalidated, TypeOK
    <3> QED
      BY <2>2, <3>1, <3>2 DEF WriterInv, IndexerSearchesWhatItStored
  <2> QED
    BY <2>3, <2>4
<1>11. CASE JobRaises
  <2>1. job' = NoJob /\ UNCHANGED <<keyword, writer>>
    BY <1>11 DEF JobRaises
  <2>2. IndexerSearchesWhatItStored'
    <3>1. CASE job.phase = "add"
      BY <1>6, <1>11, <3>1 DEF JobRaises
    <3>2. CASE job.phase # "add"
      <4>1. UNCHANGED table
        BY <1>11, <3>2 DEF JobRaises
      <4> QED
        BY <2>1, <4>1 DEF WriterInv, IndexerSearchesWhatItStored, RowsOf
    <3> QED
      BY <3>1, <3>2
  <2> QED
    BY <2>1, <2>2 DEF WriterInv
<1>12. ASSUME NEW c \in Clients, NEW p \in Projects, NEW q \in Queries, VectorArm(c, p, q)
       PROVE  WriterInv'
  BY <1>12 DEF VectorArm, WriterInv, IndexerSearchesWhatItStored, RowsOf
\* A search fills an empty cache with the rows stored now, and keeps a full one.
<1>13. CASE KeywordArm
  <2>1. search.client \in Clients /\ search.project \in Projects
    BY <1>13 DEF KeywordArm, TypeOK
  <2>2. /\ UNCHANGED <<table, job, writer>>
        /\ keyword' = [keyword EXCEPT ![search.client][search.project] =
                         Snapshot(search.client, search.project)]
    BY <1>13 DEF KeywordArm
  <2>3. \A c \in Clients, p \in Projects :
          keyword'[c][p] = keyword[c][p] \/ keyword'[c][p] = RowsOf(p)
    BY <2>1, <2>2 DEF Snapshot, TypeOK
  <2>4. \A c \in Clients, p \in Projects :
          keyword[c][p] \in {NoIndex, RowsOf(p)} => keyword'[c][p] \in {NoIndex, RowsOf(p)}
    BY <2>3
  <2>5. \A p \in Projects : writer[p] # NoJob => writer[p].client \in Clients
    BY RetrievalAssumption DEF TypeOK
  <2> QED
    BY <2>2, <2>4, <2>5 DEF WriterInv, IndexerSearchesWhatItStored, RowsOf
<1> QED
  BY <1>1, <1>2, <1>3, <1>4, <1>5, <1>7, <1>8, <1>9, <1>10, <1>11, <1>12, <1>13
  DEF Next, Indexing, Searching

\* The process that indexed a project last, and well, searches the rows stored
\* now, whichever jobs failed before and whoever searched meanwhile.
THEOREM IndexerIsUpToDate == Spec => []IndexerSearchesWhatItStored
<1>1. Init => WriterInv
  BY DEF Init, WriterInv, IndexerSearchesWhatItStored
<1>2. TypeOK /\ WriterInv /\ [Next]_vars => WriterInv'
  BY WriterStep DEF vars, WriterInv, IndexerSearchesWhatItStored, RowsOf
<1>3. WriterInv => IndexerSearchesWhatItStored
  BY DEF WriterInv
<1> QED
  BY <1>1, <1>2, <1>3, RetrievalTypeCorrect, PTL DEF Spec
-----------------------------------------------------------------------------
(* What a job leaves in the table. *)

\* A full job empties the project and gathers the rows of the files it visits;
\* nothing of a file before its visit, and what the file holds after it.
FullInv ==
  LET Gathered(path) == {r \in job.gathered : r.path = path}
  IN /\ job.phase # "delete"
     /\ job.phase \in {"files", "add"} => RowsOf(job.project) = {}
     /\ job.phase = "indexed" => RowsOf(job.project) = job.gathered
     /\ \A r \in job.gathered : r.project = job.project
     /\ \A path \in Paths \ job.touched :
          IF path \in job.todo THEN Gathered(path) = {}
          ELSE Gathered(path) = RowsOnDisk(job.project, path)

\* An incremental job finds the files to visit as it stored them, leaves those
\* it visited with the texts on disk, and removes what is gone.
IncrementalInv ==
  /\ job.phase # "add"
  /\ job.phase = "indexed" => job.gone = {}
  /\ job.gone \cap job.todo = {}
  /\ \A path \in job.todo : Texts(RowsAt(job.project, path)) = job.stored[path]
  /\ \A path \in (Paths \ job.touched) \ job.todo :
       IF path \in job.gone THEN RowsOnDisk(job.project, path) = {}
       ELSE Texts(RowsAt(job.project, path)) = Texts(RowsOnDisk(job.project, path))

SyncInv ==
  job # NoJob /\ job.listed =>
    /\ job.phase # "files" => job.todo = {}
    /\ job.kind = "full" => FullInv
    /\ job.kind = "incremental" => IncrementalInv

\* Nothing the invariant speaks of has changed but files that were touched.
LEMMA EditKeepsSync ==
  ASSUME TypeOK, SyncInv, NEW p \in Projects, NEW path \in Paths, EditFile(p, path)
  PROVE  SyncInv'
<1> SUFFICES ASSUME job' # NoJob, job'.listed
             PROVE  /\ job'.phase # "files" => job'.todo = {}
                    /\ job'.kind = "full" => FullInv'
                    /\ job'.kind = "incremental" => IncrementalInv'
  BY DEF SyncInv
<1>1. job # NoJob /\ job \in Jobs
  BY DEF EditFile, TypeOK
<1>0. PICK q \in Projects : q = job.project
  BY <1>1 DEF Jobs
<1>2. /\ job'.project = q /\ job'.kind = job.kind /\ job'.phase = job.phase
      /\ job'.todo = job.todo /\ job'.gathered = job.gathered /\ job'.stored = job.stored
      /\ job'.gone = job.gone /\ job'.listed = job.listed
      /\ job'.touched = IF q = p THEN job.touched \cup {path} ELSE job.touched
  BY <1>1, <1>0 DEF EditFile, Jobs
<1>3. RowsOf(q)' = RowsOf(q) /\ \A at \in Paths : RowsAt(q, at)' = RowsAt(q, at)
  BY DEF EditFile, RowsOf, RowsAt
<1>4. ASSUME NEW at \in Paths \ job'.touched
      PROVE  /\ RowsOnDisk(q, at)' = RowsOnDisk(q, at)
             /\ at \in Paths \ job.touched
  <2>1. disk'[q][at] = disk[q][at] /\ at \in Paths \ job.touched
    BY <1>2 DEF EditFile, TypeOK
  <2> QED
    BY <2>1 DEF RowsOnDisk, ChunksAt
<1>5. CASE job.listed /\ job.kind = "full"
  <2>1. FullInv
    BY <1>1, <1>5 DEF SyncInv
  <2>2. FullInv'
    BY <1>0, <1>2, <1>3, <1>4, <2>1 DEF FullInv
  <2> QED
    BY <1>1, <1>2, <1>5, <2>2 DEF SyncInv
<1>6. CASE job.listed /\ job.kind = "incremental"
  <2>1. IncrementalInv /\ job.todo \subseteq Paths
    BY <1>1, <1>6 DEF SyncInv, Jobs
  <2>2. IncrementalInv'
    BY <1>0, <1>2, <1>3, <1>4, <2>1 DEF IncrementalInv, Texts
  <2> QED
    BY <1>1, <1>2, <1>6, <2>2 DEF SyncInv
<1> QED
  BY <1>1, <1>2, <1>5, <1>6 DEF Jobs

LEMMA StartsInSync ==
  ASSUME TypeOK, NEW c \in Indexers, NEW p \in Projects,
         StartFull(c, p) \/ StartIncremental(c, p)
  PROVE  SyncInv'
<1>1. PICK kind \in {"full", "incremental"}, listing \in Listings(p) :
        /\ job' = NewJob(c, p, kind, listing)
        /\ UNCHANGED disk
        /\ kind = "full" => table' = table \ RowsOf(p)
        /\ kind = "incremental" => UNCHANGED table
  BY DEF StartFull, StartIncremental, Begins
<1>2. /\ job'.project = p /\ job'.kind = kind /\ job'.phase = "files"
      /\ job'.todo = listing.paths /\ job'.gathered = {} /\ job'.stored = StoredHashes(p)
      /\ job'.gone = {path \in Paths \ listing.paths : RowsAt(p, path) # {}}
      /\ job'.listed = listing.had /\ job'.touched = {}
  BY <1>1 DEF NewJob
<1> SUFFICES ASSUME listing.had
             PROVE  /\ kind = "full" => FullInv'
                    /\ kind = "incremental" => IncrementalInv'
  BY <1>2 DEF SyncInv
<1>3. listing.paths \subseteq Paths
      /\ \A path \in Paths \ listing.paths : disk[p][path] = Absent
  BY DEF Listings
<1>4. \A path \in Paths : RowsOnDisk(p, path)' = RowsOnDisk(p, path)
  BY <1>1 DEF RowsOnDisk, ChunksAt
<1>5. \A path \in Paths \ listing.paths : RowsOnDisk(p, path) = {}
  BY <1>3, RowsBelong
<1>6. kind = "full" => FullInv'
  BY <1>1, <1>2, <1>4, <1>5 DEF FullInv, RowsOf
<1>7. CASE kind = "incremental"
  <2>1. \A path \in Paths : RowsAt(p, path)' = RowsAt(p, path)
    BY <1>1, <1>7 DEF RowsAt, RowsOf
  <2>2. \A path \in listing.paths : Texts(RowsAt(p, path)) = StoredHashes(p)[path]
    BY <1>3 DEF StoredHashes
  <2>3. \A path \in Paths \ listing.paths : path \notin job'.gone => RowsAt(p, path) = {}
    BY <1>2
  <2> QED
    BY <1>2, <1>3, <1>4, <1>5, <1>7, <2>1, <2>2, <2>3 DEF IncrementalInv
<1> QED
  BY <1>6, <1>7

LEMMA JobKeepsSync ==
  ASSUME TypeOK, SyncInv,
         \/ \E path \in Paths : GatherFile(path) \/ ReindexFile(path)
         \/ FilesDone \/ AddAll \/ DeleteGone
  PROVE  SyncInv'
<1>0. job \in Jobs /\ job # NoJob /\ UNCHANGED disk
  BY DEF GatherFile, ReindexFile, FilesDone, AddAll, DeleteGone, TypeOK
<1>10. PICK p \in Projects : p = job.project
  BY <1>0 DEF Jobs
<1>1. /\ p \in Projects /\ job.todo \subseteq Paths /\ job.gone \subseteq Paths
      /\ job.kind \in {"full", "incremental"}
  BY <1>10, <1>0 DEF Jobs
<1>2. \A q \in Projects, path \in Paths : RowsOnDisk(q, path)' = RowsOnDisk(q, path)
  BY <1>10, <1>0 DEF RowsOnDisk, ChunksAt
<1>3. \A path \in Paths : \A r \in RowsOnDisk(p, path) : r.project = p /\ r.path = path
  BY <1>10, <1>1, RowsBelong
<1>4. ASSUME NEW path \in Paths, GatherFile(path) PROVE SyncInv'
  <2>1. /\ path \in job.todo /\ job.kind = "full" /\ job.phase = "files" /\ UNCHANGED table
        /\ job' = [job EXCEPT !.todo = job.todo \ {path},
                              !.gathered = job.gathered \cup RowsOnDisk(p, path)]
    BY <1>10, <1>4 DEF GatherFile
  <2>2. /\ job'.project = p /\ job'.kind = "full" /\ job'.phase = "files"
        /\ job'.todo = job.todo \ {path} /\ job'.touched = job.touched
        /\ job'.gathered = job.gathered \cup RowsOnDisk(p, path) /\ job'.listed = job.listed
    BY <1>10, <1>0, <2>1 DEF Jobs
  <2> SUFFICES ASSUME job.listed PROVE FullInv'
    BY <1>10, <2>2 DEF SyncInv
  <2>3. FullInv
    BY <1>10, <1>0, <2>1 DEF SyncInv
  <2>4. RowsOf(p)' = RowsOf(p)
    BY <1>10, <2>1 DEF RowsOf
  <2>5. ASSUME NEW at \in Paths \ job.touched
        PROVE  IF at \in job'.todo THEN {r \in job'.gathered : r.path = at} = {}
               ELSE {r \in job'.gathered : r.path = at} = RowsOnDisk(p, at)
    <3>1. CASE at = path
      <4>1. {r \in job.gathered : r.path = at} = {}
        BY <1>10, <2>1, <2>3, <3>1 DEF FullInv
      <4> QED
        BY <1>10, <1>3, <2>2, <3>1, <4>1
    <3>2. CASE at # path
      <4>1. {r \in job'.gathered : r.path = at} = {r \in job.gathered : r.path = at}
        BY <1>10, <1>3, <2>2, <3>2
      <4>2. at \in job'.todo <=> at \in job.todo
        BY <1>10, <2>2, <3>2
      <4>3. IF at \in job.todo THEN {r \in job.gathered : r.path = at} = {}
            ELSE {r \in job.gathered : r.path = at} = RowsOnDisk(p, at)
        BY <1>10, <2>3 DEF FullInv
      <4> QED
        BY <1>10, <4>1, <4>2, <4>3
    <3> QED
      BY <1>10, <3>1, <3>2
  <2>6. \A r \in job'.gathered : r.project = p
    BY <1>10, <1>3, <2>2, <2>3 DEF FullInv
  <2>7. RowsOf(p) = {}
    BY <1>10, <2>1, <2>3 DEF FullInv
  <2> QED
    BY <1>10, <1>2, <2>2, <2>4, <2>5, <2>6, <2>7 DEF FullInv
<1>5. CASE FilesDone
  <2>1. UNCHANGED table
    BY <1>10, <1>5 DEF FilesDone
  <2>2. /\ RowsOf(p)' = RowsOf(p) /\ \A path : RowsAt(p, path)' = RowsAt(p, path)
    BY <1>10, <2>1 DEF RowsOf, RowsAt
  <2>3. /\ job'.gathered = job.gathered /\ job'.project = p
        /\ job'.kind = job.kind /\ job'.listed = job.listed
        /\ job'.touched = job.touched /\ job'.todo = {} /\ job.todo = {}
        /\ job'.gone = job.gone /\ job'.stored = job.stored
        /\ job'.phase = "add" => job.kind = "full"
        /\ job'.phase = "delete" => job.kind = "incremental"
        /\ job'.phase = "indexed" => job.kind = "full" /\ job.gathered = {}
        /\ job.phase = "files" /\ job'.phase # "files"
    BY <1>10, <1>0, <1>5, FilesDoneSteps DEF FilesDone
  <2> SUFFICES ASSUME job.listed
               PROVE  /\ job.kind = "full" => FullInv'
                      /\ job.kind = "incremental" => IncrementalInv'
    BY <1>10, <2>3 DEF SyncInv
  <2>4. CASE job.kind = "full"
    <3>1. FullInv /\ RowsOf(p) = {}
      BY <1>10, <1>0, <2>3, <2>4 DEF SyncInv, FullInv
    <3>2. FullInv'
      BY <1>10, <1>2, <2>2, <2>3, <2>4, <3>1 DEF FullInv
    <3> QED
      BY <1>10, <2>4, <3>2
  <2>5. CASE job.kind = "incremental"
    <3>1. IncrementalInv
      BY <1>10, <1>0, <2>5 DEF SyncInv
    <3>2. IncrementalInv'
      BY <1>10, <1>2, <2>2, <2>3, <2>5, <3>1 DEF IncrementalInv
    <3> QED
      BY <1>10, <2>5, <3>2
  <2> QED
    BY <1>10, <1>1, <2>4, <2>5
<1>6. CASE AddAll
  <2>1. /\ job.phase = "add" /\ table' = table \cup job.gathered
        /\ job' = [job EXCEPT !.phase = "indexed"]
    BY <1>10, <1>6 DEF AddAll
  <2>2. /\ job'.gathered = job.gathered /\ job'.project = p /\ job'.kind = job.kind
        /\ job'.listed = job.listed /\ job'.touched = job.touched /\ job'.todo = job.todo
        /\ job'.phase = "indexed"
    BY <1>10, <1>0, <2>1 DEF Jobs
  <2> SUFFICES ASSUME job.listed
               PROVE  job.todo = {} /\ job.kind = "full" /\ FullInv'
    BY <1>10, <1>1, <2>2 DEF SyncInv
  <2>3. job.todo = {} /\ job.kind = "full" /\ FullInv
    BY <1>10, <1>0, <1>1, <2>1 DEF SyncInv, IncrementalInv
  <2>4. RowsOf(p)' = job.gathered
    BY <1>10, <2>1, <2>3 DEF FullInv, RowsOf
  <2>5. FullInv'
    BY <1>10, <1>2, <2>2, <2>3, <2>4 DEF FullInv
  <2> QED
    BY <1>10, <2>3, <2>5
<1>7. ASSUME NEW path \in Paths, ReindexFile(path) PROVE SyncInv'
  <2>1. /\ path \in job.todo /\ job.kind = "incremental" /\ job.phase = "files"
        /\ job' = [job EXCEPT !.todo = job.todo \ {path}]
        /\ table' = IF Texts(RowsOnDisk(p, path)) # job.stored[path]
                    THEN (table \ RowsAt(p, path)) \cup RowsOnDisk(p, path) ELSE table
    BY <1>10, <1>7 DEF ReindexFile, Changed
  <2>2. /\ job'.project = p /\ job'.kind = "incremental" /\ job'.phase = "files"
        /\ job'.todo = job.todo \ {path} /\ job'.touched = job.touched
        /\ job'.gone = job.gone /\ job'.listed = job.listed /\ job'.stored = job.stored
    BY <1>10, <1>0, <2>1 DEF Jobs
  <2> SUFFICES ASSUME job.listed PROVE IncrementalInv'
    BY <1>10, <2>2 DEF SyncInv
  <2>3. IncrementalInv
    BY <1>10, <1>0, <2>1 DEF SyncInv
  <2>4. \A at \in Paths \ {path} : RowsAt(p, at)' = RowsAt(p, at)
    BY <1>10, <1>3, <2>1 DEF RowsAt, RowsOf
  <2>5. Texts(RowsAt(p, path)') = Texts(RowsOnDisk(p, path))
    <3>1. CASE Texts(RowsOnDisk(p, path)) # job.stored[path]
      <4>1. RowsAt(p, path)' = RowsOnDisk(p, path)
        BY <1>10, <1>3, <2>1, <3>1 DEF RowsAt, RowsOf
      <4> QED
        BY <1>10, <4>1
    <3>2. CASE Texts(RowsOnDisk(p, path)) = job.stored[path]
      <4>1. RowsAt(p, path)' = RowsAt(p, path)
        BY <1>10, <2>1, <3>2 DEF RowsAt, RowsOf
      <4>2. Texts(RowsAt(p, path)) = job.stored[path]
        BY <1>10, <2>1, <2>3 DEF IncrementalInv
      <4> QED
        BY <1>10, <3>2, <4>1, <4>2
    <3> QED
      BY <1>10, <3>1, <3>2
  <2>6. \A at \in Paths : Texts(RowsAt(p, at))' = Texts(RowsAt(p, at)')
    BY <1>10 DEF Texts
  <2>7. \A at \in Paths : Texts(RowsOnDisk(p, at))' = Texts(RowsOnDisk(p, at))
    BY <1>10, <1>2 DEF Texts
  <2>8. path \notin job.gone
    BY <1>10, <2>1, <2>3 DEF IncrementalInv
  <2>9. \A at \in job'.todo : Texts(RowsAt(p, at))' = job.stored[at]
    BY <1>10, <1>1, <2>2, <2>3, <2>4, <2>6 DEF IncrementalInv
  <2>10. ASSUME NEW at \in (Paths \ job.touched) \ job'.todo
         PROVE  IF at \in job.gone THEN RowsOnDisk(p, at)' = {}
                ELSE Texts(RowsAt(p, at))' = Texts(RowsOnDisk(p, at))'
    <3>1. CASE at = path
      BY <1>10, <2>5, <2>6, <2>7, <2>8, <3>1
    <3>2. CASE at # path
      <4>1. at \notin job.todo
        BY <1>10, <2>2, <3>2
      <4> QED
        BY <1>10, <1>2, <2>3, <2>4, <2>6, <2>7, <3>2, <4>1 DEF IncrementalInv
    <3> QED
      BY <1>10, <3>1, <3>2
  <2>11. job.gone \cap job'.todo = {}
    BY <1>10, <2>2, <2>3 DEF IncrementalInv
  <2> QED
    BY <1>10, <2>2, <2>9, <2>10, <2>11 DEF IncrementalInv
<1>8. CASE DeleteGone
  <2>1. CASE job.gone = {}
    <3>1. job' = [job EXCEPT !.phase = "indexed"] /\ UNCHANGED table /\ job.phase = "delete"
      BY <1>10, <1>8, <2>1 DEF DeleteGone
    <3>2. /\ job'.project = p /\ job'.kind = job.kind /\ job'.phase = "indexed"
          /\ job'.todo = job.todo /\ job'.touched = job.touched /\ job'.gone = {}
          /\ job'.listed = job.listed /\ job'.stored = job.stored
      BY <1>10, <1>0, <2>1, <3>1 DEF Jobs
    <3> SUFFICES ASSUME job.listed
                 PROVE  job.todo = {} /\ job.kind = "incremental" /\ IncrementalInv'
      BY <1>10, <3>2 DEF SyncInv
    <3>3. job.todo = {} /\ job.kind = "incremental" /\ IncrementalInv
      BY <1>10, <1>0, <1>1, <3>1 DEF SyncInv, FullInv
    <3>4. \A path : RowsAt(p, path)' = RowsAt(p, path)
      BY <1>10, <3>1 DEF RowsAt, RowsOf
    <3>5. IncrementalInv'
      BY <1>10, <1>2, <2>1, <3>2, <3>3, <3>4 DEF IncrementalInv, Texts
    <3> QED
      BY <1>10, <3>3, <3>5
  <2>2. CASE job.gone # {}
    <3>1. PICK path \in job.gone :
            /\ table' = table \ RowsAt(p, path)
            /\ job' = [job EXCEPT !.gone = job.gone \ {path}]
            /\ job.phase = "delete"
      BY <1>10, <1>8, <2>2 DEF DeleteGone
    <3>2. /\ job'.project = p /\ job'.kind = job.kind /\ job'.phase = "delete"
          /\ job'.todo = job.todo /\ job'.touched = job.touched
          /\ job'.gone = job.gone \ {path}
          /\ job'.listed = job.listed /\ job'.stored = job.stored
      BY <1>10, <1>0, <3>1 DEF Jobs
    <3> SUFFICES ASSUME job.listed
                 PROVE  job.todo = {} /\ job.kind = "incremental" /\ IncrementalInv'
      BY <1>10, <3>2 DEF SyncInv
    <3>3. job.todo = {} /\ job.kind = "incremental" /\ IncrementalInv
      BY <1>10, <1>0, <1>1, <3>1 DEF SyncInv, FullInv
    <3>4. /\ RowsAt(p, path)' = {}
          /\ \A at : at # path => RowsAt(p, at)' = RowsAt(p, at)
      BY <1>10, <3>1 DEF RowsAt, RowsOf
    <3>5. ASSUME NEW at \in Paths \ job.touched
          PROVE  IF at \in job.gone \ {path} THEN RowsOnDisk(p, at)' = {}
                 ELSE Texts(RowsAt(p, at))' = Texts(RowsOnDisk(p, at))'
      <4>1. IF at \in job.gone THEN RowsOnDisk(p, at) = {}
            ELSE Texts(RowsAt(p, at)) = Texts(RowsOnDisk(p, at))
        BY <1>10, <3>3 DEF IncrementalInv
      <4>2. CASE at = path
        <5>1. RowsAt(p, at)' = {} /\ RowsOnDisk(p, at)' = {}
          BY <1>10, <1>2, <3>1, <3>4, <4>1, <4>2
        <5> QED
          BY <1>10, <4>2, <5>1 DEF Texts
      <4>3. CASE at # path
        BY <1>10, <1>2, <3>4, <4>1, <4>3 DEF Texts
      <4> QED
        BY <1>10, <4>2, <4>3
    <3>6. IncrementalInv'
      BY <1>10, <3>2, <3>3, <3>5 DEF IncrementalInv
    <3> QED
      BY <1>10, <3>3, <3>6
  <2> QED
    BY <1>10, <2>1, <2>2
<1> QED
  BY <1>10, <1>4, <1>5, <1>6, <1>7, <1>8

\* A job that ends well leaves the table in step with every file nobody edited
\* meanwhile, whatever failed before it.
THEOREM IndexIsInSync == Spec => []IndexMatchesDisk
<1>1. Init => SyncInv
  BY DEF Init, SyncInv
<1>2. ASSUME TypeOK, SyncInv, [Next]_vars PROVE SyncInv'
  <2> USE <1>2
  <2>1. CASE Invalidate \/ JobRaises
    BY <2>1 DEF Invalidate, JobRaises, SyncInv
  <2>2. CASE Searching \/ UNCHANGED vars
    <3>1. UNCHANGED <<disk, table, job>>
      BY <2>2 DEF Searching, VectorArm, KeywordArm, vars
    <3> QED
      BY <3>1 DEF SyncInv, FullInv, IncrementalInv, Texts, RowsAt, RowsOf, RowsOnDisk, ChunksAt
  <2> QED
    BY <2>1, <2>2, EditKeepsSync, StartsInSync, JobKeepsSync DEF Next, Indexing
<1>3. TypeOK /\ SyncInv => IndexMatchesDisk
  <2> SUFFICES ASSUME TypeOK, SyncInv, job # NoJob, job.phase = "indexed", job.listed,
                      NEW path \in Paths \ job.touched
               PROVE  LET rows == RowsAt(job.project, path)
                          files == RowsOnDisk(job.project, path)
                      IN /\ job.kind = "full" => rows = files
                         /\ Texts(rows) = Texts(files)
    BY DEF IndexMatchesDisk
  <2>1. job.kind \in {"full", "incremental"} /\ job.todo = {}
    BY DEF TypeOK, Jobs, SyncInv
  <2>2. CASE job.kind = "full"
    <3>1. /\ RowsOf(job.project) = job.gathered
          /\ {r \in job.gathered : r.path = path} = RowsOnDisk(job.project, path)
      BY <2>1, <2>2 DEF SyncInv, FullInv
    <3>2. RowsAt(job.project, path) = RowsOnDisk(job.project, path)
      BY <3>1 DEF RowsAt
    <3> QED
      BY <3>2
  <2>3. CASE job.kind = "incremental"
    BY <2>1, <2>3 DEF SyncInv, IncrementalInv
  <2> QED
    BY <2>1, <2>2, <2>3
<1> QED
  BY <1>1, <1>2, <1>3, RetrievalTypeCorrect, PTL DEF Spec
-----------------------------------------------------------------------------
(* What the chunks of a file hold. *)

LEMMA LeastIsThere ==
  ASSUME NEW S \in SUBSET Nat, S # {}
  PROVE  Least(S) \in S /\ \A n \in S : Least(S) <= n
<1> DEFINE Less == {x \in Nat \X Nat : x[1] < x[2]}
<1>1. IsWellFoundedOn(Less, Nat)
  BY NatLessThanWellFounded DEF OpToRel
<1>2. PICK x \in S : \A y \in S : ~(<<y, x>> \in Less)
  BY <1>1, WFMin
<1>3. ASSUME NEW y \in S PROVE x <= y
  <2>1. y < x => <<y, x>> \in Less
    OBVIOUS
  <2> HIDE DEF Less
  <2> QED
    BY <1>2, <2>1
<1> QED
  BY <1>3 DEF Least

LEMMA GreatestIsThere ==
  ASSUME NEW bound \in Nat, NEW S \in SUBSET (0..bound), S # {}
  PROVE  Greatest(S) \in S /\ \A n \in S : n <= Greatest(S)
<1> DEFINE gaps == {bound - n : n \in S}
<1>1. gaps \in SUBSET Nat /\ gaps # {}
  <2>1. \A n \in S : bound - n \in Nat
    OBVIOUS
  <2> QED
    BY <2>1
<1>2. Least(gaps) \in gaps /\ \A g \in gaps : Least(gaps) <= g
  <2> HIDE DEF gaps
  <2> QED
    BY <1>1, LeastIsThere
<1>3. PICK x \in S : Least(gaps) = bound - x
  BY <1>2
<1>4. \A n \in S : bound - x <= bound - n
  BY <1>2, <1>3
<1>5. \A n \in S : n <= x
  <2>1. \A n \in S : n \in Int
    OBVIOUS
  <2> HIDE DEF gaps
  <2> QED
    BY <1>4, <2>1
<1> QED
  BY <1>5 DEF Greatest

Holds(chunk, line) == \E i \in DOMAIN chunk.text : chunk.text[i] = line

\* A chunk has the lines it spans.
LEMMA ChunkHoldsItsLines ==
  ASSUME NEW file, WellFormed(file), NEW symbol,
         NEW last \in LineNumbers(file), NEW first \in 1..last, NEW n \in first..last
  PROVE  Holds(Chunk(file, symbol, first, last), file.lines[n])
<1> DEFINE S == {file.lines[i] : i \in DOMAIN file.lines}
           text == SubSeq(file.lines, first, last)
<1>1. file.lines \in Seq(S) /\ Len(file.lines) \in Nat /\ last \in 1..Len(file.lines)
  BY DEF WellFormed, IsSequence, LineNumbers
<1> HIDE DEF S
<1>2. DOMAIN text = 1..(last - first + 1)
      /\ \A i \in 1..(last - first + 1) : text[i] = file.lines[first + i - 1]
  BY <1>1
<1>3. n - first + 1 \in 1..(last - first + 1) /\ first + (n - first + 1) - 1 = n
  BY <1>1
<1>4. text[n - first + 1] = file.lines[n]
  BY <1>2, <1>3
<1>5. Chunk(file, symbol, first, last).text = text
  BY DEF Chunk
<1> HIDE DEF text
<1> QED
  BY <1>2, <1>3, <1>4, <1>5 DEF Holds

\* A line outside the top-level definitions is in the preamble, one inside in the
\* chunk of its definition, or of the first one with the same span.
LEMMA StructureHoldsEveryLine ==
  ASSUME NEW file, WellFormed(file), NEW n \in Written(file)
  PROVE  \E c \in StructuralChunks(file) : Holds(c, file.lines[n])
<1> DEFINE kept == Written(file) \ Covered(file)
           L == Len(file.lines)
<1>1. L \in Nat /\ n \in 1..L /\ kept \in SUBSET (1..L) /\ LineNumbers(file) = 1..L
  BY DEF WellFormed, IsSequence, Written, LineNumbers
<1> HIDE DEF L
<1>2. CASE n \in kept
  <2>1. kept # {} /\ kept \in SUBSET Nat /\ kept \in SUBSET (0..L)
    BY <1>1, <1>2
  <2> DEFINE first == Least(kept)  last == Greatest(kept)
  <2>2. Preamble(file) = {Chunk(file, NoSymbol, first, last)}
    BY <2>1 DEF Preamble
  <2> HIDE DEF kept
  <2>3. first \in kept /\ last \in kept /\ first <= n /\ n <= last
    <3>1. first \in kept /\ first <= n
      BY <1>2, <2>1, LeastIsThere
    <3>2. last \in kept /\ n <= last
      BY <1>1, <1>2, <2>1, GreatestIsThere
    <3> QED
      BY <3>1, <3>2
  <2>4. last \in LineNumbers(file) /\ first \in 1..last /\ n \in first..last
    <3>1. first \in 1..L /\ last \in 1..L
      BY <1>1, <2>3
    <3> QED
      BY <1>1, <2>3, <3>1
  <2> HIDE DEF first, last
  <2>5. Holds(Chunk(file, NoSymbol, first, last), file.lines[n])
    BY <2>4, ChunkHoldsItsLines
  <2> QED
    BY <2>2, <2>5 DEF StructuralChunks
<1>3. CASE n \notin kept
  <2>1. PICK j \in DOMAIN file.defs : n \in file.defs[j].first..file.defs[j].last
    BY <1>3 DEF Covered
  <2> DEFINE same == {i \in DOMAIN file.defs : /\ file.defs[i].first = file.defs[j].first
                                               /\ file.defs[i].last = file.defs[j].last}
             i == Least(same)
  <2>2. DOMAIN file.defs \in SUBSET Nat /\ \A k \in DOMAIN file.defs : 1..k \subseteq DOMAIN file.defs
    <3>1. DOMAIN file.defs = 1..Len(file.defs) /\ Len(file.defs) \in Nat
      BY DEF WellFormed, IsSequence
    <3> QED
      BY <3>1
  <2>3. i \in same /\ \A k \in same : i <= k
    <3>1. same \in SUBSET Nat /\ j \in same
      BY <2>2
    <3> HIDE DEF same
    <3> QED
      BY <3>1, LeastIsThere
  <2>4. FirstOfItsSpan(file, i)
    <3>1. i \in Nat /\ i \in DOMAIN file.defs
      BY <2>2, <2>3
    <3> HIDE DEF i
    <3>2. ASSUME NEW k \in 1..(i - 1) PROVE k \notin same
      BY <2>3, <3>1, <3>2
    <3>3. ASSUME NEW k \in 1..(i - 1) PROVE k \in DOMAIN file.defs
      BY <2>2, <3>1
    <3> QED
      BY <2>3, <3>2, <3>3 DEF FirstOfItsSpan
  <2> DEFINE c == Chunk(file, file.defs[i].symbol, file.defs[i].first, file.defs[i].last)
  <2>5. i \in DOMAIN file.defs /\ n \in file.defs[i].first..file.defs[i].last
    BY <2>1, <2>3
  <2> HIDE DEF i
  <2>6. Holds(c, file.lines[n])
    <3>1. file.defs[i].last \in LineNumbers(file) /\ file.defs[i].first \in 1..file.defs[i].last
      BY <2>5 DEF WellFormed
    <3> QED
      BY <2>5, <3>1, ChunkHoldsItsLines
  <2>7. c \in DefinitionChunks(file)
    BY <2>4, <2>5 DEF DefinitionChunks
  <2> QED
    BY <2>6, <2>7 DEF StructuralChunks
<1> QED
  BY <1>2, <1>3

\* The windows leave out no written line.
LEMMA WindowsHoldEveryLine ==
  ASSUME NEW file, WellFormed(file), NEW n \in Written(file)
  PROVE  \E c \in WindowChunks(file) : Holds(c, file.lines[n])
<1> DEFINE L == Len(file.lines)
           W == WindowLines
           past == (n - 1) % W
           s == n - past
           e == WindowEnd(file, s)
<1>1. L \in Nat /\ n \in 1..L /\ LineNumbers(file) = 1..L /\ W \in Nat \ {0}
  BY ChunkerAssumption DEF WellFormed, IsSequence, Written, LineNumbers
<1> HIDE DEF L, W
<1>2. past \in 0..(W - 1) /\ past <= n - 1 /\ (s - 1) % W = 0
  <2> DEFINE q == (n - 1) \div W
  <2>1. q \in Nat /\ past \in 0..(W - 1) /\ n - 1 = W * q + past
    BY <1>1
  <2> HIDE DEF q, past
  <2>2. W * q \in Nat /\ s - 1 = W * q
    BY <1>1, <2>1
  <2>3. (W * q) % W = 0
    BY <1>1, <2>1
  <2> QED
    BY <1>1, <2>1, <2>2, <2>3
<1> HIDE DEF past
<1>3. s \in LineNumbers(file) /\ (s - 1) % WindowLines = 0
  BY <1>1, <1>2 DEF W
<1>4. e \in LineNumbers(file) /\ s \in 1..e /\ n \in s..e
  <2>1. e = IF s + W - 1 <= L THEN s + W - 1 ELSE L
    BY DEF WindowEnd, W, L
  <2> HIDE DEF e
  <2> QED
    BY <1>1, <1>2, <2>1
<1> HIDE DEF s, e
<1>5. Chunk(file, NoSymbol, s, e) \in WindowChunks(file)
  <2>1. s..e \cap Written(file) # {}
    BY <1>4
  <2> QED
    BY <1>3, <2>1 DEF WindowChunks, e
<1>6. Holds(Chunk(file, NoSymbol, s, e), file.lines[n])
  BY <1>4, ChunkHoldsItsLines
<1> QED
  BY <1>5, <1>6

\* No written line of a readable file is lost between chunker and table, for any
\* files, any definitions in them and any size of the windows.
THEOREM LinesAreIndexed == Spec => []EveryLineIsIndexed
<1>1. TypeOK /\ IndexMatchesDisk => EveryLineIsIndexed
  <2> SUFFICES ASSUME TypeOK, IndexMatchesDisk, job # NoJob, job.phase = "indexed", job.listed,
                      NEW path \in Paths \ job.touched,
                      disk[job.project][path] # Absent,
                      disk[job.project][path].status # "unreadable",
                      NEW n \in Written(disk[job.project][path])
               PROVE  \E r \in RowsAt(job.project, path) :
                        \E i \in DOMAIN r.text : r.text[i] = disk[job.project][path].lines[n]
    BY DEF EveryLineIsIndexed
  <2> DEFINE p == job.project
             file == disk[p][path]
  <2>1. p \in Projects /\ file \in Files
    BY DEF TypeOK, Jobs
  <2>2. WellFormed(file)
    BY <2>1, RetrievalAssumption
  <2>3. PICK c \in Chunks(file) : Holds(c, file.lines[n])
    <3> HIDE DEF p, file
    <3>1. file.status # "unreadable" /\ n \in Written(file)
      BY DEF p, file
    <3> QED
      BY <2>2, <3>1, StructureHoldsEveryLine, WindowsHoldEveryLine DEF Chunks
  <2>4. Row(p, path, c) \in RowsOnDisk(p, path) /\ Row(p, path, c).text = c.text
    BY <2>3 DEF RowsOnDisk, ChunksAt, Row
  <2>5. Texts(RowsAt(p, path)) = Texts(RowsOnDisk(p, path))
    BY DEF IndexMatchesDisk
  <2>6. PICK r \in RowsAt(p, path) : r.text = c.text
    BY <2>4, <2>5 DEF Texts
  <2> QED
    BY <2>3, <2>6 DEF Holds
<1> QED
  BY <1>1, IndexIsInSync, RetrievalTypeCorrect, PTL
-----------------------------------------------------------------------------
(* What the fusion of two rankings does. *)

\* A set of scores with their positions comes out of BestFirst whole, the better
\* before the worse: counting what comes before it gives each a place of its own.
LEMMA BestFirstSorts ==
  ASSUME NEW scored, IsFiniteSet(scored), scored \subseteq Int \X Nat,
         \A x, y \in scored : x[2] = y[2] => x = y
  PROVE  LET n == Cardinality(scored)
         IN \E at \in [1..n -> scored] :
              /\ BestFirst(scored) = [k \in 1..n |-> at[k][2]]
              /\ \A a, b \in 1..n : a < b => Before(at[a], at[b])
              /\ \A x \in scored : \E a \in 1..n : at[a] = x
<1> DEFINE n == Cardinality(scored)
           Above(x) == {y \in scored : Before(y, x)}
           Place(x) == 1 + Cardinality(Above(x))
           at == [k \in 1..n |-> CHOOSE x \in scored : Place(x) = k]
<1>1. n \in Nat /\ IsFiniteSet(1..n) /\ Cardinality(1..n) = n
  <2>1. n \in Nat
    BY FS_CardinalityType
  <2> HIDE DEF n
  <2>2. Cardinality(1..n) = IF 1 > n THEN 0 ELSE n - 1 + 1
    BY <2>1, FS_Interval
  <2>3. IsFiniteSet(1..n)
    BY <2>1, FS_Interval
  <2> QED
    BY <2>1, <2>2, <2>3
<1>2. ASSUME NEW x \in scored
      PROVE  /\ IsFiniteSet(Above(x)) /\ Cardinality(Above(x)) \in Nat /\ x \notin Above(x)
             /\ Place(x) \in 1..n
  <2>1. x \notin Above(x)
    BY DEF Before
  <2>2. Above(x) \in SUBSET scored /\ x \in scored
    BY <1>2
  <2> HIDE DEF Above
  <2>3. IsFiniteSet(Above(x)) /\ Cardinality(Above(x)) <= n /\ Cardinality(Above(x)) # n
    BY <2>1, <2>2, FS_Subset
  <2>4. Cardinality(Above(x)) \in Nat
    BY <2>3, FS_CardinalityType
  <2> HIDE DEF n
  <2>5. 1 + Cardinality(Above(x)) \in 1..n
    BY <1>1, <2>3, <2>4
  <2> QED
    BY <2>1, <2>3, <2>4, <2>5
<1>3. ASSUME NEW x \in scored, NEW y \in scored, Before(x, y) PROVE Place(x) < Place(y)
  <2>1. Above(x) \in SUBSET Above(y)
    BY <1>3 DEF Before
  <2>2. x \in Above(y)
    BY <1>3
  <2>3. /\ IsFiniteSet(Above(y)) /\ Cardinality(Above(x)) \in Nat /\ Cardinality(Above(y)) \in Nat
        /\ x \notin Above(x)
    BY <1>2
  <2> HIDE DEF Above
  <2>4. Cardinality(Above(x)) <= Cardinality(Above(y)) /\ Cardinality(Above(y)) # Cardinality(Above(x))
    BY <2>1, <2>2, <2>3, FS_Subset
  <2> QED
    BY <2>3, <2>4
<1>4. \A x, y \in scored : x = y \/ Before(x, y) \/ Before(y, x)
  BY DEF Before
<1>5. BestFirst(scored) = [k \in 1..n |-> (CHOOSE x \in scored : Place(x) = k)[2]]
  BY DEF BestFirst
<1> HIDE DEF Place, Above, n
<1>6. \A x, y \in scored : Place(x) = Place(y) => x = y
  BY <1>2, <1>3, <1>4
<1>7. \A k \in 1..n : \E x \in scored : Place(x) = k
  <2> DEFINE place == [x \in scored |-> Place(x)]
  <2>1. place \in [scored -> 1..n] /\ \A x, y \in scored : place[x] = place[y] => x = y
    BY <1>2, <1>6
  <2> HIDE DEF place
  <2>2. place \in Injection(scored, 1..n)
    BY <2>1 DEF Injection, IsInjective
  <2>3. place \in Surjection(scored, 1..n)
    BY <1>1, <2>2, FS_Injection DEF n
  <2>4. \A k \in 1..n : \E x \in scored : place[x] = k
    BY <2>3 DEF Surjection
  <2> QED
    BY <2>4 DEF place
<1>8. at \in [1..n -> scored] /\ \A k \in 1..n : Place(at[k]) = k
  BY <1>7
<1>9. BestFirst(scored) = [k \in 1..n |-> at[k][2]]
  BY <1>5
<1> HIDE DEF at
<1>10. ASSUME NEW a \in 1..n, NEW b \in 1..n, a < b PROVE Before(at[a], at[b])
  <2>1. at[a] # at[b] /\ ~Before(at[b], at[a])
    BY <1>3, <1>8, <1>10
  <2> QED
    BY <1>4, <1>8, <2>1
<1>11. \A x \in scored : \E a \in 1..n : at[a] = x
  BY <1>2, <1>6, <1>8
<1> QED
  BY <1>8, <1>9, <1>10, <1>11 DEF n

\* The best rows are a sequence of k at most.
LEMMA BestRowsAreFew ==
  ASSUME NEW S, IsFiniteSet(S), NEW value, DOMAIN value = S, NEW k \in Nat
  PROVE  LET best == BestRows(value, k)
         IN IsSequence(best) /\ Len(best) \in Nat /\ Len(best) <= k
<1> DEFINE n == Cardinality(S)
           rows == SetToSeq(S)
           scored == {<<value[rows[i]], i>> : i \in 1..n}
           c == Cardinality(scored)
           order == Take(BestFirst(scored), k)
           m == IF c < k THEN c ELSE k
           best == BestRows(value, k)
<1>1. n \in Nat /\ rows \in [1..n -> S]
  <2>1. n \in Nat /\ ExistsBijection(1..n, S)
    BY FS_CardinalityType
  <2>2. \E f \in [1..n -> S] : IsInjective(f)
    BY <2>1 DEF ExistsBijection, Bijection, Injection
  <2> QED
    BY <2>1, <2>2 DEF SetToSeq
<1> HIDE DEF n, rows
<1>2. c \in Nat
  <2> DEFINE item == [i \in 1..n |-> <<value[rows[i]], i>>]
  <2>1. item \in [1..n -> scored] /\ \A x \in scored : \E i \in 1..n : item[i] = x
    OBVIOUS
  <2>2. IsFiniteSet(1..n)
    BY <1>1, FS_Interval
  <2> HIDE DEF item, scored
  <2>3. item \in Surjection(1..n, scored)
    BY <2>1 DEF Surjection
  <2> QED
    BY <2>2, <2>3, FS_Surjection, FS_CardinalityType
<1>3. best = [i \in DOMAIN order |-> rows[order[i]]]
  <2>1. {<<value[rows[i]], i>> : i \in DOMAIN rows} = scored
    BY <1>1
  <2> HIDE DEF scored
  <2> QED
    BY <2>1 DEF BestRows, rows
<1> HIDE DEF scored, c
<1>4. DOMAIN order = 1..m /\ m \in Nat /\ m <= k
  <2> DEFINE s == BestFirst(scored)
  <2>1. s = [i \in 1..c |-> s[i]]
    BY DEF BestFirst, c
  <2>2. order = SubSeq(s, 1, IF Len(s) < k THEN Len(s) ELSE k)
    BY DEF Take
  <2> HIDE DEF s, order
  <2>3. Len(s) = c
    BY <1>2, <2>1
  <2> QED
    BY <1>2, <2>1, <2>2, <2>3
<1> HIDE DEF order, m, best
<1>5. best = [i \in 1..m |-> rows[order[i]]]
  BY <1>3, <1>4
<1>6. best \in Seq({best[i] : i \in DOMAIN best}) /\ Len(best) = m
  BY <1>4, <1>5
<1> QED
  BY <1>4, <1>6 DEF IsSequence, best

\* A rank's share is a whole number of units, and not none.
LEMMA Weights ==
  ASSUME NEW rank \in 1..CandidateK
  PROVE  Weight(rank) \in Nat \ {0} /\ Weight(rank) * (RrfK + rank) = Unit
<1> DEFINE d == RrfK + rank
<1>1. Unit \in Nat \ {0} /\ d \in Nat \ {0} /\ Unit % d = 0
  BY FusionAssumption
<1> HIDE DEF d
<1> DEFINE w == Unit \div d  rest == Unit % d
<1>2. w \in Nat /\ rest \in 0..(d - 1) /\ Unit = d * w + rest
  BY <1>1
<1>3. Weight(rank) = w
  BY DEF Weight, d
<1>4. rest = 0
  BY <1>1
<1> HIDE DEF w, rest
<1>5. w # 0 /\ w * d = Unit
  BY <1>1, <1>2, <1>4
<1> QED
  BY <1>2, <1>3, <1>5 DEF d

\* Two shares, however low, are more than one, since CandidateK < RrfK + 2.
LEMMA TwoOutweighOne ==
  ASSUME NEW i \in 1..CandidateK, NEW j \in 1..CandidateK, NEW r \in 1..CandidateK
  PROVE  Weight(i) + Weight(j) > Weight(r)
<1>1. RrfK \in Nat /\ CandidateK \in Nat /\ CandidateK < RrfK + 2
  BY FusionAssumption, RetrievalAssumption
<1> DEFINE a == Weight(i)  b == Weight(j)  w == Weight(r)
           least == RrfK + 1  most == RrfK + CandidateK
<1>2. /\ a \in Nat \ {0} /\ b \in Nat \ {0} /\ w \in Nat \ {0}
      /\ a * (RrfK + i) = Unit /\ b * (RrfK + j) = Unit /\ w * (RrfK + r) = Unit
  BY Weights
<1>3. least \in Nat /\ most \in Nat /\ most < 2 * least
  BY <1>1
<1>4. \A x, y, z \in Nat : y <= z => x * y <= x * z
  OBVIOUS
<1>5. Unit \in Nat /\ Unit <= a * most /\ Unit <= b * most /\ w * least <= Unit
  <2>1. /\ RrfK + i \in Nat /\ RrfK + i <= most /\ RrfK + j \in Nat /\ RrfK + j <= most
        /\ RrfK + r \in Nat /\ least <= RrfK + r
    BY <1>1
  <2> HIDE DEF a, b, w, least, most
  <2>2. a * (RrfK + i) <= a * most /\ b * (RrfK + j) <= b * most /\ w * least <= w * (RrfK + r)
    BY <1>2, <1>3, <1>4, <2>1
  <2> QED
    BY <1>2, <2>2, FusionAssumption
<1> HIDE DEF a, b, w, least, most
<1>6. CASE a + b <= w
  <2>1. (a + b) * most <= w * most
    <3>1. (a + b) * most = most * (a + b) /\ w * most = most * w /\ a + b \in Nat
      BY <1>2, <1>3
    <3> QED
      BY <1>2, <1>3, <1>4, <1>6, <3>1
  <2>2. (a + b) * most = a * most + b * most
    BY <1>2, <1>3
  <2>3. w * most < w * (2 * least)
    BY <1>2, <1>3
  <2>4. w * (2 * least) = 2 * (w * least)
    BY <1>2, <1>3
  <2>5. a * most \in Nat /\ b * most \in Nat /\ w * least \in Nat /\ w * most \in Nat
    BY <1>2, <1>3
  <2> QED
    BY <1>5, <2>1, <2>2, <2>3, <2>4, <2>5
<1>7. CASE a + b > w
  BY <1>7 DEF a, b, w
<1> QED
  BY <1>2, <1>6, <1>7

\* What a list gives a key it has, and one it has not.
LEMMA Shares ==
  ASSUME NEW list, IsSequence(list), Len(list) <= CandidateK, NEW key
  PROVE  /\ key \in ToSet(list) => \E rank \in 1..CandidateK : Share(list, key) = Weight(rank)
         /\ key \notin ToSet(list) => Share(list, key) = 0
<1>1. DOMAIN list = 1..Len(list) /\ Len(list) \in Nat /\ CandidateK \in Nat
  BY FusionAssumption DEF IsSequence
<1>2. CASE key \in ToSet(list)
  <2> DEFINE rank == CHOOSE i \in DOMAIN list : list[i] = key
  <2>1. \E i \in DOMAIN list : list[i] = key
    BY <1>2 DEF ToSet
  <2>2. rank \in DOMAIN list
    BY <2>1
  <2>3. Share(list, key) = Weight(rank)
    BY <1>2 DEF Share
  <2> HIDE DEF rank
  <2> QED
    BY <1>1, <1>2, <2>2, <2>3
<1> QED
  BY <1>2 DEF Share

\* Whatever the order of arrival, a key of both lists comes before a key of one.
LEMMA BothBeforeOne ==
  ASSUME NEW vec, IsSequence(vec), Len(vec) <= CandidateK,
         NEW lex, IsSequence(lex), Len(lex) <= CandidateK, NEW k \in Nat
  PROVE  LET both == ToSet(vec) \cap ToSet(lex)
             found == Fuse(vec, lex, k)
         IN \A i \in DOMAIN found :
              found[i] \notin both => both \subseteq {found[j] : j \in 1..(i - 1)}
<1> DEFINE both == ToSet(vec) \cap ToSet(lex)
           found == Fuse(vec, lex, k)
           keys == vec \o lex
           N == Len(vec) + Len(lex)
           arrivals == Arrivals(keys)
           score == [i \in 1..N |-> Score(vec, lex, keys[i])]
           scored == {<<score[i], i>> : i \in arrivals}
           n == Cardinality(scored)
           ranked == Take(BestFirst(scored), k)
           m == IF n < k THEN n ELSE k
<1>1. /\ DOMAIN vec = 1..Len(vec) /\ Len(vec) \in Nat /\ DOMAIN lex = 1..Len(lex) /\ Len(lex) \in Nat
      /\ N \in Nat
  BY DEF IsSequence
<1>2. DOMAIN keys = 1..N /\ \A i \in 1..N : keys[i] = IF i <= Len(vec) THEN vec[i] ELSE lex[i - Len(vec)]
  <2> DEFINE V == {vec[i] : i \in DOMAIN vec}  X == {lex[i] : i \in DOMAIN lex}
  <2>1. vec \in Seq(V \cup X) /\ lex \in Seq(V \cup X)
    <3>1. vec \in Seq(V) /\ lex \in Seq(X) /\ V \subseteq V \cup X /\ X \subseteq V \cup X
      BY DEF IsSequence
    <3> HIDE DEF V, X
    <3> QED
      BY <3>1, SeqMonotonic
  <2> HIDE DEF V, X
  <2> QED
    BY <2>1
<1>3. \A i \in 1..N : keys[i] \in ToSet(vec) \cup ToSet(lex)
  <2> SUFFICES ASSUME NEW i \in 1..N PROVE keys[i] \in ToSet(vec) \cup ToSet(lex)
    OBVIOUS
  <2>1. CASE i <= Len(vec)
    <3>1. i \in DOMAIN vec /\ keys[i] = vec[i]
      BY <1>1, <1>2, <2>1
    <3> QED
      BY <3>1 DEF ToSet
  <2>2. CASE i > Len(vec)
    <3>1. i - Len(vec) \in DOMAIN lex /\ keys[i] = lex[i - Len(vec)]
      BY <1>1, <1>2, <2>2
    <3> QED
      BY <3>1 DEF ToSet
  <2> QED
    BY <1>1, <2>1, <2>2
<1>4. \A b \in both : \E i \in 1..N : keys[i] = b
  <2> SUFFICES ASSUME NEW b \in ToSet(vec) PROVE \E i \in 1..N : keys[i] = b
    OBVIOUS
  <2>1. PICK i \in DOMAIN vec : vec[i] = b
    BY DEF ToSet
  <2> QED
    BY <1>1, <1>2, <2>1
<1>5. arrivals = {i \in 1..N : \A j \in 1..(i - 1) : keys[j] # keys[i]}
  BY <1>2 DEF Arrivals
<1>6. found = [i \in DOMAIN ranked |-> keys[ranked[i]]]
  <2>1. {<<Score(vec, lex, keys[i]), i>> : i \in Arrivals(keys)} = scored
    BY <1>5
  <2> HIDE DEF scored
  <2> QED
    BY <2>1 DEF Fuse
<1> HIDE DEF keys, N, found
<1>7. \A i \in 1..N : score[i] \in Nat /\ score[i] = Share(vec, keys[i]) + Share(lex, keys[i])
  <2> SUFFICES ASSUME NEW i \in 1..N
               PROVE  score[i] \in Nat /\ score[i] = Share(vec, keys[i]) + Share(lex, keys[i])
    OBVIOUS
  <2>1. score[i] = Share(vec, keys[i]) + Share(lex, keys[i])
    BY DEF Score
  <2>2. Share(vec, keys[i]) \in Nat /\ Share(lex, keys[i]) \in Nat
    BY Shares, Weights
  <2> QED
    BY <2>1, <2>2
<1>8. ASSUME NEW i \in 1..N, NEW j \in 1..N, keys[i] \in both, keys[j] \notin both
      PROVE  score[i] > score[j]
  <2>1. PICK a \in 1..CandidateK, b \in 1..CandidateK :
          Share(vec, keys[i]) = Weight(a) /\ Share(lex, keys[i]) = Weight(b)
    <3>1. \E a \in 1..CandidateK : Share(vec, keys[i]) = Weight(a)
      BY <1>8, Shares
    <3>2. \E b \in 1..CandidateK : Share(lex, keys[i]) = Weight(b)
      BY <1>8, Shares
    <3> QED
      BY <3>1, <3>2
  <2>2. PICK r \in 1..CandidateK : score[j] = Weight(r)
    <3>1. CASE keys[j] \in ToSet(vec)
      <4>1. Share(lex, keys[j]) = 0
        BY <1>8, <3>1, Shares
      <4>2. PICK r \in 1..CandidateK : Share(vec, keys[j]) = Weight(r)
        BY <3>1, Shares
      <4> QED
        BY <1>7, <4>1, <4>2, Weights
    <3>2. CASE keys[j] \notin ToSet(vec)
      <4>1. Share(vec, keys[j]) = 0
        BY <3>2, Shares
      <4>2. keys[j] \in ToSet(lex)
        BY <1>3, <3>2
      <4>3. PICK r \in 1..CandidateK : Share(lex, keys[j]) = Weight(r)
        BY <4>2, Shares
      <4> QED
        BY <1>7, <4>1, <4>3, Weights
    <3> QED
      BY <3>1, <3>2
  <2> QED
    BY <1>7, <2>1, <2>2, TwoOutweighOne
<1> HIDE DEF score
<1>9. /\ IsFiniteSet(scored) /\ scored \subseteq Int \X Nat
      /\ \A x, y \in scored : x[2] = y[2] => x = y
      /\ \A x \in scored : x[2] \in arrivals /\ x = <<score[x[2]], x[2]>>
      /\ \A i \in arrivals : <<score[i], i>> \in scored
  <2>1. arrivals \in SUBSET (1..N) /\ \A i \in 1..N : score[i] \in Int /\ i \in Nat
    BY <1>1, <1>5, <1>7 DEF N
  <2> HIDE DEF arrivals
  <2>2. IsFiniteSet(arrivals)
    <3>1. IsFiniteSet(1..N)
      BY <1>1, FS_Interval DEF N
    <3> QED
      BY <2>1, <3>1, FS_Subset
  <2>3. IsFiniteSet(scored)
    <3> DEFINE item == [i \in arrivals |-> <<score[i], i>>]
    <3>1. item \in [arrivals -> scored] /\ \A x \in scored : \E i \in arrivals : item[i] = x
      OBVIOUS
    <3> HIDE DEF item, scored
    <3>2. item \in Surjection(arrivals, scored)
      BY <3>1 DEF Surjection
    <3> QED
      BY <2>2, <3>2, FS_Surjection
  <2>4. \A x \in scored : x[2] \in arrivals /\ x = <<score[x[2]], x[2]>>
    OBVIOUS
  <2>5. \A x, y \in scored : x[2] = y[2] => x = y
    OBVIOUS
  <2>6. scored \subseteq Int \X Nat
    BY <2>1
  <2> QED
    BY <2>3, <2>4, <2>5, <2>6
<1> HIDE DEF scored
<1>10. PICK at \in [1..n -> scored] :
         /\ BestFirst(scored) = [a \in 1..n |-> at[a][2]]
         /\ \A a, b \in 1..n : a < b => Before(at[a], at[b])
         /\ \A x \in scored : \E a \in 1..n : at[a] = x
  BY <1>9, BestFirstSorts
<1>11. n \in Nat /\ m \in Nat /\ m <= n
  BY <1>9, FS_CardinalityType
<1> HIDE DEF n, m
<1>12. DOMAIN ranked = 1..m /\ \A a \in 1..m : ranked[a] = at[a][2]
  <2> DEFINE s == BestFirst(scored)
  <2>1. s = [a \in 1..n |-> at[a][2]]
    BY <1>10
  <2> HIDE DEF s
  <2>2. Len(s) = n
    BY <1>11, <2>1
  <2>3. ranked = SubSeq(s, 1, m)
    BY <2>2 DEF Take, m, s
  <2> HIDE DEF ranked
  <2> QED
    BY <1>11, <2>1, <2>2, <2>3
<1> HIDE DEF ranked, arrivals, both
<1> SUFFICES ASSUME NEW i \in DOMAIN found, found[i] \notin both, NEW b \in both
             PROVE  \E j \in 1..(i - 1) : found[j] = b
  BY DEF both, found
<1>13. /\ i \in 1..m /\ i \in 1..n
       /\ \A a \in 1..m : found[a] = keys[at[a][2]]
  BY <1>6, <1>11, <1>12
<1>14. PICK q \in arrivals : keys[q] = b /\ q \in 1..N
  <2> DEFINE places == {j \in 1..N : keys[j] = b}
  <2>1. places \in SUBSET Nat /\ places # {}
    BY <1>1, <1>4 DEF N
  <2>2. Least(places) \in places /\ \A j \in places : Least(places) <= j
    <3> HIDE DEF places
    <3> QED
      BY <2>1, LeastIsThere
  <2> DEFINE q == Least(places)
  <2>3. q \in 1..N /\ keys[q] = b /\ \A j \in 1..N : keys[j] = b => q <= j
    BY <2>2
  <2> HIDE DEF q, places
  <2>4. \A j \in 1..(q - 1) : keys[j] # keys[q]
    BY <1>1, <2>3 DEF N
  <2> QED
    BY <1>5, <2>3, <2>4
<1>15. PICK a \in 1..n : at[a] = <<score[q], q>>
  <2>1. <<score[q], q>> \in scored
    BY <1>9
  <2> QED
    BY <1>10, <2>1
<1>16. Before(at[a], at[i]) /\ ~Before(at[i], at[a]) /\ a # i
  <2> DEFINE p == at[i][2]
  <2>1. at[i] \in scored
    BY <1>10, <1>13
  <2>2. at[i] = <<score[p], p>> /\ p \in arrivals
    BY <1>9, <2>1
  <2>3. p \in 1..N /\ keys[p] \notin both
    BY <1>5, <1>13, <2>2
  <2> HIDE DEF p
  <2>4. score[q] > score[p] /\ score[q] \in Nat /\ score[p] \in Nat
    BY <1>7, <1>8, <1>14, <2>3
  <2> QED
    BY <1>15, <2>2, <2>4 DEF Before
<1>17. a < i
  BY <1>10, <1>11, <1>13, <1>16
<1>18. a \in 1..m /\ found[a] = b
  <2>1. a \in 1..m
    BY <1>11, <1>13, <1>17
  <2> QED
    BY <1>13, <1>14, <1>15, <2>1
<1> QED
  BY <1>11, <1>13, <1>17, <1>18

LEMMA ChunksAreFinite == ASSUME NEW file, WellFormed(file) PROVE IsFiniteSet(Chunks(file))
<1> DEFINE L == Len(file.lines)
           D == {i \in DOMAIN file.defs : FirstOfItsSpan(file, i)}
           W == {s \in {n \in LineNumbers(file) : (n - 1) % WindowLines = 0} :
                   s..WindowEnd(file, s) \cap Written(file) # {}}
<1>1. IsFiniteSet(D) /\ IsFiniteSet(W)
  <2>1. /\ DOMAIN file.defs = 1..Len(file.defs) /\ Len(file.defs) \in Nat
        /\ LineNumbers(file) = 1..L /\ L \in Nat
    BY DEF WellFormed, IsSequence, LineNumbers
  <2>2. IsFiniteSet(1..Len(file.defs)) /\ IsFiniteSet(1..L)
    BY <2>1, FS_Interval
  <2>3. D \in SUBSET (1..Len(file.defs)) /\ W \in SUBSET (1..L)
    BY <2>1
  <2> HIDE DEF D, W, L
  <2> QED
    BY <2>2, <2>3, FS_Subset
<1>2. IsFiniteSet(DefinitionChunks(file))
  <2> DEFINE chunk == [i \in D |-> Chunk(file, file.defs[i].symbol, file.defs[i].first,
                                         file.defs[i].last)]
  <2>1. /\ chunk \in [D -> DefinitionChunks(file)]
        /\ \A c \in DefinitionChunks(file) : \E i \in D : chunk[i] = c
    BY DEF DefinitionChunks
  <2> HIDE DEF chunk, D
  <2>2. chunk \in Surjection(D, DefinitionChunks(file))
    BY <2>1 DEF Surjection
  <2> QED
    BY <1>1, <2>2, FS_Surjection
<1>3. IsFiniteSet(WindowChunks(file))
  <2> DEFINE chunk == [n \in W |-> Chunk(file, NoSymbol, n, WindowEnd(file, n))]
  <2>1. /\ chunk \in [W -> WindowChunks(file)]
        /\ \A c \in WindowChunks(file) : \E n \in W : chunk[n] = c
    BY DEF WindowChunks
  <2> HIDE DEF chunk, W
  <2>2. chunk \in Surjection(W, WindowChunks(file))
    BY <2>1 DEF Surjection
  <2> QED
    BY <1>1, <2>2, FS_Surjection
<1>4. IsFiniteSet(Preamble(file))
  BY FS_EmptySet, FS_Singleton DEF Preamble
<1>5. IsFiniteSet(StructuralChunks(file))
  BY <1>2, <1>4, FS_Union DEF StructuralChunks
<1> QED
  BY <1>3, <1>5, FS_EmptySet DEF Chunks

LEMMA RowsAreFinite ==
  ASSUME TypeOK, NEW p \in Projects, NEW path \in Paths
  PROVE  IsFiniteSet(RowsOnDisk(p, path))
<1> DEFINE chunks == ChunksAt(p, path)
           row == [c \in chunks |-> Row(p, path, c)]
<1>1. IsFiniteSet(chunks)
  <2>1. CASE disk[p][path] = Absent
    BY <2>1, FS_EmptySet DEF ChunksAt
  <2>2. CASE disk[p][path] # Absent
    <3>1. WellFormed(disk[p][path])
      BY <2>2, RetrievalAssumption DEF TypeOK
    <3> QED
      BY <2>2, <3>1, ChunksAreFinite DEF ChunksAt
  <2> QED
    BY <2>1, <2>2
<1>2. row \in [chunks -> RowsOnDisk(p, path)] /\ \A r \in RowsOnDisk(p, path) : \E c \in chunks : row[c] = r
  BY DEF RowsOnDisk
<1> HIDE DEF row, chunks
<1>3. row \in Surjection(chunks, RowsOnDisk(p, path))
  BY <1>2 DEF Surjection
<1> QED
  BY <1>1, <1>3, FS_Surjection

\* The table and every cache hold finitely many rows, and a call in progress has
\* no more of them than the query was limited to.
FiniteInv ==
  /\ IsFiniteSet(table)
  /\ job # NoJob => IsFiniteSet(job.gathered)
  /\ \A c \in Clients, p \in Projects : keyword[c][p] # NoIndex => IsFiniteSet(keyword[c][p])
  /\ search # NoSearch => IsSequence(search.vec) /\ Len(search.vec) <= CandidateK

LEMMA FiniteStep == ASSUME TypeOK, FiniteInv, Next PROVE FiniteInv'
<1>1. /\ \A S, T : IsFiniteSet(S) /\ T \subseteq S => IsFiniteSet(T)
      /\ \A S, T : IsFiniteSet(S) /\ IsFiniteSet(T) => IsFiniteSet(S \cup T)
      /\ IsFiniteSet({})
  BY FS_Subset, FS_Union, FS_EmptySet
<1>2. job # NoJob => job \in Jobs
  BY DEF TypeOK
<1>3. ASSUME UNCHANGED <<keyword, search>>, IsFiniteSet(table'),
             job' # NoJob => IsFiniteSet(job'.gathered)
      PROVE  FiniteInv'
  BY <1>3 DEF FiniteInv
<1>4. ASSUME NEW p \in Projects, NEW path \in Paths, EditFile(p, path) PROVE FiniteInv'
  <2>1. job' # NoJob => job # NoJob /\ job'.gathered = job.gathered
    BY <1>2, <1>4 DEF EditFile, Jobs
  <2> QED
    BY <1>3, <1>4, <2>1 DEF EditFile, FiniteInv
<1>5. ASSUME NEW c \in Indexers, NEW p \in Projects, StartFull(c, p) \/ StartIncremental(c, p)
      PROVE  FiniteInv'
  <2>1. job'.gathered = {} /\ table' \subseteq table /\ UNCHANGED <<keyword, search>>
    BY <1>5 DEF StartFull, StartIncremental, Begins, NewJob
  <2> QED
    BY <1>1, <1>3, <2>1 DEF FiniteInv
<1>6. ASSUME NEW path \in Paths, GatherFile(path) PROVE FiniteInv'
  <2>1. job # NoJob /\ job.project \in Projects
    BY <1>2, <1>6 DEF GatherFile, Jobs
  <2>2. job'.gathered = job.gathered \cup RowsOnDisk(job.project, path)
    BY <1>2, <1>6 DEF GatherFile, Jobs
  <2> QED
    BY <1>1, <1>3, <1>6, <2>1, <2>2, RowsAreFinite DEF GatherFile, FiniteInv
<1>7. CASE FilesDone
  <2>1. job # NoJob /\ job'.gathered = job.gathered
    BY <1>2, <1>7, FilesDoneSteps DEF FilesDone, Jobs
  <2> QED
    BY <1>3, <1>7, <2>1 DEF FilesDone, FiniteInv
<1>8. CASE AddAll
  <2>1. job # NoJob /\ job'.gathered = job.gathered
    BY <1>2, <1>8 DEF AddAll, Jobs
  <2> QED
    BY <1>1, <1>3, <1>8, <2>1 DEF AddAll, FiniteInv
<1>9. ASSUME NEW path \in Paths, ReindexFile(path) PROVE FiniteInv'
  <2>1. job # NoJob /\ job'.gathered = job.gathered /\ job.project \in Projects
    BY <1>2, <1>9 DEF ReindexFile, Jobs
  <2>2. table' \subseteq table \cup RowsOnDisk(job.project, path)
    BY <1>9 DEF ReindexFile
  <2>3. IsFiniteSet(RowsOnDisk(job.project, path))
    BY <2>1, RowsAreFinite
  <2>4. IsFiniteSet(table')
    <3>1. IsFiniteSet(table \cup RowsOnDisk(job.project, path))
      BY <1>1, <2>3 DEF FiniteInv
    <3> QED
      BY <1>1, <2>2, <3>1
  <2> QED
    BY <1>3, <1>9, <2>1, <2>4 DEF ReindexFile, FiniteInv
<1>10. CASE DeleteGone
  <2>1. job # NoJob /\ job'.gathered = job.gathered /\ table' \subseteq table
    BY <1>2, <1>10 DEF DeleteGone, Jobs
  <2> QED
    BY <1>1, <1>3, <1>10, <2>1 DEF DeleteGone, FiniteInv
<1>11. CASE Invalidate
  <2>1. /\ job' = NoJob /\ UNCHANGED <<table, search>>
        /\ \A c \in Clients, p \in Projects : keyword'[c][p] \in {keyword[c][p], NoIndex}
    BY <1>11 DEF Invalidate, Invalidated, TypeOK
  <2> QED
    BY <2>1 DEF FiniteInv
<1>12. CASE JobRaises
  <2>1. job # NoJob /\ job' = NoJob /\ UNCHANGED <<keyword, search>>
    BY <1>12 DEF JobRaises
  <2>2. table' \subseteq table \cup job.gathered
    BY <1>12 DEF JobRaises
  <2> QED
    BY <1>1, <1>3, <2>1, <2>2 DEF FiniteInv
<1>13. ASSUME NEW c \in Clients, NEW p \in Projects, NEW q \in Queries, VectorArm(c, p, q)
       PROVE  FiniteInv'
  <2> DEFINE value == [r \in RowsOf(p) |-> Nearness(q, r.text)]
  <2>1. UNCHANGED <<table, keyword, job>>
        /\ search'.vec \in {BestRows(value, CandidateK), <<>>}
    BY <1>13 DEF VectorArm, Best
  <2>2. IsFiniteSet(RowsOf(p)) /\ CandidateK \in Nat
    BY <1>1, FusionAssumption DEF FiniteInv, RowsOf
  <2>3. DOMAIN value = RowsOf(p)
    OBVIOUS
  <2> HIDE DEF value
  <2>4. IsSequence(BestRows(value, CandidateK)) /\ Len(BestRows(value, CandidateK)) <= CandidateK
    BY <2>2, <2>3, BestRowsAreFew
  <2>5. IsSequence(<<>>) /\ Len(<<>>) <= CandidateK
    BY <2>2 DEF IsSequence
  <2> QED
    BY <2>1, <2>4, <2>5 DEF FiniteInv
<1>14. CASE KeywordArm
  <2> DEFINE d == search.client  q == search.project
  <2>1. /\ d \in Clients /\ q \in Projects /\ search' = NoSearch /\ UNCHANGED <<table, job>>
        /\ keyword' = [keyword EXCEPT ![d][q] = Snapshot(d, q)]
    BY <1>14 DEF KeywordArm, TypeOK
  <2>2. IsFiniteSet(RowsOf(q)) /\ (keyword[d][q] # NoIndex => IsFiniteSet(keyword[d][q]))
    BY <1>1, <2>1 DEF FiniteInv, RowsOf
  <2>3. IsFiniteSet(Snapshot(d, q))
    BY <2>2 DEF Snapshot
  <2>4. \A c \in Clients, p \in Projects :
          keyword'[c][p] = IF c = d /\ p = q THEN Snapshot(d, q) ELSE keyword[c][p]
    BY <2>1 DEF TypeOK
  <2> QED
    BY <2>1, <2>3, <2>4 DEF FiniteInv
<1> QED
  BY <1>4, <1>5, <1>6, <1>7, <1>8, <1>9, <1>10, <1>11, <1>12, <1>13, <1>14
     DEF Next, Indexing, Searching

\* A chunk both arms found is never ranked below, nor cut for, a chunk only one arm
\* found: for any rows, any scores, any cut and any constants of the fusion with
\* CandidateK < RrfK + 2.
THEOREM AgreementComesFirst == Spec => []AgreementWins
<1>1. Init => FiniteInv
  BY FS_EmptySet DEF Init, FiniteInv
<1>2. TypeOK /\ FiniteInv /\ [Next]_vars => FiniteInv'
  BY FiniteStep DEF vars, FiniteInv
<1>3. TypeOK /\ FiniteInv => AgreementWins
  <2> SUFFICES ASSUME TypeOK, FiniteInv, search # NoSearch
      PROVE LET lex == Lexical(search.query, Snapshot(search.client, search.project))
                both == ToSet(search.vec) \cap ToSet(lex)
                found == Fuse(search.vec, lex, TopK)
            IN \A i \in DOMAIN found :
                 found[i] \notin both => both \subseteq {found[j] : j \in 1..(i - 1)}
    BY DEF AgreementWins, Found
  <2> DEFINE q == search.query
             rows == Snapshot(search.client, search.project)
             value == [r \in {s \in rows : Relevance(q, s) > 0} |-> Relevance(q, r)]
             lex == Lexical(q, rows)
  <2>1. IsFiniteSet(rows)
    <3>1. search.client \in Clients /\ search.project \in Projects
      BY DEF TypeOK
    <3>2. IsFiniteSet(RowsOf(search.project))
      BY FS_Subset DEF FiniteInv, RowsOf
    <3> QED
      BY <3>1, <3>2 DEF FiniteInv, Snapshot
  <2>2. CandidateK \in Nat /\ TopK \in Nat
    BY FusionAssumption, RetrievalAssumption
  <2>3. IsSequence(lex) /\ Len(lex) <= CandidateK
    <3>1. lex = BestRows(value, CandidateK) /\ DOMAIN value \in SUBSET rows
      BY DEF Lexical, Best
    <3> HIDE DEF value, lex, rows
    <3>2. IsFiniteSet(DOMAIN value)
      BY <2>1, <3>1, FS_Subset
    <3> QED
      BY <2>2, <3>1, <3>2, BestRowsAreFew
  <2>4. IsSequence(search.vec) /\ Len(search.vec) <= CandidateK
    BY DEF FiniteInv
  <2> HIDE DEF lex
  <2> QED
    BY <2>2, <2>3, <2>4, BothBeforeOne DEF lex
<1> QED
  BY <1>1, <1>2, <1>3, RetrievalTypeCorrect, PTL DEF Spec
=============================================================================
