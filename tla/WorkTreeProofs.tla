--------------------------- MODULE WorkTreeProofs ---------------------------
(***************************************************************************)
(* Theorems about a workspace, for any set of files and contents, any      *)
(* imported project and any number of commits, writes, runs and crashes.   *)
(***************************************************************************)
EXTENDS WorkTree, SequenceTheorems, TLAPS

\* The files nobody has written to since the create or attach began.
Untouched == Paths \ touched
InProject(p) == Source[p] # Absent

\* How far create or attach has got: a directory, then the imported files one
\* by one, then a repository.  A base commit comes with the end of the job.
ProgressInv ==
    /\ job # Idle => exists /\ base = None
    /\ job.step = "idle" => job = Idle
    /\ job.step = "base" => repo
    /\ job.step = "copy" => imported
    /\ job.step # "copy" => job.todo = {}
    /\ job # Idle /\ imported =>
         \A p \in Untouched \ job.todo: InProject(p) => files[p] = Source[p]

\* What the base commit and HEAD have of a file nobody wrote to: the base has what
\* lies in the directory, or nothing of an ignored file; HEAD has it as the base,
\* as long as .gitignore names what it named then.
FileAtBase(p) ==
    /\ imported /\ InProject(p) => files[p] = Source[p]
    /\ \/ commits[base][p] = files[p] /\ commits[Len(commits)][p] = files[p]
       \/ /\ commits[base][p] = Absent /\ p \in ignoring
          /\ commits[Len(commits)][p] = Absent \/ IgnoreFile \in touched

BaseInv ==
    base # None =>
        /\ \A p \in Untouched: FileAtBase(p)
        /\ IgnoreFile \notin touched => ignoring = Ignored(files)

\* A command that runs is the first of the checks to do, of a directory in hand.
VerifyInv ==
    /\ verify.command # "none" => verify.todo # <<>>
    /\ verify.verdict = "running" => base # None

WorkTreeInv == TypeOK /\ ProgressInv /\ BaseInv /\ VerifyInv

LEMMA ChecksAreListed == \A tree \in Trees: DetectChecks(tree) \in Seq(Checks)
<1> SUFFICES ASSUME NEW tree \in Trees PROVE DetectChecks(tree) \in Seq(Checks)
  OBVIOUS
<1>1. /\ <<"compile">> \in Seq(Checks) /\ <<"pytest">> \in Seq(Checks)
      /\ <<"npm-test">> \in Seq(Checks) /\ <<>> \in Seq(Checks)
  BY DEF Checks
<1> HIDE DEF Checks
<1>2. /\ (IF Present(tree, PyFiles) THEN <<"compile">> ELSE <<>>) \in Seq(Checks)
      /\ (IF Present(tree, PyFiles) /\ Present(tree, TestFiles) THEN <<"pytest">> ELSE <<>>)
            \in Seq(Checks)
      /\ (IF Present(tree, PackageFiles) THEN <<"npm-test">> ELSE <<>>) \in Seq(Checks)
  BY <1>1
<1> QED
  BY <1>2, ConcatProperties DEF DetectChecks

LEMMA NothingToVerify == NotVerifying \in Verifications /\ NotVerifying.command = "none"
<1>1. <<>> \in Seq(Checks) /\ <<>> \in Seq(Results)
  OBVIOUS
<1> QED
  BY <1>1 DEF NotVerifying, Verifications

LEMMA NothingCommitted == EmptyTree \in Trees /\ <<>> \in Seq(Trees) /\ Len(<<>>) = 0
<1>1. EmptyTree \in Trees
  BY DEF EmptyTree, Trees
<1> QED
  BY <1>1

\* What git stages of a tree: every file as it is, but nothing of an ignored one
\* that HEAD does not have.
LEMMA WhatIsStaged ==
  ASSUME NEW history \in Seq(Trees), NEW tree \in Trees
  PROVE  /\ Staged(history, tree) \in Trees /\ Ignored(tree) \subseteq Paths
         /\ \A p \in Paths:
              \/ Staged(history, tree)[p] = tree[p]
              \/ Staged(history, tree)[p] = Absent /\ p \in Ignored(tree)
         /\ \A p \in Paths \ Ignored(tree): Staged(history, tree)[p] = tree[p]
         /\ \A p \in Paths: Tracked(history, p) => Staged(history, tree)[p] = tree[p]
         /\ \A p \in Ignored(tree): ~Tracked(history, p) => Staged(history, tree)[p] = Absent
<1>1. Ignored(tree) \subseteq Paths
  BY WorkTreeAssumption DEF Ignored, Trees
<1> QED
  BY <1>1 DEF Staged, Trees

\* A commit puts what is staged at HEAD and keeps the history.
LEMMA CommitsAppend ==
  ASSUME NEW history \in Seq(Trees), NEW tree \in Trees
  PROVE  /\ Committed(history, tree) \in Seq(Trees)
         /\ Committed(history, tree) # <<>>
         /\ Len(Committed(history, tree)) = Len(history) + 1
         /\ Committed(history, tree)[Len(history) + 1] = Staged(history, tree)
         /\ \A i \in 1..Len(history): Committed(history, tree)[i] = history[i]
<1> DEFINE staged == Staged(history, tree)
<1>1. staged \in Trees
  BY WhatIsStaged
<1> HIDE DEF staged
<1>2. /\ Append(history, staged) \in Seq(Trees) /\ Append(history, staged) # <<>>
      /\ Len(Append(history, staged)) = Len(history) + 1
      /\ Append(history, staged)[Len(history) + 1] = staged
      /\ \A i \in 1..Len(history): Append(history, staged)[i] = history[i]
  BY <1>1
<1> QED
  BY <1>2 DEF Committed, staged

\* The base commit is HEAD, and has what git sees of the directory's tree.
LEMMA BaseHoldsTheTree ==
  ASSUME NEW history \in Seq(Trees), NEW tree \in Trees
  PROVE  LET after == WithBase(history, tree) IN
         /\ after \in Seq(Trees) /\ after # <<>>
         /\ BaseAfter(history, after) = Len(after) /\ Len(after) \in Nat \ {0}
         /\ after[Len(after)] = Staged(history, tree)
<1>1. CASE history = <<>> \/ Last(history) # Staged(history, tree)
  <2>1. WithBase(history, tree) = Committed(history, tree)
    BY <1>1 DEF WithBase
  <2> DEFINE after == Committed(history, tree)
  <2>2. /\ Len(history) \in Nat /\ after \in Seq(Trees) /\ after # <<>>
        /\ Len(after) = Len(history) + 1 /\ after[Len(history) + 1] = Staged(history, tree)
    BY CommitsAppend
  <2> HIDE DEF after
  <2>3. Len(after) \in Nat \ {0} /\ after[Len(after)] = Staged(history, tree)
    BY <2>2
  <2> QED
    BY <2>1, <2>2, <2>3 DEF BaseAfter, after
<1>2. CASE ~(history = <<>> \/ Last(history) # Staged(history, tree))
  BY <1>2 DEF WithBase, BaseAfter, Last
<1> QED
  BY <1>1, <1>2

LEMMA InitialTree == Init => WorkTreeInv
<1> SUFFICES ASSUME Init PROVE WorkTreeInv
  OBVIOUS
<1>1. TypeOK
  <2>1. job \in [step: {"idle", "copy", "init", "base"}, todo: SUBSET Paths]
    BY DEF Init, Idle
  <2>2. base \in 0..Len(commits) /\ writes \in 0..MaxWrites
    BY WorkTreeAssumption, NothingCommitted DEF Init, None
  <2>3. files \in Trees /\ commits \in Seq(Trees) /\ verify \in Verifications
    BY NothingToVerify, NothingCommitted DEF Init
  <2> QED
    BY <2>1, <2>2, <2>3 DEF Init, TypeOK
<1>2. ProgressInv /\ BaseInv /\ VerifyInv
  BY NothingToVerify DEF Init, ProgressInv, BaseInv, VerifyInv, Idle, NotVerifying
<1> QED
  BY <1>1, <1>2 DEF WorkTreeInv

\* The handle in hand has a base commit in a repository.
LEMMA HandleHasHistory ==
  ASSUME WorkTreeInv, base # None
  PROVE  /\ base \in 1..Len(commits) /\ Len(commits) \in Nat \ {0}
         /\ commits # <<>> /\ repo /\ exists /\ job = Idle
  BY DEF WorkTreeInv, TypeOK, ProgressInv, None

\* A write touches what it changes.
LEMMA WriteKeepsInv ==
  ASSUME WorkTreeInv, exists,
         NEW p \in Paths, NEW c \in Contents \cup {Absent}, Write(p, c),
         UNCHANGED <<disk, commits, job, handle>>,
         verify' = verify \/ verify' = NotVerifying, orphans' \in BOOLEAN
  PROVE  WorkTreeInv'
<1>1. /\ files' \in Trees /\ touched' \subseteq Paths /\ writes' \in 0..MaxWrites
      /\ \A q \in Paths \ {p}: files'[q] = files[q]
      /\ touched' = touched \cup {p}
  BY WorkTreeAssumption DEF WorkTreeInv, TypeOK, Write, Trees
<1>2. TypeOK'
  BY <1>1, NothingToVerify DEF WorkTreeInv, TypeOK, disk, handle
<1>3. ProgressInv'
  BY <1>1 DEF WorkTreeInv, ProgressInv, TypeOK, disk, handle, Untouched, InProject
<1>4. BaseInv'
  <2> SUFFICES ASSUME base # None PROVE BaseInv'
    BY DEF BaseInv, handle
  <2>1. ASSUME NEW q \in Untouched' PROVE FileAtBase(q)'
    <3>1. q \in Untouched /\ files'[q] = files[q]
      BY <1>1, <2>1 DEF Untouched
    <3>2. FileAtBase(q)
      BY <3>1 DEF WorkTreeInv, BaseInv
    <3> QED
      BY <1>1, <3>1, <3>2 DEF FileAtBase, InProject, handle
  <2>2. IgnoreFile \notin touched' => ignoring' = Ignored(files)'
    <3>1. IgnoreFile \notin touched' => files'[IgnoreFile] = files[IgnoreFile]
      BY <1>1, WorkTreeAssumption
    <3> QED
      BY <1>1, <3>1 DEF WorkTreeInv, BaseInv, Ignored, handle
  <2> QED
    BY <2>1, <2>2 DEF BaseInv
<1>5. VerifyInv'
  BY DEF WorkTreeInv, VerifyInv, NotVerifying, handle
<1> QED
  BY <1>2, <1>3, <1>4, <1>5 DEF WorkTreeInv

\* Steps that leave the tree, its history, the job and the handle alone.
LEMMA VerifyingKeepsInv ==
  ASSUME WorkTreeInv, LaunchCheck \/ CheckEnds \/ EndVerify \/ BeginVerify
  PROVE  WorkTreeInv'
<1>1. UNCHANGED <<disk, files, commits, job, handle, touched, writes>> /\ orphans' \in BOOLEAN
  BY DEF WorkTreeInv, TypeOK, LaunchCheck, CheckEnds, EndVerify, BeginVerify
<1>2. CASE BeginVerify
  <2>1. DetectChecks(files) \in Seq(Checks)
    BY ChecksAreListed DEF WorkTreeInv, TypeOK
  <2>2. verify' \in Verifications /\ VerifyInv'
    BY <1>2, <2>1 DEF BeginVerify, InHand, handle, VerifyInv, Verifications
  <2> QED
    BY <1>1, <2>2 DEF WorkTreeInv, TypeOK, ProgressInv, BaseInv, FileAtBase, Ignored, disk, handle,
                      Untouched
<1>3. CASE LaunchCheck \/ EndVerify
  <2>1. verify' \in Verifications /\ VerifyInv'
    BY <1>3 DEF LaunchCheck, EndVerify, WorkTreeInv, TypeOK, VerifyInv, Verifications, handle
  <2> QED
    BY <1>1, <2>1 DEF WorkTreeInv, TypeOK, ProgressInv, BaseInv, FileAtBase, Ignored, disk, handle,
                      Untouched
<1>4. CASE CheckEnds
  <2>1. PICK outcome \in Outcome(verify.command):
          verify' = [verify EXCEPT !.command = "none", !.todo = Tail(@),
                                   !.results = Append(@, outcome)]
    BY <1>4 DEF CheckEnds
  <2>2. outcome \in Results
    BY <2>1 DEF Outcome, Results
  <2>3. Tail(verify.todo) \in Seq(Checks) /\ Append(verify.results, outcome) \in Seq(Results)
    <3>1. /\ verify.todo \in Seq(Checks) /\ verify.results \in Seq(Results)
          /\ verify.todo # <<>>
      BY <1>4 DEF WorkTreeInv, TypeOK, VerifyInv, CheckEnds, Verifications
    <3> QED
      BY <2>2, <3>1, HeadTailProperties, AppendProperties
  <2>4. verify' \in Verifications /\ VerifyInv'
    BY <1>1, <2>1, <2>3 DEF WorkTreeInv, TypeOK, VerifyInv, Verifications, handle
  <2> QED
    BY <1>1, <2>4 DEF WorkTreeInv, TypeOK, ProgressInv, BaseInv, FileAtBase, Ignored, disk, handle,
                      Untouched
<1> QED
  BY <1>2, <1>3, <1>4

LEMMA LifecycleKeepsInv == ASSUME WorkTreeInv, Lifecycle PROVE WorkTreeInv'
<1>0. VerifyInv' /\ orphans' = orphans
  <2>1. CASE TakeBase
    <3>1. base = None /\ verify' = verify
      BY <2>1 DEF TakeBase, WorkTreeInv, ProgressInv, Idle
    <3> QED
      BY <2>1, <3>1 DEF TakeBase, WorkTreeInv, VerifyInv
  <2>2. CASE Crash
    BY <2>2 DEF Crash, VerifyInv, NotVerifying
  <2>3. CASE Lifecycle /\ ~TakeBase /\ ~Crash
    BY <2>3 DEF WorkTreeInv, Lifecycle, Begin, CopyFile, InitRepo, Cleanup, StartRun, VerifyInv,
                handle
  <2> QED
    BY <2>1, <2>2, <2>3
<1>1. ASSUME NEW exist_ok \in BOOLEAN, NEW attach \in BOOLEAN, Begin(exist_ok, attach)
      PROVE  WorkTreeInv'
  <2> DEFINE todo == IF attach THEN {p \in Paths: Source[p] # Absent} ELSE {}
  <2>1. job' = [step |-> IF todo = {} THEN "init" ELSE "copy", todo |-> todo]
    BY <1>1 DEF Begin
  <2>2. TypeOK'
    BY <1>1, <2>1, WorkTreeAssumption DEF WorkTreeInv, TypeOK, Begin
  <2>3. ProgressInv'
    BY <1>1, <2>1 DEF Begin, ProgressInv, Untouched, InProject, Idle
  <2>4. BaseInv'
    BY <1>1 DEF Begin, BaseInv
  <2> QED
    BY <1>0, <2>2, <2>3, <2>4 DEF WorkTreeInv
<1>2. CASE CopyFile
  <2>1. PICK p \in job.todo:
          /\ files' = [files EXCEPT ![p] = Source[p]]
          /\ job' = [step |-> IF job.todo = {p} THEN "init" ELSE "copy",
                     todo |-> job.todo \ {p}]
    BY <1>2 DEF CopyFile
  <2>2. /\ p \in Paths /\ files' \in Trees /\ files'[p] = Source[p]
        /\ \A q \in Paths \ {p}: files'[q] = files[q]
    BY <2>1, WorkTreeAssumption DEF WorkTreeInv, TypeOK, Trees
  <2>3. exists /\ job # Idle /\ imported /\ base = None
    BY <1>2 DEF WorkTreeInv, ProgressInv, CopyFile, Idle
  <2>4. TypeOK'
    BY <1>2, <2>1, <2>2, <2>3 DEF WorkTreeInv, TypeOK, CopyFile, disk, handle
  <2>5. ProgressInv'
    BY <1>2, <2>1, <2>2, <2>3
    DEF WorkTreeInv, ProgressInv, CopyFile, disk, handle, Untouched, InProject, Idle
  <2>6. BaseInv'
    BY <1>2, <2>3 DEF CopyFile, BaseInv, handle
  <2> QED
    BY <1>0, <2>4, <2>5, <2>6 DEF WorkTreeInv
<1>3. CASE InitRepo
  <2>1. exists /\ base = None /\ job # Idle
    BY <1>3 DEF WorkTreeInv, ProgressInv, InitRepo, Idle
  <2>2. job' = [step |-> "base", todo |-> job.todo]
    BY <1>3 DEF WorkTreeInv, TypeOK, InitRepo
  <2>3. TypeOK'
    BY <1>3, <2>1, <2>2 DEF WorkTreeInv, TypeOK, InitRepo, handle
  <2>4. ProgressInv'
    BY <1>3, <2>1, <2>2 DEF WorkTreeInv, ProgressInv, InitRepo, handle, Untouched, Idle
  <2>5. BaseInv'
    BY <1>3, <2>1 DEF InitRepo, BaseInv, handle
  <2> QED
    BY <1>0, <2>3, <2>4, <2>5 DEF WorkTreeInv
<1>4. CASE TakeBase
  <2>1. /\ commits' \in Seq(Trees) /\ commits' # <<>> /\ base' = Len(commits')
        /\ Len(commits') \in Nat \ {0} /\ commits'[Len(commits')] = Staged(commits, files)
    BY <1>4, BaseHoldsTheTree DEF TakeBase, WorkTreeInv, TypeOK
  <2>2. repo /\ job # Idle /\ job.todo = {} /\ job' = Idle
    BY <1>4 DEF WorkTreeInv, ProgressInv, TakeBase, Idle
  <2>3. TypeOK'
    BY <1>4, <2>1, <2>2, WhatIsStaged DEF WorkTreeInv, TypeOK, TakeBase, disk, Idle
  <2>4. ProgressInv'
    BY <1>4, <2>2 DEF ProgressInv, TakeBase, Idle
  <2>5. BaseInv'
    <3>1. /\ ignoring' = Ignored(files) /\ files' = files /\ imported' = imported
          /\ touched' = touched /\ files \in Trees /\ commits \in Seq(Trees)
      BY <1>4 DEF TakeBase, disk, WorkTreeInv, TypeOK
    <3>2. ASSUME NEW p \in Untouched' PROVE FileAtBase(p)'
      <4>1. p \in Untouched /\ p \in Paths
        BY <3>1, <3>2 DEF Untouched
      <4>2. imported /\ InProject(p) => files[p] = Source[p]
        BY <2>2, <4>1 DEF WorkTreeInv, ProgressInv
      <4>3. \/ Staged(commits, files)[p] = files[p]
            \/ Staged(commits, files)[p] = Absent /\ p \in Ignored(files)
        BY <3>1, <4>1, WhatIsStaged
      <4> QED
        BY <2>1, <3>1, <4>2, <4>3 DEF FileAtBase, InProject
    <3>3. ignoring' = Ignored(files)'
      BY <3>1 DEF Ignored
    <3> QED
      BY <3>2, <3>3 DEF BaseInv
  <2> QED
    BY <1>0, <2>3, <2>4, <2>5 DEF WorkTreeInv
<1>5. CASE Crash
  <2>1. TypeOK'
    <3>1. job' \in [step: {"idle", "copy", "init", "base"}, todo: SUBSET Paths]
      BY <1>5 DEF Crash, Idle
    <3>2. base' \in 0..Len(commits')
      BY <1>5 DEF Crash, None, WorkTreeInv, TypeOK
    <3> QED
      BY <1>5, <3>1, <3>2, NothingToVerify DEF WorkTreeInv, TypeOK, Crash, disk
  <2> QED
    BY <1>0, <1>5, <2>1 DEF WorkTreeInv, ProgressInv, BaseInv, Crash, Idle
<1>6. CASE Cleanup
  <2>1. TypeOK'
    <3>1. base' \in 0..Len(commits') /\ writes' \in 0..MaxWrites
      BY <1>6, WorkTreeAssumption, NothingCommitted DEF Cleanup, None, handle
    <3> QED
      BY <1>6, <3>1, NothingCommitted DEF WorkTreeInv, TypeOK, Cleanup, handle
  <2> QED
    BY <1>0, <1>6, <2>1 DEF WorkTreeInv, ProgressInv, BaseInv, Cleanup, handle, Idle
<1>7. CASE StartRun
  BY <1>0, <1>7 DEF WorkTreeInv, TypeOK, ProgressInv, BaseInv, FileAtBase, Ignored, StartRun,
                    handle, Untouched
<1> QED
  BY <1>1, <1>2, <1>3, <1>4, <1>5, <1>6, <1>7 DEF Lifecycle

LEMMA WorkingKeepsInv == ASSUME WorkTreeInv, Working PROVE WorkTreeInv'
<1>1. CASE AgentWrites
  <2>1. exists
    BY <1>1, HandleHasHistory DEF AgentWrites, InHand
  <2>2. orphans' \in BOOLEAN
    BY <1>1 DEF WorkTreeInv, TypeOK, AgentWrites
  <2> QED
    BY <1>1, <2>1, <2>2, WriteKeepsInv DEF AgentWrites
<1>2. CASE OrphanWrites
  <2>1. orphans' \in BOOLEAN
    BY <1>2 DEF WorkTreeInv, TypeOK, OrphanWrites
  <2> QED
    BY <1>2, <2>1, WriteKeepsInv DEF OrphanWrites
<1>2a. CASE CheckWrites
  <2>1. exists
    <3>1. verify.verdict = "running"
      BY <1>2a DEF CheckWrites
    <3> QED
      BY <3>1, HandleHasHistory DEF WorkTreeInv, VerifyInv
  <2>2. orphans' \in BOOLEAN
    BY <1>2a DEF WorkTreeInv, TypeOK, CheckWrites
  <2> QED
    BY <1>2a, <2>1, <2>2, WriteKeepsInv DEF CheckWrites
<1>3. CASE CommitTask
  <2>1. /\ base \in 1..Len(commits) /\ Len(commits) \in Nat \ {0} /\ base # None
        /\ repo /\ job = Idle
    BY <1>3, HandleHasHistory DEF CommitTask, InHand
  <2>2. /\ commits' \in Seq(Trees) /\ Len(commits') = Len(commits) + 1
        /\ commits'[Len(commits')] = Staged(commits, files) /\ commits'[base] = commits[base]
        /\ commits' # <<>>
    <3>1. commits' = Committed(commits, files) /\ commits \in Seq(Trees) /\ files \in Trees
      BY <1>3 DEF CommitTask, WorkTreeInv, TypeOK
    <3>2. /\ commits' \in Seq(Trees) /\ commits' # <<>>
          /\ Len(commits') = Len(commits) + 1
          /\ commits'[Len(commits) + 1] = Staged(commits, files)
          /\ \A i \in 1..Len(commits): commits'[i] = commits[i]
      BY <3>1, CommitsAppend
    <3> QED
      BY <2>1, <3>2
  <2>3. TypeOK'
    BY <1>3, <2>1, <2>2, WorkTreeAssumption DEF WorkTreeInv, TypeOK, CommitTask, disk, handle
  <2>4. ProgressInv' /\ VerifyInv'
    BY <1>3, <2>1 DEF WorkTreeInv, ProgressInv, VerifyInv, CommitTask, disk, handle, Idle, Untouched
  <2>5. BaseInv'
    <3>1. /\ ignoring' = ignoring /\ files' = files /\ imported' = imported /\ base' = base
          /\ touched' = touched /\ files \in Trees /\ commits \in Seq(Trees)
      BY <1>3 DEF CommitTask, handle, WorkTreeInv, TypeOK
    <3>2. ASSUME NEW p \in Untouched' PROVE FileAtBase(p)'
      <4>1. p \in Untouched /\ p \in Paths /\ FileAtBase(p)
        BY <2>1, <3>1, <3>2 DEF Untouched, WorkTreeInv, BaseInv
      <4>2. CASE commits[base][p] = files[p] /\ commits[Len(commits)][p] = files[p]
        <5>1. Staged(commits, files)[p] = files[p]
          <6>1. CASE files[p] = Absent
            BY <3>1, <4>1, <6>1, WhatIsStaged
          <6>2. CASE files[p] # Absent
            <7>1. Tracked(commits, p)
              BY <2>1, <4>2, <6>2, HandleHasHistory DEF Tracked, Last
            <7> QED
              BY <3>1, <4>1, <7>1, WhatIsStaged
          <6> QED
            BY <6>1, <6>2
        <5> QED
          BY <2>2, <3>1, <4>1, <4>2, <5>1 DEF FileAtBase, InProject
      <4>3. CASE /\ commits[base][p] = Absent /\ p \in ignoring
                 /\ commits[Len(commits)][p] = Absent \/ IgnoreFile \in touched
        <5>1. IgnoreFile \notin touched => Staged(commits, files)[p] = Absent
          <6> SUFFICES ASSUME IgnoreFile \notin touched PROVE Staged(commits, files)[p] = Absent
            OBVIOUS
          <6>1. p \in Ignored(files)
            BY <2>1, <4>3 DEF WorkTreeInv, BaseInv
          <6>2. ~Tracked(commits, p)
            BY <4>3 DEF Tracked, Last
          <6> QED
            BY <3>1, <6>1, <6>2, WhatIsStaged
        <5> QED
          BY <2>2, <3>1, <4>1, <4>3, <5>1 DEF FileAtBase, InProject
      <4> QED
        BY <4>1, <4>2, <4>3 DEF FileAtBase
    <3>3. IgnoreFile \notin touched' => ignoring' = Ignored(files)'
      BY <2>1, <3>1 DEF WorkTreeInv, BaseInv, Ignored
    <3> QED
      BY <3>2, <3>3 DEF BaseInv
  <2> QED
    BY <2>3, <2>4, <2>5 DEF WorkTreeInv
<1>4. CASE CommandTimesOut \/ OrphanEnds
  <2>1. UNCHANGED <<disk, files, commits, job, handle, touched, writes, verify>>
        /\ orphans' \in BOOLEAN
    BY <1>4 DEF CommandTimesOut, OrphanEnds
  <2>2. TypeOK' /\ VerifyInv'
    BY <2>1 DEF WorkTreeInv, TypeOK, VerifyInv, disk, handle
  <2>3. ProgressInv' /\ BaseInv'
    BY <2>1 DEF WorkTreeInv, ProgressInv, BaseInv, FileAtBase, Ignored, disk, handle, Untouched
  <2> QED
    BY <2>2, <2>3 DEF WorkTreeInv
<1> QED
  BY <1>1, <1>2, <1>2a, <1>3, <1>4 DEF Working

LEMMA WorkTreeInvariant == Spec => []WorkTreeInv
<1>1. WorkTreeInv /\ [Next]_vars => WorkTreeInv'
  <2>1. CASE Next
    BY <2>1, LifecycleKeepsInv, WorkingKeepsInv, VerifyingKeepsInv DEF Next, Verifying
  <2>2. CASE UNCHANGED vars
    BY <2>2 DEF vars, disk, handle, WorkTreeInv, TypeOK, ProgressInv, BaseInv, FileAtBase, Ignored,
                VerifyInv, Untouched
  <2> QED
    BY <2>1, <2>2
<1> QED
  BY InitialTree, <1>1, PTL DEF Spec

\* Every variable keeps its type: a commit needs a repository, a file a
\* directory, and the base of a Workspace is one of its commits.
THEOREM WorkTreeTypeCorrect == Spec => []TypeOK
<1>1. WorkTreeInv => TypeOK
  BY DEF WorkTreeInv
<1> QED
  BY <1>1, WorkTreeInvariant, PTL

\* The base commit of an attached workspace holds the imported project but for
\* what .gitignore named, however often an attach died half way and whatever lay
\* in the directory.
THEOREM AttachIsComplete == Spec => []AttachImportsTheProject
<1>1. WorkTreeInv => AttachImportsTheProject
  BY DEF WorkTreeInv, BaseInv, FileAtBase, AttachImportsTheProject, Untouched, InProject
<1> QED
  BY <1>1, WorkTreeInvariant, PTL

\* The diff from the base commit to HEAD shows this session's writes alone, and
\* files that were ignored at its start once .gitignore has been written to.
THEOREM DiffIsHonest == Spec => []DiffIsThisSessionsWork
<1>1. ASSUME WorkTreeInv, base # None, NEW p \in Diff, p \notin touched
      PROVE  p \in ignoring /\ IgnoreFile \in touched
  <2>1. p \in Paths /\ FileAtBase(p) /\ Last(commits) = commits[Len(commits)]
    BY <1>1 DEF Diff, WorkTreeInv, BaseInv, Untouched, Last
  <2>2. CASE base = Len(commits)
    BY <1>1, <2>1, <2>2 DEF Diff, Tracked, FileAtBase
  <2>3. CASE base # Len(commits)
    BY <1>1, <2>1, <2>3 DEF Diff, FileAtBase
  <2> QED
    BY <2>2, <2>3
<1>2. WorkTreeInv => DiffIsThisSessionsWork
  BY <1>1 DEF DiffIsThisSessionsWork
<1> QED
  BY <1>2, WorkTreeInvariant, PTL
=============================================================================
