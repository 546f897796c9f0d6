------------------------------ MODULE WorkTree ------------------------------
(* One git-backed workspace: its lifecycle (workspace/lifecycle.py over
   tools/git.py), the commands that run in it (tools/sandbox.py) and the
   deterministic verification (verify/runner.py).

   A workspace is created or attached in several steps, and the process may die
   between any two of them: the handle is lost, the directory stays, and the
   next create or attach finds it.  A command that exceeds its timeout is
   reported as failed, but what it started may go on and write: neither
   sandbox stops more than the process it launched.  The checks of a
   verification write as well: bytecode, caches, what the tests produce.

   Git does not see every file: one that .gitignore names stays out of the
   commits and of `git status` unless HEAD has it already.  The ignore rules
   are those of one .gitignore, at the top of the tree.

   HEAD only ever moves forward: commits are appended, a run's branch is
   created off HEAD and checked out, and nothing switches back.  So the history
   is a sequence and HEAD its last element.  The workspaces' root is taken to
   lie outside any other repository (is_repo also says yes inside one). *)
EXTENDS Naturals, Sequences, FiniteSets, SequencesExt

CONSTANTS Paths, Contents,          \* the files of a tree and what may be in them
          PyFiles, PackageFiles,    \* what detect_checks looks for, and
          TestFiles,                \* all under tests/, conftest.py, test_*.py
          IgnoreFile, Ignores,      \* .gitignore, and what its contents name
          Source,                   \* the tree that attach imports
          RunIds,
          MaxCommits, MaxWrites     \* bounds: commits, and writes between commits

Absent == "absent"
Trees == [Paths -> Contents \cup {Absent}]

ASSUME WorkTreeAssumption ==
    /\ Absent \notin Contents
    /\ TestFiles \subseteq Paths /\ PyFiles \subseteq Paths /\ PackageFiles \subseteq Paths
    /\ IgnoreFile \in Paths /\ Ignores \in [Contents -> SUBSET Paths]
    /\ Source \in Trees
    /\ MaxCommits \in Nat /\ MaxWrites \in Nat

VARIABLES
    exists,    \* is there a project directory?
    files,     \* the working tree
    repo,      \* has it been git-initialised?
    commits,   \* the trees committed, HEAD last
    branches,  \* the run branches
    job,       \* the create or attach in progress, or Idle
    base,      \* base_commit of the Workspace in hand, None without one
    imported,  \* did attach make that Workspace?
    ignoring,  \* history: the files .gitignore named when its base was taken
    touched,   \* files written since the create or attach began
    writes,    \* writes since then or since the last commit
    verify,    \* the verification: checks to run, results, verdict
    orphans    \* does something of a timed-out command still run?

vars == <<exists, files, repo, commits, branches, job, base, imported, ignoring,
          touched, writes, verify, orphans>>
handle == <<base, imported, ignoring>>
disk == <<exists, repo, branches>>

None == 0
Idle == [step |-> "idle", todo |-> {}]
EmptyTree == [p \in Paths |-> Absent]

(* detect_checks, in its order: tests count only where there is Python.  A
   directory is there when a file is; an empty tests/ has no tree. *)
Present(tree, ps) == \E p \in ps: tree[p] # Absent
DetectChecks(tree) ==
    (IF Present(tree, PyFiles) THEN <<"compile">> ELSE <<>>)
    \o (IF Present(tree, PyFiles) /\ Present(tree, TestFiles) THEN <<"pytest">> ELSE <<>>)
    \o (IF Present(tree, PackageFiles) THEN <<"npm-test">> ELSE <<>>)
Checks == {"compile", "pytest", "npm-test"}
Results == {"ok", "failed", "timed_out"}
Verifications == [todo: Seq(Checks), results: Seq(Results),
                  verdict: {"none", "running", "passed", "failed"},
                  command: {"none", "returns", "hangs"}]
NotVerifying == [todo |-> <<>>, results |-> <<>>, verdict |-> "none",
                 command |-> "none"]

TypeOK ==
    /\ exists \in BOOLEAN /\ repo \in BOOLEAN /\ (repo => exists)
    /\ files \in Trees /\ (files # EmptyTree => exists)
    /\ commits \in Seq(Trees) /\ (commits # <<>> => repo)
    /\ branches \subseteq RunIds
    /\ job \in [step: {"idle", "copy", "init", "base"}, todo: SUBSET Paths]
    /\ base \in 0..Len(commits) /\ imported \in BOOLEAN /\ ignoring \subseteq Paths
    /\ touched \subseteq Paths /\ writes \in 0..MaxWrites
    /\ verify \in Verifications
    /\ orphans \in BOOLEAN

Init ==
    /\ exists = FALSE /\ files = EmptyTree /\ repo = FALSE /\ commits = <<>>
    /\ branches = {} /\ job = Idle /\ base = None /\ imported = FALSE /\ ignoring = {}
    /\ touched = {} /\ writes = 0 /\ verify = NotVerifying /\ orphans = FALSE
-----------------------------------------------------------------------------
(* create and attach.  Without exist_ok a directory that holds anything is
   refused: an error, and nothing changes. *)
IsEmpty == ~repo /\ files = EmptyTree
Begin(exist_ok, attach) ==
    /\ job = Idle /\ base = None /\ Len(commits) < MaxCommits
    /\ exist_ok \/ IsEmpty
    /\ exists' = TRUE /\ touched' = {} /\ writes' = 0
    /\ imported' = attach
    /\ LET todo == IF attach THEN {p \in Paths: Source[p] # Absent} ELSE {}
       IN  job' = [step |-> IF todo = {} THEN "init" ELSE "copy", todo |-> todo]
    /\ UNCHANGED <<files, repo, commits, branches, base, ignoring, verify, orphans>>

CopyFile ==
    /\ job.step = "copy"
    /\ \E p \in job.todo:
        /\ files' = [files EXCEPT ![p] = Source[p]]
        /\ job' = [step |-> IF job.todo = {p} THEN "init" ELSE "copy",
                   todo |-> job.todo \ {p}]
    /\ UNCHANGED <<disk, commits, handle, touched, writes, verify, orphans>>

InitRepo ==
    /\ job.step = "init"
    /\ repo' = TRUE
    /\ job' = [job EXCEPT !.step = "base"]
    /\ UNCHANGED <<exists, files, commits, branches, handle, touched, writes, verify, orphans>>

(* What `git add -A` stages: all but the ignored files that HEAD does not have. *)
Ignored(tree) == IF tree[IgnoreFile] = Absent THEN {} ELSE Ignores[tree[IgnoreFile]]
Tracked(history, p) == history # <<>> /\ Last(history)[p] # Absent
Staged(history, tree) ==
    [p \in Paths |-> IF p \in Ignored(tree) /\ ~Tracked(history, p) THEN Absent ELSE tree[p]]

(* Git.commit stages and always makes a commit (--allow-empty). *)
Committed(history, tree) == Append(history, Staged(history, tree))

(* _ensure_base_commit: HEAD if git sees no change, else a new commit. *)
WithFirstBase(history, tree) ==
    IF history = <<>> THEN Committed(history, tree) ELSE history
WithBase(history, tree) ==
    IF history = <<>> \/ Last(history) # Staged(history, tree)
    THEN Committed(history, tree) ELSE history

BaseBefore(before, after) == IF before = <<>> THEN Len(after) ELSE Len(before)
BaseAfter(before, after) == Len(after)

TakeBase ==
    /\ job.step = "base"
    /\ commits' = WithBase(commits, files)
    /\ base' = BaseAfter(commits, commits')
    /\ ignoring' = Ignored(files)
    /\ job' = Idle
    /\ UNCHANGED <<disk, files, imported, touched, writes, verify, orphans>>

(* The process dies, or drops its Workspace.  Whatever a timed-out command
   left running is another process. *)
Crash ==
    /\ job # Idle \/ base # None
    /\ job' = Idle /\ base' = None /\ imported' = FALSE /\ verify' = NotVerifying
    /\ touched' = {} /\ ignoring' = {}
    /\ UNCHANGED <<disk, files, commits, writes, orphans>>

(* cleanup removes the directory with its repository. *)
Cleanup ==
    /\ exists /\ job = Idle /\ base = None
    /\ exists' = FALSE /\ files' = EmptyTree /\ repo' = FALSE /\ commits' = <<>>
    /\ branches' = {} /\ touched' = {} /\ writes' = 0
    /\ UNCHANGED <<job, handle, verify, orphans>>

(* start_run: `git switch -c` refuses a branch that exists. *)
InHand == base # None /\ verify.verdict # "running"
StartRun ==
    /\ InHand
    /\ \E r \in RunIds \ branches: branches' = branches \cup {r}
    /\ UNCHANGED <<exists, files, repo, commits, job, handle, touched, writes, verify, orphans>>

(* The agent's tools change a file. *)
Write(p, c) ==
    /\ writes < MaxWrites /\ files[p] # c
    /\ files' = [files EXCEPT ![p] = c]
    /\ touched' = touched \cup {p} /\ writes' = writes + 1

AgentWrites ==
    /\ InHand
    /\ \E p \in Paths, c \in Contents \cup {Absent}: Write(p, c)
    /\ verify' = NotVerifying
    /\ UNCHANGED <<disk, commits, job, handle, orphans>>

CommitTask ==
    /\ InHand /\ Len(commits) < MaxCommits
    /\ commits' = Committed(commits, files) /\ writes' = 0
    /\ UNCHANGED <<disk, files, job, handle, touched, verify, orphans>>

(* A command of the agent runs out of time; the sandbox answers 124. *)
CommandTimesOut ==
    /\ InHand /\ orphans' = TRUE
    /\ UNCHANGED <<disk, files, commits, job, handle, touched, writes, verify>>

OrphanWrites ==
    /\ orphans /\ exists
    /\ \E p \in Paths, c \in Contents \cup {Absent}: Write(p, c)
    /\ UNCHANGED <<disk, commits, job, handle, verify, orphans>>

OrphanEnds ==
    /\ orphans /\ orphans' = FALSE
    /\ UNCHANGED <<disk, files, commits, job, handle, touched, writes, verify>>
-----------------------------------------------------------------------------
(* VerifyRunner.run: every check that the tree calls for, one after the other,
   none skipped after a failure; a timeout is a failure like any other. *)
BeginVerify ==
    /\ InHand
    /\ verify' = [todo |-> DetectChecks(files), results |-> <<>>, verdict |-> "running",
                  command |-> "none"]
    /\ UNCHANGED <<disk, files, commits, job, handle, touched, writes, orphans>>

(* Sandbox.run waits for its command, and no longer than the timeout. *)
LaunchCheck ==
    /\ verify.verdict = "running" /\ verify.command = "none" /\ verify.todo # <<>>
    /\ \E c \in {"returns", "hangs"}: verify' = [verify EXCEPT !.command = c]
    /\ UNCHANGED <<disk, files, commits, job, handle, touched, writes, orphans>>

WaitsFor(command) == IF command = "returns" THEN {"ok", "failed"} ELSE {}
Outcome(command) == IF command = "returns" THEN {"ok", "failed"} ELSE {"timed_out"}

CheckEnds ==
    /\ verify.verdict = "running" /\ verify.command # "none"
    /\ \E outcome \in Outcome(verify.command):
        /\ verify' = [verify EXCEPT !.command = "none", !.todo = Tail(@),
                                   !.results = Append(@, outcome)]
        /\ orphans' = (orphans \/ outcome = "timed_out")
    /\ UNCHANGED <<disk, files, commits, job, handle, touched, writes>>

CheckWrites ==
    /\ verify.verdict = "running" /\ verify.command # "none"
    /\ \E p \in Paths, c \in Contents \cup {Absent}: Write(p, c)
    /\ UNCHANGED <<disk, commits, job, handle, verify, orphans>>

AllPassed(results) == \A i \in DOMAIN results: results[i] = "ok"
EndVerify ==
    /\ verify.verdict = "running" /\ verify.command = "none" /\ verify.todo = <<>>
    /\ verify' = [verify EXCEPT !.verdict =
                    IF AllPassed(verify.results) THEN "passed" ELSE "failed"]
    /\ UNCHANGED <<disk, files, commits, job, handle, touched, writes, orphans>>

Verifying == LaunchCheck \/ CheckEnds \/ EndVerify
Lifecycle ==
    \/ \E exist_ok, attach \in BOOLEAN: Begin(exist_ok, attach)
    \/ CopyFile \/ InitRepo \/ TakeBase \/ Crash \/ Cleanup \/ StartRun
Working == \/ AgentWrites \/ CommitTask \/ CommandTimesOut
           \/ CheckWrites \/ OrphanWrites \/ OrphanEnds
Next == Lifecycle \/ Working \/ BeginVerify \/ Verifying

Spec == Init /\ [][Next]_vars /\ WF_vars(Verifying)
-----------------------------------------------------------------------------
(* The tree at base_commit has every file of the imported project that nobody
   has written to meanwhile, however often an earlier attach died half way and
   whatever an earlier run left in the directory; only what .gitignore named at
   that moment may be missing from it (lifecycle.attach, _ensure_base_commit). *)
AttachImportsTheProject ==
    base # None /\ imported =>
        \A p \in Paths \ touched: Source[p] # Absent =>
            \/ commits[base][p] = Source[p]
            \/ commits[base][p] = Absent /\ p \in ignoring

(* Workspace.diff_since_base: base..HEAD, or what of HEAD's files has changed on
   disk while HEAD is the base still. *)
Diff == {p \in Paths: IF base = Len(commits)
                      THEN Tracked(commits, p) /\ files[p] # Last(commits)[p]
                      ELSE commits[base][p] # Last(commits)[p]}

(* The review artifact shows files that the agent, a check or an orphan wrote in
   this session, and never what was imported, or lay there, before it.  The one
   exception is a file that was ignored when the session began and is no longer,
   because .gitignore itself was written to: the next commit takes it in, and
   the diff shows it as the session's. *)
DiffIsThisSessionsWork ==
    base # None =>
        \A p \in Diff: p \in touched \/ (p \in ignoring /\ IgnoreFile \in touched)

(* A verification ends even if a check never returns. *)
VerifyEnds == [](verify.verdict = "running" => <>(verify.verdict # "running"))
=============================================================================
