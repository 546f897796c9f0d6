CONSTANTS
  a = a
  b = b
  NoTask = NoTask
  Ids = {a, b}
  Drafts <- AllDrafts
  HumanEdits <- NoLists
  Decisions = {"approve", "revise", "abort", "retry", "accept"}
  Autonomy = "auto"
  MaxSteps = 16
  MaxVerifyRetries = 3
  MaxReviewCycles = 2
  RecursionLimit = 18
  MaxAsks = 1
SPECIFICATION Spec
INVARIANTS
  NeverRecursionError
  AutoStopsOnlyToEscalate
  RetriesBoundUnattendedWork
PROPERTIES
  DependenciesComeFirst
  DoneTasksStayDone
