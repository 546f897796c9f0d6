CONSTANTS
  a = a
  b = b
  NoTask = NoTask
  Ids = {a, b}
  Drafts <- MixedDrafts
  HumanEdits <- EditedLists
  Decisions = {"approve", "revise", "abort", "retry", "accept", "whatever"}
  Autonomy = "manual"
  MaxSteps = 11
  MaxVerifyRetries = 2
  MaxReviewCycles = 2
  RecursionLimit = 10
  MaxAsks = 1
SPECIFICATION FairSpec
INVARIANTS
  TypeOK
  GateAsksAFreshQuestion
  ReviewSeesVerifiedCommittedWork
  OnlyApprovedPlansAreCoded
  AbortIsHonoured
  SuccessIsEarned
PROPERTIES
  KeepsContract
  RunEnds
