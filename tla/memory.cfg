CONSTANTS
  Texts <- MCTexts
  Requests <- MCRequests
  Statuses = {"succeeded", "failed"}
  r1 = r1
  r2 = r2
  Records = {r1, r2}
  NoRecord = NoRecord
  NoTitle = NoTitle
  Garbled = Garbled
  Nearness <- MCNearness
  Length <- MCLength
  EpisodicK = 2
  LongTermK = 2
  Window = 2
  SectionCap = 5
  MaxRuns = 3
  MaxEdits = 2
  MaxNotes = 1
SYMMETRY Interchangeable
SPECIFICATION Spec
INVARIANTS
  IngestReplaces
  BestAttemptsFirst
  PlannerSeesWhatMatters
