CONSTANTS
  NoRun = NoRun
  r1 = r1
  r2 = r2
  Runs = {r1, r2}
  c1 = c1
  Clients = {c1}
  t1 = t1
  Tailers = {t1}
  LoopLimit = 2
  MaxEmits = 2
SPECIFICATION FairSpec
PROPERTIES
  EveryRunFinishes
  NoTailerHangs
INVARIANTS
  SlotIsExclusive
  FinishedIsFinal
  EndedTailSawEverything
  AnswersMatchQuestions
  DoneMeansEnded
