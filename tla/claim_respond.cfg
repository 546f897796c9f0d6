CONSTANTS
  NoRun = NoRun
  r1 = r1
  Runs = {r1}
  c1 = c1
  c2 = c2
  Clients = {c1, c2}
  t1 = t1
  Tailers = {t1}
  LoopLimit = 3
  MaxEmits = 0
SPECIFICATION Spec
INVARIANTS
  AnswersMatchQuestions
