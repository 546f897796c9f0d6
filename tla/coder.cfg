CONSTANTS
  ls = ls
  v1 = v1
  v2 = v2
  rm = rm
  Commands = {ls, rm}
  NoCommand = NoCommand
  Allowed = {ls}
  Contents = {v1, v2}
  NoSignature = NoSignature
  NoTool = NoTool
  Forms = {"text"}
  MaxSteps = 3
  NoProgressLimit = 2
  MaxBatch = 2
SPECIFICATION FairSpec
INVARIANTS
  CommandsAreGated
  StallsAreDetected
  PausesAreBounded
PROPERTIES
  AttemptEnds
