CONSTANTS
  ls = ls
  v1 = v1
  v2 = v2
  rm = rm
  Commands = {ls, rm}
  NoCommand = NoCommand
  Allowed = {ls}
  Contents = {v1, v2}
  NoSignature = NoSignature
  NoTool = NoTool
  Forms = {"text", "dict"}
  MaxSteps = 2
  NoProgressLimit = 1
  MaxBatch = 2
SPECIFICATION Spec
INVARIANTS
  ApprovalsAreHonoured
