SPECIFICATION FairSpec
CONSTANTS
  r1 = r1
  r2 = r2
  r3 = r3
  v1 = v1
  v2 = v2
  None = None
  NoProc = NoProc
  Keys = {1, 2}
  Vals = {v1, v2}
  Refused <- RefusedLines
  Fallible = {v2}
  Procs = {r1, r2}
  Agent = "go"
  ExecDeniesWriters = FALSE
  PowerLoss = FALSE
INVARIANT NothingInvented
PROPERTY RequestAnswered
CHECK_DEADLOCK FALSE
