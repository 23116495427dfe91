SPECIFICATION Spec
CONSTANTS
  r1 = r1
  r2 = r2
  r3 = r3
  v1 = v1
  v2 = v2
  None = None
  NoProc = NoProc
  Keys = {1, 2}
  Vals = {v1, v2}
  Refused <- RefusedLines
  Fallible = {v2}
  Procs = {r1, r2, r3}
  Agent = "cpp"
  ExecDeniesWriters = TRUE
  PowerLoss = TRUE
INVARIANTS
  TypeOK
  
  TornSaveIsPrefix
  AnsweredIsSaved
PROPERTY ImplementsService
CHECK_DEADLOCK FALSE
