SPECIFICATION Spec
CONSTANTS
  c1 = c1
  c2 = c2
  NoConn = NoConn
  Conns = {c1, c2}
  IPs = {"wanted", "other"}
  Requests = {"HELLO", "GLOBAL", "BAD", "BYE", "UNKNOWN"}
  SignalPoints = {"accept", "push", "pushing"}
SYMMETRY ConnSymmetry
INVARIANTS
  TypeOK
  HandlersSerialised
  NoUseAfterFree
  NoClientForgotten
  TrueMeansDone
  OnlyWantedServed
CHECK_DEADLOCK FALSE
