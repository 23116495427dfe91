SPECIFICATION FairSpec
CONSTANTS
  c1 = c1
  c2 = c2
  NoConn = NoConn
  Conns = {c1, c2}
  IPs = {"wanted"}
  Requests = {"HELLO"}
  SignalPoints = {"accept"}
PROPERTIES
  DeadClientRemoved
  RequestExecuted
  SignalExits
CHECK_DEADLOCK FALSE
