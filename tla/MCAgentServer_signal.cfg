SPECIFICATION FairSpec
CONSTANTS
  c1 = c1
  c2 = c2
  NoConn = NoConn
  Conns = {c1}
  IPs = {"wanted"}
  Requests = {"HELLO"}
  SignalPoints = {"accept", "push", "pushing"}
PROPERTY SignalExits
CHECK_DEADLOCK FALSE
