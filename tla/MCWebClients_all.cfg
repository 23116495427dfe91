SPECIFICATION Spec
CONSTANTS
  i1 = i1
  i2 = i2
  ka = ka
  u1 = u1
  None = None
  Addrs = {0, 1, 2, 3, 4, 5, 6, 7}
  RangeNet <- UpperHalf
  Servers <- TwoServers
  Default <- Wide
  UserKeys = {ka}
  Inputs <- Asked
  TgUsers = {u1}
  Handlers = {i1, i2}
  MaxRequests = 3
  AgentFails = TRUE
  Restarts = TRUE
SYMMETRY Symmetry
INVARIANTS
  ClientsAreDistinct
  SuggestedIsAccepted
  TgMatchesClients
  ClientIsPeer
  UnchangedMeansApplied
CHECK_DEADLOCK FALSE
