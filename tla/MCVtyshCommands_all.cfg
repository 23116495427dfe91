SPECIFICATION Spec
CONSTANTS
  k1 = k1
  n1 = n1
  f1 = f1
  None = None
  a = a
  b = b
  c = c
  Peers = {k1}
  Nets = {n1}
  Rules = {f1}
  Vals = {1, 2, 3}
  Fallible = {2}
  Bridges = {1, 2}
  Pair <- Pairs
  Removable = {b}
  Asked <- Entered
  MaxSteps = 5
INVARIANTS
  OneLinePerCommand
  
  KeyAgrees
  BridgeInPlace
 
CHECK_DEADLOCK FALSE
