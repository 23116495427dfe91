SPECIFICATION Spec
CONSTANTS
  r1 = r1
  r2 = r2
  Rules = {r1, r2}
  Junk = junk
  Ports = {51820, 51821}
  Missing = missing
  MaxFds = 6
  MaxChanges = 2
  Texts <- MCTexts
INVARIANTS
  StderrRestored
  DescriptorsAccounted
  PortStaysOpen
  AppliedStays
CHECK_DEADLOCK FALSE
