SPECIFICATION Spec
CONSTANTS
  root = root
  alice = alice
  b1 = b1
  b2 = b2
  i1 = i1
  i2 = i2
  x1 = x1
  x2 = x2
  None = None
  Names = {root, alice}
  DefaultName = root
  Hashes = {x1, x2}
  Browsers = {b1, b2}
  Handlers = {i1, i2}
  MaxRequests = 3
  Restarts = TRUE
SYMMETRY Symmetry
INVARIANTS
  TypeOK
  RoleIsCurrent
  AnAdminRemains
  ValidMeansUnchangedSerially
PROPERTY OnlyAdminsMakeAdmins
CHECK_DEADLOCK FALSE
