SPECIFICATION Spec
CONSTANTS
  Users = {u1, u2}
  Handlers = {h1, h2}
  MaxRequests = 4
  MaxFaults = 1
INVARIANTS RemovedIsRevoked
PROPERTIES LastPrincipalKept DisabledStaysOut
CHECK_DEADLOCK FALSE
SYMMETRY Symmetry
