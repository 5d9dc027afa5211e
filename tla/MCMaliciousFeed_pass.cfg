SPECIFICATION FairSpec
CONSTANTS
  Procs = {p1, p2, p3}
  MaxFaults = 2
  MaxAges = 2
INVARIANTS TypeOK SwapRecoverable
PROPERTIES ReplacedAsAWhole StaleIsReplaced
