SPECIFICATION Spec
CONSTANTS
  d1 = d1
  d2 = d2
  w1 = w1
  w2 = w2
  p1 = p1
  a1 = a1
  t1 = t1
  None = None
  Domains = {d1}
  Pipelines = {}
  Workers = {w1, w2}
  Triggers = {t1}
  Admins = {}
  BatchSize = 2
  MaxFaults = 0
SYMMETRY WorkerSymmetry
INVARIANTS VerdictsEvidenced StatusBacked
