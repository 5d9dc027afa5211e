SPECIFICATION FairSpec
CONSTANTS
  t1 = t1
  t2 = t2
  t3 = t3
  p1 = p1
  p2 = p2
  Threads = {t1, t2, t3}
  Processes = {p1, p2}
  ProcessOf <- MCProcessOf
  REFRESH_INTERVAL = 2
  MaxClock = 3
  MaxFaults = 1
PROPERTIES NeverOlder OnlyStaleReplaced AnswersFresh LookupsEnd
CHECK_DEADLOCK FALSE
