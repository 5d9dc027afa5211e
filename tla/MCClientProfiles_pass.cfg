SPECIFICATION CPFairSpec
CONSTANTS
  Clients = {c1}
  Domains = {d1, d2}
  Writers = {w1, w2}
  MaxQueries = 4
  MaxFailures = 1
INVARIANTS CountersAddUp
PROPERTIES ImplementsLedger RecentIsKept QueriesEnd
