SPECIFICATION FairSpec
CONSTANTS
  Domains = {d1, d2}
  Runs = {r1, r2}
  ChunkSize = 1
  MaxFaults = 1
INVARIANTS StrandedBound OutcomeIsLastAnswer
PROPERTIES ImplementsQuestions VerdictIsFinal QueueMoves
