CONSTANTS
  None = None
  Workers = {w1}
  Dispatches = {d1}
  Nodes = {eden}
  Executors = {eden}
  MaxRuns = 2
SPECIFICATION SerialSpec
INVARIANTS
  CompletedResultIsSigned
