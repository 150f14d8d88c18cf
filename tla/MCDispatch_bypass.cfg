CONSTANTS
  None = None
  Workers = {w1, w2}
  Dispatches = {d1}
  Nodes = {eden}
  Executors = {eden}
  MaxRuns = 1
SPECIFICATION Spec
INVARIANTS
  NoStageBypassed
