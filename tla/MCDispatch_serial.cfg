CONSTANTS
  None = None
  Workers = {w1, w2}
  Dispatches = {d1, d2}
  Nodes = {eden, render}
  Executors = {eden}
  MaxRuns = 2
SPECIFICATION SerialSpec
SYMMETRY RequestSymmetry
INVARIANTS
  ProofChainOrdered
  StateMatchesChain
  OneRunAtATime
  CompletionAnnouncedOnce
PROPERTIES
  ImplementsLifecycle
