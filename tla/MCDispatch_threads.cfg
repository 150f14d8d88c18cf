CONSTANTS
  None = None
  Workers = {w1, w2}
  Dispatches = {d1}
  Nodes = {eden, render}
  Executors = {eden}
  MaxRuns = 2
SPECIFICATION FairSpec
INVARIANTS
  TypeOK
  NoOrganSignsEarly
  ProofNeedsResult
  StateIsSigned
  RunningHasRunner
  ChainOverrunBounded
PROPERTIES
  RunningIsLeft
