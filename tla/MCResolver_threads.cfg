CONSTANTS
  eden = eden
  render = render
  ghost = ghost
  None = None
  Workers = {w1, w2}
  Nodes = {eden, render, ghost}
  Capabilities <- Inference
  Classes = {"private", "public", "mixed"}
  Registries <- BothRegistries
  Queries <- TwoQueries
  Offers <- OneOffer
  Reports = {"online"}
  Capacities <- LowOrUnreadable
  Unreadable = Unreadable
  Ttl = 1
  MaxTime = 2
  MaxReports <- FewReports
SPECIFICATION Spec
SYMMETRY WorkerSymmetry
INVARIANTS
  TypeOK
  OfflineIsSilent
  LapseAnnouncedOnce
  DiscoveredPreferred
PROPERTIES
  ImplementsNodeTable
