CONSTANTS
  eden = eden
  render = render
  ghost = ghost
  None = None
  Workers = {w1}
  Nodes = {eden, render, ghost}
  Capabilities <- Inference
  Classes = {"private", "public", "mixed"}
  Registries <- BothRegistries
  Queries <- TwoQueries
  Offers = {}
  Reports = {"online", "failed"}
  Capacities = {0}
  Unreadable = Unreadable
  Ttl = 1
  MaxTime = 2
  MaxReports <- FewReports
SPECIFICATION Spec
INVARIANTS
  SelectedIsFresh
