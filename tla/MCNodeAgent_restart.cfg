CONSTANTS
  Node = eden
  Capabilities = {"model.infer"}
  None = None
  Ttl = 45
  Interval = 15
  Patience = 5
  Answer = 10
  Inventory = 2
  Boot = 3
  MinBackoff = 1
  MaxBackoff = 30
  LateDelays = {0, 16, 46}
SPECIFICATION Spec
INVARIANTS
  ActiveIsAdvertised
