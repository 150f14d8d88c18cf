CONSTANTS
  Clients = {c1}
  QueueSize = 2
  Retained = 2
  MaxEvents = 8
SPECIFICATION Spec
INVARIANTS
  TypeOK
  GapsNeedBacklog
  CatchUpComplete
PROPERTIES
  QueuedEventsLeave
