CONSTANTS
  None = None
  Torn = Torn
  Garbled = Garbled
  Certifiers = {c1, c2}
  Flaky = {"health", "readiness"}
  MaxHarvests = 2
SPECIFICATION Spec
INVARIANTS
  
  ReportLeads
CHECK_DEADLOCK FALSE
