CONSTANTS
  s1 = s1
  s2 = s2
  Never = Never
  Calls = {c1, c2}
  Capabilities = {"payments"}
  Services = {s1, s2}
  Policies <- BothPolicies
  DefaultPolicy <- Patient
  CandidateLists <- MixedLists
  MaxTime = 2
SPECIFICATION FairSpec
INVARIANTS
  TypeOK
  CircuitsCanRecover
  FailoverInOrder
  TelemetryMatchesOutcome
  AttemptsBounded
PROPERTIES
  LeavesProviderSpent
  AttemptsPassTheBreaker
  CallsWindDown
  ImplementsContract
  ImplementsCallLifecycle
  EveryCallEnds
