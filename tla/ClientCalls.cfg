SPECIFICATION Spec
CONSTANTS
  Callers = {c1, c2}
  NoCaller = NoCaller
  CallKinds = {"call", "close"}
  MaxRequests = 3
  MaxSubscriptions = 0
  SpuriousWakeups = FALSE
  ServerFaults = FALSE
INVARIANTS
  OwnAnswer
  NoDanglingCallback
SYMMETRY CallerSymmetry
CHECK_DEADLOCK FALSE
