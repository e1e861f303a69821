SPECIFICATION Spec
CONSTANTS
  Callers = {c1}
  NoCaller = NoCaller
  CallKinds = {"call"}
  MaxRequests = 2
  MaxSubscriptions = 0
  SpuriousWakeups = FALSE
  ServerFaults = FALSE
INVARIANTS
  OwnAnswerAlways
CHECK_DEADLOCK FALSE
