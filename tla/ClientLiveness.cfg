SPECIFICATION FairSpec
CONSTANTS
  Callers = {c1}
  NoCaller = NoCaller
  CallKinds = {"create"}
  MaxRequests = 3
  MaxSubscriptions = 1
  SpuriousWakeups = TRUE
  ServerFaults = TRUE
PROPERTIES
  CallsEnd
CHECK_DEADLOCK FALSE
