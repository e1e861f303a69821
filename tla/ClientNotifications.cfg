SPECIFICATION Spec
CONSTANTS
  Callers = {c1}
  NoCaller = NoCaller
  CallKinds = {"create"}
  MaxRequests = 7
  MaxSubscriptions = 1
  SpuriousWakeups = FALSE
  ServerFaults = FALSE
INVARIANTS
  TypeOK
  NotificationsInOrder
  SoleSubscriptionHeard
CHECK_DEADLOCK FALSE
