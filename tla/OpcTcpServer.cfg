SPECIFICATION Spec
CONSTANTS
  c1 = c1
  c2 = c2
  Connections = {c1, c2}
  Tokens = {c1, c2}
  Token <- OwnToken
  PublishLimit = 1
  MaxMessages = 3
  MaxSubscriptions = 2
INVARIANTS
  NoReadLeftBehind
  SubscriptionsTracked
  NotificationsFindRequests
PROPERTY
  ExchangeKept
SYMMETRY Symmetry
CHECK_DEADLOCK FALSE
