SPECIFICATION Spec
CONSTANTS
  IoThreads = {io1, io2}
  AppThreads = {app}
  Sessions = {ses1}
  NoSession = NoSession
  Nodes = {n1}
  Parameters <- KeepAliveOrExpiry
  PublishLimit = 2
  MaxSubscriptions = 1
  MaxItems = 2
  MaxWrites = 1
  MaxEvents = 1
  MaxPublish = 2
INVARIANTS
  TypeOK
  CallbacksMatchItems
  ChangesBelongToItems
  NoChangeLost
  RepublishFaithful
  OneHandlerEach
PROPERTIES
  ExpiryIsFinal
SYMMETRY ThreadSymmetry
CHECK_DEADLOCK FALSE
