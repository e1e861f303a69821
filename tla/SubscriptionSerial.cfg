SPECIFICATION FairSpec
CONSTANTS
  IoThreads = {io1}
  AppThreads = {}
  Sessions = {ses1}
  NoSession = NoSession
  Nodes = {n1}
  Parameters <- LongLived
  PublishLimit = 2
  MaxSubscriptions = 2
  MaxItems = 1
  MaxWrites = 1
  MaxEvents = 0
  MaxPublish = 2
INVARIANTS
  ResponsesNeverExceedRequests
PROPERTIES
  DueIsPublished
CHECK_DEADLOCK FALSE
