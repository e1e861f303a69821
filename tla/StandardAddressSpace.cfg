SPECIFICATION FillSpec
CONSTANTS
  Stretches <- FillStandardNamespace
  NodeItems <- Requested
  ReferenceItems <- RequestedReferences
  WriteValues = {}
  Names <- StandardNames
  NoName = NoName
  BadValue = BadValue
  CallbackNodes = {}
  CallbackValue = CallbackValue
  MaxCalls = 0
  MaxReferences = 0
INVARIANTS
  BrowsingEnds
  SubtypesAreExact
  OrderLosesNoNode
  BrowsingFindsEveryType
  ServerObjectFindsItsNodes
CHECK_DEADLOCK FALSE
