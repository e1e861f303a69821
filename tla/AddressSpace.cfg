SPECIFICATION Spec
CONSTANTS
  NodeItems <- MCNodeItems
  ReferenceItems <- MCReferenceItems
  WriteValues <- MCWriteValues
  Names = {"a", "b"}
  NoName = "NONAME"
  BadValue = "bad"
  CallbackNodes <- MCCallbackNodes
  CallbackValue = "b"
  MaxCalls = 4
  MaxReferences = 3
INVARIANTS
  TypeOK
  NoDanglingReferences
  OneNodePerAnswer
  GeneratedIdRefusedOnlyIfAsked
  NamesAreCurrent
  KnownTypesAreLinked
CHECK_DEADLOCK FALSE
