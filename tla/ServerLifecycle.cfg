SPECIFICATION ServerSpec
CONSTANTS
  NumAddons = 8
  MaxDependencies = 3
  MaxStarts = 3
INVARIANTS
  NoTimerAfterObject
  TimeIsWritten
  AllOrNothing
PROPERTIES
  CallsReturn
  AttributesStableInUse
CHECK_DEADLOCK FALSE
