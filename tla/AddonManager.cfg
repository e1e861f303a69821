SPECIFICATION FairSpec
CONSTANTS
  NumAddons = 3
  MaxDependencies = 2
INVARIANTS
  TypeOK
  DependenciesRun
  NothingRunsUnstarted
  StartsTheStartable
PROPERTIES
  OperationsEnd
CHECK_DEADLOCK FALSE
