CONSTANTS
  MaxVols = 2
  MaxTasks = 2
SPECIFICATION Spec
CHECK_DEADLOCK FALSE
INVARIANTS NoEngineLeft OneWriter  ReadOnlyRespected
PROPERTIES CheckNeverBlocks EveryTaskCompletes
