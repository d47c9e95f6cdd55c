CONSTANTS
  Views <- AllViews
  Routes <- AllStates
  AgentKinds <- MCDocker
  Items = {"i1", "i2"}
  This = "i1"
  NodeOf <- MCNodeOf
  MaxVisits = 2
  MaxJobs = 2
  MaxFaults = 1
SPECIFICATION Spec
INVARIANTS TypeOK   RowsExist EachToItsNode  CreatedIsControlled NotAskedAfterSaving 
PROPERTY EveryJobEnds
CHECK_DEADLOCK FALSE
