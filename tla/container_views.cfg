CONSTANTS
  Chains = {c1}
  MaxContainers = 3
  MaxActs = 2
  MaxName = 2
  Specs <- MCSpecs
  FormSpecs <- MCFormSpecs
  Controls <- MCControls
  Registries <- MCRegistries
SPECIFICATION Spec
INVARIANTS TypeOK SomethingRemains UndoneLeavesNoTrace NetworksKept NobodyGains FormKeeps
PROPERTY RemovalConfirmedIfFound
CHECK_DEADLOCK FALSE
