CONSTANTS
  Chains = {c1}
  MaxContainers = 3
  MaxActs = 2
  MaxName = 2
  Specs <- MCSpecs
  FormSpecs <- MCFormSpecs
  Controls <- MCControls
  Registries <- MCRegistries
SPECIFICATION Spec
PROPERTY RemovalConfirmed
CHECK_DEADLOCK FALSE
