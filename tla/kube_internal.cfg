CONSTANTS
  Nodes = 1
  MaxChanges = 3
  MaxTries = 2
  MaxFaults = 1
  MaxViews = 2
  Quota = 3
  Forms <- MCForms
SPECIFICATION KubeSpec
CHECK_DEADLOCK FALSE
INVARIANT InternalStaysInside
