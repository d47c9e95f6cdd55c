CONSTANTS
  Nodes = 1
  MaxChanges = 2
  MaxTries = 2
  MaxFaults = 1
  MaxViews = 3
  Quota = 3
  Forms <- MCForms
SPECIFICATION KubeSpec
CHECK_DEADLOCK FALSE
INVARIANTS TypeOK AsSubmitted SummaryTells NothingLeftBehind
PROPERTIES OthersRoutesKept
