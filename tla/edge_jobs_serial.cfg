\* Requests one at a time, and restarts, on a job of two endpoints.
CONSTANTS
  Endpoints = {e1, e2}
  EdgeJobIDs = {j1}
  Requests = {r1}
  MaxVersion = 2
SYMMETRY Symmetry
SPECIFICATION Spec
INVARIANTS TypeOK StoredJobsReachAgents PollsFindScripts
PROPERTIES VersionsAdvance
