\* An agent sends logs of a job that is being deleted.
CONSTANTS
  Endpoints = {e1}
  EdgeJobIDs = {j1}
  Requests = {r1, r2}
  MaxVersion = 1
SYMMETRY Symmetry
SPECIFICATION Spec
PROPERTIES DeletedJobsStayDeleted
