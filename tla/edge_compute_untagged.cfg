\* The smallest database in which the property fails.
CONSTANTS
  Tags = {t1, t2}
  Endpoints = {e1}
  EdgeEndpoints = {e1}
  EndpointGroups = {g1}
  Unassigned = g1
  EdgeGroups = {x1}
  EdgeStacks = {s1}
SYMMETRY Symmetry
SPECIFICATION Spec
INVARIANTS DynamicGroupsHaveTags
\* Identifiers run out: they are never given out twice.
CHECK_DEADLOCK FALSE
