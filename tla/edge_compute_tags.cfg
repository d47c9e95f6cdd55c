\* Two tags on two Edge endpoints and two endpoint groups, one Edge group, one stack.
CONSTANTS
  Tags = {t1, t2}
  Endpoints = {e1, e2}
  EdgeEndpoints = {e1, e2}
  EndpointGroups = {g1, g2}
  Unassigned = g1
  EdgeGroups = {x1}
  EdgeStacks = {s1}
SYMMETRY Symmetry
SPECIFICATION Spec
INVARIANTS TypeOK ReferencesResolve TagsListTheirUsers NoStackOutsideItsGroups ShownMembersAreDeployedTo
PROPERTY StacksReachTheirEndpoints
\* Identifiers run out: they are never given out twice.
CHECK_DEADLOCK FALSE
