---------------------------- MODULE MCEdgeCompute ----------------------------
EXTENDS EdgeCompute, TLC

\* Edge endpoints, tags, Edge groups and Edge stacks are interchangeable; the group
\* Unassigned is not.
Symmetry ==
  Permutations(Tags) \cup Permutations(EdgeEndpoints)
    \cup Permutations(EdgeGroups) \cup Permutations(EdgeStacks)
=============================================================================
