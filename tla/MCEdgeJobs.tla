----------------------------- MODULE MCEdgeJobs -----------------------------
(* Instances of EdgeJobs for TLC: everything of a kind is interchangeable. *)
EXTENDS EdgeJobs, TLC

Symmetry == Permutations(Endpoints) \cup Permutations(EdgeJobIDs) \cup Permutations(Requests)
=============================================================================
