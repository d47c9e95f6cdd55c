---------------------------- MODULE MCEdgeTunnel ----------------------------
(* Instances of EdgeTunnel for TLC: which model values are interchangeable. *)
EXTENDS EdgeTunnel, TLC

\* For the runs whose endpoints are all of one kind.
Symmetry == Permutations(Endpoints) \cup Permutations(Ports)
              \cup Permutations(Requests) \cup Permutations(Jobs)
=============================================================================
