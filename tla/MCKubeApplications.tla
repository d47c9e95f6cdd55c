-------------------------- MODULE MCKubeApplications --------------------------
(***************************************************************************)
(* The forms that applications are deployed with: each way to publish,     *)
(* each kind of deployment, with and without data and an autoscaler.       *)
(***************************************************************************)
EXTENDS KubeApplications

Variable    == [name |-> 1, new |-> TRUE, del |-> FALSE]
Folder      == [claim |-> 0, existing |-> 0, path |-> 1, new |-> TRUE, del |-> FALSE]
Port(p, r)  == [port |-> p, route |-> r, ingress |-> TRUE, new |-> TRUE, del |-> FALSE]

Blank == [appType |-> "none", deployment |-> "replicated", policy |-> "shared", env |-> <<Variable>>,
          folders |-> <<>>, ports |-> <<>>, publishing |-> "internal", placements |-> <<>>, mandatory |-> FALSE,
          scaler |-> FALSE, replicas |-> 1, maxReplicas |-> 1, cpu |-> 1, rwx |-> FALSE]

Published == {[Blank EXCEPT !.ports = <<Port(1, 0)>>, !.scaler = TRUE],
              [Blank EXCEPT !.ports = <<Port(1, 0), Port(2, 0)>>, !.publishing = "cluster"],
              [Blank EXCEPT !.ports = <<Port(1, 2)>>, !.publishing = "ingress"]}

Global   == {[f EXCEPT !.deployment = "global", !.scaler = FALSE] : f \in Published}
Isolated == {[f EXCEPT !.policy = "isolated", !.folders = <<Folder>>] : f \in Published \cup {Blank}}
Shared   == {[f EXCEPT !.folders = <<Folder>>] : f \in {Blank} \cup {g \in Global : g.publishing = "internal"}}

MCForms == {[f EXCEPT !.rwx = w] : f \in {Blank} \cup Published \cup Global \cup Isolated \cup Shared, w \in BOOLEAN}
===============================================================================
