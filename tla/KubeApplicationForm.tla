------------------------- MODULE KubeApplicationForm -------------------------
(***************************************************************************)
(* The form of a Kubernetes application (app/kubernetes): its rows and     *)
(* their validation, and the conversions between the form and the          *)
(* resources of the cluster, in both directions.                           *)
(*                                                                         *)
(* Names, ports, routes, paths, labels and volumes are numbers.  There is  *)
(* one ingress with one host in the namespace, one container per pod.      *)
(***************************************************************************)
EXTENDS Integers, FiniteSets, Sequences, SequencesExt, FiniteSetsExt

CONSTANT Nodes        \* the nodes of the cluster: a global application runs on each

None == [none |-> TRUE]

\* The part of a list that is in a set, in its order; the functions over lists are
\* recursive functions, which can be reasoned about.
Among(s, S) ==
  LET among[n \in 0 .. Len(s)] ==
        IF n = 0 THEN <<>> ELSE IF s[n] \in S THEN Append(among[n - 1], s[n]) ELSE among[n - 1]
  IN  among[Len(s)]

\* Each element of a list once
Uniq(s) ==
  LET uniq[n \in 0 .. Len(s)] ==
        IF n = 0 THEN <<>>
        ELSE IF \E i \in 1 .. n - 1 : s[i] = s[n] THEN uniq[n - 1] ELSE Append(uniq[n - 1], s[n])
  IN  uniq[Len(s)]

\* The positions whose name is met elsewhere in the list; 0 is no name.
GetDuplicates(names) ==
  {i \in DOMAIN names : names[i] # 0 /\ \E j \in DOMAIN names : j # i /\ names[j] = names[i]}

\* Lists that a patch changes.  JsonPatch.compare goes by position: what differs is
\* replaced, what is over is removed, what is missing is inserted.  An empty list is
\* left out of the payload, so that filling it sets it whole.
PatchApplies(old, new, current) ==
  CASE old = new   -> TRUE
    [] old = <<>>  -> TRUE
    [] new = <<>>  -> current # <<>>
    [] OTHER       -> /\ \A i \in DOMAIN old \cap DOMAIN new : old[i] # new[i] => i \in DOMAIN current
                      /\ Len(new) # Len(old) => Len(current) >= Len(old)

Patched(old, new, current) ==
  IF old = new THEN current
  ELSE IF old = <<>> \/ new = <<>> THEN new
  ELSE LET both     == [i \in DOMAIN current |->
                          IF i \in DOMAIN old \cap DOMAIN new /\ old[i] # new[i] THEN new[i] ELSE current[i]]
           after    == SubSeq(both, Len(old) + 1, Len(both))
       IN  IF Len(new) = Len(old) THEN both
           ELSE IF Len(new) < Len(old) THEN SubSeq(both, 1, Len(new)) \o after
           ELSE SubSeq(both, 1, Len(old)) \o SubSeq(new, Len(old) + 1, Len(new)) \o after

-----------------------------------------------------------------------------
(* Rows.  Variables, published ports and placements know whether they are  *)
(* new, persisted folders whether they have a claim; a row that is not new *)
(* is marked for deletion, and can be restored.                            *)

RemoveRow(rows, i) == IF rows[i].new THEN RemoveAt(rows, i) ELSE [rows EXCEPT ![i].del = TRUE]

RestoreRow(rows, i) == [rows EXCEPT ![i].del = FALSE]

Kept(rows) == Among(rows, {r \in ToSet(rows) : ~r.del})

AddEnvironmentVariable(f, name) ==
  [f EXCEPT !.env = Append(@, [name |-> name, new |-> TRUE, del |-> FALSE])]

\* A folder on a volume to be created, or on one that is there; the deployment starts
\* over as a replicated one.
AddPersistedFolder(f, path) ==
  [f EXCEPT !.folders = Append(@, [claim |-> 0, existing |-> 0, path |-> path, new |-> TRUE, del |-> FALSE]),
            !.deployment = "replicated"]

\* Data on a volume that is there cannot be isolated.
UseExistingVolume(f, i, claim) ==
  [f EXCEPT !.folders[i].existing = claim,
            !.policy     = "shared",
            !.deployment = IF f.policy = "isolated" THEN "replicated" ELSE @]

AddPlacement(f, label) ==
  [f EXCEPT !.placements = Append(@, [label |-> label, value |-> 1, new |-> TRUE, del |-> FALSE])]

\* A new port has the ingress of the namespace, whatever way it is to be published.
AddPublishedPort(f, port, route, ingresses) ==
  [f EXCEPT !.ports = Append(@, [port |-> port, route |-> route, ingress |-> ingresses,
                                 new |-> TRUE, del |-> FALSE])]

-----------------------------------------------------------------------------
(* Validation.                                                             *)

\* Variables marked for deletion count, as they do not for the others.
DuplicateVariables(f) == GetDuplicates([i \in DOMAIN f.env |-> f.env[i].name])

DuplicateFolders(f) ==
  GetDuplicates([i \in DOMAIN f.folders |-> IF f.folders[i].del THEN 0 ELSE f.folders[i].path])

DuplicateVolumes(f) ==
  GetDuplicates([i \in DOMAIN f.folders |-> IF f.folders[i].del THEN 0 ELSE f.folders[i].existing])

\* Container ports may be the same behind an ingress.
DuplicatePorts(f) ==
  IF f.publishing = "ingress" THEN {}
  ELSE GetDuplicates([i \in DOMAIN f.ports |-> IF f.ports[i].del THEN 0 ELSE f.ports[i].port])

\* New routes must differ from each other and from those of the ingress, except for the
\* ones that are about to go.
DuplicateRoutes(f, paths) ==
  LET new   == [i \in DOMAIN f.ports |-> IF f.ports[i].new THEN f.ports[i].route ELSE 0]
      toDel == {f.ports[i].route : i \in {j \in DOMAIN f.ports : f.ports[j].del}}
  IN  IF f.publishing # "ingress" THEN {}
      ELSE GetDuplicates(new) \cup
           {i \in DOMAIN new : /\ new[i] # 0 /\ new[i] \notin toDel
                               /\ \E j \in DOMAIN paths : paths[j].route = new[i]}

IsValid(f, paths) ==
  /\ DuplicateVariables(f) = {} /\ DuplicateFolders(f) = {} /\ DuplicateVolumes(f) = {}
  /\ DuplicatePorts(f) = {} /\ DuplicateRoutes(f, paths) = {}

\* The fields that the template requires.  Ingress and route of a new port are shown if
\* ports are to be published by the ingress, those of another one if they were.
IsComplete(f, saved) ==
  /\ \A i \in DOMAIN f.env : f.env[i].name # 0
  /\ \A i \in DOMAIN f.folders : f.folders[i].path # 0
  /\ \A i \in DOMAIN f.ports :
       LET r == f.ports[i]
       IN  /\ r.del \/ r.port # 0
           /\ (IF r.new THEN f.publishing ELSE saved.publishing) = "ingress" => r.del \/ (r.ingress /\ r.route # 0)

SupportGlobalDeployment(f) == f.folders = <<>> \/ (f.rwx /\ f.policy = "shared")

SupportScalableReplicaDeployment(f) == f.folders = <<>> \/ f.rwx \/ f.policy = "isolated"

IsNonScalable(f) ==
  \/ f.deployment = "replicated" /\ ~SupportScalableReplicaDeployment(f) /\ f.replicas > 1
  \/ f.deployment = "global" /\ ~SupportGlobalDeployment(f)

IsNotInternalAndHasNoPublishedPorts(f) == f.publishing # "internal" /\ Kept(f.ports) = <<>>

\* What the namespace's quota leaves, and what the application had of it
SliderMax(quota, used, saved) == quota - used + (IF saved = None THEN 0 ELSE saved.cpu * saved.replicas)

ResourceReservationsOverflow(f, max) == f.cpu * f.replicas > max

\* The most replicas count even if the application does not scale by itself.
AutoScalerOverflow(f, max) == f.cpu * f.maxReplicas > max

IsEditAndNoChangesMade(f, saved) == saved # None /\ [f EXCEPT !.appType = "none"] = [saved EXCEPT !.appType = "none"]

\* The way to publish can be changed once no port published so far is to be kept.
IsPublishingTypeEditDisabled(f) == \E i \in DOMAIN f.ports : ~f.ports[i].new /\ ~f.ports[i].del

IsDeployUpdateButtonDisabled(f, saved, paths, max) ==
  \/ ~IsComplete(f, saved)
  \/ ResourceReservationsOverflow(f, max) \/ AutoScalerOverflow(f, max)
  \/ ~IsValid(f, paths) \/ IsEditAndNoChangesMade(f, saved)
  \/ IsNonScalable(f) \/ IsNotInternalAndHasNoPublishedPorts(f)

-----------------------------------------------------------------------------
(* From the form to the resources.                                         *)

\* applicationFormValuesToVolumeClaims: a new claim gets a name of its own each time.
Claims(f, fresh) ==
  LET folders == Kept(f.folders)
  IN  [i \in DOMAIN folders |->
         LET r == folders[i]
         IN  [name     |-> IF r.existing # 0 THEN r.existing ELSE IF r.claim # 0 THEN r.claim ELSE fresh + i,
              previous |-> r.claim,
              known    |-> r.existing # 0,
              path     |-> r.path]]

ClaimsToCreate(claims) == {claims[i].name : i \in {j \in DOMAIN claims : claims[j].previous = 0 /\ ~claims[j].known}}

\* The kind of the application; a form that was made from one keeps its kind.
KindOf(f) ==
  LET claims == Kept(f.folders) # <<>>
  IN  IF (f.deployment = "replicated" /\ (~claims \/ f.policy = "shared")) \/ f.appType = "Deployment"
      THEN "Deployment"
      ELSE IF (f.deployment = "replicated" /\ claims /\ f.policy = "isolated") \/ f.appType = "StatefulSet"
      THEN "StatefulSet"
      ELSE IF (f.deployment = "global" /\ (~claims \/ (f.policy = "shared" /\ f.rwx))) \/ f.appType = "DaemonSet"
      THEN "DaemonSet"
      ELSE "none"

\* The ports of the rows that are there, each once
PublishedPorts(f) ==
  LET rows == Among(f.ports, {r \in ToSet(f.ports) : r.new \/ ~r.del})
  IN  Uniq([i \in DOMAIN rows |-> rows[i].port])

\* Mutant: a service without ports is one.
ToServiceEmpty(f) ==
  [type |-> IF f.publishing = "cluster" THEN "NodePort" ELSE "ClusterIP", ports |-> PublishedPorts(f)]

\* A port is published once, and there is no service without ports.
ToService(f) ==
  IF PublishedPorts(f) = <<>> THEN None
  ELSE [type |-> IF f.publishing = "cluster" THEN "NodePort" ELSE "ClusterIP", ports |-> PublishedPorts(f)]

\* Only a replicated application has an affinity.
AffinityOf(f) ==
  IF f.deployment # "replicated" \/ Kept(f.placements) = <<>> THEN None
  ELSE [mandatory |-> f.mandatory,
        terms     |-> [i \in DOMAIN Kept(f.placements) |-> [label |-> Kept(f.placements)[i].label,
                                                            value |-> Kept(f.placements)[i].value]]]

\* The deployment, daemon set or stateful set: variables, mounts and the rest
ToApplication(f, fresh) ==
  [kind     |-> KindOf(f),
   env      |-> [i \in DOMAIN Kept(f.env) |-> Kept(f.env)[i].name],
   mounts   |-> [i \in DOMAIN Claims(f, fresh) |-> [claim |-> Claims(f, fresh)[i].name,
                                                    path  |-> Claims(f, fresh)[i].path]],
   replicas |-> IF KindOf(f) = "DaemonSet" THEN 0 ELSE f.replicas,
   cpu      |-> f.cpu,
   affinity |-> AffinityOf(f)]

Route(svc, port, route) == [svc |-> svc, port |-> port, route |-> route]

\* Mutant: a route is looked for by its port, whosever it is.
RouteChangedAnyone(svc, paths, r) ==
  LET found == {p \in ToSet(paths) : p.port = r.port}
  IN  IF ~r.ingress THEN paths
      ELSE IF r.del THEN Among(paths, IF found # {} THEN ToSet(paths) \ {CHOOSE p \in found : TRUE} ELSE {})
      ELSE IF r.new THEN Append(paths, Route(svc, r.port, r.route))
      ELSE paths

\* applicationFormValuesToIngresses for one row: _.remove takes out every path that is
\* like the one found.  A route that is to go and is not found takes all the paths of
\* the ingress with it: _.remove(paths, undefined).
RouteChanged(svc, paths, r) ==
  LET route == Route(svc, r.port, r.route)
  IN  IF ~r.ingress THEN paths
      ELSE IF r.del THEN Among(paths, IF route \in ToSet(paths) THEN ToSet(paths) \ {route} ELSE {})
      ELSE IF r.new THEN Append(paths, route)
      ELSE paths

ToIngress(paths, rows, svc) ==
  LET after[n \in 0 .. Len(rows)] == IF n = 0 THEN paths ELSE RouteChanged(svc, after[n - 1], rows[n])
  IN  after[Len(rows)]

-----------------------------------------------------------------------------
(* From the resources to the form.                                         *)

\* The rows of a port of a service: one for each route, or one without
RowsOfPort(port, paths, svc) ==
  LET rules == Among(paths, {p \in ToSet(paths) : p.svc = svc /\ p.port = port})
      row   == [port |-> port, route |-> 0, ingress |-> FALSE, new |-> FALSE, del |-> FALSE]
  IN  IF rules = <<>> THEN <<row>>
      ELSE [j \in DOMAIN rules |-> [row EXCEPT !.route = rules[j].route, !.ingress = TRUE]]

PortRows(service, paths, svc) ==
  LET rows[n \in 0 .. Len(service.ports)] ==
        IF n = 0 THEN <<>> ELSE rows[n - 1] \o RowsOfPort(service.ports[n], paths, svc)
  IN  IF service = None THEN <<>> ELSE rows[Len(service.ports)]

PublishingOf(service, rows) ==
  IF service # None /\ service.type = "NodePort" THEN "cluster"
  ELSE IF \E i \in DOMAIN rows : rows[i].ingress THEN "ingress" ELSE "internal"

PlacementRows(affinity) ==
  IF affinity = None THEN <<>>
  ELSE [i \in DOMAIN affinity.terms |-> [label |-> affinity.terms[i].label, value |-> affinity.terms[i].value,
                                         new |-> FALSE, del |-> FALSE]]

\* applicationToFormValues, for the application, the service it is bound to, the paths
\* of the ingress and its autoscaler
ApplicationToFormValues(app, service, paths, scaler, rwx) ==
  LET ports == PortRows(service, paths, "self")
  IN  [appType    |-> app.kind,
       deployment |-> IF app.kind = "DaemonSet" THEN "global" ELSE "replicated",
       policy     |-> IF app.kind = "StatefulSet" THEN "isolated" ELSE "shared",
       env        |-> [i \in DOMAIN app.env |-> [name |-> app.env[i], new |-> FALSE, del |-> FALSE]],
       folders    |-> [i \in DOMAIN app.mounts |-> [claim |-> app.mounts[i].claim, existing |-> 0,
                                                    path |-> app.mounts[i].path, new |-> FALSE, del |-> FALSE]],
       ports      |-> ports,
       publishing |-> PublishingOf(service, ports),
       placements |-> PlacementRows(app.affinity),
       mandatory  |-> app.affinity # None /\ app.affinity.mandatory,
       scaler     |-> scaler # None,
       replicas   |-> IF app.kind = "DaemonSet" THEN Nodes ELSE app.replicas,
       maxReplicas |-> IF scaler # None THEN scaler.max
                       ELSE IF app.kind = "DaemonSet" THEN Nodes ELSE app.replicas,
       cpu        |-> app.cpu,
       rwx        |-> rwx]
===============================================================================
