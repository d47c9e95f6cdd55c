--------------------------- MODULE KubeApplications ---------------------------
(***************************************************************************)
(* Kubernetes applications: the views that deploy, edit and delete one     *)
(* (app/kubernetes/views/applications) and the service that turns a form   *)
(* into a chain of calls to the cluster (services/applicationService.js).  *)
(*                                                                         *)
(* One application, "self", shares the ingress of its namespace with       *)
(* another one.  A call may be refused, or its answer lost; no step is     *)
(* undone.  Another user may work on the same application meanwhile.       *)
(***************************************************************************)
EXTENDS KubeApplicationForm

CONSTANTS Forms,        \* the forms a user may fill in to deploy the application
          MaxChanges,   \* the changes users make to forms when editing, at most
          MaxTries,     \* the times a user submits one form, at most
          MaxFaults,    \* the calls that fail, at most
          MaxViews,     \* the views a user opens, at most
          Quota         \* the CPU quota of the namespace

\* A form that is filled in anew: all of its rows are new.
NewForms ==
  [appType     : {"none"},
   deployment  : {"replicated", "global"},
   policy      : {"shared", "isolated"},
   env         : Seq([name : 1 .. 2, new : {TRUE}, del : {FALSE}]),
   folders     : Seq([claim : {0}, existing : Nat, path : Nat, new : {TRUE}, del : {FALSE}]),
   ports       : Seq([port : Nat, route : Nat, ingress : BOOLEAN, new : {TRUE}, del : {FALSE}]),
   publishing  : {"internal", "cluster", "ingress"},
   placements  : Seq([label : Nat, value : Nat, new : {TRUE}, del : {FALSE}]),
   mandatory   : BOOLEAN,
   scaler      : BOOLEAN,
   replicas    : Nat,
   maxReplicas : Nat,
   cpu         : Nat,
   rwx         : BOOLEAN]

ASSUME FormsAssumption == Forms \subseteq NewForms

VARIABLES cluster,        \* the resources of the namespace
          view,           \* the view that is open
          faults, meddled, views, changes,
          rwx,            \* whether the storage class can be shared between pods
          headlessFirst   \* whether the headless service is listed before the other

kubeVars == <<cluster, view, faults, meddled, views, changes, rwx, headlessFirst>>

Closed == [mode |-> "none", status |-> "closed"]

Own(paths)   == {paths[i] : i \in {j \in DOMAIN paths : paths[j].svc = "self"}}
Other(paths) == {paths[i] : i \in {j \in DOMAIN paths : paths[j].svc = "other"}}

-----------------------------------------------------------------------------
(* Reading an application.                                                 *)

\* The first service with a selector that matches: both services have the same one.
BoundService(c) ==
  LET headless == [type |-> "ClusterIP", ports |-> <<>>]
  IN  IF c.headless /\ (headlessFirst \/ c.service = None) THEN headless ELSE c.service

\* The autoscaler of an application of this kind and name
BoundScaler(c) == IF c.scaler # None /\ c.scaler.kind = c.app.kind THEN c.scaler ELSE None

-----------------------------------------------------------------------------
(* Calls: what each needs and does.                                        *)

Call(op, old, new) == [op |-> op, old |-> old, new |-> new]

\* A patch with nothing to change is not sent.
PatchIf(op, old, new) == IF old = new THEN <<>> ELSE <<Call(op, old, new)>>

\* The cluster takes no pod that mounts two volumes at one path, no service that
\* publishes a port twice.
Mountable(mounts) == IsInjective([i \in DOMAIN mounts |-> mounts[i].path])

Applies(call) ==
  CASE call.op = "app.create"       -> cluster.app = None
    [] call.op = "app.patch"        -> /\ cluster.app # None /\ cluster.app.kind = call.old.kind
                                       /\ PatchApplies(call.old.env, call.new.env, cluster.app.env)
                                       /\ PatchApplies(call.old.mounts, call.new.mounts, cluster.app.mounts)
                                       /\ Mountable(Patched(call.old.mounts, call.new.mounts, cluster.app.mounts))
    [] call.op = "app.delete"       -> cluster.app # None /\ cluster.app.kind = call.old
    [] call.op = "service.create"   -> cluster.service = None
    [] call.op = "service.patch"    -> /\ cluster.service # None /\ PatchApplies(call.old.ports, call.new.ports, cluster.service.ports)
                                       /\ IsInjective(Patched(call.old.ports, call.new.ports, cluster.service.ports))
    [] call.op = "service.delete"   -> cluster.service # None
    [] call.op = "headless.create"  -> ~cluster.headless
    [] call.op = "headless.delete"  -> cluster.headless
    [] call.op = "scaler.create"    -> cluster.scaler = None
    [] call.op \in {"scaler.patch", "scaler.delete"} -> cluster.scaler # None
    [] call.op = "ingress.patch"    -> PatchApplies(call.old, call.new, cluster.paths)
    [] OTHER                        -> TRUE

\* A value that the patch does not mention stays as it is.
Scalar(old, new, current) == IF old = new THEN current ELSE new

PatchedApp(app, old, new) ==
  [app EXCEPT !.env      = Patched(old.env, new.env, @),
              !.mounts   = Patched(old.mounts, new.mounts, @),
              !.replicas = Scalar(old.replicas, new.replicas, @),
              !.affinity = Scalar(old.affinity, new.affinity, @)]

PatchedService(service, old, new) ==
  [service EXCEPT !.type  = Scalar(old.type, new.type, @),
                  !.ports = Patched(old.ports, new.ports, @)]

Effect(call) ==
  CASE call.op = "app.create"      -> [cluster EXCEPT !.app = call.new]
    [] call.op = "app.patch"       -> [cluster EXCEPT !.app = PatchedApp(@, call.old, call.new)]
    [] call.op = "app.delete"      -> [cluster EXCEPT !.app = None]
    [] call.op = "service.create"  -> [cluster EXCEPT !.service = call.new]
    [] call.op = "service.patch"   -> [cluster EXCEPT !.service = PatchedService(@, call.old, call.new)]
    [] call.op = "service.delete"  -> [cluster EXCEPT !.service = None]
    [] call.op = "headless.create" -> [cluster EXCEPT !.headless = TRUE]
    [] call.op = "headless.delete" -> [cluster EXCEPT !.headless = FALSE]
    [] call.op = "claims.create"   -> [cluster EXCEPT !.claims = @ \cup call.new]
    [] call.op = "scaler.create"   -> [cluster EXCEPT !.scaler = call.new]
    [] call.op = "scaler.patch"    -> [cluster EXCEPT !.scaler = call.new]
    [] call.op = "scaler.delete"   -> [cluster EXCEPT !.scaler = None]
    [] call.op = "ingress.patch"   -> [cluster EXCEPT !.paths = Patched(call.old, call.new, @)]
    [] OTHER                       -> cluster

-----------------------------------------------------------------------------
(* The chains.                                                             *)

ScalerOf(f) == [kind |-> KindOf(f), max |-> f.maxReplicas]

\* createAsync: the service and its routes, the headless service or the claims, the
\* autoscaler, and the application at last
CreateCalls(f, paths, fresh) ==
  LET service == ToService(f)
      claims  == ClaimsToCreate(Claims(f, fresh))
  IN  (IF service = None THEN <<>>
       ELSE <<Call("service.create", None, service)>> \o
            (IF f.publishing = "ingress" THEN PatchIf("ingress.patch", paths, ToIngress(paths, f.ports, "self"))
             ELSE <<>>))
      \o (IF KindOf(f) = "StatefulSet" THEN <<Call("headless.create", None, None)>>
          ELSE IF claims # {} THEN <<Call("claims.create", None, claims)>> ELSE <<>>)
      \o (IF f.scaler /\ f.deployment # "global" THEN <<Call("scaler.create", None, ScalerOf(f))>> ELSE <<>>)
      \o <<Call("app.create", None, ToApplication(f, fresh))>>

\* Mutant: a service is patched only if its type changes.
ServiceCallsByType(old, new, paths) ==
  LET was == ToService(old)
      is  == ToService(new)
  IN  IF was # None /\ is # None /\ was.type = is.type THEN <<>>
      ELSE IF was = None /\ is # None THEN <<Call("service.create", None, is)>>
      ELSE IF was # None /\ is = None THEN <<Call("service.delete", None, None)>>
      ELSE PatchIf("service.patch", was, is)

\* patchAsync, service and routes: the routes of the new rows are added whatever the way
\* to publish has become, if it was the ingress before.
ServiceCalls(old, new, paths) ==
  LET was == ToService(old)
      is  == ToService(new)
  IN  CASE was # None /\ is # None ->
             PatchIf("service.patch", was, is) \o
             (IF "ingress" \in {old.publishing, new.publishing}
              THEN PatchIf("ingress.patch", ToIngress(paths, old.ports, "self"), ToIngress(paths, new.ports, "self"))
              ELSE <<>>)
        [] was = None /\ is # None ->
             <<Call("service.create", None, is)>> \o
             (IF new.publishing = "ingress"
              THEN PatchIf("ingress.patch", paths, ToIngress(paths, new.ports, "self")) ELSE <<>>)
        [] was # None /\ is = None ->
             <<Call("service.delete", None, None)>> \o
             (IF old.publishing = "ingress"
              THEN PatchIf("ingress.patch", paths, ToIngress(paths, new.ports, "self")) ELSE <<>>)
        [] OTHER -> <<>>

\* patchAsync: another kind of application is deleted and created anew; the autoscaler
\* of the former one stays.
PatchCalls(old, new, paths, fresh) ==
  LET claims == ClaimsToCreate(Claims(new, fresh))
  IN  IF KindOf(old) # KindOf(new)
      THEN <<Call("app.delete", KindOf(old), None)>>
           \o (IF KindOf(old) = "StatefulSet" THEN <<Call("headless.delete", None, None)>> ELSE <<>>)
           \o (IF ToService(old) # None THEN <<Call("service.delete", None, None)>> ELSE <<>>)
           \o CreateCalls(new, paths, fresh)
      ELSE (IF KindOf(new) # "StatefulSet" /\ claims # {} THEN <<Call("claims.create", None, claims)>> ELSE <<>>)
           \o PatchIf("app.patch", ToApplication(old, fresh), ToApplication(new, fresh))
           \o ServiceCalls(old, new, paths)
           \o (CASE ~old.scaler /\ new.scaler -> <<Call("scaler.create", None, ScalerOf(new))>>
                 [] old.scaler /\ new.scaler  -> PatchIf("scaler.patch", ScalerOf(old), ScalerOf(new))
                 [] old.scaler /\ ~new.scaler -> <<Call("scaler.delete", None, None)>>
                 [] OTHER                     -> <<>>)

\* Mutant: the routes of the application stay.
DeleteCallsKeepingRoutes(c) ==
  <<Call("app.delete", c.app.kind, None)>>
  \o (IF c.app.kind = "StatefulSet" THEN <<Call("headless.delete", None, None)>> ELSE <<>>)
  \o (IF BoundService(c) = None THEN <<>> ELSE <<Call("service.delete", None, None)>>)

\* deleteAsync, for the application as the list showed it: it goes first, then what
\* belonged to it.  A bound service counts whichever it was.
DeleteCalls(c) ==
  LET bound == BoundService(c)
      rows  == PortRows(bound, c.paths, "self")
  IN  <<Call("app.delete", c.app.kind, None)>>
      \o (IF c.app.kind = "StatefulSet" THEN <<Call("headless.delete", None, None)>> ELSE <<>>)
      \o (IF bound = None THEN <<>>
          ELSE <<Call("service.delete", None, None)>> \o
               (IF \E i \in DOMAIN rows : rows[i].ingress THEN <<Call("ingress.get", None, rows)>> ELSE <<>>))
      \o (IF BoundScaler(c) # None THEN <<Call("scaler.delete", None, None)>> ELSE <<>>)

\* Mutant: the autoscaler of a new application is not told.
CreatedWithoutScaler(g, paths) ==
  (IF ToService(g) # None THEN {"service", "ingress"} ELSE {})
  \cup (IF KindOf(g) = "StatefulSet" THEN {"headless"}
        ELSE IF ClaimsToCreate(Claims(g, 0)) # {} THEN {"claims"} ELSE {}) \cup {"app"}

\* The resources of a new application, for the summary
CreatedResources(g, paths) ==
  (IF ToService(g) # None THEN {"service"} \cup
     (IF g.publishing = "ingress" /\ ToIngress(paths, g.ports, "self") # paths THEN {"ingress"} ELSE {}) ELSE {})
  \cup (IF KindOf(g) = "StatefulSet" THEN {"headless"}
        ELSE IF ClaimsToCreate(Claims(g, 0)) # {} THEN {"claims"} ELSE {})
  \cup (IF g.scaler /\ g.deployment # "global" THEN {"scaler"} ELSE {}) \cup {"app"}

\* What the summary under the form announces: it follows the same path by itself, and
\* says "update" for the application whether or not there is something to change.
Summary(saved, f, paths) ==
  LET was    == ToService(saved)
      is     == ToService(f)
      routes == IF was # None /\ is # None THEN "ingress" \in {saved.publishing, f.publishing}
                ELSE IF was = None THEN is # None /\ f.publishing = "ingress"
                ELSE saved.publishing = "ingress"
  IN  IF saved = None THEN CreatedResources(f, paths)
      ELSE IF KindOf(saved) # KindOf(f) THEN {"app"} \cup (IF was # None THEN {"service"} ELSE {}) \cup CreatedResources(f, paths)
      ELSE {"app"}
           \cup (IF KindOf(f) # "StatefulSet" /\ ClaimsToCreate(Claims(f, 0)) # {} THEN {"claims"} ELSE {})
           \cup (IF was # is THEN {"service"} ELSE {})
           \cup (IF routes /\ ToIngress(paths, f.ports, "self") # paths THEN {"ingress"} ELSE {})
           \cup (IF saved.scaler # f.scaler \/ (f.scaler /\ ScalerOf(saved) # ScalerOf(f)) THEN {"scaler"} ELSE {})

-----------------------------------------------------------------------------
(* The views.                                                              *)

UsedQuota == IF cluster.app = None THEN 0
             ELSE cluster.app.cpu * (IF cluster.app.kind = "DaemonSet" THEN Nodes ELSE cluster.app.replicas)

Disabled(v, f) == IsDeployUpdateButtonDisabled(f, v.saved, v.paths, SliderMax(Quota, v.used, v.saved))

\* The conversion takes the variables and the folders marked for deletion out of the form.
Converted(f) == [f EXCEPT !.env = Kept(@), !.folders = Kept(@)]

\* The summary converts the form whenever it changes and can be submitted.
Digested(v, f) == IF Disabled(v, f) THEN f ELSE Converted(f)

\* The view to deploy the application, filled in
OpenCreate ==
  /\ view = Closed /\ views < MaxViews /\ views' = views + 1
  /\ cluster.app = None
  /\ \E f \in Forms :
       LET v == [mode |-> "create", status |-> "form", saved |-> None, form |-> f, paths |-> cluster.paths,
                 used |-> UsedQuota, calls |-> <<>>, before |-> cluster, tries |-> 0]
       IN  f.rwx = rwx /\ ~Disabled(v, f) /\ view' = v
  /\ UNCHANGED <<cluster, faults, meddled, changes, rwx, headlessFirst>>

\* The view to edit it: the form as it is saved, and the same with the volumes that
\* can be shared selected as existing ones
OpenEdit ==
  /\ view = Closed /\ views < MaxViews /\ views' = views + 1
  /\ cluster.app # None
  /\ LET saved == ApplicationToFormValues(cluster.app, BoundService(cluster), cluster.paths, BoundScaler(cluster), rwx)
         form  == [saved EXCEPT !.appType = "none",
                                !.folders = [i \in DOMAIN @ |->
                                   IF cluster.app.kind # "StatefulSet" /\ rwx
                                   THEN [saved.folders[i] EXCEPT !.existing = saved.folders[i].claim] ELSE @[i]]]
         v     == [mode |-> "edit", status |-> "form", saved |-> saved, form |-> form, paths |-> cluster.paths,
                   used |-> UsedQuota, calls |-> <<>>, before |-> cluster, tries |-> 0]
     IN  view' = v
  /\ UNCHANGED <<cluster, faults, meddled, changes, rwx, headlessFirst>>

\* What the user may do to the form: add, remove and restore rows, and choose
Changes(f, v) ==
  {AddEnvironmentVariable(f, n) : n \in 1 .. 2}
  \cup {[f EXCEPT !.env = RemoveRow(@, i)] : i \in {j \in DOMAIN f.env : ~f.env[j].del}}
  \cup {[f EXCEPT !.env = RestoreRow(@, i)] : i \in {j \in DOMAIN f.env : f.env[j].del}}
  \cup (IF f.policy = "isolated" THEN {}
        ELSE {AddPersistedFolder(f, p) : p \in 1 .. 2}
             \cup {UseExistingVolume(AddPersistedFolder(f, 2), Len(f.folders) + 1, c) : c \in cluster.claims}
             \cup {[f EXCEPT !.folders = RemoveRow(@, i)] : i \in {j \in DOMAIN f.folders : ~f.folders[j].del}}
             \cup {[f EXCEPT !.folders = RestoreRow(@, i)] : i \in {j \in DOMAIN f.folders : f.folders[j].del}})
  \cup {AddPublishedPort(f, p, r, TRUE) : p \in 1 .. 2, r \in IF f.publishing = "ingress" THEN 2 .. 3 ELSE {0}}
  \cup {[f EXCEPT !.ports = RemoveRow(@, i)] : i \in {j \in DOMAIN f.ports : ~f.ports[j].del}}
  \cup {[f EXCEPT !.ports = RestoreRow(@, i)] : i \in {j \in DOMAIN f.ports : f.ports[j].del}}
  \cup (IF IsPublishingTypeEditDisabled(f) THEN {}
        ELSE {[f EXCEPT !.publishing = t] : t \in {"internal", "cluster", "ingress"} \ {f.publishing}})
  \cup (IF f.deployment = "global" THEN {[f EXCEPT !.deployment = "replicated"]}
        ELSE IF SupportGlobalDeployment(f) THEN {[f EXCEPT !.deployment = "global", !.scaler = FALSE]} ELSE {})
  \cup (IF f.deployment = "replicated"
        THEN {[f EXCEPT !.scaler = ~@], [f EXCEPT !.replicas = 3 - @], AddPlacement(f, 1)} ELSE {})
  \cup {[f EXCEPT !.placements = RemoveRow(@, i)] : i \in {j \in DOMAIN f.placements : ~f.placements[j].del}}

Change ==
  /\ view.status = "form" /\ view.mode = "edit" /\ changes < MaxChanges
  /\ \E f \in Changes(view.form, view) :
       view' = [view EXCEPT !.form = Digested(view, f)]
  /\ changes' = changes + 1
  /\ UNCHANGED <<cluster, faults, meddled, views, rwx, headlessFirst>>

\* deployApplication, after the user has confirmed an update
Submit ==
  /\ view.status = "form" /\ view.mode \in {"create", "edit"} /\ view.tries < MaxTries
  /\ ~Disabled(view, view.form)
  /\ LET fresh == IF cluster.claims = {} THEN 0 ELSE Max(cluster.claims)
     IN  view' = [view EXCEPT
           !.status = "calling", !.before = cluster, !.tries = @ + 1,
           !.form   = Converted(@),
           !.calls  = IF view.mode = "create" THEN CreateCalls(view.form, view.paths, fresh)
                      ELSE PatchCalls(view.saved, view.form, view.paths, fresh)]
  /\ UNCHANGED <<cluster, faults, meddled, views, changes, rwx, headlessFirst>>

\* The application is selected in the list, which was loaded at some time, and deleted.
OpenList ==
  /\ view = Closed /\ views < MaxViews /\ views' = views + 1
  /\ cluster.app # None
  /\ view' = [mode |-> "delete", status |-> "form", saved |-> None, form |-> None, paths |-> cluster.paths,
              used |-> 0, calls |-> DeleteCalls(cluster), before |-> cluster, tries |-> 0]
  /\ UNCHANGED <<cluster, faults, meddled, changes, rwx, headlessFirst>>

ConfirmDelete ==
  /\ view.mode = "delete" /\ view.status = "form"
  /\ view' = [view EXCEPT !.status = "calling"]
  /\ UNCHANGED <<cluster, faults, meddled, views, changes, rwx, headlessFirst>>

\* The next call of the chain succeeds, is refused, or is done and its answer lost.  A
\* failure ends the chain: the form stays open, with what is left of it.
NextCall ==
  /\ view.status = "calling" /\ view.calls # <<>>
  /\ LET call   == Head(view.calls)
         failed == [view EXCEPT !.calls = <<>>,
                                !.status = IF view.mode = "delete" THEN "failed" ELSE "form"]
         routes == PatchIf("ingress.patch", cluster.paths,
                           ToIngress(cluster.paths, [i \in DOMAIN call.new |-> [call.new[i] EXCEPT !.del = TRUE]], "self"))
     IN  \/ /\ Applies(call)
            /\ cluster' = Effect(call)
            /\ view' = [view EXCEPT !.calls = IF call.op = "ingress.get" THEN routes \o Tail(@) ELSE Tail(@)]
            /\ UNCHANGED faults
         \/ /\ ~Applies(call)
            /\ view' = failed
            /\ UNCHANGED <<cluster, faults>>
         \/ /\ faults < MaxFaults /\ faults' = faults + 1
            /\ cluster' \in {cluster} \cup (IF Applies(call) THEN {Effect(call)} ELSE {})
            /\ view' = failed
  /\ UNCHANGED <<meddled, views, changes, rwx, headlessFirst>>

\* The chain is through: the user is told of the success.
Finish ==
  /\ view.status = "calling" /\ view.calls = <<>>
  /\ view' = [view EXCEPT !.status = "done"]
  /\ UNCHANGED <<cluster, faults, meddled, views, changes, rwx, headlessFirst>>

Leave ==
  /\ view.status \in {"form", "done", "failed"}
  /\ view' = Closed
  /\ UNCHANGED <<cluster, faults, meddled, views, changes, rwx, headlessFirst>>

\* Another user updates the application, or the routes of the ingress, once, where no
\* call fails any more.
Meddle ==
  /\ view.status \in {"form", "calling"} /\ view.mode \in {"edit", "delete"} /\ ~meddled /\ faults = MaxFaults
  /\ meddled' = TRUE
  /\ \/ cluster.app # None /\ cluster' = [cluster EXCEPT !.app.env = Append(@, 2)]
     \/ \E i \in DOMAIN cluster.paths : cluster' = [cluster EXCEPT !.paths = RemoveAt(@, i)]
     \/ cluster' = [cluster EXCEPT !.paths = Append(@, Route("other", 2, 3))]
  /\ UNCHANGED <<view, faults, views, changes, rwx, headlessFirst>>

ApplicationsInit ==
  /\ cluster = [app |-> None, service |-> None, headless |-> FALSE, scaler |-> None,
                paths |-> <<Route("other", 1, 1)>>, claims |-> {}]
  /\ view = Closed
  /\ faults \in {0, MaxFaults} /\ meddled = FALSE /\ views = 0 /\ changes = 0
  /\ rwx \in BOOLEAN /\ headlessFirst \in BOOLEAN

ApplicationsNext ==
  OpenCreate \/ OpenEdit \/ Change \/ Submit \/ OpenList \/ ConfirmDelete \/ NextCall \/ Finish \/ Leave \/ Meddle

KubeSpec == ApplicationsInit /\ [][ApplicationsNext]_kubeVars

-----------------------------------------------------------------------------
(* Properties.                                                             *)

\* Type invariant: whatever the calls of a chain, in whatever state they find the
\* cluster, it holds resources of the right shape and the view is in a known state.
TypeOK ==
  /\ cluster.app = None \/ (cluster.app.kind \in {"Deployment", "StatefulSet", "DaemonSet"} /\ cluster.app.env \in Seq(1 .. 2))
  /\ cluster.service = None \/ (cluster.service.type \in {"NodePort", "ClusterIP"} /\ cluster.service.ports # <<>>)
  /\ \A i \in DOMAIN cluster.paths : cluster.paths[i].svc \in {"self", "other"}
  /\ view.status \in {"closed", "form", "calling", "done", "failed"}

\* What a form says of the application, whatever the order of its rows
Facets(f) ==
  [kind     |-> KindOf(f),
   env      |-> ToSet(ToApplication(f, 0).env),
   paths    |-> {f.folders[i].path : i \in {j \in DOMAIN f.folders : ~f.folders[j].del}},
   ports    |-> IF ToService(f) = None THEN {} ELSE ToSet(ToService(f).ports),
   replicas |-> ToApplication(f, 0).replicas,
   affinity |-> AffinityOf(f)]

\* What a deployment that failed half-way, or a change of kind, left behind
Leftovers(c) ==
  \/ c.scaler # None /\ (c.app = None \/ c.scaler.kind # c.app.kind)
  \/ c.headless /\ (c.app = None \/ c.app.kind # "StatefulSet")
  \/ c.service # None /\ c.app = None
  \/ \E r \in Own(c.paths) : c.service = None \/ r.port \notin ToSet(c.service.ports)

\* The bound service is the one that publishes the ports, if there is one.
SeesService(c) == BoundService(c) = c.service \/ c.service = None

Done == view.status = "done" /\ view.mode \in {"create", "edit"} /\ ~meddled

\* The first try of an update: another one starts again from what was there before.
AtFirst == Done /\ (view.tries > 1 => view.mode = "create")

\* Opened again, it has the kind, variables, folders, ports, replicas, placements and
\* scaling of the form; an autoscaler of its former kind is not its own.
FacetsAsSubmitted ==
  SeesService(view.before)
    => /\ cluster.app # None
       /\ Facets(ApplicationToFormValues(cluster.app, cluster.service, cluster.paths, BoundScaler(cluster), rwx))
            = Facets(view.form)
       /\ BoundScaler(cluster) # None <=> view.form.scaler /\ view.form.deployment # "global"

\* Behind the ingress its routes are those of the rows that were kept, and no others
RoutesAsSubmitted ==
  view.form.publishing = "ingress" /\ ToService(view.form) # None
    => Own(cluster.paths) = {Route("self", r.port, r.route) : r \in {q \in ToSet(Kept(view.form.ports)) : q.ingress}}

\* No variable, path or route is there twice.
AppUnambiguous(c)    == c.app # None => IsInjective(c.app.env) /\ Mountable(c.app.mounts)
RoutesUnambiguous(c) == IsInjective([i \in DOMAIN c.paths |-> c.paths[i].route])
Unambiguous(c)       == AppUnambiguous(c) /\ RoutesUnambiguous(c)

\* Switched away from the ingress, an application gets the routes of its new ports, which
\* nobody validates any more.
LeavesIngress ==
  view.mode = "edit" /\ view.saved.publishing = "ingress" /\ view.form.publishing # "ingress"

\* An application that was deployed or updated with success is the one of the form
\* (applicationService.js, createAsync and patchAsync, with the converters there and
\* back; createApplicationController.js, onChange...): at the first try, as an update
\* that failed is submitted again as if nothing of it had been done, and unless
\* one before has left something over, or twice, or its headless service was taken for
\* the other.
AsSubmitted ==
  AtFirst /\ ~Leftovers(view.before) /\ Unambiguous(view.before)
    => /\ FacetsAsSubmitted /\ RoutesAsSubmitted
       /\ AppUnambiguous(cluster) /\ (RoutesUnambiguous(cluster) \/ LeavesIngress)

Changed ==
  {k \in {"app", "service", "headless", "scaler", "ingress", "claims"} :
     CASE k = "app"      -> cluster.app # view.before.app
       [] k = "service"  -> cluster.service # view.before.service
       [] k = "headless" -> cluster.headless /\ ~view.before.headless
       [] k = "scaler"   -> cluster.scaler # view.before.scaler
       [] k = "ingress"  -> cluster.paths # view.before.paths
       [] k = "claims"   -> KindOf(view.form) # "StatefulSet" /\ cluster.claims # view.before.claims}

\* The summary under the form names every resource that the deployment creates, changes
\* or removes: its own computation follows that of the service
\* (applicationService.js:275, "Keep this method flow in sync with `getUpdatedApplicationResources`").
SummaryTells ==
  Done => Changed \subseteq Summary(view.saved, view.form, view.paths)

\* Once an application has been deleted, nothing of it is left in the namespace, if no
\* call failed: no service, no autoscaler that was bound to, no
\* route to a port of its service (applicationService.js, deleteAsync).
NothingLeftBehind ==
  view.status = "done" /\ view.mode = "delete" /\ ~meddled
    => /\ cluster.app = None
       /\ view.before.app.kind = "StatefulSet" => ~cluster.headless
       /\ SeesService(view.before) =>
            /\ cluster.service = None
            /\ view.before.service # None =>
                 \A r \in Own(cluster.paths) : r.port \notin ToSet(view.before.service.ports)
       /\ BoundScaler(view.before) # None => cluster.scaler = None

\* The routes of the other application outlive whatever is done to this one, if nobody
\* else touches the ingress (ingress/converter.js), and the ingress the view was opened
\* with had no route twice: an update repeated after its answer was lost adds its routes
\* again, and of two rows with one route the second to go finds none.
OthersRoutesKept ==
  [][~meddled' /\ view # Closed /\ IsInjective(view.paths)
       => Other(cluster.paths) = Other(cluster'.paths)]_kubeVars

\* An application for "internal communications inside the cluster only" has no route
\* from outside (createApplication.html:1092).
InternalStaysInside ==
  AtFirst /\ view.mode = "edit" /\ ~Leftovers(view.before) /\ SeesService(view.before)
    /\ view.form.publishing = "internal" => Own(cluster.paths) = {}
===============================================================================
