---------------------------- MODULE ContainerViews ----------------------------
(***************************************************************************)
(* The views that create, replace and re-create Docker containers          *)
(* (app/docker/views/containers/{create,edit}), as chains of calls to the  *)
(* Docker engine behind Portainer's proxy.  A step of a chain is one call  *)
(* and its answer; the user, on the container's page or in the list, acts  *)
(* in between, and so may a second chain.                                  *)
(*                                                                         *)
(* A call may be refused, and an answer may be lost after the engine has   *)
(* done what it was asked for.                                             *)
(***************************************************************************)
EXTENDS ContainerForm

CONSTANTS Chains,          \* the chains of calls in progress at a time
          MaxContainers,   \* bounds the containers created,
          MaxActs,       \* what the user does,
          MaxName,         \* and the "-old" that are added to the name
          Specs,           \* the configurations containers have at first,
          FormSpecs,       \* and those tried where no call fails
          Controls,        \* who may use them
          Registries       \* the registries of the endpoint, in order

\* The view model of a resource control
IsControl(control) == /\ DOMAIN control = {"public", "users", "teams"}
                      /\ control.public \in BOOLEAN

\* Docker Hub has its address and its users; "anonymous" is none of a registry's types.
IsRegistry(registry) == /\ registry.type # "anonymous" /\ registry.url # ""
                        /\ registry.type = "dockerhub" => registry.url = "docker.io"

ASSUME ContainerAssumption ==
  /\ MaxContainers \in Nat /\ MaxActs \in Nat /\ MaxName \in Nat
  /\ \A spec \in Specs \cup FormSpecs : IsConfiguration(spec)
  /\ \A control \in Controls : IsControl(control)
  /\ DOMAIN Registries \subseteq Nat /\ \A i \in DOMAIN Registries : IsRegistry(Registries[i])

VARIABLES engine,    \* the containers, by identifier
          chains,    \* the progress of each chain
          joining,   \* the calls to connect a network that nobody waits for
          user,      \* who is logged in
          faults,    \* whether calls may fail
          meddling,  \* whether the user acts besides
          mishaps,   \* history: the calls whose failure a rollback cannot mend
          acts,      \* how many things the user did
          agreed,    \* history: the containers the user agreed to have replaced
          meddled    \* history: whether the user did something besides

vars == <<engine, chains, joining, user, faults, meddling, mishaps, acts, agreed, meddled>>

-----------------------------------------------------------------------------
(* The Docker engine.                                                      *)

\* An identifier is never given twice.
Ids == 1 .. MaxContainers
None == [status |-> "none"]
Gone == [status |-> "gone"]
Exists(id) == id \in Ids /\ engine[id] \notin {None, Gone}

\* The name is the number of times "-old" was added to it.
Named(n) == {id \in Ids : Exists(id) /\ engine[id].name = n}

\* Who may use a container, besides administrators: the ownership a control shows
AdministratorsOnly == [public |-> FALSE, users |-> {}, teams |-> {}]

Ownership(control) ==
  CASE control.public                                                -> "public"
    [] ~control.public /\ Cardinality(control.users) = 1 /\ control.teams = {} -> "private"
    [] ~control.public /\ control.users = {} /\ control.teams = {}   -> "administrators"
    [] OTHER                                                         -> "restricted"

\* Mutant: a restricted container is duplicated for everybody.
DuplicatedForAll(control) ==
  CASE Ownership(control) = "private"    -> [control EXCEPT !.users = {user}]
    [] Ownership(control) = "restricted" -> [control EXCEPT !.public = TRUE]
    [] OTHER                             -> control

\* RCViewModelToOwnershipParameters
Duplicated(control) ==
  IF Ownership(control) = "private" THEN [control EXCEPT !.users = {user}] ELSE control

\* RCFormDataToOwnershipParameters: the form of a public container asks for no
\* access control, that of another for what the user's role offers first.
FormControl(control) ==
  CASE control.public                       -> control
    [] ~control.public /\ user = "admin"    -> AdministratorsOnly
    [] OTHER                                -> [AdministratorsOnly EXCEPT !.users = {user}]

\* What each call does to the containers, and when the engine accepts it
CanRename(id, n) == Exists(id) /\ Named(n) = {} /\ n <= MaxName
Renamed(id, n) == [engine EXCEPT ![id].name = n]

CanCreate(n) == Named(n) = {} /\ \E id \in Ids : engine[id] = None
NewId == CHOOSE id \in Ids : engine[id] = None
\* Mutant: only the networks are posted.
CreatedBare(n, spec) ==
  [engine EXCEPT ![NewId] = [status |-> "created", name |-> n,
                             spec |-> [mode |-> spec.mode, nets |-> spec.nets],
                             control |-> [AdministratorsOnly EXCEPT !.users = {user} \ {"admin"}]]]

Created(n, spec) ==
  [engine EXCEPT ![NewId] = [status |-> "created", name |-> n, spec |-> spec,
                             control |-> [AdministratorsOnly EXCEPT !.users = {user} \ {"admin"}]]]

\* A container that was not running is stopped and started all the same.
WithStatus(id, status) == [engine EXCEPT ![id].status = status]
Removed(id) == [engine EXCEPT ![id] = Gone]
Controlled(id, control) == [engine EXCEPT ![id].control = control]

-----------------------------------------------------------------------------
(* The chains.                                                             *)

Idle == [kind |-> "none"]
At(c, kind, step) == chains[c].kind = kind /\ chains[c].step = step
Goto(c, step) == chains' = [chains EXCEPT ![c].step = step]

\* A call: accepted, refused, or accepted with its answer lost.
Call(c, accepted, after, next, failed) ==
  \/ /\ accepted
     /\ engine' = after
     /\ Goto(c, next)
  \/ /\ ~accepted \/ faults
     /\ UNCHANGED engine
     /\ Goto(c, failed)
  \/ /\ accepted /\ faults
     /\ engine' = after
     /\ Goto(c, failed)

\* The user opens the form on a container, or on nothing, and submits it; the
\* button stays enabled until the chain has made sure that nobody has the name.
OpenCreate(c) ==
  /\ chains[c] = Idle
  /\ acts < MaxActs /\ acts' = acts + 1
  /\ \E from \in Ids, n \in 0 .. MaxName :
       /\ Exists(from)
       /\ \A d \in Chains : chains[d] # Idle => /\ chains[d].kind = "create"
                                               /\ chains[d].step \in {"find", "confirm"}
       /\ chains' = [chains EXCEPT ![c] =
            [kind |-> "create", step |-> "find", old |-> 0, stop |-> FALSE, new |-> 0, name |-> n,
             form |-> LoadFromContainerSpec(engine[from].spec, Registries),
             control |-> FormControl(engine[from].control), from |-> engine[from], before |-> engine]]
  /\ UNCHANGED <<engine, joining, user, faults, meddling, mishaps, agreed, meddled>>

\* A query that fails tells the user so, and finds nothing.
FindCurrentContainer(c) ==
  /\ At(c, "create", "find")
  /\ \/ \E id \in Named(chains[c].name) :
          /\ chains' = [chains EXCEPT ![c].step = "confirm", ![c].old = id,
                                      ![c].stop = engine[id].status = "running"]
          /\ UNCHANGED mishaps
     \/ /\ Named(chains[c].name) = {}
        /\ Goto(c, "create")
        /\ UNCHANGED mishaps
     \/ /\ faults
        /\ Goto(c, "create")
        /\ mishaps' = mishaps \cup {"find"}
  /\ UNCHANGED <<engine, joining, user, faults, meddling, acts, agreed, meddled>>

\* Mutant: nobody is asked.
ReplaceUnasked(c) ==
  /\ At(c, "create", "confirm")
  /\ Goto(c, IF chains[c].stop THEN "stop" ELSE "rename")
  /\ UNCHANGED <<engine, joining, user, faults, meddling, mishaps, acts, agreed, meddled>>

ConfirmCreateContainer(c) ==
  /\ At(c, "create", "confirm")
  /\ \/ /\ Goto(c, IF chains[c].stop THEN "stop" ELSE "rename")
        /\ agreed' = agreed \cup {chains[c].old}
     \/ /\ chains' = [chains EXCEPT ![c] = Idle]
        /\ UNCHANGED agreed
  /\ UNCHANGED <<engine, joining, user, faults, meddling, mishaps, acts, meddled>>

StopContainerIfNeeded(c) ==
  /\ At(c, "create", "stop")
  /\ Call(c, Exists(chains[c].old), WithStatus(chains[c].old, "exited"), "rename", "findnew")
  /\ UNCHANGED <<joining, user, faults, meddling, mishaps, acts, agreed, meddled>>

RenameContainer(c) ==
  /\ At(c, "create", "rename")
  /\ Call(c, CanRename(chains[c].old, chains[c].name + 1),
          Renamed(chains[c].old, chains[c].name + 1), "create", "findnew")
  /\ UNCHANGED <<joining, user, faults, meddling, mishaps, acts, agreed, meddled>>

\* A configuration that cannot be prepared is a failure like the engine's.
CreateNewContainer(c) ==
  /\ At(c, "create", "create")
  /\ LET ok    == Preparable(chains[c].form) /\ CanCreate(chains[c].name)
         after == Created(chains[c].name, PrepareConfiguration(chains[c].form))
     IN  \/ /\ ok
            /\ engine' = after
            /\ chains' = [chains EXCEPT ![c].step = "start", ![c].new = NewId]
         \/ /\ ~ok \/ faults
            /\ UNCHANGED engine
            /\ Goto(c, "findnew")
         \/ /\ ok /\ faults
            /\ engine' = after
            /\ Goto(c, "findnew")
  /\ UNCHANGED <<joining, user, faults, meddling, mishaps, acts, agreed, meddled>>

StartContainer(c) ==
  /\ At(c, "create", "start")
  /\ Call(c, Exists(chains[c].new), WithStatus(chains[c].new, "running"), "control", "findnew")
  /\ UNCHANGED <<joining, user, faults, meddling, mishaps, acts, agreed, meddled>>

ApplyResourceControl(c) ==
  /\ At(c, "create", "control")
  /\ Call(c, Exists(chains[c].new), Controlled(chains[c].new, chains[c].control), "connect", "findnew")
  /\ UNCHANGED <<joining, user, faults, meddling, mishaps, acts, agreed, meddled>>

\* forOwn returns the networks and not the promises: the chain goes on at once.
ConnectToExtraNetworks(c) ==
  /\ At(c, "create", "connect")
  /\ joining' = joining \cup {<<chains[c].new, n>> : n \in chains[c].form.network.extraNetworks}
  /\ Goto(c, IF chains[c].old = 0 THEN "done" ELSE "remove")
  /\ UNCHANGED <<engine, user, faults, meddling, mishaps, acts, agreed, meddled>>

\* A removal whose answer is lost is taken for a failure, and undone on one side.
Removal(c, kind, failed) ==
  /\ At(c, kind, "remove")
  /\ Call(c, Exists(chains[c].old), Removed(chains[c].old), "done", failed)
  /\ mishaps' = IF engine' # engine /\ chains'[c].step # "done" THEN mishaps \cup {"removal"}
                ELSE mishaps
  /\ UNCHANGED <<joining, user, faults, meddling, acts, agreed, meddled>>

RemoveOldContainer(c) == Removal(c, "create", "findnew")

\* Mutant: the container that is there is removed, the old one or the new one.
RemoveAnyContainer(c) ==
  /\ At(c, "create", "findnew")
  /\ \/ \E id \in Named(chains[c].name) :
          Call(c, TRUE, Removed(id), "restore", "failed")
     \/ /\ Named(chains[c].name) = {} \/ faults
        /\ Goto(c, "restore")
        /\ UNCHANGED engine
  /\ UNCHANGED <<joining, user, faults, meddling, mishaps, acts, agreed, meddled>>

\* Mutant: the query's filter has lost its anchors, and finds longer names, too.
RemoveMatchingContainer(c) ==
  /\ At(c, "create", "findnew")
  /\ \/ \E id \in {k \in Ids : Exists(k) /\ engine[k].name >= chains[c].name} \ {chains[c].old} :
          Call(c, TRUE, Removed(id), "restore", "failed")
     \/ /\ Named(chains[c].name) \ {chains[c].old} = {} \/ faults
        /\ Goto(c, "restore")
        /\ UNCHANGED engine
  /\ UNCHANGED <<joining, user, faults, meddling, mishaps, acts, agreed, meddled>>

\* onCreationProcessFail: whoever has the name now, and is not the old container,
\* is taken for the new one.
RemoveNewContainer(c) ==
  /\ At(c, "create", "findnew")
  /\ \/ \E id \in Named(chains[c].name) \ {chains[c].old} :
          Call(c, TRUE, Removed(id), "restore", "failed")
     \/ /\ Named(chains[c].name) \ {chains[c].old} = {} \/ faults
        /\ Goto(c, "restore")
        /\ UNCHANGED engine
  /\ UNCHANGED <<joining, user, faults, meddling, mishaps, acts, agreed, meddled>>

RestoreOldContainerName(c) ==
  /\ At(c, "create", "restore")
  /\ IF chains[c].old = 0
     THEN Goto(c, "failed") /\ UNCHANGED engine
     ELSE Call(c, CanRename(chains[c].old, chains[c].name),
               Renamed(chains[c].old, chains[c].name), "restored", "failed")
  /\ UNCHANGED <<joining, user, faults, meddling, mishaps, acts, agreed, meddled>>

-----------------------------------------------------------------------------
(* Re-creating a container from its page.                                  *)

\* The page shows the container as it was when it was opened.  The user confirms.
OpenRecreate(c) ==
  /\ chains[c] = Idle
  /\ acts < MaxActs /\ acts' = acts + 1
  /\ \A d \in Chains : chains[d] = Idle
  /\ \E id \in Ids :
       /\ Exists(id)
       /\ chains' = [chains EXCEPT ![c] =
            [kind |-> "recreate", step |-> IF engine[id].status = "running" THEN "stop" ELSE "rename",
             old |-> id, stop |-> engine[id].status = "running", new |-> 0, name |-> engine[id].name,
             form |-> engine[id].spec, control |-> Duplicated(engine[id].control),
             from |-> engine[id], before |-> engine]]
       /\ agreed' = agreed \cup {id}
  /\ UNCHANGED <<engine, joining, user, faults, meddling, mishaps, meddled>>

RecreateStop(c) ==
  /\ At(c, "recreate", "stop")
  /\ Call(c, Exists(chains[c].old), WithStatus(chains[c].old, "exited"), "rename", "failed")
  /\ UNCHANGED <<joining, user, faults, meddling, mishaps, acts, agreed, meddled>>

RecreateRename(c) ==
  /\ At(c, "recreate", "rename")
  /\ Call(c, CanRename(chains[c].old, chains[c].name + 1),
          Renamed(chains[c].old, chains[c].name + 1), "create", "failed")
  /\ UNCHANGED <<joining, user, faults, meddling, mishaps, acts, agreed, meddled>>

\* setMainNetworkAndCreateContainer
RecreateCreate(c) ==
  /\ At(c, "recreate", "create")
  /\ LET ok    == CanCreate(chains[c].name)
         after == Created(chains[c].name, ConfigFromContainer(chains[c].form))
     IN  \/ /\ ok
            /\ engine' = after
            /\ chains' = [chains EXCEPT ![c].step = "connect", ![c].new = NewId]
         \/ /\ ~ok \/ faults
            /\ UNCHANGED engine
            /\ Goto(c, "failed")
         \/ /\ ok /\ faults
            /\ engine' = after
            /\ Goto(c, "failed")
  /\ UNCHANGED <<joining, user, faults, meddling, mishaps, acts, agreed, meddled>>

\* To every network, the first included; nobody waits here either.
RecreateConnect(c) ==
  /\ At(c, "recreate", "connect")
  /\ joining' = joining \cup {<<chains[c].new, n>> : n \in chains[c].form.nets}
  /\ Goto(c, IF chains[c].stop THEN "start" ELSE "control")
  /\ UNCHANGED <<engine, user, faults, meddling, mishaps, acts, agreed, meddled>>

RecreateStart(c) ==
  /\ At(c, "recreate", "start")
  /\ Call(c, Exists(chains[c].new), WithStatus(chains[c].new, "running"), "control", "failed")
  /\ UNCHANGED <<joining, user, faults, meddling, mishaps, acts, agreed, meddled>>

\* createResourceControl
RecreateControl(c) ==
  /\ At(c, "recreate", "control")
  /\ Call(c, Exists(chains[c].new), Controlled(chains[c].new, chains[c].control), "remove", "failed")
  /\ UNCHANGED <<joining, user, faults, meddling, mishaps, acts, agreed, meddled>>

RecreateRemove(c) == Removal(c, "recreate", "failed")

\* The user is told how it ended.
Leave(c) ==
  /\ chains[c] # Idle /\ chains[c].step \in {"done", "failed", "restored"}
  /\ chains' = [chains EXCEPT ![c] = Idle]
  /\ UNCHANGED <<engine, joining, user, faults, meddling, mishaps, acts, agreed, meddled>>

-----------------------------------------------------------------------------
(* Meanwhile.                                                              *)

Joined(id, n) == [engine EXCEPT ![id].spec.nets = @ \cup {n}]

\* A network is connected at last, or not.
Connect ==
  \E p \in joining :
    /\ joining' = joining \ {p}
    /\ \/ Exists(p[1]) /\ engine' = Joined(p[1], p[2])
       \/ (~Exists(p[1]) \/ faults) /\ UNCHANGED engine
    /\ UNCHANGED <<chains, user, faults, meddling, mishaps, acts, agreed, meddled>>

\* Buttons of the container's page, and of the list for those selected
ContainerAction(id) ==
  /\ meddling /\ Exists(id)
  /\ acts < MaxActs /\ acts' = acts + 1 /\ meddled' = TRUE
  /\ engine' \in {WithStatus(id, s) : s \in
       CASE engine[id].status \in {"created", "exited"} -> {"running"}
         [] engine[id].status = "running"               -> {"exited", "paused"}
         [] engine[id].status = "paused"                -> {"exited", "running"}}
  /\ UNCHANGED <<chains, joining, user, faults, meddling, mishaps, agreed>>

UserRenames(id) ==
  /\ meddling
  /\ acts < MaxActs /\ acts' = acts + 1 /\ meddled' = TRUE
  /\ \E n \in 0 .. MaxName : CanRename(id, n) /\ engine' = Renamed(id, n)
  /\ UNCHANGED <<chains, joining, user, faults, meddling, mishaps, agreed>>

UserRemoves(id) ==
  /\ meddling /\ Exists(id)
  /\ acts < MaxActs /\ acts' = acts + 1 /\ meddled' = TRUE
  /\ engine' = Removed(id)
  /\ UNCHANGED <<chains, joining, user, faults, meddling, mishaps, agreed>>

\* Alice is in the team.
MayUse(u, control) ==
  u = "admin" \/ control.public \/ u \in control.users \/ (u = "alice" /\ control.teams # {})

OneContainer(status, spec, control) ==
  [id \in Ids |->
     IF id = 1 THEN [status |-> status, name |-> 0, spec |-> spec, control |-> control] ELSE None]

Init ==
  /\ user \in {"admin", "alice"}
  /\ \/ faults \in BOOLEAN /\ meddling \in BOOLEAN /\ ~(faults /\ meddling)
        /\ \E spec \in Specs, control \in Controls, status \in {"running", "exited"} :
             MayUse(user, control) /\ engine = OneContainer(status, spec, control)
     \/ faults = FALSE /\ meddling = FALSE
        /\ \E spec \in FormSpecs : engine = OneContainer("running", spec, [AdministratorsOnly EXCEPT !.public = TRUE])
  /\ chains = [c \in Chains |-> Idle]
  /\ joining = {}
  /\ mishaps = {}
  /\ acts = 0
  /\ agreed = {}
  /\ meddled = FALSE

Next ==
  \/ \E c \in Chains :
       \/ OpenCreate(c) \/ FindCurrentContainer(c) \/ ConfirmCreateContainer(c)
       \/ StopContainerIfNeeded(c) \/ RenameContainer(c) \/ CreateNewContainer(c)
       \/ StartContainer(c) \/ ApplyResourceControl(c) \/ ConnectToExtraNetworks(c)
       \/ RemoveOldContainer(c) \/ RemoveNewContainer(c) \/ RestoreOldContainerName(c)
       \/ OpenRecreate(c) \/ RecreateStop(c) \/ RecreateRename(c) \/ RecreateCreate(c)
       \/ RecreateConnect(c) \/ RecreateStart(c) \/ RecreateControl(c) \/ RecreateRemove(c)
       \/ Leave(c)
  \/ Connect
  \/ \E id \in Ids : ContainerAction(id) \/ UserRenames(id) \/ UserRemoves(id)

Spec == Init /\ [][Next]_vars

-----------------------------------------------------------------------------
(* Properties.                                                             *)

Steps == {"find", "confirm", "stop", "rename", "create", "start", "control", "connect",
          "remove", "findnew", "restore", "restored", "done", "failed"}

TypeOK ==
  /\ \A id \in Ids : Exists(id) =>
       /\ engine[id].status \in {"created", "running", "exited", "paused"}
       /\ engine[id].name \in 0 .. MaxName
       /\ IsConfiguration(engine[id].spec) /\ IsControl(engine[id].control)
  /\ \A c \in Chains : chains[c] # Idle =>
       chains[c].step \in Steps /\ chains[c].old \in 0 .. MaxContainers /\ chains[c].new \in 0 .. MaxContainers
  /\ joining \subseteq Ids \X Int
  /\ mishaps \subseteq {"find", "removal"} /\ agreed \subseteq Ids /\ meddled \in BOOLEAN

\* While a container is replaced or re-created, by the form or from its page, the old
\* one or the new one is there, whichever call fails: the old one is removed last
\* (removeOldContainer, deleteOldContainer) and a failure before removes only the new one.
\* Two answers that go astray break this, and are left out: that of the query for the
\* name, and that of the removal of the old container.
SomethingRemains ==
  \A c \in Chains :
    chains[c] # Idle /\ chains[c].old # 0 /\ mishaps = {} /\ ~meddled
      => Exists(chains[c].old) \/ Exists(chains[c].new)

\* When the form's chain was undone (onCreationProcessFail), the containers are those
\* there were, under their names and for the same users, whatever was lost on the way;
\* the old one may have been stopped, and is not started again.
UndoneLeavesNoTrace ==
  \A c \in Chains :
    chains[c] # Idle /\ chains[c].step = "restored" /\ mishaps = {} /\ ~meddled
      => \A id \in Ids :
           \/ ~Exists(id) /\ chains[c].before[id] \in {None, Gone}
           \/ /\ Exists(id) /\ chains[c].before[id] \notin {None, Gone}
              /\ engine[id].name = chains[c].before[id].name
              /\ engine[id].control = chains[c].before[id].control
              /\ engine[id].status \in {chains[c].before[id].status, "exited"}

\* What is removed was made by a chain still in progress or the user agreed to lose it
\* (confirmCreateContainer, confirmContainerRecreation).
RemovedUnasked ==
  \E id \in Ids :
    /\ Exists(id) /\ ~Exists(id)'
    /\ ~meddled' /\ id \notin agreed
    /\ \A c \in Chains : chains[c] # Idle => chains[c].before[id] # None
RemovalConfirmed == [][~RemovedUnasked]_vars

\* The same where no query for the name failed.
RemovalConfirmedIfFound == [][mishaps = {} => ~RemovedUnasked]_vars

\* A container that takes another's place has its networks once every call to connect
\* one has ended, if none failed: they are connected behind the chain's back (forOwn, map).
\* From the form this needs the first network by name to be the one it is created in.
NetworksKept ==
  \A c \in Chains :
    /\ chains[c] # Idle /\ chains[c].step = "done" /\ joining = {} /\ ~faults /\ ~meddled
    /\ chains[c].kind = "create" => chains[c].from.spec.mode = Min(chains[c].from.spec.nets)
    => engine[chains[c].new].spec.nets = chains[c].from.spec.nets

\* Nobody can use the new container who could not use the one it was copied from, but
\* its creator (FormControl, Duplicated).
NobodyGains ==
  \A c \in Chains :
    /\ chains[c] # Idle /\ Exists(chains[c].new) /\ ~meddled
    => LET was == chains[c].from.control
           is  == engine[chains[c].new].control
       IN  /\ is.public => was.public
           /\ is.users \subseteq was.users \cup {user}
           /\ is.teams \subseteq was.teams

\* The configurations that survive the form: each conjunct is a loss of its own.
Survives(c) ==
  /\ \A v \in c.env : v.value = "none" \/ (v.name = "plain" /\ v.value # "lines")
  /\ \A s \in c.sysctls : s.value # ""
  /\ \A d \in c.devices : d.permissions = "rwm" /\ d.inside # ""
  /\ \A m \in c.mounts : m.name # ""
  /\ Len(c.dns) <= 2
  /\ c.cmd # "quoted"
  /\ "ALL" \notin c.capabilities.add \cup c.capabilities.drop
  /\ c.memory % 2 = 0
  /\ \A p \in DOMAIN c.ports : Cardinality({c.ports[p][i].ip : i \in DOMAIN c.ports[p]}) = 1
  /\ \A i \in DOMAIN Registries : Registries[i].type = "dockerhub" /\ Matches(Registries[i], c.image)
                                  => c.image.host \in {"", Registries[i].url}
  /\ "" \notin c.hosts \cup c.log.opts /\ (c.log.driver = "none" => c.log.opts = {})

\* A container created from the form of another, which nobody changed, is configured as
\* that one (prepareConfiguration after loadFromContainerSpec), in all that the form
\* takes apart.  The losses are listed in Survives.
FormKeeps ==
  \A c \in Chains :
    chains[c] # Idle /\ chains[c].kind = "create" /\ Exists(chains[c].new) /\ ~meddled
      /\ Survives(chains[c].from.spec)
      => LET was == chains[c].from.spec
             is  == engine[chains[c].new].spec
         IN  /\ SamePorts(is.ports, was.ports)
             /\ Granted(is.capabilities) = Granted(was.capabilities)
             /\ Canonical(is.image) = Canonical(was.image)
             /\ is.entrypoint = was.entrypoint \/ (is.entrypoint = "cleared" /\ was.entrypoint = "none")
             /\ \A facet \in {"env", "sysctls", "devices", "mounts", "dns", "hosts", "log",
                              "console", "cmd", "memory", "mode", "ip"} : is[facet] = was[facet]
=============================================================================
