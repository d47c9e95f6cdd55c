---------------------------- MODULE ContainerForm ----------------------------
(***************************************************************************)
(* The form that creates a Docker container (app/docker/views/containers/  *)
(* create), filled from an existing container when the user duplicates or  *)
(* edits one, and turned back into the configuration that is posted.       *)
(*                                                                         *)
(* A container is the record of the facets the form takes apart; the rest  *)
(* of its configuration is handed on as it came.  "loadX" and "prepareX"   *)
(* of the controller are LoadX and PrepareX, facet by facet.               *)
(***************************************************************************)
EXTENDS Integers, FiniteSets, Sequences, SequencesExt, FiniteSetsExt

Facets == {"ports", "env", "sysctls", "devices", "mounts", "dns", "hosts", "log", "console", "cmd",
           "entrypoint", "capabilities", "memory", "image", "mode", "ip", "nets"}

-----------------------------------------------------------------------------
(* Ports.  What Docker reports: for each container port its bindings, each *)
(* a host address and a range of host ports, <<0, 0>> when Docker is to    *)
(* choose.  What the form shows: a list of bindings, whose container ports *)
(* are a range, too.  One protocol; the form treats each on its own.       *)

Single(r) == r[1] = r[2]

\* A range extended to a port: createPortRange
Extended(r, port) == <<IF r[1] < port THEN r[1] ELSE port,
                       IF r[2] > port THEN r[2] ELSE port>>

\* The bindings, each by its port and its position; and the first of some of them
Slots(portBindings) == UNION {{p} \X DOMAIN portBindings[p] : p \in DOMAIN portBindings}
FirstOf(slots) ==
  LET port == Min({s[1] : s \in slots})
  IN  <<port, Min({s[2] : s \in {t \in slots : t[1] = port}})>>

\* The next binding is one of the address in hand, from the smallest port up; if there
\* is none left, the first of all is of the address that was met next.
NextSlot(portBindings, acc) ==
  LET same == {s \in acc.slots : acc.bindings # <<>> /\ portBindings[s[1]][s[2]].ip = Last(acc.bindings).ip}
  IN  FirstOf(IF same # {} THEN same ELSE acc.slots)

\* Mutant: ports are joined when the host ports follow, whatever the container's.
HostFollows(acc, ip, host, key) ==
  /\ host[1] > 0 /\ Single(host) /\ acc.bindings # <<>>
  /\ Last(acc.bindings).ip = ip /\ acc.previous[1] = host[1] - 1
\* A single port is joined with the former one of its address if both its ports follow.
Follows(acc, ip, host, key) ==
  /\ host[1] > 0 /\ Single(host) /\ acc.bindings # <<>>
  /\ Last(acc.bindings).ip = ip /\ acc.previous = <<host[1] - 1, key - 1>>

Widened(binding, host, key) ==
  [binding EXCEPT !.host = Extended(@, host[1]), !.ports = Extended(@, key)]

\* One port of an address: the first binding left for the port is taken, whatever address
\* it has.
CombineOne(portBindings, acc) ==
  LET slot == NextSlot(portBindings, acc)
      key  == slot[1]
      ip   == portBindings[key][slot[2]].ip
      host == Head(acc.left[key]).host
  IN  [left     |-> [acc.left EXCEPT ![key] = Tail(@)],
       slots    |-> acc.slots \ {slot},
       previous |-> IF host[1] > 0 /\ Single(host) THEN <<host[1], key>> ELSE <<-1, -1>>,
       bindings |-> IF Follows(acc, ip, host, key)
                    THEN [acc.bindings EXCEPT ![Len(acc.bindings)] = Widened(@, host, key)]
                    ELSE Append(acc.bindings, [ip |-> ip, host |-> host, ports |-> <<key, key>>])]

SortAndCombinePorts(portBindings) ==
  LET slots == Slots(portBindings)
      start == [left |-> portBindings, slots |-> slots, previous |-> <<-1, -1>>, bindings |-> <<>>]
      combined[n \in 0 .. Cardinality(slots)] ==
        IF n = 0 THEN start ELSE CombineOne(portBindings, combined[n - 1])
  IN  combined[Cardinality(slots)].bindings

\* A binding the code refuses with "Invalid port specification": a range of
\* container ports on a range of another size, an address without a port, or one
\* of IPv6, whose colons are taken for the port's.
InvalidPort(b) ==
  \/ b.ip # "" /\ b.host[1] = 0
  \/ b.ip = "v6"
  \/ ~Single(b.ports) /\ b.host[1] > 0 /\ b.ports[2] - b.ports[1] # b.host[2] - b.host[1]

\* The host ports of the i-th container port of a binding
HostOf(b, i) == IF b.host[1] = 0 THEN <<0, 0>>
                ELSE IF Single(b.ports) THEN b.host
                ELSE <<b.host[1] + i, b.host[1] + i>>

\* What a list of the form binds a container port to
Covers(b, p) == p \in b.ports[1] .. b.ports[2]
BoundTo(list, p) ==
  LET bound[n \in 0 .. Len(list)] ==
        IF n = 0 THEN <<>>
        ELSE IF Covers(list[n], p)
        THEN Append(bound[n - 1], [ip |-> list[n].ip, host |-> HostOf(list[n], p - list[n].ports[1])])
        ELSE bound[n - 1]
  IN  bound[Len(list)]

PreparePortBindings(list) ==
  [p \in UNION {list[i].ports[1] .. list[i].ports[2] : i \in DOMAIN list} |-> BoundTo(list, p)]

\* What two port maps have in common: who is bound where, in whatever order
SamePorts(a, b) ==
  /\ DOMAIN a = DOMAIN b
  /\ \A p \in DOMAIN a : ToSet(a[p]) = ToSet(b[p]) /\ Len(a[p]) = Len(b[p])

-----------------------------------------------------------------------------
(* Environment variables, labels and the like: the form shows a list of    *)
(* names and values.                                                       *)

\* The names that parseArrayOfStrings accepts before a "=" begin with a letter and
\* end with a letter or a digit, and the value must be on one line.
LoadEnv(env) == {v \in env : v.value = "none" \/ (v.name = "plain" /\ v.value # "lines")}

\* A variable without "=" has no value; one with an empty value keeps the "=".
PrepareEnv(vars) == vars

LoadSysctls(sysctls) == sysctls

\* Those without a value are left out.
PrepareSysctls(sysctls) == {s \in sysctls : s.value # ""}

LoadDevices(devices) == {[host |-> d.host, inside |-> d.inside] : d \in devices}

PrepareDevices(devices) ==
  {[host |-> d.host, inside |-> IF d.inside = "" THEN d.host ELSE d.inside,
    permissions |-> "rwm"] : d \in devices}

\* Hosts that were left blank are dropped.
PrepareExtraHosts(hosts) == hosts \ {""}

\* The logging driver and its options; an option without a name is dropped, "none"
\* takes no options, and no driver leaves the configuration as it came.
LoadLogging(log) == log
PrepareLogDriver(f, log) ==
  IF f.driver = "" THEN log
  ELSE [driver |-> f.driver, opts |-> IF f.driver = "none" THEN {} ELSE f.opts \ {""}]

\* Whether standard input is open and a terminal allotted, and the form's word for it
LoadConsole(console) ==
  CASE console.stdin /\ console.tty   -> "both"
    [] ~console.stdin /\ console.tty  -> "tty"
    [] console.stdin /\ ~console.tty  -> "interactive"
    [] OTHER                          -> "none"
PrepareConsole(word) ==
  [stdin |-> word \in {"both", "interactive"}, tty |-> word \in {"both", "tty"}]

\* Volumes and bind mounts have a name or a source; a tmpfs mount has neither.
LoadVolumes(mounts) == mounts

PrepareVolumes(volumes) == {v \in volumes : v.name # ""}

\* The two servers of the form
LoadDns(dns) == [i \in 1 .. IF Len(dns) < 2 THEN Len(dns) ELSE 2 |-> dns[i]]

-----------------------------------------------------------------------------
(* Command and entry point.  A command is "none", words, or words one of   *)
(* which has a quote in it; "cleared" asks for no entry point even if the  *)
(* image has one.                                                          *)

LoadCommand(cmd, entrypoint) ==
  [cmd |-> cmd, cmdMode |-> IF cmd = "none" THEN "default" ELSE "override",
   entrypoint |-> IF entrypoint = "none" THEN "empty" ELSE entrypoint,
   entrypointMode |-> "override"]

\* The words are quoted for the form, and split again at the quotes.
PrepareCmd(f) == IF f.cmd = "none" \/ f.cmdMode = "default" THEN "none"
                 ELSE IF f.cmd = "quoted" THEN "mangled" ELSE f.cmd

PrepareEntrypoint(f) ==
  IF f.entrypointMode = "default" \/ (PrepareCmd(f) = "none" /\ f.entrypoint = "empty")
  THEN "none"
  ELSE IF f.entrypoint = "empty" THEN "cleared" ELSE f.entrypoint

-----------------------------------------------------------------------------
(* Capabilities: Docker grants "chown" and not "admin" unless told         *)
(* otherwise; they stand for all those of ContainerCapabilities.           *)

ContainerCapabilities == [chown |-> TRUE, admin |-> FALSE]

\* Those of the container first, then the others, as they are by default
LoadCapabilities(c) ==
  LET known == c.add \cup c.drop
  IN  [allowed |-> c.add \cup {k \in DOMAIN ContainerCapabilities \ known : ContainerCapabilities[k]},
       denied  |-> c.drop \cup {k \in DOMAIN ContainerCapabilities \ known : ~ContainerCapabilities[k]}]

PrepareCapabilities(f) == [add |-> f.allowed, drop |-> f.denied]

\* What a container may do: Docker's reading of the two lists
Granted(c) ==
  LET all == DOMAIN ContainerCapabilities
      base == IF "ALL" \in c.drop THEN {}
              ELSE IF "ALL" \in c.add THEN all
              ELSE {k \in all : ContainerCapabilities[k]}
  IN  IF "ALL" \in c.drop THEN c.add \cap all
      ELSE (base \cup (c.add \cap all)) \ c.drop

-----------------------------------------------------------------------------
(* Resources.  Memory in units of 64 KiB: the form rounds to an eighth of  *)
(* a megabyte, half way up.                                                *)

PrepareMemory(memory) == 2 * ((memory + 1) \div 2)

-----------------------------------------------------------------------------
(* Networks, by the order of their names; "mode" is the one the container  *)
(* is created in, and the form offers no other.                            *)

\* Mutant: the second of two networks is taken for the mode's.
LoadManyNetworks(c) ==
  [mode |-> c.mode, ip |-> c.ip,
   extraNetworks |-> IF Cardinality(c.nets) > 2 THEN c.nets \ {Min(c.nets)} ELSE {}]

LoadNetworks(c) ==
  [mode |-> c.mode, ip |-> c.ip,
   extraNetworks |-> IF Cardinality(c.nets) > 1 THEN c.nets \ {Min(c.nets)} ELSE {}]

-----------------------------------------------------------------------------
(* The image: the host it is on ("" for Docker Hub without saying so), the *)
(* account, and the tag.  The registries are those the endpoint may use.   *)

\* What the reference means to the engine
Canonical(image) ==
  [host |-> IF image.host = "" THEN "docker.io" ELSE image.host, user |-> image.user,
   tag |-> IF image.tag = "" THEN "latest" ELSE image.tag]

\* A registry of Docker Hub matches a repository with its user's name anywhere in it,
\* another one a repository with its address in it.
Matches(registry, image) ==
  IF registry.type = "dockerhub" THEN image.user = registry.user
  ELSE image.host = registry.url

\* The first registry that matches, and what is left of the name after its address
RetrieveRegistryModel(image, registries) ==
  LET found == {i \in DOMAIN registries : Matches(registries[i], image)}
      first == registries[Min(found)]
  IN  CASE found # {} ->
             [useRegistry |-> TRUE, registry |-> first,
              image |-> IF image.host = first.url THEN [image EXCEPT !.host = ""] ELSE image]
        [] found = {} /\ image.host # "" ->
             [useRegistry |-> FALSE, registry |-> [type |-> "anonymous"], image |-> image]
        [] OTHER ->
             [useRegistry |-> TRUE, registry |-> [type |-> "anonymous"], image |-> image]

\* The address is put before the name, whether or not the name has one.
BuildImageFullURI(model) ==
  LET m == model.image
  IN  IF ~model.useRegistry THEN m
      ELSE [host |-> IF model.registry.type = "anonymous" THEN m.host
                    ELSE IF m.host = "" THEN model.registry.url
                    ELSE "mixed",
            user |-> m.user, tag |-> IF m.tag = "" THEN "latest" ELSE m.tag]

-----------------------------------------------------------------------------
(* The whole.                                                              *)

\* Host ports: a range, or <<0, 0>>; container ports have a list of bindings each.
HostPorts   == {h \in Nat \X Nat : h[1] = 0 => h[2] = 0}
PortBinding == [ip : STRING, host : HostPorts]
IsPorts(ports) ==
  /\ DOMAIN ports \subseteq Nat /\ IsFiniteSet(DOMAIN ports)
  /\ ports \in [DOMAIN ports -> Seq(PortBinding)]

\* What a container can be: the network it is created in, which its mode names, is one
\* of its networks.
IsConfiguration(c) ==
  /\ DOMAIN c = Facets
  /\ IsPorts(c.ports) /\ c.dns \in Seq(STRING)
  /\ \A d \in c.devices : d = [host |-> d.host, inside |-> d.inside, permissions |-> d.permissions]
  /\ c.log \in [driver : STRING, opts : SUBSET STRING] /\ c.console \in [stdin : BOOLEAN, tty : BOOLEAN]
  /\ c.entrypoint # "empty" /\ c.memory \in Nat
  /\ DOMAIN c.image = {"host", "user", "tag"}
  /\ IsFiniteSet(c.nets) /\ c.nets \subseteq Int
  /\ c.mode \in c.nets

LoadFromContainerSpec(c, registries) ==
  [ports |-> SortAndCombinePorts(c.ports), env |-> LoadEnv(c.env),
   sysctls |-> LoadSysctls(c.sysctls), devices |-> LoadDevices(c.devices),
   volumes |-> LoadVolumes(c.mounts), dns |-> LoadDns(c.dns), hosts |-> c.hosts,
   log |-> LoadLogging(c.log), console |-> LoadConsole(c.console),
   command |-> LoadCommand(c.cmd, c.entrypoint),
   capabilities |-> LoadCapabilities(c.capabilities),
   memory |-> c.memory, network |-> LoadNetworks(c),
   model |-> RetrieveRegistryModel(c.image, registries)]

\* Whether the form can be submitted at all
Preparable(f) == \A i \in DOMAIN f.ports : ~InvalidPort(f.ports[i])

\* The container is created in its mode's network only; the extra networks follow.
PrepareConfiguration(f) ==
  [ports |-> PreparePortBindings(f.ports), env |-> PrepareEnv(f.env),
   sysctls |-> PrepareSysctls(f.sysctls), devices |-> PrepareDevices(f.devices),
   mounts |-> PrepareVolumes(f.volumes), dns |-> f.dns, hosts |-> PrepareExtraHosts(f.hosts),
   log |-> PrepareLogDriver(f.log, f.log), console |-> PrepareConsole(f.console),
   cmd |-> PrepareCmd(f.command), entrypoint |-> PrepareEntrypoint(f.command),
   capabilities |-> PrepareCapabilities(f.capabilities),
   memory |-> PrepareMemory(f.memory), image |-> BuildImageFullURI(f.model),
   mode |-> f.network.mode, ip |-> f.network.ip, nets |-> {f.network.mode}]

\* configFromContainer: what re-creating a container posts, all of it as it was
\* except for the mounts, which become binds, and the settings of the networks.
ConfigFromContainer(c) ==
  [c EXCEPT !.mounts = PrepareVolumes(c.mounts),
            !.nets   = {c.mode},
            !.ip     = IF Cardinality(c.nets) > 1 THEN "any" ELSE c.ip]
==============================================================================
