-------------------------- MODULE MCContainerViews --------------------------
(* ContainerViews on small instances: a plain container, and one for each   *)
(* facet of the form that a container may have otherwise.                   *)
EXTENDS ContainerViews

Plain ==
  [ports |-> <<>>, env |-> {[name |-> "plain", value |-> "x"]}, sysctls |-> {}, devices |-> {},
   mounts |-> {[name |-> "vol", path |-> "/v", ro |-> FALSE]}, dns |-> <<>>, hosts |-> {},
   log |-> [driver |-> "json", opts |-> {}], console |-> [stdin |-> FALSE, tty |-> FALSE],
   cmd |-> "none", entrypoint |-> "none", capabilities |-> [add |-> {}, drop |-> {}],
   memory |-> 0, image |-> [host |-> "", user |-> "bob", tag |-> "v1"],
   mode |-> 1, ip |-> "fixed", nets |-> {1}]

MCSpecs == {Plain, [Plain EXCEPT !.nets = {1, 2}], [Plain EXCEPT !.nets = {1, 2}, !.mode = 2]}

\* Two container ports next to each other, bound to addresses and ports that meet
Bindings == [ip : {"", "v4"}, host : {<<0, 0>>, <<1, 1>>, <<2, 2>>}]
PortMaps ==
  {<<<<a>>, <<b>>>> : a, b \in Bindings} \cup {<<<<a, b>>, <<c>>>> : a, b, c \in Bindings}
  \cup {<<<<[ip |-> "", host |-> <<1, 3>>]>>, <<b>>>> : b \in Bindings}

MCFormSpecs ==
  {[Plain EXCEPT !.ports = p] : p \in PortMaps} \cup
  {[Plain EXCEPT !.env = {[name |-> n, value |-> v]}] : n \in {"plain", "odd"}, v \in {"none", "", "lines"}} \cup
  {[Plain EXCEPT !.devices = {[host |-> "d", inside |-> i, permissions |-> p]}] : i \in {"d", "e"}, p \in {"rwm", "r"}} \cup
  {[Plain EXCEPT !.sysctls = {[name |-> "s", value |-> v]}] : v \in {"", "1"}} \cup
  {[Plain EXCEPT !.mounts = {[name |-> n, path |-> "/t", ro |-> r]}] : n \in {"", "vol"}, r \in BOOLEAN} \cup
  {[Plain EXCEPT !.dns = d] : d \in {<<"a">>, <<"a", "b">>, <<"a", "b", "c">>}} \cup
  {[Plain EXCEPT !.hosts = {"h"}, !.log = [driver |-> d, opts |-> o]] : d \in {"json", "none"}, o \in SUBSET {"k"}} \cup
  {[Plain EXCEPT !.console = [stdin |-> i, tty |-> t]] : i, t \in BOOLEAN} \cup
  {[Plain EXCEPT !.cmd = c, !.entrypoint = e] : c \in {"none", "words", "quoted"}, e \in {"none", "words"}} \cup
  {[Plain EXCEPT !.capabilities = [add |-> a, drop |-> d]] : a, d \in SUBSET {"chown", "admin", "ALL"}} \cup
  {[Plain EXCEPT !.memory = m] : m \in 0 .. 5} \cup
  {[Plain EXCEPT !.image = [host |-> h, user |-> u, tag |-> t]] :
     h \in {"", "docker.io", "own", "else"}, u \in {"bob", "eve"}, t \in {"", "v1"}}

Access(public, users, teams) == [public |-> public, users |-> users, teams |-> teams]
MCControls == {Access(TRUE, {}, {}), Access(FALSE, {}, {}), Access(FALSE, {"alice"}, {}),
               Access(FALSE, {"alice", "bob"}, {}), Access(FALSE, {}, {"team"})}

MCRegistries == <<[type |-> "dockerhub", user |-> "bob", url |-> "docker.io"],
                  [type |-> "custom", user |-> "", url |-> "own"]>>
=============================================================================
