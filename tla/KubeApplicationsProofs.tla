------------------------ MODULE KubeApplicationsProofs ------------------------
(***************************************************************************)
(* Theorems about KubeApplications, for any forms and any number of views, *)
(* changes, tries and failures.                                            *)
(*                                                                         *)
(* Shape says of what kind the resources, the form and the calls that are  *)
(* left to send are; Told, Deleting, Routing and Submitted what the calls  *)
(* that are left are about and lead to, each for one of the properties.    *)
(***************************************************************************)
EXTENDS KubeApplications, KubeApplicationFormProofs

Kinds    == {"Deployment", "StatefulSet", "DaemonSet"}
EnvRows  == [name : 1 .. 2, new : BOOLEAN, del : BOOLEAN]
PortRow  == [port : Nat, route : Nat, ingress : BOOLEAN, new : BOOLEAN, del : BOOLEAN]
Paths    == [svc : {"self", "other"}, port : Nat, route : Nat]

FormFields == {"appType", "deployment", "policy", "env", "folders", "ports", "publishing", "placements",
               "mandatory", "scaler", "replicas", "maxReplicas", "cpu", "rwx"}

IsForm(f) ==
  /\ DOMAIN f = FormFields
  /\ f.deployment \in {"replicated", "global"} /\ f.policy \in {"shared", "isolated"}
  /\ f.env \in Seq(EnvRows) /\ IsSeq(f.folders) /\ f.ports \in Seq(PortRow)

IsApp(a) ==
  /\ DOMAIN a = {"kind", "env", "mounts", "replicas", "cpu", "affinity"}
  /\ a.kind \in Kinds /\ a.env \in Seq(1 .. 2) /\ IsSeq(a.mounts)

IsService(s) ==
  /\ DOMAIN s = {"type", "ports"}
  /\ s.type \in {"NodePort", "ClusterIP"} /\ s.ports \in Seq(Nat) /\ s.ports # <<>> /\ IsInjective(s.ports)

IsCluster(c) ==
  /\ DOMAIN c = {"app", "service", "headless", "scaler", "paths", "claims"}
  /\ c.app = None \/ IsApp(c.app)
  /\ c.service = None \/ IsService(c.service)
  /\ c.paths \in Seq(Paths)

IsCall(c) ==
  /\ DOMAIN c = {"op", "old", "new"}
  /\ c.op = "app.create" => IsApp(c.new)
  /\ c.op = "app.patch" => /\ c.old.env \in Seq(1 .. 2) /\ c.new.env \in Seq(1 .. 2)
                           /\ IsSeq(c.old.mounts) /\ IsSeq(c.new.mounts)
  /\ c.op = "service.create" => IsService(c.new)
  /\ c.op = "service.patch" => IsService(c.old) /\ IsService(c.new)
  /\ c.op = "ingress.patch" => c.old \in Seq(Paths) /\ c.new \in Seq(Paths)
  /\ c.op = "ingress.get" => c.new \in Seq(PortRow)

\* The resource a call is about is one of K; only a deletion reads the routes again.
Tells(K, op) ==
  /\ op \in {"app.create", "app.patch", "app.delete"} => "app" \in K
  /\ op \in {"service.create", "service.patch", "service.delete"} => "service" \in K
  /\ op = "headless.create" => "headless" \in K
  /\ op = "claims.create" => "claims" \in K
  /\ op \in {"scaler.create", "scaler.patch", "scaler.delete"} => "scaler" \in K
  /\ op \in {"ingress.patch", "ingress.get"} => "ingress" \in K
  /\ op = "ingress.get" => "reading" \in K

\* Calls about resources of K, that take the routes from one list of P to another
CallsWithin(s, K, P) ==
  /\ IsSeq(s)
  /\ \A i \in 1 .. Len(s) : /\ IsCall(s[i]) /\ Tells(K, s[i].op)
                            /\ s[i].op = "ingress.patch" => s[i].old \in P /\ s[i].new \in P

Untouched(rows) == \A i \in 1 .. Len(rows) : ~rows[i].new /\ ~rows[i].del

ViewFields == {"mode", "status", "saved", "form", "paths", "used", "calls", "before", "tries"}

IsView(v) ==
  /\ DOMAIN v = ViewFields
  /\ v.mode \in {"create", "edit", "delete"} /\ v.status \in {"form", "calling", "done", "failed"}
  /\ v.paths \in Seq(Paths)
  /\ IsSeq(v.calls) /\ \A i \in 1 .. Len(v.calls) : IsCall(v.calls[i])
  /\ v.mode = "create" => v.saved = None /\ IsForm(v.form)
  /\ v.mode = "edit" => IsForm(v.saved) /\ Untouched(v.saved.ports) /\ IsForm(v.form)

Shape == IsCluster(cluster) /\ (view = Closed \/ IsView(view))

-----------------------------------------------------------------------------
(* Forms.                                                                  *)

LEMMA SeqIsSeq ==
  ASSUME NEW S, NEW s \in Seq(S)
  PROVE  IsSeq(s) /\ (\A i \in 1 .. Len(s) : s[i] \in S) /\ (\A e \in ToSet(s) : e \in S)
<1>1. IsSeq(s)
  BY DEF IsSeq
<1>2. \A i \in 1 .. Len(s) : s[i] \in S
  OBVIOUS
<1> QED BY <1>1, <1>2, ToSetFacts

LEMMA SeqFrom ==
  ASSUME NEW S, NEW s, IsSeq(s), \A i \in 1 .. Len(s) : s[i] \in S
  PROVE  s \in Seq(S)
<1>1. \A e \in ToSet(s) : e \in S
  BY ToSetFacts
<1> QED BY <1>1, SeqWithin

LEMMA MappedWithin ==
  ASSUME NEW T, NEW s, IsSeq(s), NEW t, t = [i \in DOMAIN s |-> t[i]], \A i \in 1 .. Len(s) : t[i] \in T
  PROVE  t \in Seq(T)
<1>1. IsSeq(t) /\ Len(t) = Len(s)
  BY MappedSeq
<1> QED BY <1>1, SeqFrom

LEMMA NoneFacts == DOMAIN None = {"none"} /\ ~IsForm(None) /\ ~IsApp(None) /\ ~IsService(None)
<1>1. DOMAIN None = {"none"}
  BY DEF None
<1>2. "none" \notin FormFields
  BY DEF FormFields
<1> HIDE DEF None
<1>3. ~IsForm(None)
  BY <1>1, <1>2 DEF IsForm
<1>4. ~IsApp(None)
  BY <1>1 DEF IsApp
<1>5. ~IsService(None)
  BY <1>1 DEF IsService
<1> QED BY <1>1, <1>3, <1>4, <1>5

LEMMA RowReplaced ==
  ASSUME NEW rows, IsSeq(rows), NEW i \in DOMAIN rows, NEW e
  PROVE  /\ IsSeq([rows EXCEPT ![i] = e]) /\ Len([rows EXCEPT ![i] = e]) = Len(rows)
         /\ \A j \in 1 .. Len(rows) : [rows EXCEPT ![i] = e][j] = IF j = i THEN e ELSE rows[j]
<1> DEFINE t == [rows EXCEPT ![i] = e]
<1>1. DOMAIN rows = 1 .. Len(rows)
  BY SeqFacts
<1>2. t = [j \in DOMAIN rows |-> t[j]] /\ \A j \in 1 .. Len(rows) : t[j] = IF j = i THEN e ELSE rows[j]
  BY <1>1
<1> HIDE DEF t
<1>3. IsSeq(t) /\ Len(t) = Len(rows)
  BY <1>2, MappedSeq
<1> QED BY <1>2, <1>3 DEF t

LEMMA RowMarked ==
  ASSUME NEW rows, NEW i
  PROVE  /\ RestoreRow(rows, i) = [rows EXCEPT ![i] = [rows[i] EXCEPT !.del = FALSE]]
         /\ RemoveRow(rows, i) = IF rows[i].new THEN RemoveAt(rows, i) ELSE [rows EXCEPT ![i] = [rows[i] EXCEPT !.del = TRUE]]
BY DEF RestoreRow, RemoveRow

\* The rows of variables and of ports: added, removed, restored, kept
LEMMA RowsOf ==
  ASSUME NEW S, NEW rows \in Seq(S), \A r \in S : [r EXCEPT !.del = TRUE] \in S /\ [r EXCEPT !.del = FALSE] \in S
  PROVE  /\ \A r \in S : Append(rows, r) \in Seq(S)
         /\ \A i \in DOMAIN rows : RemoveRow(rows, i) \in Seq(S) /\ RestoreRow(rows, i) \in Seq(S)
         /\ Kept(rows) \in Seq(S)
<1>1. IsSeq(rows) /\ DOMAIN rows = 1 .. Len(rows) /\ Len(rows) \in Nat /\ \A i \in 1 .. Len(rows) : rows[i] \in S
  BY SeqIsSeq
<1>2. ASSUME NEW i \in DOMAIN rows PROVE RemoveRow(rows, i) \in Seq(S)
  <2>1. RemoveAt(rows, i) \in Seq(S)
    <3>1. Shaped(rows, S, S)
      BY <1>1 DEF Shaped
    <3>2. Shaped(RemoveAt(rows, i), S, S)
      BY <1>1, <3>1, RemoveAtFacts
    <3>3. IsSeq(RemoveAt(rows, i)) /\ \A j \in 1 .. Len(RemoveAt(rows, i)) : RemoveAt(rows, i)[j] \in S
      BY <3>2 DEF Shaped
    <3> QED BY <3>3, SeqFrom
  <2> DEFINE e == [rows[i] EXCEPT !.del = TRUE]
             t == [rows EXCEPT ![i] = e]
  <2>2. e \in S
    BY <1>1
  <2>3. RemoveRow(rows, i) = IF rows[i].new THEN RemoveAt(rows, i) ELSE t
    BY RowMarked
  <2> HIDE DEF e
  <2>4. IsSeq(t) /\ \A j \in 1 .. Len(t) : t[j] \in S
    BY <1>1, <2>2, RowReplaced
  <2> HIDE DEF t
  <2>5. t \in Seq(S)
    BY <2>4, SeqFrom
  <2> QED BY <2>1, <2>3, <2>5
<1>3. ASSUME NEW i \in DOMAIN rows PROVE RestoreRow(rows, i) \in Seq(S)
  <2> DEFINE e == [rows[i] EXCEPT !.del = FALSE]
             t == [rows EXCEPT ![i] = e]
  <2>2. e \in S
    BY <1>1
  <2>3. RestoreRow(rows, i) = t
    BY RowMarked
  <2> HIDE DEF e
  <2>4. IsSeq(t) /\ \A j \in 1 .. Len(t) : t[j] \in S
    BY <1>1, <2>2, RowReplaced
  <2> HIDE DEF t
  <2>5. t \in Seq(S)
    BY <2>4, SeqFrom
  <2> QED BY <2>3, <2>5
<1>4. Kept(rows) \in Seq(S)
  <2>1. IsSeq(Kept(rows)) /\ \A r \in ToSet(Kept(rows)) : r \in ToSet(rows)
    BY <1>1, KeptFacts
  <2>2. \A r \in ToSet(rows) : r \in S
    BY SeqIsSeq
  <2> QED BY <2>1, <2>2, SeqWithin
<1> QED BY <1>2, <1>3, <1>4

LEMMA RowsStaySeq ==
  ASSUME NEW rows, IsSeq(rows)
  PROVE  /\ \A r : IsSeq(Append(rows, r))
         /\ \A i \in DOMAIN rows : IsSeq(RemoveRow(rows, i)) /\ IsSeq(RestoreRow(rows, i))
         /\ IsSeq(Kept(rows))
<1>1. DOMAIN rows = 1 .. Len(rows) /\ Len(rows) \in Nat
  BY SeqFacts
<1>2. ASSUME NEW i \in DOMAIN rows PROVE IsSeq(RemoveRow(rows, i)) /\ IsSeq(RestoreRow(rows, i))
  <2>1. IsSeq(RemoveAt(rows, i))
    <3>1. Shaped(rows, ToSet(rows), ToSet(rows))
      BY ToSetFacts DEF Shaped
    <3> QED BY <1>1, <3>1, RemoveAtFacts DEF Shaped
  <2> DEFINE a == [rows[i] EXCEPT !.del = TRUE]
             b == [rows[i] EXCEPT !.del = FALSE]
  <2>2. /\ RemoveRow(rows, i) = IF rows[i].new THEN RemoveAt(rows, i) ELSE [rows EXCEPT ![i] = a]
        /\ RestoreRow(rows, i) = [rows EXCEPT ![i] = b]
    BY RowMarked
  <2> HIDE DEF a, b
  <2>3. IsSeq([rows EXCEPT ![i] = a]) /\ IsSeq([rows EXCEPT ![i] = b])
    BY RowReplaced
  <2> QED BY <2>1, <2>2, <2>3
<1>3. \A r : IsSeq(Append(rows, r))
  BY AppendFacts
<1>4. IsSeq(Kept(rows))
  BY KeptFacts
<1> QED BY <1>2, <1>3, <1>4

\* What the user does to a form leaves a form.
\* What a change makes of a form, part by part
ChangesVariables(f, g) ==
  \/ \E n \in 1 .. 2 : g = AddEnvironmentVariable(f, n)
  \/ \E i \in DOMAIN f.env : g = [f EXCEPT !.env = RemoveRow(@, i)] \/ g = [f EXCEPT !.env = RestoreRow(@, i)]

ChangesFolders(f, g) ==
  \/ \E p \in 1 .. 2 : g = AddPersistedFolder(f, p)
  \/ \E c \in cluster.claims : g = UseExistingVolume(AddPersistedFolder(f, 2), Len(f.folders) + 1, c)
  \/ \E i \in DOMAIN f.folders : g = [f EXCEPT !.folders = RemoveRow(@, i)] \/ g = [f EXCEPT !.folders = RestoreRow(@, i)]

ChangesPorts(f, g) ==
  \/ \E p \in 1 .. 2, r \in {0, 2, 3} : g = AddPublishedPort(f, p, r, TRUE)
  \/ \E i \in DOMAIN f.ports : g = [f EXCEPT !.ports = RemoveRow(@, i)] \/ g = [f EXCEPT !.ports = RestoreRow(@, i)]

ChangesChoices(f, g) ==
  \/ \E t : g = [f EXCEPT !.publishing = t]
  \/ g = [f EXCEPT !.deployment = "replicated"]
  \/ g = [f EXCEPT !.deployment = "global", !.scaler = FALSE]
  \/ f.deployment = "replicated" /\ g = [f EXCEPT !.scaler = ~@]
  \/ g = [f EXCEPT !.replicas = 3 - @] \/ g = AddPlacement(f, 1)
  \/ \E i \in DOMAIN f.placements : g = [f EXCEPT !.placements = RemoveRow(@, i)]

LEMMA ChangesAre ==
  ASSUME NEW f, NEW v, NEW g \in Changes(f, v)
  PROVE  ChangesVariables(f, g) \/ ChangesFolders(f, g) \/ ChangesPorts(f, g) \/ ChangesChoices(f, g)
<1> DEFINE Variables    == {AddEnvironmentVariable(f, n) : n \in 1 .. 2}
           Removed      == {[f EXCEPT !.env = RemoveRow(@, i)] : i \in {j \in DOMAIN f.env : ~f.env[j].del}}
           Restored     == {[f EXCEPT !.env = RestoreRow(@, i)] : i \in {j \in DOMAIN f.env : f.env[j].del}}
           OfFolders    == {AddPersistedFolder(f, p) : p \in 1 .. 2}
                           \cup {UseExistingVolume(AddPersistedFolder(f, 2), Len(f.folders) + 1, c) : c \in cluster.claims}
                           \cup {[f EXCEPT !.folders = RemoveRow(@, i)] : i \in {j \in DOMAIN f.folders : ~f.folders[j].del}}
                           \cup {[f EXCEPT !.folders = RestoreRow(@, i)] : i \in {j \in DOMAIN f.folders : f.folders[j].del}}
           Routes       == IF f.publishing = "ingress" THEN 2 .. 3 ELSE {0}
           Add(p, r)    == AddPublishedPort(f, p, r, TRUE)
           Published    == {Add(p, r) : p \in 1 .. 2, r \in Routes}
           Unpublished  == {[f EXCEPT !.ports = RemoveRow(@, i)] : i \in {j \in DOMAIN f.ports : ~f.ports[j].del}}
           Republished  == {[f EXCEPT !.ports = RestoreRow(@, i)] : i \in {j \in DOMAIN f.ports : f.ports[j].del}}
           OfPublishing == {[f EXCEPT !.publishing = t] : t \in {"internal", "cluster", "ingress"} \ {f.publishing}}
           Replicated   == {[f EXCEPT !.deployment = "replicated"]}
           Global       == {[f EXCEPT !.deployment = "global", !.scaler = FALSE]}
           OfReplicas   == {[f EXCEPT !.scaler = ~@], [f EXCEPT !.replicas = 3 - @], AddPlacement(f, 1)}
           OfPlacements == {[f EXCEPT !.placements = RemoveRow(@, i)] : i \in {j \in DOMAIN f.placements : ~f.placements[j].del}}
<1>1. g \in Variables \cup Removed \cup Restored \cup (IF f.policy = "isolated" THEN {} ELSE OfFolders)
             \cup Published \cup Unpublished \cup Republished
             \cup (IF IsPublishingTypeEditDisabled(f) THEN {} ELSE OfPublishing)
             \cup (IF f.deployment = "global" THEN Replicated ELSE IF SupportGlobalDeployment(f) THEN Global ELSE {})
             \cup (IF f.deployment = "replicated" THEN OfReplicas ELSE {}) \cup OfPlacements
  <2>1. Changes(f, v) =
          Variables \cup Removed \cup Restored \cup (IF f.policy = "isolated" THEN {} ELSE OfFolders)
             \cup Published \cup Unpublished \cup Republished
             \cup (IF IsPublishingTypeEditDisabled(f) THEN {} ELSE OfPublishing)
             \cup (IF f.deployment = "global" THEN Replicated ELSE IF SupportGlobalDeployment(f) THEN Global ELSE {})
             \cup (IF f.deployment = "replicated" THEN OfReplicas ELSE {}) \cup OfPlacements
    BY DEF Changes
  <2> HIDE DEF Variables, Removed, Restored, OfFolders, Published, Unpublished, Republished, OfPublishing,
               Replicated, Global, OfReplicas, OfPlacements
  <2> QED BY <2>1
<1>2. CASE g \in Variables \/ g \in Removed \/ g \in Restored
  BY <1>2 DEF ChangesVariables
<1>3. CASE g \in OfFolders
  BY <1>3 DEF ChangesFolders
<1>4. CASE g \in Published
  <2>1. \A r \in Routes : r \in {0, 2, 3}
    OBVIOUS
  <2> HIDE DEF Routes, Add
  <2>2. PICK p \in 1 .. 2, r \in Routes : g = Add(p, r)
    BY <1>4
  <2> QED BY <2>1, <2>2 DEF Add, ChangesPorts
<1>5. CASE g \in Unpublished \/ g \in Republished
  BY <1>5 DEF ChangesPorts
<1>6. CASE g \in OfPublishing
  BY <1>6 DEF ChangesChoices
<1>7. CASE g \in Replicated \/ g \in Global \/ (f.deployment = "replicated" /\ g \in OfReplicas)
  BY <1>7, Zenon DEF ChangesChoices
<1>8. CASE g \in OfPlacements
  BY <1>8 DEF ChangesChoices
<1> HIDE DEF Variables, Removed, Restored, OfFolders, Published, Unpublished, Republished, OfPublishing,
             Replicated, Global, OfReplicas, OfPlacements
<1> QED BY <1>1, <1>2, <1>3, <1>4, <1>5, <1>6, <1>7, <1>8

LEMMA ChangesAreForms ==
  ASSUME NEW f, IsForm(f), NEW v, NEW g \in Changes(f, v)
  PROVE  IsForm(g)
<1>0. /\ DOMAIN f = FormFields /\ f.env \in Seq(EnvRows) /\ IsSeq(f.folders) /\ f.ports \in Seq(PortRow)
      /\ f.deployment \in {"replicated", "global"} /\ f.policy \in {"shared", "isolated"}
  BY DEF IsForm
<1>1. \A h : DOMAIN h = FormFields /\ h.env \in Seq(EnvRows) /\ IsSeq(h.folders) /\ h.ports \in Seq(PortRow)
             /\ h.deployment \in {"replicated", "global"} /\ h.policy \in {"shared", "isolated"} => IsForm(h)
  BY DEF IsForm
<1>2. /\ \A r \in EnvRows : [r EXCEPT !.del = TRUE] \in EnvRows /\ [r EXCEPT !.del = FALSE] \in EnvRows
      /\ \A r \in PortRow : [r EXCEPT !.del = TRUE] \in PortRow /\ [r EXCEPT !.del = FALSE] \in PortRow
  BY DEF EnvRows, PortRow
<1>3. /\ \A r \in EnvRows : Append(f.env, r) \in Seq(EnvRows)
      /\ \A i \in DOMAIN f.env : RemoveRow(f.env, i) \in Seq(EnvRows) /\ RestoreRow(f.env, i) \in Seq(EnvRows)
  BY <1>0, <1>2, RowsOf
<1>4. /\ \A r \in PortRow : Append(f.ports, r) \in Seq(PortRow)
      /\ \A i \in DOMAIN f.ports : RemoveRow(f.ports, i) \in Seq(PortRow) /\ RestoreRow(f.ports, i) \in Seq(PortRow)
  BY <1>0, <1>2, RowsOf
<1>5. /\ \A r : IsSeq(Append(f.folders, r))
      /\ \A i \in DOMAIN f.folders : IsSeq(RemoveRow(f.folders, i)) /\ IsSeq(RestoreRow(f.folders, i))
  BY <1>0, RowsStaySeq
<1>a. ASSUME NEW p PROVE IsForm(AddPersistedFolder(f, p))
  BY <1>0, <1>1, <1>5 DEF AddPersistedFolder, FormFields
<1>6. CASE \E n \in 1 .. 2 : g = AddEnvironmentVariable(f, n)
  <2>1. PICK n \in 1 .. 2 : g = AddEnvironmentVariable(f, n)
    BY <1>6
  <2>2. [name |-> n, new |-> TRUE, del |-> FALSE] \in EnvRows
    BY DEF EnvRows
  <2>3. g.env \in Seq(EnvRows)
    BY <1>0, <1>3, <2>1, <2>2 DEF AddEnvironmentVariable, FormFields
  <2> QED BY <1>0, <1>1, <2>1, <2>3 DEF AddEnvironmentVariable, FormFields
<1>7. CASE \E i \in DOMAIN f.env : g = [f EXCEPT !.env = RemoveRow(@, i)] \/ g = [f EXCEPT !.env = RestoreRow(@, i)]
  BY <1>0, <1>1, <1>3, <1>7 DEF FormFields
<1>8. CASE \E p \in 1 .. 2 : g = AddPersistedFolder(f, p)
  BY <1>8, <1>a
<1>9. CASE \E c \in cluster.claims : g = UseExistingVolume(AddPersistedFolder(f, 2), Len(f.folders) + 1, c)
  <2>1. PICK c : g = UseExistingVolume(AddPersistedFolder(f, 2), Len(f.folders) + 1, c)
    BY <1>9
  <2> DEFINE h == AddPersistedFolder(f, 2)
             n == Len(f.folders) + 1
  <2>2. IsForm(h)
    BY <1>a
  <2> HIDE DEF h
  <2>3. /\ DOMAIN h = FormFields /\ h.env \in Seq(EnvRows) /\ IsSeq(h.folders) /\ h.ports \in Seq(PortRow)
        /\ h.deployment \in {"replicated", "global"} /\ h.policy \in {"shared", "isolated"}
    BY <2>2 DEF IsForm
  <2>4. g = [h EXCEPT !.folders[n].existing = c, !.policy = "shared",
                      !.deployment = IF h.policy = "isolated" THEN "replicated" ELSE @]
    BY <2>1 DEF h, UseExistingVolume
  <2>5. g.folders = [h.folders EXCEPT ![n].existing = c]
    BY <2>3, <2>4 DEF FormFields
  <2>6. IsSeq(g.folders)
    <3> DEFINE t == [h.folders EXCEPT ![n].existing = c]
    <3>1. t = [i \in DOMAIN h.folders |-> t[i]]
      OBVIOUS
    <3>2. g.folders = t
      BY <2>5
    <3> HIDE DEF t
    <3> QED BY <2>3, <3>1, <3>2, MappedSeq
  <2> QED BY <1>1, <2>3, <2>4, <2>6 DEF FormFields
<1>10. CASE \E i \in DOMAIN f.folders : g = [f EXCEPT !.folders = RemoveRow(@, i)] \/ g = [f EXCEPT !.folders = RestoreRow(@, i)]
  BY <1>0, <1>1, <1>5, <1>10 DEF FormFields
<1>11. CASE \E p \in 1 .. 2, r \in {0, 2, 3} : g = AddPublishedPort(f, p, r, TRUE)
  <2>1. PICK p \in 1 .. 2, r \in {0, 2, 3} : g = AddPublishedPort(f, p, r, TRUE)
    BY <1>11
  <2>2. [port |-> p, route |-> r, ingress |-> TRUE, new |-> TRUE, del |-> FALSE] \in PortRow
    BY DEF PortRow
  <2>3. g.ports \in Seq(PortRow)
    BY <1>0, <1>4, <2>1, <2>2 DEF AddPublishedPort, FormFields
  <2> QED BY <1>0, <1>1, <2>1, <2>3 DEF AddPublishedPort, FormFields
<1>12. CASE \E i \in DOMAIN f.ports : g = [f EXCEPT !.ports = RemoveRow(@, i)] \/ g = [f EXCEPT !.ports = RestoreRow(@, i)]
  BY <1>0, <1>1, <1>4, <1>12 DEF FormFields
<1>13. CASE \E t : g = [f EXCEPT !.publishing = t]
  BY <1>0, <1>1, <1>13 DEF FormFields
<1>14. CASE \/ g = [f EXCEPT !.deployment = "replicated"]
            \/ g = [f EXCEPT !.deployment = "global", !.scaler = FALSE]
            \/ g = [f EXCEPT !.scaler = ~@] \/ g = [f EXCEPT !.replicas = 3 - @] \/ g = AddPlacement(f, 1)
  BY <1>0, <1>1, <1>14, Zenon DEF FormFields, AddPlacement
<1>15. CASE \E i \in DOMAIN f.placements : g = [f EXCEPT !.placements = RemoveRow(@, i)]
  BY <1>0, <1>1, <1>15 DEF FormFields
<1>16. CASE ChangesVariables(f, g)
  BY <1>6, <1>7, <1>16 DEF ChangesVariables
<1>17. CASE ChangesFolders(f, g)
  BY <1>8, <1>9, <1>10, <1>17 DEF ChangesFolders
<1>18. CASE ChangesPorts(f, g)
  BY <1>11, <1>12, <1>18 DEF ChangesPorts
<1>19. CASE ChangesChoices(f, g)
  BY <1>13, <1>14, <1>15, <1>19, Zenon DEF ChangesChoices
<1> QED BY <1>16, <1>17, <1>18, <1>19, ChangesAre

-----------------------------------------------------------------------------
(* Conversions.                                                            *)

LEMMA KindFacts ==
  ASSUME NEW f, IsForm(f)
  PROVE  /\ ~IsNonScalable(f) => KindOf(f) \in Kinds
         /\ LET k == Converted(f)
            IN  /\ IsForm(k) /\ KindOf(k) = KindOf(f)
                /\ \A fresh : Claims(k, fresh) = Claims(f, fresh)
                /\ DOMAIN k = FormFields /\ \A x \in FormFields \ {"env", "folders"} : k[x] = f[x]
<1>0. /\ DOMAIN f = FormFields /\ f.env \in Seq(EnvRows) /\ IsSeq(f.folders) /\ f.ports \in Seq(PortRow)
      /\ f.deployment \in {"replicated", "global"} /\ f.policy \in {"shared", "isolated"}
  BY DEF IsForm
<1>1. IsSeq(Kept(f.folders)) /\ Kept(Kept(f.folders)) = Kept(f.folders)
  BY <1>0, KeptFacts
<1>2. f.folders = <<>> => Kept(f.folders) = <<>>
  <2>1. ToSet(f.folders) = {} => ToSet(Kept(f.folders)) = {}
    BY <1>0, KeptFacts
  <2>2. f.folders = <<>> => ToSet(f.folders) = {}
    BY EmptyFacts
  <2>3. ToSet(Kept(f.folders)) = {} => Len(Kept(f.folders)) = 0
    BY <1>1, ToSetFacts, SeqFacts
  <2> QED BY <1>1, <2>1, <2>2, <2>3, SeqFacts
<1>3. ASSUME ~IsNonScalable(f) PROVE KindOf(f) \in Kinds
  BY <1>0, <1>2, <1>3 DEF KindOf, IsNonScalable, SupportGlobalDeployment, Kinds
<1> DEFINE k == Converted(f)
<1>4. /\ DOMAIN k = FormFields /\ k.folders = Kept(f.folders) /\ k.env = Kept(f.env)
      /\ \A x \in FormFields \ {"env", "folders"} : k[x] = f[x]
  BY <1>0 DEF FormFields, Converted
<1> HIDE DEF k
<1>5. /\ k.ports = f.ports /\ k.deployment = f.deployment /\ k.policy = f.policy /\ k.appType = f.appType /\ k.rwx = f.rwx
  BY <1>4 DEF FormFields
<1>6. Kept(f.env) \in Seq(EnvRows)
  <2>1. \A r \in EnvRows : [r EXCEPT !.del = TRUE] \in EnvRows /\ [r EXCEPT !.del = FALSE] \in EnvRows
    BY DEF EnvRows
  <2> QED BY <1>0, <2>1, RowsOf
<1>7. IsForm(k)
  BY <1>0, <1>1, <1>4, <1>5, <1>6 DEF IsForm
<1>8. KindOf(k) = KindOf(f)
  BY <1>1, <1>4, <1>5 DEF KindOf
<1>9. \A fresh : Claims(k, fresh) = Claims(f, fresh)
  BY <1>1, <1>4 DEF Claims
<1> QED BY <1>3, <1>4, <1>7, <1>8, <1>9 DEF k

LEMMA ClaimsFacts ==
  ASSUME NEW f, IsForm(f), NEW fresh
  PROVE  /\ IsSeq(Claims(f, fresh))
         /\ ClaimsToCreate(Claims(f, fresh)) # {} => ClaimsToCreate(Claims(f, 0)) # {}
<1> DEFINE folders == Kept(f.folders)
<1>1. IsSeq(folders)
  BY KeptFacts DEF IsForm
<1> HIDE DEF folders
<1>2. \A x : Claims(f, x) = [i \in DOMAIN folders |->
        [name     |-> IF folders[i].existing # 0 THEN folders[i].existing ELSE IF folders[i].claim # 0 THEN folders[i].claim ELSE x + i,
         previous |-> folders[i].claim, known |-> folders[i].existing # 0, path |-> folders[i].path]]
  BY DEF Claims, folders
<1>3. \A x : DOMAIN Claims(f, x) = DOMAIN folders /\ Claims(f, x) = [i \in DOMAIN folders |-> Claims(f, x)[i]]
  BY <1>2
<1>4. ASSUME NEW x, NEW i \in DOMAIN folders
      PROVE  /\ Claims(f, x)[i].previous = folders[i].claim
             /\ Claims(f, x)[i].known <=> folders[i].existing # 0
  <2> DEFINE known == folders[i].existing # 0
             name == IF known THEN folders[i].existing ELSE IF folders[i].claim # 0 THEN folders[i].claim ELSE x + i
             claim == [name |-> name, previous |-> folders[i].claim, known |-> known, path |-> folders[i].path]
  <2>1. Claims(f, x)[i] = claim
    BY <1>2
  <2> HIDE DEF name
  <2>2. claim.previous = folders[i].claim
    OBVIOUS
  <2>3. claim.known <=> known
    OBVIOUS
  <2> QED BY <2>1, <2>2, <2>3
<1>5. ASSUME NEW x PROVE ClaimsToCreate(Claims(f, x)) # {} <=> \E i \in DOMAIN folders : folders[i].claim = 0 /\ folders[i].existing = 0
  <2> DEFINE c == Claims(f, x)
             some == {j \in DOMAIN c : c[j].previous = 0 /\ ~c[j].known}
  <2>1. DOMAIN c = DOMAIN folders
    BY <1>3
  <2>2. \A i \in DOMAIN folders : c[i].previous = folders[i].claim /\ (c[i].known <=> folders[i].existing # 0)
    BY <1>4
  <2>3. ClaimsToCreate(c) = {c[i].name : i \in some}
    BY DEF ClaimsToCreate
  <2> HIDE DEF c
  <2>4. \A i : i \in some <=> i \in DOMAIN folders /\ folders[i].claim = 0 /\ folders[i].existing = 0
    BY <2>1, <2>2, Zenon
  <2> HIDE DEF some
  <2>5. ClaimsToCreate(c) # {} <=> \E i : i \in some
    BY <2>3
  <2> QED BY <2>4, <2>5 DEF c
<1>6. IsSeq(Claims(f, fresh))
  <2> DEFINE t == Claims(f, fresh)
  <2>1. t = [i \in DOMAIN folders |-> t[i]]
    BY <1>3
  <2> HIDE DEF t
  <2>2. IsSeq(t)
    BY <1>1, <2>1, MappedSeq
  <2> QED BY <2>2 DEF t
<1> QED BY <1>5, <1>6

LEMMA ApplicationOf ==
  ASSUME NEW f, IsForm(f), NEW fresh
  PROVE  LET a == ToApplication(f, fresh)
         IN  /\ DOMAIN a = {"kind", "env", "mounts", "replicas", "cpu", "affinity"} /\ a.kind = KindOf(f)
             /\ a.env \in Seq(1 .. 2) /\ IsSeq(a.mounts)
             /\ KindOf(f) \in Kinds => IsApp(a)
<1> DEFINE rows   == Kept(f.env)
           env    == [i \in DOMAIN rows |-> rows[i].name]
           claims == Claims(f, fresh)
           mounts == [i \in DOMAIN claims |-> [claim |-> claims[i].name, path |-> claims[i].path]]
           scale  == IF KindOf(f) = "DaemonSet" THEN 0 ELSE f.replicas
           a      == ToApplication(f, fresh)
<1>1. rows \in Seq(EnvRows)
  <2>1. \A r \in EnvRows : [r EXCEPT !.del = TRUE] \in EnvRows /\ [r EXCEPT !.del = FALSE] \in EnvRows
    BY DEF EnvRows
  <2> QED BY <2>1, RowsOf DEF IsForm
<1>2. IsSeq(claims)
  BY ClaimsFacts
<1>3. a = [kind |-> KindOf(f), env |-> env, mounts |-> mounts, replicas |-> scale, cpu |-> f.cpu, affinity |-> AffinityOf(f)]
  BY DEF ToApplication
<1> HIDE DEF rows, claims, scale, a
<1>4. env \in Seq(1 .. 2)
  <2>1. IsSeq(rows) /\ \A i \in 1 .. Len(rows) : rows[i] \in EnvRows
    BY <1>1, SeqIsSeq
  <2>2. env = [i \in DOMAIN rows |-> env[i]] /\ \A i \in 1 .. Len(rows) : env[i] \in 1 .. 2
    BY <2>1, SeqFacts DEF EnvRows
  <2> HIDE DEF env
  <2> QED BY <2>1, <2>2, MappedWithin
<1>5. mounts = [i \in DOMAIN claims |-> mounts[i]]
  OBVIOUS
<1> HIDE DEF mounts, env
<1>6. IsSeq(mounts)
  BY <1>2, <1>5, MappedSeq
<1>7. /\ DOMAIN a = {"kind", "env", "mounts", "replicas", "cpu", "affinity"} /\ a.kind = KindOf(f)
      /\ a.env = env /\ a.mounts = mounts
  BY <1>3
<1>8. KindOf(f) \in Kinds => IsApp(a)
  BY <1>4, <1>6, <1>7 DEF IsApp
<1> QED BY <1>4, <1>6, <1>7, <1>8 DEF a

LEMMA ServiceOf ==
  ASSUME NEW f, IsForm(f)
  PROVE  ToService(f) = None \/ IsService(ToService(f))
<1> DEFINE ports == PublishedPorts(f)
           rows  == Among(f.ports, {r \in ToSet(f.ports) : r.new \/ ~r.del})
           all   == [i \in DOMAIN rows |-> rows[i].port]
<1>1. f.ports \in Seq(PortRow) /\ IsSeq(f.ports)
  BY SeqIsSeq DEF IsForm
<1>2. IsSeq(ports) /\ IsInjective(ports)
  BY <1>1, PublishedPortsFacts
<1>3. IsSeq(rows) /\ \A r \in ToSet(rows) : r \in PortRow
  <2>1. IsSeq(rows) /\ \A r \in ToSet(rows) : r \in ToSet(f.ports)
    BY <1>1, AmongElements
  <2> QED BY <1>1, <2>1, SeqIsSeq
<1>4. ports = Uniq(all)
  BY DEF PublishedPorts
<1> HIDE DEF rows
<1>5. rows \in Seq(PortRow)
  BY <1>3, SeqWithin
<1>6. all \in Seq(Nat)
  <2>1. IsSeq(rows) /\ \A i \in 1 .. Len(rows) : rows[i] \in PortRow
    BY <1>5, SeqIsSeq
  <2>2. all = [i \in DOMAIN rows |-> all[i]] /\ \A i \in 1 .. Len(rows) : all[i] \in Nat
    BY <2>1, SeqFacts DEF PortRow
  <2> HIDE DEF all
  <2> QED BY <2>1, <2>2, MappedWithin
<1> HIDE DEF all
<1>7. \A p \in ToSet(ports) : p \in Nat
  <2>1. IsSeq(all) /\ \A p \in ToSet(all) : p \in Nat
    BY <1>6, SeqIsSeq
  <2> QED BY <1>4, <2>1, UniqFacts
<1>8. ports \in Seq(Nat)
  BY <1>2, <1>7, SeqWithin
<1>9. ToService(f) = IF ports = <<>> THEN None ELSE [type |-> IF f.publishing = "cluster" THEN "NodePort" ELSE "ClusterIP", ports |-> ports]
  BY DEF ToService
<1> HIDE DEF ports
<1> QED BY <1>2, <1>8, <1>9 DEF IsService

LEMMA IngressIsPaths ==
  ASSUME NEW paths \in Seq(Paths), NEW rows \in Seq(PortRow)
  PROVE  ToIngress(paths, rows, "self") \in Seq(Paths)
<1>1. IsSeq(paths) /\ IsSeq(rows) /\ Shaped(paths, Paths, Paths)
  BY SeqIsSeq DEF Shaped
<1>2. \A n \in 1 .. Len(rows) : RouteOf("self", rows[n]) \in Paths
  <2>1. \A r \in PortRow : RouteOf("self", r) \in Paths
    BY DEF RouteOf, Route, Paths, PortRow
  <2> QED BY <2>1, SeqIsSeq
<1>3. Shaped(ToIngress(paths, rows, "self"), Paths, Paths)
  BY <1>1, <1>2, IngressShaped
<1> QED BY <1>3, SeqFrom DEF Shaped

\* The rows of the ports of a service, as a form shows them
LEMMA SavedRows ==
  ASSUME NEW service, service = None \/ service.ports \in Seq(Nat), NEW paths \in Seq(Paths)
  PROVE  PortRows(service, paths, "self") \in Seq(PortRow) /\ Untouched(PortRows(service, paths, "self"))
<1> DEFINE rows == PortRows(service, paths, "self")
<1>1. CASE service = None
  <2>1. rows = <<>>
    BY <1>1 DEF PortRows
  <2> HIDE DEF rows
  <2>2. rows \in Seq(PortRow) /\ Len(rows) = 0
    BY <2>1
  <2> QED BY <2>2 DEF Untouched, rows
<1>2. CASE service # None
  <2>1. IsSeq(paths) /\ \A p \in ToSet(paths) : p \in Paths
    BY SeqIsSeq
  <2>2. IsSeq(service.ports) /\ \A p \in ToSet(service.ports) : p \in Nat
    BY <1>2, SeqIsSeq
  <2>3. /\ IsSeq(rows)
        /\ \A n \in 1 .. Len(rows) : \E port \in ToSet(service.ports) : IsRowOf(rows[n], port, paths, "self")
    BY <1>2, <2>1, <2>2, PortRowsFacts
  <2> HIDE DEF rows
  <2>4. ASSUME NEW n \in 1 .. Len(rows) PROVE rows[n] \in PortRow /\ ~rows[n].new /\ ~rows[n].del
    <3>1. PICK port \in ToSet(service.ports) : IsRowOf(rows[n], port, paths, "self")
      BY <2>3
    <3> DEFINE r == rows[n]
    <3>2. /\ r = [port |-> r.port, route |-> r.route, ingress |-> r.ingress, new |-> r.new, del |-> r.del]
          /\ r.port = port /\ r.new = FALSE /\ r.del = FALSE /\ r.ingress \in BOOLEAN
          /\ IF r.ingress THEN \E p \in ToSet(paths) : p.svc = "self" /\ p.port = port /\ p.route = r.route ELSE r.route = 0
      BY <3>1 DEF IsRowOf
    <3>3. r.route \in Nat
      BY <2>1, <3>2 DEF Paths
    <3> HIDE DEF r
    <3> QED BY <2>2, <3>2, <3>3 DEF PortRow, r
  <2>5. rows \in Seq(PortRow)
    BY <2>3, <2>4, SeqFrom
  <2> QED BY <2>4, <2>5 DEF Untouched, rows
<1> QED BY <1>1, <1>2

\* The form an application is read into
LEMMA SavedForm ==
  ASSUME NEW app, IsApp(app), NEW service, service = None \/ service.ports \in Seq(Nat), NEW paths \in Seq(Paths),
         NEW scaler, NEW shared
  PROVE  LET f == ApplicationToFormValues(app, service, paths, scaler, shared)
         IN  IsForm(f) /\ f.ports = PortRows(service, paths, "self") /\ Untouched(f.ports)
<1> DEFINE rows    == PortRows(service, paths, "self")
           env     == [i \in DOMAIN app.env |-> [name |-> app.env[i], new |-> FALSE, del |-> FALSE]]
           folders == [i \in DOMAIN app.mounts |-> [claim |-> app.mounts[i].claim, existing |-> 0,
                                                    path |-> app.mounts[i].path, new |-> FALSE, del |-> FALSE]]
           way     == PublishingOf(service, rows)
           places  == PlacementRows(app.affinity)
           must    == app.affinity # None /\ app.affinity.mandatory
           scales  == scaler # None
           number  == IF app.kind = "DaemonSet" THEN Nodes ELSE app.replicas
           most    == IF scaler # None THEN scaler.max ELSE IF app.kind = "DaemonSet" THEN Nodes ELSE app.replicas
           f       == ApplicationToFormValues(app, service, paths, scaler, shared)
<1>1. rows \in Seq(PortRow) /\ Untouched(rows)
  BY SavedRows
<1>2. env \in Seq(EnvRows)
  <2>1. IsSeq(app.env) /\ \A i \in 1 .. Len(app.env) : app.env[i] \in 1 .. 2
    BY SeqIsSeq DEF IsApp
  <2>2. env = [i \in DOMAIN app.env |-> env[i]] /\ \A i \in 1 .. Len(app.env) : env[i] \in EnvRows
    BY <2>1, SeqFacts DEF EnvRows
  <2> HIDE DEF env
  <2> QED BY <2>1, <2>2, MappedWithin
<1>3. IsSeq(folders)
  <2>1. folders = [i \in DOMAIN app.mounts |-> folders[i]]
    OBVIOUS
  <2> HIDE DEF folders
  <2> QED BY <2>1, MappedSeq DEF IsApp
<1>4. f = [appType    |-> app.kind,
           deployment |-> IF app.kind = "DaemonSet" THEN "global" ELSE "replicated",
           policy     |-> IF app.kind = "StatefulSet" THEN "isolated" ELSE "shared",
           env |-> env, folders |-> folders, ports |-> rows, publishing |-> way, placements |-> places,
           mandatory |-> must, scaler |-> scales, replicas |-> number, maxReplicas |-> most,
           cpu |-> app.cpu, rwx |-> shared]
  BY DEF ApplicationToFormValues
<1> HIDE DEF rows, env, folders, way, places, must, scales, number, most, f
<1>5. /\ DOMAIN f = FormFields
      /\ f.deployment \in {"replicated", "global"} /\ f.policy \in {"shared", "isolated"}
      /\ f.env = env /\ f.folders = folders /\ f.ports = rows
  BY <1>4 DEF FormFields
<1>6. IsForm(f)
  BY <1>1, <1>2, <1>3, <1>5 DEF IsForm
<1> QED BY <1>1, <1>5, <1>6 DEF f, rows

LEMMA BoundFacts ==
  ASSUME NEW c, IsCluster(c)
  PROVE  /\ BoundService(c) = None \/ BoundService(c).ports \in Seq(Nat)
         /\ BoundService(c) = c.service \/ BoundService(c) = None \/ BoundService(c).ports = <<>>
<1> DEFINE headless == [type |-> "ClusterIP", ports |-> <<>>]
<1>1. BoundService(c) = IF c.headless /\ (headlessFirst \/ c.service = None) THEN headless ELSE c.service
  BY DEF BoundService
<1>2. headless.ports = <<>> /\ <<>> \in Seq(Nat)
  OBVIOUS
<1>3. c.service = None \/ c.service.ports \in Seq(Nat)
  BY DEF IsCluster, IsService
<1> HIDE DEF headless
<1> QED BY <1>1, <1>2, <1>3

-----------------------------------------------------------------------------
(* Lists of calls.                                                         *)

LEMMA NoCalls ==
  ASSUME NEW K, NEW P
  PROVE  CallsWithin(<<>>, K, P)
BY EmptyFacts DEF CallsWithin

LEMMA OneCall ==
  ASSUME NEW K, NEW P, NEW c, IsCall(c), Tells(K, c.op), c.op = "ingress.patch" => c.old \in P /\ c.new \in P
  PROVE  CallsWithin(<<c>>, K, P)
<1>1. <<c>> \in Seq({c}) /\ Len(<<c>>) = 1 /\ <<c>>[1] = c
  OBVIOUS
<1> DEFINE s == <<c>>
<1> HIDE DEF s
<1>2. IsSeq(s) /\ Len(s) = 1 /\ s[1] = c
  BY <1>1 DEF IsSeq, s
<1>3. \A i \in 1 .. Len(s) : i = 1
  BY <1>2
<1>4. CallsWithin(s, K, P)
  BY <1>2, <1>3 DEF CallsWithin
<1> QED BY <1>4 DEF s

LEMMA MoreCalls ==
  ASSUME NEW K, NEW P, NEW s, CallsWithin(s, K, P), NEW t, CallsWithin(t, K, P)
  PROVE  CallsWithin(s \o t, K, P)
<1> DEFINE u == s \o t
<1>1. IsSeq(s) /\ IsSeq(t) /\ Len(s) \in Nat /\ Len(t) \in Nat
  BY SeqFacts DEF CallsWithin
<1>2. /\ IsSeq(u) /\ Len(u) = Len(s) + Len(t)
      /\ \A i \in 1 .. Len(s) : u[i] = s[i]
      /\ \A i \in 1 .. Len(t) : u[Len(s) + i] = t[i]
  BY <1>1, ConcatFacts
<1> HIDE DEF u
<1>3. ASSUME NEW i \in 1 .. Len(u)
      PROVE  (i \in 1 .. Len(s) /\ u[i] = s[i]) \/ \E j \in 1 .. Len(t) : u[i] = t[j]
  <2>1. i \notin 1 .. Len(s) => i - Len(s) \in 1 .. Len(t) /\ Len(s) + (i - Len(s)) = i
    BY <1>1, <1>2
  <2> QED BY <1>2, <2>1
<1>4. CallsWithin(u, K, P)
  BY <1>2, <1>3 DEF CallsWithin
<1> QED BY <1>4 DEF u

LEMMA RestOfCalls ==
  ASSUME NEW K, NEW P, NEW s, CallsWithin(s, K, P), s # <<>>
  PROVE  /\ CallsWithin(Tail(s), K, P) /\ IsCall(Head(s)) /\ Tells(K, Head(s).op)
         /\ Head(s).op = "ingress.patch" => Head(s).old \in P /\ Head(s).new \in P
<1>1. IsSeq(s) /\ Len(s) \in Nat /\ Len(s) # 0
  BY SeqFacts DEF CallsWithin
<1>2. Head(s) = s[1] /\ 1 \in 1 .. Len(s)
  <2>1. PICK S : s \in Seq(S)
    BY <1>1 DEF IsSeq
  <2> QED BY <1>1, <2>1
<1> DEFINE t == Tail(s)
<1>3. IsSeq(t) /\ Len(t) = Len(s) - 1 /\ \A i \in 1 .. Len(t) : t[i] = s[i + 1]
  <2>1. PICK S : s \in Seq(S)
    BY <1>1 DEF IsSeq
  <2>2. t \in Seq(S) /\ Len(t) = Len(s) - 1 /\ \A i \in 1 .. Len(t) : t[i] = s[i + 1]
    BY <1>1, <2>1
  <2> QED BY <2>2 DEF IsSeq
<1>4. \A i \in 1 .. Len(t) : i + 1 \in 1 .. Len(s)
  BY <1>1, <1>3
<1> HIDE DEF t
<1>5. CallsWithin(t, K, P)
  BY <1>3, <1>4 DEF CallsWithin
<1> QED BY <1>2, <1>5 DEF CallsWithin, t

LEMMA CallFields ==
  ASSUME NEW op, NEW old, NEW new
  PROVE  /\ DOMAIN Call(op, old, new) = {"op", "old", "new"}
         /\ Call(op, old, new).op = op /\ Call(op, old, new).old = old /\ Call(op, old, new).new = new
BY DEF Call

LEMMA PatchCall ==
  ASSUME NEW K, NEW P, NEW op, NEW old, NEW new,
         old # new => /\ IsCall(Call(op, old, new)) /\ Tells(K, op)
                      /\ op = "ingress.patch" => old \in P /\ new \in P
  PROVE  CallsWithin(PatchIf(op, old, new), K, P)
<1>1. PatchIf(op, old, new) = IF old = new THEN <<>> ELSE <<Call(op, old, new)>>
  BY DEF PatchIf
<1>2. CASE old = new
  BY <1>1, <1>2, NoCalls
<1>3. CASE old # new
  <2>1. CallsWithin(<<Call(op, old, new)>>, K, P)
    BY <1>3, CallFields, OneCall
  <2> QED BY <1>1, <1>3, <2>1
<1> QED BY <1>2, <1>3

-----------------------------------------------------------------------------
(* The chains: each call is about a resource that the summary names.       *)

\* The calls of a deployment: the routes go from one list of P to another.
LEMMA CreateChain ==
  ASSUME NEW f, IsForm(f), KindOf(f) \in Kinds, NEW paths \in Seq(Paths), NEW fresh, NEW P,
         f.publishing = "ingress" => paths \in P /\ ToIngress(paths, f.ports, "self") \in P,
         NEW K, CreatedResources(f, paths) \subseteq K
  PROVE  CallsWithin(CreateCalls(f, paths, fresh), K, P)
<1> DEFINE service == ToService(f)
           claims  == ClaimsToCreate(Claims(f, fresh))
           after   == ToIngress(paths, f.ports, "self")
           routes  == IF f.publishing = "ingress" THEN PatchIf("ingress.patch", paths, after) ELSE <<>>
           one     == IF service = None THEN <<>> ELSE <<Call("service.create", None, service)>> \o routes
           two     == IF KindOf(f) = "StatefulSet" THEN <<Call("headless.create", None, None)>>
                      ELSE IF claims # {} THEN <<Call("claims.create", None, claims)>> ELSE <<>>
           three   == IF f.scaler /\ f.deployment # "global" THEN <<Call("scaler.create", None, ScalerOf(f))>> ELSE <<>>
           four    == <<Call("app.create", None, ToApplication(f, fresh))>>
<1>1. CreateCalls(f, paths, fresh) = one \o two \o three \o four
  BY DEF CreateCalls
<1>2. /\ service # None => "service" \in K
      /\ service # None /\ f.publishing = "ingress" /\ after # paths => "ingress" \in K
      /\ KindOf(f) = "StatefulSet" => "headless" \in K
      /\ KindOf(f) # "StatefulSet" /\ claims # {} => "claims" \in K
      /\ f.scaler /\ f.deployment # "global" => "scaler" \in K
      /\ "app" \in K
  <2>1. claims # {} => ClaimsToCreate(Claims(f, 0)) # {}
    BY ClaimsFacts
  <2> QED BY <2>1 DEF CreatedResources
<1>3. after \in Seq(Paths) /\ (service = None \/ IsService(service)) /\ IsApp(ToApplication(f, fresh))
  BY IngressIsPaths, ServiceOf, ApplicationOf DEF IsForm
<1> HIDE DEF service, claims, after
<1>4. CallsWithin(one, K, P)
  <2>1. CASE service = None
    BY <2>1, NoCalls
  <2>2. CASE service # None
    <3>1. CallsWithin(routes, K, P)
      <4>1. CASE f.publishing = "ingress"
        <5>1. paths # after => IsCall(Call("ingress.patch", paths, after)) /\ Tells(K, "ingress.patch")
          BY <1>2, <1>3, <2>2, <4>1, CallFields DEF IsCall, Tells
        <5>2. paths \in P /\ after \in P
          BY <4>1 DEF after
        <5>3. CallsWithin(PatchIf("ingress.patch", paths, after), K, P)
          BY <5>1, <5>2, PatchCall
        <5> QED BY <4>1, <5>3
      <4>2. CASE f.publishing # "ingress"
        BY <4>2, NoCalls
      <4> QED BY <4>1, <4>2
    <3> HIDE DEF routes
    <3> DEFINE c == Call("service.create", None, service)
    <3>2. c.op = "service.create" /\ IsCall(c) /\ Tells(K, c.op)
      BY <1>2, <1>3, <2>2, CallFields DEF IsCall, Tells
    <3> HIDE DEF c
    <3>3. CallsWithin(<<c>>, K, P)
      BY <3>2, OneCall
    <3>4. CallsWithin(<<c>> \o routes, K, P)
      BY <3>1, <3>3, MoreCalls
    <3> QED BY <2>2, <3>4 DEF c
  <2> QED BY <2>1, <2>2
<1>5. CallsWithin(two, K, P)
  <2> DEFINE h == Call("headless.create", None, None)
             c == Call("claims.create", None, claims)
  <2>1. h.op = "headless.create" /\ c.op = "claims.create" /\ IsCall(h) /\ IsCall(c)
    BY CallFields DEF IsCall
  <2> HIDE DEF h, c
  <2>2. KindOf(f) = "StatefulSet" => CallsWithin(<<h>>, K, P)
    BY <1>2, <2>1, OneCall DEF Tells
  <2>3. KindOf(f) # "StatefulSet" /\ claims # {} => CallsWithin(<<c>>, K, P)
    BY <1>2, <2>1, OneCall DEF Tells
  <2> QED BY <2>2, <2>3, NoCalls DEF h, c
<1>6. CallsWithin(three, K, P)
  <2> DEFINE c == Call("scaler.create", None, ScalerOf(f))
  <2>1. c.op = "scaler.create" /\ IsCall(c)
    BY CallFields DEF IsCall
  <2> HIDE DEF c
  <2>2. f.scaler /\ f.deployment # "global" => CallsWithin(<<c>>, K, P)
    BY <1>2, <2>1, OneCall DEF Tells
  <2> QED BY <2>2, NoCalls DEF c
<1>7. CallsWithin(four, K, P)
  <2> DEFINE c == Call("app.create", None, ToApplication(f, fresh))
  <2>1. c.op = "app.create" /\ IsCall(c) /\ Tells(K, c.op)
    BY <1>2, <1>3, CallFields DEF IsCall, Tells
  <2> HIDE DEF c
  <2>2. CallsWithin(<<c>>, K, P)
    BY <2>1, OneCall
  <2> QED BY <2>2 DEF c
<1> HIDE DEF one, two, three, four
<1>8. CallsWithin(one \o two \o three \o four, K, P)
  BY <1>4, <1>5, <1>6, <1>7, MoreCalls
<1> QED BY <1>1, <1>8

\* The calls of an update
LEMMA PatchChain ==
  ASSUME NEW old, IsForm(old), Untouched(old.ports), NEW new, IsForm(new), KindOf(new) \in Kinds,
         NEW paths \in Seq(Paths), NEW fresh, NEW P,
         "ingress" \in {old.publishing, new.publishing} => paths \in P /\ ToIngress(paths, new.ports, "self") \in P
  PROVE  CallsWithin(PatchCalls(old, new, paths, fresh), Summary(old, new, paths), P)
<1> DEFINE K      == Summary(old, new, paths)
           was    == ToService(old)
           is     == ToService(new)
           claims == ClaimsToCreate(Claims(new, fresh))
           after  == ToIngress(paths, new.ports, "self")
           path   == IF was # None /\ is # None THEN "ingress" \in {old.publishing, new.publishing}
                     ELSE IF was = None THEN is # None /\ new.publishing = "ingress"
                     ELSE old.publishing = "ingress"
<1>1. old # None
  BY NoneFacts
<1>2. after \in Seq(Paths) /\ (was = None \/ IsService(was)) /\ (is = None \/ IsService(is))
  BY IngressIsPaths, ServiceOf DEF IsForm
<1>3. ToIngress(paths, old.ports, "self") = paths
  <2>1. IsSeq(paths) /\ IsSeq(old.ports)
    BY SeqIsSeq DEF IsForm
  <2> QED BY <2>1, IngressSame DEF Untouched
<1>4. CASE KindOf(old) # KindOf(new)
  <2>1. K = {"app"} \cup (IF was # None THEN {"service"} ELSE {}) \cup CreatedResources(new, paths)
    BY <1>1, <1>4 DEF Summary
  <2> DEFINE a == Call("app.delete", KindOf(old), None)
             h == Call("headless.delete", None, None)
             s == Call("service.delete", None, None)
             one == <<a>>
             two == IF KindOf(old) = "StatefulSet" THEN <<h>> ELSE <<>>
             three == IF was # None THEN <<s>> ELSE <<>>
             four == CreateCalls(new, paths, fresh)
  <2>2. PatchCalls(old, new, paths, fresh) = one \o two \o three \o four
    BY <1>4 DEF PatchCalls
  <2>3. a.op = "app.delete" /\ h.op = "headless.delete" /\ s.op = "service.delete" /\ IsCall(a) /\ IsCall(h) /\ IsCall(s)
    BY CallFields DEF IsCall
  <2>4. Tells(K, "app.delete") /\ Tells(K, "headless.delete") /\ (was # None => Tells(K, "service.delete"))
    BY <2>1 DEF Tells
  <2> HIDE DEF a, h, s, K, was
  <2>5. CallsWithin(one, K, P)
    BY <2>3, <2>4, OneCall
  <2>6. CallsWithin(two, K, P)
    <3>1. CallsWithin(<<h>>, K, P)
      BY <2>3, <2>4, OneCall
    <3> QED BY <3>1, NoCalls
  <2>7. CallsWithin(three, K, P)
    <3>1. was # None => CallsWithin(<<s>>, K, P)
      BY <2>3, <2>4, OneCall
    <3> QED BY <3>1, NoCalls
  <2>8. CallsWithin(four, K, P)
    <3>1. CreatedResources(new, paths) \subseteq K
      BY <2>1
    <3> QED BY <3>1, CreateChain
  <2> HIDE DEF one, two, three, four
  <2>9. CallsWithin(one \o two \o three \o four, K, P)
    BY <2>5, <2>6, <2>7, <2>8, MoreCalls
  <2> QED BY <2>2, <2>9 DEF K
<1>5. CASE KindOf(old) = KindOf(new)
  <2>1. /\ "app" \in K
        /\ KindOf(new) # "StatefulSet" /\ claims # {} => "claims" \in K
        /\ was # is => "service" \in K
        /\ path /\ after # paths => "ingress" \in K
        /\ old.scaler # new.scaler \/ (new.scaler /\ ScalerOf(old) # ScalerOf(new)) => "scaler" \in K
    <3>1. claims # {} => ClaimsToCreate(Claims(new, 0)) # {}
      BY ClaimsFacts
    <3>2. K = {"app"}
           \cup (IF KindOf(new) # "StatefulSet" /\ ClaimsToCreate(Claims(new, 0)) # {} THEN {"claims"} ELSE {})
           \cup (IF was # is THEN {"service"} ELSE {})
           \cup (IF path /\ ToIngress(paths, new.ports, "self") # paths THEN {"ingress"} ELSE {})
           \cup (IF old.scaler # new.scaler \/ (new.scaler /\ ScalerOf(old) # ScalerOf(new)) THEN {"scaler"} ELSE {})
      BY <1>1, <1>5 DEF Summary
    <3> HIDE DEF path, K, was, is
    <3> QED BY <3>1, <3>2
  <2> DEFINE c == Call("claims.create", None, claims)
             one == IF KindOf(new) # "StatefulSet" /\ claims # {} THEN <<c>> ELSE <<>>
             oldApp == ToApplication(old, fresh)
             newApp == ToApplication(new, fresh)
             two == PatchIf("app.patch", oldApp, newApp)
             three == ServiceCalls(old, new, paths)
             x == Call("scaler.create", None, ScalerOf(new))
             y == Call("scaler.delete", None, None)
             z == PatchIf("scaler.patch", ScalerOf(old), ScalerOf(new))
             four == CASE ~old.scaler /\ new.scaler -> <<x>>
                       [] old.scaler /\ new.scaler  -> z
                       [] old.scaler /\ ~new.scaler -> <<y>>
                       [] OTHER                     -> <<>>
  <2>2. PatchCalls(old, new, paths, fresh) = one \o two \o three \o four
    BY <1>5 DEF PatchCalls
  <2>3. CallsWithin(one, K, P)
    <3>1. c.op = "claims.create" /\ IsCall(c)
      BY CallFields DEF IsCall
    <3> HIDE DEF c
    <3>2. KindOf(new) # "StatefulSet" /\ claims # {} => CallsWithin(<<c>>, K, P)
      BY <2>1, <3>1, OneCall DEF Tells
    <3> QED BY <3>2, NoCalls
  <2>4. CallsWithin(two, K, P)
    <3>1. oldApp.env \in Seq(1 .. 2) /\ newApp.env \in Seq(1 .. 2) /\ IsSeq(oldApp.mounts) /\ IsSeq(newApp.mounts)
      BY ApplicationOf
    <3> HIDE DEF oldApp, newApp
    <3>2. IsCall(Call("app.patch", oldApp, newApp)) /\ Tells(K, "app.patch")
      BY <2>1, <3>1, CallFields DEF IsCall, Tells
    <3> QED BY <3>2, PatchCall
  <2>5. CallsWithin(three, K, P)
    <3> DEFINE route == PatchIf("ingress.patch", paths, after)
               create == Call("service.create", None, is)
               delete == Call("service.delete", None, None)
    <3>1. path => CallsWithin(route, K, P)
      <4>1. path /\ paths # after => IsCall(Call("ingress.patch", paths, after)) /\ Tells(K, "ingress.patch")
        <5> HIDE DEF path, K, after
        <5> QED BY <1>2, <2>1, CallFields DEF IsCall, Tells
      <4>2. path => paths \in P /\ after \in P
        OBVIOUS
      <4> HIDE DEF path, K, after
      <4> QED BY <4>1, <4>2, PatchCall
    <3>2. IsCall(create) /\ is # None /\ was = None => CallsWithin(<<create>>, K, P)
      <4>1. create.op = "service.create"
        BY CallFields
      <4>2. is # None /\ was = None => Tells(K, "service.create")
        BY <2>1 DEF Tells
      <4> HIDE DEF create
      <4> QED BY <4>1, <4>2, OneCall
    <3>3. is # None => IsCall(create)
      BY <1>2, CallFields DEF IsCall
    <3>4. was # None /\ is = None => CallsWithin(<<delete>>, K, P)
      <4>1. delete.op = "service.delete" /\ IsCall(delete)
        BY CallFields DEF IsCall
      <4>2. is = None /\ was # None => Tells(K, "service.delete")
        BY <2>1 DEF Tells
      <4> HIDE DEF delete
      <4> QED BY <4>1, <4>2, OneCall
    <3>5. was # None /\ is # None => CallsWithin(PatchIf("service.patch", was, is), K, P)
      <4>1. was # None /\ is # None /\ was # is => IsCall(Call("service.patch", was, is)) /\ Tells(K, "service.patch")
        BY <1>2, <2>1, CallFields DEF IsCall, Tells
      <4> HIDE DEF was, is, K
      <4> QED BY <4>1, PatchCall
    <3>6. CASE was # None /\ is # None
      <4> DEFINE change == PatchIf("service.patch", was, is)
                 more == IF "ingress" \in {old.publishing, new.publishing} THEN route ELSE <<>>
      <4>1. three = change \o more
        BY <1>3, <3>6 DEF ServiceCalls
      <4>2. CallsWithin(more, K, P)
        <5>1. CASE path
          BY <3>1, <3>6, <5>1
        <5>2. CASE ~path
          BY <3>6, <5>2, NoCalls
        <5> QED BY <5>1, <5>2
      <4>3. CallsWithin(change, K, P)
        BY <3>5, <3>6
      <4> HIDE DEF change, more
      <4> QED BY <4>1, <4>2, <4>3, MoreCalls
    <3>7. CASE was = None /\ is # None
      <4> DEFINE more == IF new.publishing = "ingress" THEN route ELSE <<>>
      <4>1. three = <<create>> \o more
        BY <3>7 DEF ServiceCalls
      <4>2. CallsWithin(more, K, P)
        BY <3>1, <3>7, NoCalls
      <4>3. CallsWithin(<<create>>, K, P)
        BY <3>2, <3>3, <3>7
      <4> HIDE DEF create, more
      <4> QED BY <4>1, <4>2, <4>3, MoreCalls
    <3>8. CASE was # None /\ is = None
      <4> DEFINE more == IF old.publishing = "ingress" THEN route ELSE <<>>
      <4>1. three = <<delete>> \o more
        BY <3>8 DEF ServiceCalls
      <4>2. CallsWithin(more, K, P)
        BY <3>1, <3>8, NoCalls
      <4>3. CallsWithin(<<delete>>, K, P)
        BY <3>4, <3>8
      <4> HIDE DEF delete, more
      <4> QED BY <4>1, <4>2, <4>3, MoreCalls
    <3>9. CASE was = None /\ is = None
      <4>1. three = <<>>
        BY <3>9 DEF ServiceCalls
      <4> QED BY <4>1, NoCalls
    <3> QED BY <3>6, <3>7, <3>8, <3>9
  <2>6. CallsWithin(four, K, P)
    <3> DEFINE oldScaler == ScalerOf(old)
               newScaler == ScalerOf(new)
    <3>1. x.op = "scaler.create" /\ y.op = "scaler.delete" /\ IsCall(x) /\ IsCall(y)
          /\ IsCall(Call("scaler.patch", oldScaler, newScaler))
      BY CallFields DEF IsCall
    <3>2. CASE ~old.scaler /\ new.scaler
      <4>1. four = <<x>>
        BY <3>2
      <4>2. Tells(K, "scaler.create")
        BY <2>1, <3>2 DEF Tells
      <4> HIDE DEF x, four
      <4> QED BY <3>1, <4>1, <4>2, OneCall
    <3>3. CASE old.scaler /\ new.scaler
      <4>1. four = z
        BY <3>3
      <4>2. oldScaler # newScaler => Tells(K, "scaler.patch")
        BY <2>1, <3>3 DEF Tells
      <4>3. z = PatchIf("scaler.patch", oldScaler, newScaler)
        OBVIOUS
      <4> HIDE DEF four, oldScaler, newScaler, z
      <4> QED BY <3>1, <4>1, <4>2, <4>3, PatchCall
    <3>4. CASE old.scaler /\ ~new.scaler
      <4>1. four = <<y>>
        BY <3>4
      <4>2. Tells(K, "scaler.delete")
        BY <2>1, <3>4 DEF Tells
      <4> HIDE DEF y, four
      <4> QED BY <3>1, <4>1, <4>2, OneCall
    <3>5. CASE ~old.scaler /\ ~new.scaler
      <4>1. four = <<>>
        BY <3>5
      <4> HIDE DEF four
      <4> QED BY <4>1, NoCalls
    <3> QED BY <3>2, <3>3, <3>4, <3>5
  <2> HIDE DEF one, two, three, four, K
  <2>7. CallsWithin(one \o two \o three \o four, K, P)
    BY <2>3, <2>4, <2>5, <2>6, MoreCalls
  <2> QED BY <2>2, <2>7 DEF K
<1> QED BY <1>4, <1>5

-----------------------------------------------------------------------------
(* What a call does to the cluster.                                        *)

ClusterFields == {"app", "service", "headless", "scaler", "paths", "claims"}

AppCalls     == {"app.create", "app.patch", "app.delete"}
ServiceOps   == {"service.create", "service.patch", "service.delete"}
HeadlessOps  == {"headless.create", "headless.delete"}
ScalerOps    == {"scaler.create", "scaler.patch", "scaler.delete"}

LEMMA EffectFacts ==
  ASSUME NEW call, DOMAIN cluster = ClusterFields
  PROVE  LET e == Effect(call)
             op == call.op
         IN  /\ DOMAIN e = ClusterFields
             /\ e.app = IF op = "app.create" THEN call.new ELSE IF op = "app.patch" THEN PatchedApp(cluster.app, call.old, call.new)
                        ELSE IF op = "app.delete" THEN None ELSE cluster.app
             /\ e.service = IF op = "service.create" THEN call.new ELSE IF op = "service.patch" THEN PatchedService(cluster.service, call.old, call.new)
                            ELSE IF op = "service.delete" THEN None ELSE cluster.service
             /\ e.headless = IF op = "headless.create" THEN TRUE ELSE IF op = "headless.delete" THEN FALSE ELSE cluster.headless
             /\ e.scaler = IF op \in {"scaler.create", "scaler.patch"} THEN call.new
                           ELSE IF op = "scaler.delete" THEN None ELSE cluster.scaler
             /\ e.paths = IF op = "ingress.patch" THEN Patched(call.old, call.new, cluster.paths) ELSE cluster.paths
             /\ e.claims = IF op = "claims.create" THEN cluster.claims \cup call.new ELSE cluster.claims
<1> DEFINE e     == Effect(call)
           op    == call.op
           app   == PatchedApp(cluster.app, call.old, call.new)
           serv  == PatchedService(cluster.service, call.old, call.new)
           paths == Patched(call.old, call.new, cluster.paths)
           set   == cluster.claims \cup call.new
<1>1. /\ op = "app.create" => e = [cluster EXCEPT !.app = call.new]
      /\ op = "app.patch" => e = [cluster EXCEPT !.app = app]
      /\ op = "app.delete" => e = [cluster EXCEPT !.app = None]
  <2>1. op = "app.create" => e = [cluster EXCEPT !.app = call.new]
    BY DEF Effect
  <2>2. op = "app.patch" => e = [cluster EXCEPT !.app = app]
    BY DEF Effect
  <2>3. op = "app.delete" => e = [cluster EXCEPT !.app = None]
    BY DEF Effect
  <2> QED BY <2>1, <2>2, <2>3
<1>2. /\ op = "service.create" => e = [cluster EXCEPT !.service = call.new]
      /\ op = "service.patch" => e = [cluster EXCEPT !.service = serv]
      /\ op = "service.delete" => e = [cluster EXCEPT !.service = None]
  <2>1. op = "service.create" => e = [cluster EXCEPT !.service = call.new]
    BY DEF Effect
  <2>2. op = "service.patch" => e = [cluster EXCEPT !.service = serv]
    BY DEF Effect
  <2>3. op = "service.delete" => e = [cluster EXCEPT !.service = None]
    BY DEF Effect
  <2> QED BY <2>1, <2>2, <2>3
<1>3. /\ op = "headless.create" => e = [cluster EXCEPT !.headless = TRUE]
      /\ op = "headless.delete" => e = [cluster EXCEPT !.headless = FALSE]
  BY DEF Effect
<1>4. /\ op \in {"scaler.create", "scaler.patch"} => e = [cluster EXCEPT !.scaler = call.new]
      /\ op = "scaler.delete" => e = [cluster EXCEPT !.scaler = None]
      /\ op = "ingress.patch" => e = [cluster EXCEPT !.paths = paths]
      /\ op = "claims.create" => e = [cluster EXCEPT !.claims = set]
  BY DEF Effect
<1>5. op \notin AppCalls \cup ServiceOps \cup HeadlessOps \cup ScalerOps \cup {"ingress.patch", "claims.create"} => e = cluster
  BY DEF Effect, AppCalls, ServiceOps, HeadlessOps, ScalerOps
<1> HIDE DEF e, app, serv, paths, set
<1>6. CASE op \in AppCalls
  BY <1>1, <1>6 DEF AppCalls, ClusterFields, e, app, serv, paths, set
<1>7. CASE op \in ServiceOps
  BY <1>2, <1>7 DEF ServiceOps, ClusterFields, e, app, serv, paths, set
<1>8. CASE op \in HeadlessOps
  BY <1>3, <1>8 DEF HeadlessOps, ClusterFields, e, app, serv, paths, set
<1>9. CASE op \in ScalerOps \cup {"ingress.patch", "claims.create"}
  BY <1>4, <1>9 DEF ScalerOps, ClusterFields, e, app, serv, paths, set
<1>10. CASE op \notin AppCalls \cup ServiceOps \cup HeadlessOps \cup ScalerOps \cup {"ingress.patch", "claims.create"}
  <2>1. e = cluster
    BY <1>5, <1>10
  <2> QED BY <1>10, <2>1 DEF AppCalls, ServiceOps, HeadlessOps, ScalerOps, e, app, serv, paths, set
<1> QED BY <1>6, <1>7, <1>8, <1>9, <1>10

\* A patched list of numbers, rows or routes
LEMMA PatchedWithin ==
  ASSUME NEW S, NEW old \in Seq(S), NEW new \in Seq(S), NEW current \in Seq(S), PatchApplies(old, new, current)
  PROVE  /\ Patched(old, new, current) \in Seq(S)
         /\ old # <<>> /\ new # <<>> /\ current # <<>> => Patched(old, new, current) # <<>>
<1> DEFINE p == Patched(old, new, current)
<1>1. Shaped(old, S, S) /\ Shaped(new, S, S) /\ Shaped(current, S, S)
  BY SeqIsSeq DEF Shaped
<1>2. Shaped(p, S, S) /\ (old # <<>> /\ new # <<>> /\ current # <<>> => p # <<>>)
  BY <1>1, PatchedShaped
<1> QED BY <1>2, SeqFrom DEF Shaped

Resources == {"app", "service", "headless", "scaler", "ingress", "claims"}

\* What a deletion is about
WithReading == Resources \cup {"reading"}

\* The calls of a deletion
LEMMA DeleteChain ==
  ASSUME NEW c, IsCluster(c)
  PROVE  CallsWithin(DeleteCalls(c), WithReading, {})
<1> DEFINE K     == WithReading
           P     == {}
           bound == BoundService(c)
           rows  == PortRows(bound, c.paths, "self")
           a == Call("app.delete", c.app.kind, None)
           h == Call("headless.delete", None, None)
           s == Call("service.delete", None, None)
           g == Call("ingress.get", None, rows)
           x == Call("scaler.delete", None, None)
           routes == IF \E i \in DOMAIN rows : rows[i].ingress THEN <<g>> ELSE <<>>
           one   == <<a>>
           two   == IF c.app.kind = "StatefulSet" THEN <<h>> ELSE <<>>
           three == IF bound = None THEN <<>> ELSE <<s>> \o routes
           four  == IF BoundScaler(c) # None THEN <<x>> ELSE <<>>
<1>1. DeleteCalls(c) = one \o two \o three \o four
  BY DEF DeleteCalls
<1>2. rows \in Seq(PortRow)
  BY BoundFacts, SavedRows DEF IsCluster
<1>3. /\ a.op = "app.delete" /\ h.op = "headless.delete" /\ s.op = "service.delete" /\ g.op = "ingress.get" /\ x.op = "scaler.delete"
      /\ IsCall(a) /\ IsCall(h) /\ IsCall(s) /\ IsCall(g) /\ IsCall(x)
  BY <1>2, CallFields DEF IsCall
<1>4. \A op : Tells(K, op)
  BY DEF WithReading, Resources, Tells
<1> HIDE DEF a, h, s, g, x, K, P, rows, bound
<1>5. CallsWithin(one, K, P)
  BY <1>3, <1>4, OneCall
<1>6. CallsWithin(<<h>>, K, P) /\ CallsWithin(<<s>>, K, P) /\ CallsWithin(<<g>>, K, P) /\ CallsWithin(<<x>>, K, P)
  BY <1>3, <1>4, OneCall
<1>7. CallsWithin(two, K, P) /\ CallsWithin(routes, K, P) /\ CallsWithin(four, K, P)
  BY <1>6, NoCalls
<1>8. CallsWithin(three, K, P)
  <2> HIDE DEF routes
  <2>1. CallsWithin(<<s>> \o routes, K, P)
    BY <1>6, <1>7, MoreCalls
  <2> QED BY <2>1, NoCalls
<1> HIDE DEF one, two, three, four
<1>9. CallsWithin(one \o two \o three \o four, K, P)
  BY <1>5, <1>7, <1>8, MoreCalls
<1> QED BY <1>1, <1>9 DEF K, P

LEMMA PatchedAppIs ==
  ASSUME NEW app, IsApp(app), NEW old, NEW new,
         old.env \in Seq(1 .. 2), new.env \in Seq(1 .. 2), IsSeq(old.mounts), IsSeq(new.mounts),
         PatchApplies(old.env, new.env, app.env), PatchApplies(old.mounts, new.mounts, app.mounts)
  PROVE  IsApp(PatchedApp(app, old, new))
<1> DEFINE env    == Patched(old.env, new.env, app.env)
           mounts == Patched(old.mounts, new.mounts, app.mounts)
           number == Scalar(old.replicas, new.replicas, app.replicas)
           where  == Scalar(old.affinity, new.affinity, app.affinity)
           a      == PatchedApp(app, old, new)
<1>1. a = [app EXCEPT !.env = env, !.mounts = mounts, !.replicas = number, !.affinity = where]
  BY DEF PatchedApp
<1>2. env \in Seq(1 .. 2)
  BY PatchedWithin DEF IsApp
<1>3. IsSeq(mounts)
  <2> DEFINE S == ToSet(old.mounts) \cup ToSet(new.mounts) \cup ToSet(app.mounts)
  <2>1. old.mounts \in Seq(S) /\ new.mounts \in Seq(S) /\ app.mounts \in Seq(S)
    BY SeqWithin DEF IsApp
  <2> HIDE DEF S
  <2>2. mounts \in Seq(S)
    BY <2>1, PatchedWithin
  <2> QED BY <2>2 DEF IsSeq
<1> HIDE DEF env, mounts, number, where, a
<1>4. DOMAIN a = DOMAIN app /\ a.env = env /\ a.mounts = mounts /\ a.kind = app.kind
  BY <1>1 DEF IsApp
<1> QED BY <1>2, <1>3, <1>4 DEF IsApp, a

LEMMA PatchedServiceIs ==
  ASSUME NEW service, IsService(service), NEW old, IsService(old), NEW new, IsService(new),
         PatchApplies(old.ports, new.ports, service.ports), IsInjective(Patched(old.ports, new.ports, service.ports))
  PROVE  IsService(PatchedService(service, old, new))
<1> DEFINE ports == Patched(old.ports, new.ports, service.ports)
           type  == Scalar(old.type, new.type, service.type)
           s     == PatchedService(service, old, new)
<1>1. s = [service EXCEPT !.type = type, !.ports = ports]
  BY DEF PatchedService
<1>2. ports \in Seq(Nat)
  BY PatchedWithin DEF IsService
<1>3. ports # <<>>
  BY PatchedWithin DEF IsService
<1>4. type \in {"NodePort", "ClusterIP"}
  BY DEF Scalar, IsService
<1>5. IsInjective(ports)
  OBVIOUS
<1> HIDE DEF ports, type, s
<1>6. DOMAIN s = DOMAIN service /\ s.type = type /\ s.ports = ports
  BY <1>1 DEF IsService
<1> QED BY <1>2, <1>3, <1>4, <1>5, <1>6 DEF IsService, s

\* A call leaves resources of the right shape.
LEMMA EffectIsCluster ==
  ASSUME IsCluster(cluster), NEW call, IsCall(call), Applies(call)
  PROVE  IsCluster(Effect(call))
<1> DEFINE e  == Effect(call)
           op == call.op
<1>0. /\ DOMAIN cluster = ClusterFields /\ (cluster.app = None \/ IsApp(cluster.app))
      /\ cluster.service = None \/ IsService(cluster.service)
      /\ cluster.paths \in Seq(Paths)
  BY DEF IsCluster, ClusterFields
<1>1. /\ DOMAIN e = ClusterFields
      /\ e.app = IF op = "app.create" THEN call.new ELSE IF op = "app.patch" THEN PatchedApp(cluster.app, call.old, call.new)
                 ELSE IF op = "app.delete" THEN None ELSE cluster.app
      /\ e.service = IF op = "service.create" THEN call.new ELSE IF op = "service.patch" THEN PatchedService(cluster.service, call.old, call.new)
                     ELSE IF op = "service.delete" THEN None ELSE cluster.service
      /\ e.paths = IF op = "ingress.patch" THEN Patched(call.old, call.new, cluster.paths) ELSE cluster.paths
  BY <1>0, EffectFacts
<1> HIDE DEF e
<1>2. e.app = None \/ IsApp(e.app)
  <2>1. CASE op = "app.patch"
    <3>1. /\ cluster.app # None
          /\ PatchApplies(call.old.env, call.new.env, cluster.app.env)
          /\ PatchApplies(call.old.mounts, call.new.mounts, cluster.app.mounts)
      BY <2>1 DEF Applies
    <3>2. IsApp(PatchedApp(cluster.app, call.old, call.new))
      BY <1>0, <2>1, <3>1, PatchedAppIs DEF IsCall
    <3> QED BY <1>1, <2>1, <3>2
  <2>2. CASE op = "app.create"
    BY <1>1, <2>2 DEF IsCall
  <2>3. CASE op \notin {"app.patch", "app.create"}
    BY <1>0, <1>1, <2>3
  <2> QED BY <2>1, <2>2, <2>3
<1>3. e.service = None \/ IsService(e.service)
  <2>1. CASE op = "service.patch"
    <3>1. /\ cluster.service # None /\ PatchApplies(call.old.ports, call.new.ports, cluster.service.ports)
          /\ IsInjective(Patched(call.old.ports, call.new.ports, cluster.service.ports))
      BY <2>1 DEF Applies
    <3>2. IsService(PatchedService(cluster.service, call.old, call.new))
      BY <1>0, <2>1, <3>1, PatchedServiceIs DEF IsCall
    <3> QED BY <1>1, <2>1, <3>2
  <2>2. CASE op = "service.create"
    BY <1>1, <2>2 DEF IsCall
  <2>3. CASE op \notin {"service.patch", "service.create"}
    BY <1>0, <1>1, <2>3
  <2> QED BY <2>1, <2>2, <2>3
<1>4. e.paths \in Seq(Paths)
  <2>1. CASE op = "ingress.patch"
    <3>1. PatchApplies(call.old, call.new, cluster.paths)
      BY <2>1 DEF Applies
    <3>2. Patched(call.old, call.new, cluster.paths) \in Seq(Paths)
      BY <1>0, <2>1, <3>1, PatchedWithin DEF IsCall
    <3> QED BY <1>1, <2>1, <3>2
  <2>2. CASE op # "ingress.patch"
    BY <1>0, <1>1, <2>2
  <2> QED BY <2>1, <2>2
<1> QED BY <1>1, <1>2, <1>3, <1>4 DEF IsCluster, ClusterFields, e

-----------------------------------------------------------------------------
(* Each step keeps the shape.                                              *)

LEMMA NewFormFacts ==
  ASSUME NEW f \in NewForms
  PROVE  IsForm(f) /\ \A i \in 1 .. Len(f.ports) : f.ports[i].new /\ ~f.ports[i].del
<1> DEFINE Variables == [name : 1 .. 2, new : {TRUE}, del : {FALSE}]
           Ports     == [port : Nat, route : Nat, ingress : BOOLEAN, new : {TRUE}, del : {FALSE}]
           Folders   == [claim : {0}, existing : Nat, path : Nat, new : {TRUE}, del : {FALSE}]
<1>1. /\ DOMAIN f = FormFields
      /\ f.deployment \in {"replicated", "global"} /\ f.policy \in {"shared", "isolated"}
      /\ f.env \in Seq(Variables) /\ f.folders \in Seq(Folders) /\ f.ports \in Seq(Ports)
  BY DEF NewForms, FormFields
<1>2. (\A r \in Variables : r \in EnvRows) /\ (\A r \in Ports : r \in PortRow /\ r.new /\ ~r.del)
  BY DEF EnvRows, PortRow
<1> HIDE DEF Variables, Folders, Ports
<1>3. /\ IsSeq(f.env) /\ \A i \in 1 .. Len(f.env) : f.env[i] \in Variables
      /\ IsSeq(f.ports) /\ \A i \in 1 .. Len(f.ports) : f.ports[i] \in Ports
      /\ IsSeq(f.folders)
  BY <1>1, SeqIsSeq
<1>4. f.env \in Seq(EnvRows) /\ f.ports \in Seq(PortRow)
  BY <1>2, <1>3, SeqFrom
<1> QED BY <1>1, <1>2, <1>3, <1>4 DEF IsForm

LEMMA ShapeInit == ApplicationsInit => Shape
<1> SUFFICES ASSUME ApplicationsInit PROVE Shape
  OBVIOUS
<1> DEFINE paths == <<Route("other", 1, 1)>>
<1>1. paths \in Seq(Paths)
  BY DEF Route, Paths
<1> HIDE DEF paths
<1>2. cluster = [app |-> None, service |-> None, headless |-> FALSE, scaler |-> None, paths |-> paths, claims |-> {}]
  BY DEF ApplicationsInit, paths
<1>3. IsCluster(cluster)
  BY <1>1, <1>2 DEF IsCluster
<1> QED BY <1>3 DEF ApplicationsInit, Shape

LEMMA OpenViews ==
  ASSUME Shape, view.status \in {"form", "calling", "done", "failed"}
  PROVE  IsView(view)
<1>1. Closed.status = "closed"
  BY DEF Closed
<1> QED BY <1>1 DEF Shape

LEMMA OpenCreateShape == Shape /\ OpenCreate => Shape'
<1> SUFFICES ASSUME Shape, OpenCreate PROVE Shape'
  OBVIOUS
<1>1. PICK f \in Forms :
        view' = [mode |-> "create", status |-> "form", saved |-> None, form |-> f, paths |-> cluster.paths,
                 used |-> UsedQuota, calls |-> <<>>, before |-> cluster, tries |-> 0]
  BY DEF OpenCreate
<1>2. IsForm(f)
  BY FormsAssumption, NewFormFacts
<1>3. cluster' = cluster /\ IsCluster(cluster) /\ cluster.paths \in Seq(Paths)
  BY DEF Shape, OpenCreate, IsCluster
<1>4. IsSeq(<<>>) /\ Len(<<>>) = 0
  BY EmptyFacts
<1>5. /\ DOMAIN view' = ViewFields /\ view'.mode = "create" /\ view'.status = "form" /\ view'.saved = None
      /\ view'.form = f /\ view'.paths = cluster.paths /\ view'.calls = <<>>
  BY <1>1 DEF ViewFields
<1>6. IsView(view')
  BY <1>2, <1>3, <1>4, <1>5 DEF IsView
<1>7. IsCluster(cluster')
  BY <1>3
<1> QED BY <1>6, <1>7 DEF Shape

LEMMA OpenEditShape == Shape /\ OpenEdit => Shape'
<1> SUFFICES ASSUME Shape, OpenEdit PROVE Shape'
  OBVIOUS
<1> DEFINE saved   == ApplicationToFormValues(cluster.app, BoundService(cluster), cluster.paths, BoundScaler(cluster), rwx)
           folders == [i \in DOMAIN saved.folders |->
                         IF cluster.app.kind # "StatefulSet" /\ rwx
                         THEN [saved.folders[i] EXCEPT !.existing = saved.folders[i].claim] ELSE saved.folders[i]]
           form    == [saved EXCEPT !.appType = "none", !.folders = folders]
<1>1. /\ cluster' = cluster /\ cluster.app # None
      /\ view' = [mode |-> "edit", status |-> "form", saved |-> saved, form |-> form, paths |-> cluster.paths,
                  used |-> UsedQuota, calls |-> <<>>, before |-> cluster, tries |-> 0]
  BY DEF OpenEdit
<1>2. IsCluster(cluster) /\ cluster.paths \in Seq(Paths) /\ IsApp(cluster.app)
  BY <1>1 DEF Shape, IsCluster
<1>3. IsForm(saved) /\ Untouched(saved.ports)
  BY <1>2, BoundFacts, SavedForm
<1> HIDE DEF saved
<1>4. IsSeq(folders)
  <2>1. folders = [i \in DOMAIN saved.folders |-> folders[i]]
    OBVIOUS
  <2>2. IsSeq(saved.folders)
    BY <1>3 DEF IsForm
  <2> HIDE DEF folders
  <2> QED BY <2>1, <2>2, MappedSeq
<1> HIDE DEF folders
<1>5. IsForm(form)
  <2>1. /\ DOMAIN form = FormFields /\ form.folders = folders
        /\ \A x \in FormFields \ {"appType", "folders"} : form[x] = saved[x]
    BY <1>3 DEF IsForm, FormFields
  <2> HIDE DEF form
  <2> QED BY <1>3, <1>4, <2>1 DEF IsForm, FormFields
<1> HIDE DEF form
<1>6. IsSeq(<<>>) /\ Len(<<>>) = 0
  BY EmptyFacts
<1>7. /\ DOMAIN view' = ViewFields /\ view'.mode = "edit" /\ view'.status = "form" /\ view'.saved = saved
      /\ view'.form = form /\ view'.paths = cluster.paths /\ view'.calls = <<>>
  BY <1>1 DEF ViewFields
<1>8. IsView(view')
  BY <1>2, <1>3, <1>5, <1>6, <1>7 DEF IsView
<1>9. IsCluster(cluster')
  BY <1>1, <1>2
<1> QED BY <1>8, <1>9 DEF Shape

LEMMA ChangeShape == Shape /\ Change => Shape'
<1> SUFFICES ASSUME Shape, Change PROVE Shape'
  OBVIOUS
<1>1. PICK f \in Changes(view.form, view) : view' = [view EXCEPT !.form = Digested(view, f)]
  BY DEF Change
<1>2. IsView(view) /\ IsCluster(cluster) /\ view.mode = "edit" /\ cluster' = cluster
  BY OpenViews DEF Change, Shape
<1>3. IsForm(f)
  BY <1>2, ChangesAreForms DEF IsView
<1>4. IsForm(Digested(view, f))
  BY <1>3, KindFacts DEF Digested
<1> DEFINE form == Digested(view, f)
<1> HIDE DEF form
<1>5. /\ DOMAIN view' = ViewFields /\ view'.form = form
      /\ \A x \in ViewFields \ {"form"} : view'[x] = view[x]
  BY <1>1, <1>2 DEF IsView, ViewFields, form
<1>6. IsForm(form)
  BY <1>4 DEF form
<1>7. IsView(view')
  BY <1>2, <1>5, <1>6 DEF IsView, ViewFields
<1>8. IsCluster(cluster')
  BY <1>2
<1> QED BY <1>7, <1>8 DEF Shape

LEMMA CallsAre ==
  ASSUME NEW s, NEW K, NEW P, CallsWithin(s, K, P)
  PROVE  IsSeq(s) /\ \A i \in 1 .. Len(s) : IsCall(s[i])
BY DEF CallsWithin

LEMMA SubmitShape == Shape /\ Submit => Shape'
<1> SUFFICES ASSUME Shape, Submit PROVE Shape'
  OBVIOUS
<1> DEFINE fresh == IF cluster.claims = {} THEN 0 ELSE Max(cluster.claims)
           calls == IF view.mode = "create" THEN CreateCalls(view.form, view.paths, fresh)
                    ELSE PatchCalls(view.saved, view.form, view.paths, fresh)
           tries == view.tries + 1
           form  == Converted(view.form)
<1>1. view' = [view EXCEPT !.status = "calling", !.before = cluster, !.tries = tries, !.form = form, !.calls = calls]
  BY DEF Submit
<1>2. IsView(view) /\ IsCluster(cluster) /\ view.mode \in {"create", "edit"} /\ cluster' = cluster
  BY OpenViews DEF Submit, Shape
<1>3. IsForm(view.form)
  BY <1>2 DEF IsView
<1>4. KindOf(view.form) \in Kinds
  BY <1>3, KindFacts DEF Submit, Disabled, IsDeployUpdateButtonDisabled
<1>5. IsForm(form)
  BY <1>3, KindFacts
<1>6. IsSeq(calls) /\ \A i \in 1 .. Len(calls) : IsCall(calls[i])
  <2> DEFINE f == view.form
  <2>1. view.paths \in Seq(Paths)
    BY <1>2 DEF IsView
  <2>2. ToIngress(view.paths, f.ports, "self") \in Seq(Paths)
    BY <1>3, <2>1, IngressIsPaths DEF IsForm
  <2> HIDE DEF fresh
  <2>3. CASE view.mode = "create"
    <3>1. CallsWithin(CreateCalls(f, view.paths, fresh), CreatedResources(f, view.paths), Seq(Paths))
      BY <1>3, <1>4, <2>1, <2>2, CreateChain
    <3> QED BY <2>3, <3>1, CallsAre
  <2>4. CASE view.mode = "edit"
    <3>1. IsForm(view.saved) /\ Untouched(view.saved.ports)
      BY <1>2, <2>4 DEF IsView
    <3>2. CallsWithin(PatchCalls(view.saved, f, view.paths, fresh), Summary(view.saved, f, view.paths), Seq(Paths))
      BY <1>3, <1>4, <2>1, <2>2, <3>1, PatchChain
    <3> QED BY <2>4, <3>2, CallsAre
  <2> QED BY <1>2, <2>3, <2>4
<1> HIDE DEF calls, tries, form
<1>7. /\ DOMAIN view' = ViewFields /\ view'.form = form /\ view'.calls = calls /\ view'.status = "calling"
      /\ view'.mode = view.mode /\ view'.saved = view.saved /\ view'.paths = view.paths
  BY <1>1, <1>2 DEF IsView, ViewFields
<1>8. IsView(view')
  BY <1>2, <1>5, <1>6, <1>7 DEF IsView
<1>9. IsCluster(cluster')
  BY <1>2
<1> QED BY <1>8, <1>9 DEF Shape

LEMMA OpenListShape == Shape /\ OpenList => Shape'
<1> SUFFICES ASSUME Shape, OpenList PROVE Shape'
  OBVIOUS
<1> DEFINE calls == DeleteCalls(cluster)
<1>1. /\ cluster' = cluster
      /\ view' = [mode |-> "delete", status |-> "form", saved |-> None, form |-> None, paths |-> cluster.paths,
                  used |-> 0, calls |-> calls, before |-> cluster, tries |-> 0]
  BY DEF OpenList
<1>2. IsCluster(cluster) /\ cluster.paths \in Seq(Paths)
  BY DEF Shape, IsCluster
<1>3. IsSeq(calls) /\ \A i \in 1 .. Len(calls) : IsCall(calls[i])
  BY <1>2, DeleteChain, CallsAre
<1> HIDE DEF calls
<1>4. /\ DOMAIN view' = ViewFields /\ view'.mode = "delete" /\ view'.status = "form"
      /\ view'.paths = cluster.paths /\ view'.calls = calls
  BY <1>1 DEF ViewFields
<1>5. IsView(view')
  BY <1>2, <1>3, <1>4 DEF IsView
<1>6. IsCluster(cluster')
  BY <1>1, <1>2
<1> QED BY <1>5, <1>6 DEF Shape

\* The routes a deletion takes out, once the list of them was asked for
RoutesCalls(call) ==
  PatchIf("ingress.patch", cluster.paths,
          ToIngress(cluster.paths, [i \in DOMAIN call.new |-> [call.new[i] EXCEPT !.del = TRUE]], "self"))

LEMMA MarkedRows ==
  ASSUME NEW rows \in Seq(PortRow)
  PROVE  LET marked == [i \in DOMAIN rows |-> [rows[i] EXCEPT !.del = TRUE]]
         IN  /\ marked \in Seq(PortRow) /\ Len(marked) = Len(rows)
             /\ \A i \in 1 .. Len(rows) : /\ marked[i].del /\ marked[i].ingress = rows[i].ingress
                                          /\ marked[i].port = rows[i].port /\ marked[i].route = rows[i].route
                                          /\ marked[i].new = rows[i].new
<1> DEFINE marked == [i \in DOMAIN rows |-> [rows[i] EXCEPT !.del = TRUE]]
<1>1. IsSeq(rows) /\ DOMAIN rows = 1 .. Len(rows) /\ \A i \in 1 .. Len(rows) : rows[i] \in PortRow
  BY SeqIsSeq, SeqFacts
<1>2. ASSUME NEW i \in 1 .. Len(rows)
      PROVE  /\ marked[i] \in PortRow /\ marked[i].del /\ marked[i].ingress = rows[i].ingress
             /\ marked[i].port = rows[i].port /\ marked[i].route = rows[i].route /\ marked[i].new = rows[i].new
  <2> DEFINE r == [rows[i] EXCEPT !.del = TRUE]
  <2>1. marked[i] = r
    BY <1>1
  <2>2. /\ r \in PortRow /\ r.del /\ r.ingress = rows[i].ingress
        /\ r.port = rows[i].port /\ r.route = rows[i].route /\ r.new = rows[i].new
    BY <1>1 DEF PortRow
  <2> QED BY <2>1, <2>2
<1>3. marked = [i \in DOMAIN rows |-> marked[i]]
  OBVIOUS
<1> HIDE DEF marked
<1>4. marked \in Seq(PortRow)
  BY <1>1, <1>2, <1>3, MappedWithin
<1>5. Len(marked) = Len(rows)
  BY <1>1, <1>3, MappedSeq
<1> QED BY <1>2, <1>4, <1>5 DEF marked

LEMMA RoutesCallsAre ==
  ASSUME IsCluster(cluster), NEW call, IsCall(call), call.op = "ingress.get", NEW K, "ingress" \in K, NEW P,
         cluster.paths \in P,
         ToIngress(cluster.paths, [i \in DOMAIN call.new |-> [call.new[i] EXCEPT !.del = TRUE]], "self") \in P
  PROVE  CallsWithin(RoutesCalls(call), K, P)
<1> DEFINE marked == [i \in DOMAIN call.new |-> [call.new[i] EXCEPT !.del = TRUE]]
           after  == ToIngress(cluster.paths, marked, "self")
           paths  == cluster.paths
<1>1. paths \in Seq(Paths) /\ marked \in Seq(PortRow)
  BY MarkedRows DEF IsCall, IsCluster
<1>2. after \in Seq(Paths) /\ paths \in P /\ after \in P
  BY <1>1, IngressIsPaths
<1>3. RoutesCalls(call) = PatchIf("ingress.patch", paths, after)
  BY DEF RoutesCalls
<1>4. Tells(K, "ingress.patch")
  BY DEF Tells
<1> HIDE DEF after, paths
<1>5. IsCall(Call("ingress.patch", paths, after))
  BY <1>1, <1>2, CallFields DEF IsCall
<1>6. CallsWithin(PatchIf("ingress.patch", paths, after), K, P)
  BY <1>2, <1>4, <1>5, PatchCall
<1> QED BY <1>3, <1>6

LEMMA RoutesCallsSeq ==
  ASSUME IsCluster(cluster), NEW call, IsCall(call), call.op = "ingress.get", NEW K, "ingress" \in K
  PROVE  CallsWithin(RoutesCalls(call), K, Seq(Paths))
<1> DEFINE marked == [i \in DOMAIN call.new |-> [call.new[i] EXCEPT !.del = TRUE]]
<1>1. cluster.paths \in Seq(Paths) /\ marked \in Seq(PortRow)
  BY MarkedRows DEF IsCall, IsCluster
<1>2. ToIngress(cluster.paths, marked, "self") \in Seq(Paths)
  BY <1>1, IngressIsPaths
<1> QED BY <1>1, <1>2, RoutesCallsAre

\* What the next call may come to
CallDone(call) ==
  /\ Applies(call) /\ cluster' = Effect(call) /\ faults' = faults
  /\ view' = [view EXCEPT !.calls = IF call.op = "ingress.get" THEN RoutesCalls(call) \o Tail(@) ELSE Tail(@)]

CallFailed(call) ==
  /\ cluster' = cluster \/ (Applies(call) /\ cluster' = Effect(call))
  /\ view' = [view EXCEPT !.calls = <<>>, !.status = IF view.mode = "delete" THEN "failed" ELSE "form"]

LEMMA NextCallCases ==
  ASSUME NextCall
  PROVE  /\ view.status = "calling" /\ view.calls # <<>>
         /\ UNCHANGED <<meddled, views, changes, rwx, headlessFirst>>
         /\ CallDone(Head(view.calls)) \/ CallFailed(Head(view.calls))
BY DEF NextCall, CallDone, CallFailed, RoutesCalls

LEMMA NextCallShape == Shape /\ NextCall => Shape'
<1> SUFFICES ASSUME Shape, NextCall PROVE Shape'
  OBVIOUS
<1> DEFINE call == Head(view.calls)
           rest == Tail(view.calls)
<1>1. IsView(view) /\ IsCluster(cluster) /\ view.status = "calling" /\ view.calls # <<>>
  BY NextCallCases, OpenViews DEF Shape
<1>2. CallsWithin(view.calls, WithReading, Seq(Paths))
  <2>1. \A op : Tells(WithReading, op)
    BY DEF Tells, WithReading, Resources
  <2>2. \A c : IsCall(c) /\ c.op = "ingress.patch" => c.old \in Seq(Paths) /\ c.new \in Seq(Paths)
    BY DEF IsCall
  <2> QED BY <1>1, <2>1, <2>2 DEF CallsWithin, IsView
<1>3. CallsWithin(rest, WithReading, Seq(Paths)) /\ IsCall(call)
  BY <1>1, <1>2, RestOfCalls
<1>4. CallDone(call) \/ CallFailed(call)
  BY NextCallCases
<1> HIDE DEF call, rest
<1>5. IsCluster(cluster')
  BY <1>1, <1>3, <1>4, EffectIsCluster DEF CallDone, CallFailed
<1>6. CASE CallDone(call)
  <2> DEFINE calls == IF call.op = "ingress.get" THEN RoutesCalls(call) \o rest ELSE rest
  <2>1. view' = [view EXCEPT !.calls = calls]
    BY <1>6 DEF CallDone, rest
  <2>2. CallsWithin(calls, WithReading, Seq(Paths))
    BY <1>1, <1>3, RoutesCallsSeq, MoreCalls DEF WithReading, Resources
  <2> HIDE DEF calls
  <2>3. IsSeq(calls) /\ \A i \in 1 .. Len(calls) : IsCall(calls[i])
    BY <2>2, CallsAre
  <2>4. /\ DOMAIN view' = ViewFields /\ view'.calls = calls
        /\ \A x \in ViewFields \ {"calls"} : view'[x] = view[x]
    BY <1>1, <2>1 DEF IsView, ViewFields
  <2>5. IsView(view')
    BY <1>1, <2>3, <2>4 DEF IsView, ViewFields
  <2> QED BY <1>5, <2>5 DEF Shape
<1>7. CASE CallFailed(call)
  <2>1. /\ DOMAIN view' = ViewFields /\ view'.calls = <<>> /\ view'.status \in {"form", "failed"}
        /\ \A x \in ViewFields \ {"calls", "status"} : view'[x] = view[x]
    BY <1>1, <1>7 DEF IsView, ViewFields, CallFailed
  <2>2. IsSeq(<<>>) /\ Len(<<>>) = 0
    BY EmptyFacts
  <2>3. IsView(view')
    BY <1>1, <2>1, <2>2 DEF IsView, ViewFields
  <2> QED BY <1>5, <2>3 DEF Shape
<1> QED BY <1>4, <1>6, <1>7

LEMMA StatusShape == Shape /\ (ConfirmDelete \/ Finish \/ Leave) => Shape'
<1> SUFFICES ASSUME Shape, ConfirmDelete \/ Finish \/ Leave PROVE Shape'
  OBVIOUS
<1>1. IsView(view) /\ IsCluster(cluster) /\ cluster' = cluster
  BY OpenViews DEF ConfirmDelete, Finish, Leave, Shape
<1>2. CASE ConfirmDelete \/ Finish
  <2>1. /\ DOMAIN view' = ViewFields /\ view'.status \in {"calling", "done"}
        /\ \A x \in ViewFields \ {"status"} : view'[x] = view[x]
    BY <1>1, <1>2 DEF IsView, ViewFields, ConfirmDelete, Finish
  <2>2. IsView(view')
    BY <1>1, <2>1 DEF IsView, ViewFields
  <2>3. IsCluster(cluster')
    BY <1>1
  <2> QED BY <2>2, <2>3 DEF Shape
<1>3. CASE Leave
  BY <1>1, <1>3 DEF Leave, Shape, Closed
<1> QED BY <1>2, <1>3

LEMMA MeddleShape == Shape /\ Meddle => Shape'
<1> SUFFICES ASSUME Shape, Meddle PROVE Shape'
  OBVIOUS
<1>0. /\ DOMAIN cluster = ClusterFields /\ (cluster.app = None \/ IsApp(cluster.app))
      /\ cluster.service = None \/ IsService(cluster.service)
      /\ cluster.paths \in Seq(Paths) /\ view' = view
  BY DEF Shape, IsCluster, ClusterFields, Meddle
<1>1. CASE cluster.app # None /\ cluster' = [cluster EXCEPT !.app.env = Append(@, 2)]
  <2> DEFINE env == Append(cluster.app.env, 2)
             app == [cluster.app EXCEPT !.env = env]
  <2>1. cluster.app.env \in Seq(1 .. 2)
    BY <1>0, <1>1 DEF IsApp
  <2>2. env \in Seq(1 .. 2)
    BY <2>1
  <2>3. cluster' = [cluster EXCEPT !.app = app]
    BY <1>0, <1>1
  <2> HIDE DEF env
  <2>4. IsApp(app)
    BY <1>0, <1>1, <2>2 DEF IsApp
  <2> HIDE DEF app
  <2>5. /\ DOMAIN cluster' = ClusterFields /\ cluster'.app = app /\ cluster'.service = cluster.service
        /\ cluster'.paths = cluster.paths
    BY <1>0, <2>3 DEF ClusterFields
  <2>6. IsCluster(cluster')
    BY <1>0, <2>4, <2>5 DEF IsCluster, ClusterFields
  <2> QED BY <1>0, <2>6 DEF Shape
<1>2. ASSUME NEW paths \in Seq(Paths), cluster' = [cluster EXCEPT !.paths = paths] PROVE Shape'
  <2>1. /\ DOMAIN cluster' = ClusterFields /\ cluster'.app = cluster.app /\ cluster'.service = cluster.service
        /\ cluster'.paths = paths
    BY <1>0, <1>2 DEF ClusterFields
  <2>2. IsCluster(cluster')
    BY <1>0, <2>1 DEF IsCluster, ClusterFields
  <2> QED BY <1>0, <2>2 DEF Shape
<1>3. CASE \E i \in DOMAIN cluster.paths : cluster' = [cluster EXCEPT !.paths = RemoveAt(@, i)]
  <2>1. PICK i \in DOMAIN cluster.paths : cluster' = [cluster EXCEPT !.paths = RemoveAt(@, i)]
    BY <1>3
  <2>2. i \in 1 .. Len(cluster.paths) /\ Shaped(cluster.paths, Paths, Paths)
    BY <1>0, SeqIsSeq, SeqFacts DEF Shaped
  <2>3. Shaped(RemoveAt(cluster.paths, i), Paths, Paths)
    BY <2>2, RemoveAtFacts
  <2>4. RemoveAt(cluster.paths, i) \in Seq(Paths)
    BY <2>3, SeqFrom DEF Shaped
  <2> QED BY <1>2, <2>1, <2>4
<1>4. CASE cluster' = [cluster EXCEPT !.paths = Append(@, Route("other", 2, 3))]
  <2>1. Route("other", 2, 3) \in Paths
    BY DEF Route, Paths
  <2>2. Append(cluster.paths, Route("other", 2, 3)) \in Seq(Paths)
    BY <1>0, <2>1
  <2> QED BY <1>2, <1>4, <2>2
<1> QED BY <1>1, <1>3, <1>4 DEF Meddle

\* Shape is an inductive invariant: whatever the calls of a chain, in whatever state
\* they find the cluster, they leave resources, forms and chains of the right shape
\* (applicationService.js and the converters).
THEOREM ShapeInvariance == KubeSpec => []Shape
<1>1. ApplicationsInit => Shape
  BY ShapeInit
<1>2. Shape /\ [ApplicationsNext]_kubeVars => Shape'
  <2> SUFFICES ASSUME Shape, [ApplicationsNext]_kubeVars PROVE Shape'
    OBVIOUS
  <2>1. CASE ApplicationsNext
    BY <2>1, OpenCreateShape, OpenEditShape, ChangeShape, SubmitShape, OpenListShape, NextCallShape, StatusShape, MeddleShape
       DEF ApplicationsNext
  <2>2. CASE UNCHANGED kubeVars
    BY <2>2 DEF kubeVars, Shape
  <2> QED BY <2>1, <2>2
<1> QED BY <1>1, <1>2, PTL DEF KubeSpec

\* Type correctness: the resources of the cluster are of the right shape, and the view in
\* a known state (applicationService.js, the converters of app/kubernetes).
THEOREM TypeCorrect == KubeSpec => []TypeOK
<1>1. Shape => TypeOK
  <2> SUFFICES ASSUME Shape PROVE TypeOK
    OBVIOUS
  <2>1. view.status \in {"closed", "form", "calling", "done", "failed"}
    BY DEF Shape, IsView, Closed
  <2>2. cluster.app = None \/ (cluster.app.kind \in {"Deployment", "StatefulSet", "DaemonSet"} /\ cluster.app.env \in Seq(1 .. 2))
    BY DEF Shape, IsCluster, IsApp, Kinds
  <2>3. cluster.service = None \/ (cluster.service.type \in {"NodePort", "ClusterIP"} /\ cluster.service.ports # <<>>)
    BY DEF Shape, IsCluster, IsService
  <2>4. \A i \in DOMAIN cluster.paths : cluster.paths[i].svc \in {"self", "other"}
    <3>1. cluster.paths \in Seq(Paths)
      BY DEF Shape, IsCluster
    <3>2. \A i \in DOMAIN cluster.paths : cluster.paths[i] \in Paths
      BY <3>1
    <3> QED BY <3>2 DEF Paths
  <2> QED BY <2>1, <2>2, <2>3, <2>4 DEF TypeOK
<1> QED BY <1>1, ShapeInvariance, PTL

-----------------------------------------------------------------------------
(* The summary tells what happens.                                         *)

LEMMA ChangedIs ==
  /\ Changed \subseteq Resources
  /\ "app" \in Changed => cluster.app # view.before.app
  /\ "service" \in Changed => cluster.service # view.before.service
  /\ "headless" \in Changed => cluster.headless /\ ~view.before.headless
  /\ "scaler" \in Changed => cluster.scaler # view.before.scaler
  /\ "ingress" \in Changed => cluster.paths # view.before.paths
  /\ "claims" \in Changed => KindOf(view.form) # "StatefulSet" /\ cluster.claims # view.before.claims
BY DEF Changed, Resources

LEMMA ChangedHas ==
  /\ cluster.app # view.before.app => "app" \in Changed
  /\ cluster.service # view.before.service => "service" \in Changed
  /\ cluster.headless /\ ~view.before.headless => "headless" \in Changed
  /\ cluster.scaler # view.before.scaler => "scaler" \in Changed
  /\ cluster.paths # view.before.paths => "ingress" \in Changed
  /\ KindOf(view.form) # "StatefulSet" /\ cluster.claims # view.before.claims => "claims" \in Changed
BY DEF Changed

LEMMA ChangedNext ==
  /\ Changed' \subseteq Resources
  /\ "app" \in Changed' => cluster'.app # view'.before.app
  /\ "service" \in Changed' => cluster'.service # view'.before.service
  /\ "headless" \in Changed' => cluster'.headless /\ ~view'.before.headless
  /\ "scaler" \in Changed' => cluster'.scaler # view'.before.scaler
  /\ "ingress" \in Changed' => cluster'.paths # view'.before.paths
  /\ "claims" \in Changed' => KindOf(view'.form) # "StatefulSet" /\ cluster'.claims # view'.before.claims
BY DEF Changed, Resources

\* Taking the rows marked for deletion out of a form changes nothing of what it stands for.
LEMMA SummarySame ==
  ASSUME NEW f, IsForm(f), NEW saved, NEW paths
  PROVE  Summary(saved, Converted(f), paths) = Summary(saved, f, paths)
<1> DEFINE k == Converted(f)
<1>1. /\ KindOf(k) = KindOf(f) /\ Claims(k, 0) = Claims(f, 0)
      /\ \A x \in FormFields \ {"env", "folders"} : k[x] = f[x]
  BY KindFacts
<1> HIDE DEF k
<1>2. /\ k.ports = f.ports /\ k.publishing = f.publishing /\ k.scaler = f.scaler /\ k.deployment = f.deployment
      /\ k.maxReplicas = f.maxReplicas
  BY <1>1 DEF FormFields
<1>3. ToService(k) = ToService(f)
  BY <1>2 DEF ToService, PublishedPorts
<1>4. ScalerOf(k) = ScalerOf(f)
  BY <1>1, <1>2 DEF ScalerOf
<1>5. CreatedResources(k, paths) = CreatedResources(f, paths)
  BY <1>1, <1>2, <1>3 DEF CreatedResources
<1>6. Summary(saved, k, paths) = Summary(saved, f, paths)
  BY <1>1, <1>2, <1>3, <1>4, <1>5 DEF Summary
<1> QED BY <1>6 DEF k

Announced == Summary(view.saved, view.form, view.paths)

\* While an update runs and once it is done, what has changed and what is still to be
\* called is in the summary.
Told ==
  view.status \in {"calling", "done"} /\ view.mode \in {"create", "edit"} /\ ~meddled
    => /\ Changed \subseteq Announced
       /\ CallsWithin(view.calls, Announced, Seq(Paths))

LEMMA SubmitTold == Shape /\ Submit => Told'
<1> SUFFICES ASSUME Shape, Submit PROVE Told'
  OBVIOUS
<1> DEFINE fresh == IF cluster.claims = {} THEN 0 ELSE Max(cluster.claims)
           f     == view.form
           K     == Summary(view.saved, f, view.paths)
           calls == IF view.mode = "create" THEN CreateCalls(f, view.paths, fresh)
                    ELSE PatchCalls(view.saved, f, view.paths, fresh)
           tries == view.tries + 1
           form  == Converted(f)
<1>1. view' = [view EXCEPT !.status = "calling", !.before = cluster, !.tries = tries, !.form = form, !.calls = calls]
  BY DEF Submit
<1>2. IsView(view) /\ IsCluster(cluster) /\ view.mode \in {"create", "edit"} /\ cluster' = cluster
  BY OpenViews DEF Submit, Shape
<1>3. IsForm(f) /\ view.paths \in Seq(Paths)
  BY <1>2 DEF IsView
<1>4. KindOf(f) \in Kinds
  BY <1>3, KindFacts DEF Submit, Disabled, IsDeployUpdateButtonDisabled
<1>5. CallsWithin(calls, K, Seq(Paths))
  <2>1. ToIngress(view.paths, f.ports, "self") \in Seq(Paths)
    BY <1>3, IngressIsPaths DEF IsForm
  <2> HIDE DEF fresh, f
  <2>2. CASE view.mode = "create"
    <3>1. K = CreatedResources(f, view.paths)
      BY <1>2, <2>2 DEF IsView, Summary
    <3>2. CallsWithin(CreateCalls(f, view.paths, fresh), CreatedResources(f, view.paths), Seq(Paths))
      BY <1>3, <1>4, <2>1, CreateChain
    <3> QED BY <2>2, <3>1, <3>2
  <2>3. CASE view.mode = "edit"
    <3>1. IsForm(view.saved) /\ Untouched(view.saved.ports)
      BY <1>2, <2>3 DEF IsView
    <3>2. CallsWithin(PatchCalls(view.saved, f, view.paths, fresh), K, Seq(Paths))
      BY <1>3, <1>4, <2>1, <3>1, PatchChain
    <3> QED BY <2>3, <3>2
  <2> QED BY <1>2, <2>2, <2>3
<1>6. Summary(view.saved, form, view.paths) = K
  BY <1>3, SummarySame
<1> HIDE DEF calls, tries, form, K
<1>7. /\ view'.form = form /\ view'.calls = calls /\ view'.before = cluster
      /\ view'.saved = view.saved /\ view'.paths = view.paths
  BY <1>1, <1>2 DEF IsView, ViewFields
<1>8. Announced' = K
  BY <1>6, <1>7 DEF Announced
<1>9. Changed' = {}
  <2>1. Changed' \subseteq Resources /\ \A x \in Resources : x \notin Changed'
    BY <1>2, <1>7, ChangedNext DEF Resources
  <2> QED BY <2>1
<1> QED BY <1>5, <1>7, <1>8, <1>9 DEF Told

LEMMA NextCallTold == Shape /\ Told /\ NextCall => Told'
<1> SUFFICES ASSUME Shape, Told, NextCall PROVE Told'
  OBVIOUS
<1> DEFINE call == Head(view.calls)
           rest == Tail(view.calls)
           K    == Announced
<1>1. IsView(view) /\ IsCluster(cluster) /\ view.status = "calling" /\ view.calls # <<>> /\ meddled' = meddled
  BY NextCallCases, OpenViews DEF Shape
<1>2. CallDone(call) \/ CallFailed(call)
  BY NextCallCases
<1>3. CASE CallDone(call)
  <2> DEFINE calls == IF call.op = "ingress.get" THEN RoutesCalls(call) \o rest ELSE rest
  <2>1. view' = [view EXCEPT !.calls = calls]
    BY <1>3 DEF CallDone
  <2> SUFFICES ASSUME view.mode \in {"create", "edit"}, ~meddled
               PROVE  Changed' \subseteq K /\ CallsWithin(calls, K, Seq(Paths))
    <3> HIDE DEF calls
    <3>1. /\ view'.calls = calls /\ \A x \in ViewFields \ {"calls"} : view'[x] = view[x]
      BY <1>1, <2>1 DEF IsView, ViewFields
    <3>2. view'.mode = view.mode /\ Announced' = Announced
      BY <3>1 DEF ViewFields, Announced
    <3> QED BY <1>1, <3>1, <3>2 DEF Told
  <2>2. Changed \subseteq K /\ CallsWithin(view.calls, K, Seq(Paths))
    BY <1>1 DEF Told
  <2> HIDE DEF K, call, rest
  <2>3. CallsWithin(rest, K, Seq(Paths)) /\ IsCall(call) /\ Tells(K, call.op)
    BY <1>1, <2>2, RestOfCalls DEF call, rest
  <2>4. CallsWithin(calls, K, Seq(Paths))
    <3>1. CASE call.op = "ingress.get"
      <4>1. CallsWithin(RoutesCalls(call), K, Seq(Paths))
        BY <1>1, <2>3, <3>1, RoutesCallsSeq DEF Tells
      <4> QED BY <2>3, <3>1, <4>1, MoreCalls
    <3>2. CASE call.op # "ingress.get"
      BY <2>3, <3>2
    <3> QED BY <3>1, <3>2
  <2>5. Changed' \subseteq K
    <3> HIDE DEF calls
    <3>1. /\ DOMAIN cluster = ClusterFields /\ cluster' = Effect(call)
      BY <1>1, <1>3 DEF IsCluster, ClusterFields, CallDone
    <3>2. view'.before = view.before /\ view'.form = view.form
      BY <1>1, <2>1 DEF IsView, ViewFields
    <3> DEFINE op == call.op
    <3>3. /\ cluster'.app # cluster.app => op \in {"app.create", "app.patch", "app.delete"}
          /\ cluster'.service # cluster.service => op \in {"service.create", "service.patch", "service.delete"}
          /\ cluster'.headless /\ ~cluster.headless => op = "headless.create"
          /\ cluster'.scaler # cluster.scaler => op \in {"scaler.create", "scaler.patch", "scaler.delete"}
          /\ cluster'.paths # cluster.paths => op = "ingress.patch"
          /\ cluster'.claims # cluster.claims => op = "claims.create"
      BY <3>1, EffectFacts
    <3>4. \A x \in Resources : x \in Changed' => x \in K
      BY <2>2, <2>3, <3>2, <3>3, ChangedNext, ChangedHas DEF Resources, Tells
    <3> QED BY <3>4, ChangedNext
  <2> QED BY <2>4, <2>5
<1>4. CASE CallFailed(call)
  <2>1. view'.status \in {"form", "failed"}
    BY <1>1, <1>4 DEF IsView, ViewFields, CallFailed
  <2> QED BY <2>1 DEF Told
<1> QED BY <1>2, <1>3, <1>4

LEMMA OthersTold ==
  Shape /\ Told /\ (OpenCreate \/ OpenEdit \/ Change \/ OpenList \/ ConfirmDelete \/ Finish \/ Leave \/ Meddle) => Told'
<1> SUFFICES ASSUME Shape, Told, OpenCreate \/ OpenEdit \/ Change \/ OpenList \/ ConfirmDelete \/ Finish \/ Leave \/ Meddle
             PROVE  Told'
  OBVIOUS
<1>1. CASE OpenCreate \/ OpenEdit \/ OpenList \/ Leave
  <2>1. OpenCreate => view'.status = "form"
    BY DEF OpenCreate
  <2>2. OpenEdit => view'.status = "form"
    BY DEF OpenEdit
  <2>3. OpenList => view'.status = "form"
    BY DEF OpenList
  <2>4. Leave => view'.status = "closed"
    BY DEF Leave, Closed
  <2> QED BY <1>1, <2>1, <2>2, <2>3, <2>4 DEF Told
<1>2. CASE Change
  <2>1. IsView(view) /\ view.status = "form"
    BY <1>2, OpenViews DEF Change
  <2>2. view'.status = "form"
    BY <1>2, <2>1 DEF Change, IsView, ViewFields
  <2> QED BY <2>2 DEF Told
<1>3. CASE ConfirmDelete
  <2>1. IsView(view) /\ view.mode = "delete"
    BY <1>3, OpenViews DEF ConfirmDelete
  <2>2. view'.mode = "delete"
    BY <1>3, <2>1 DEF ConfirmDelete, IsView, ViewFields
  <2> QED BY <2>2 DEF Told
<1>4. CASE Finish
  <2>1. IsView(view) /\ view.status = "calling" /\ cluster' = cluster /\ meddled' = meddled
    BY <1>4, OpenViews DEF Finish
  <2>2. \A x \in ViewFields \ {"status"} : view'[x] = view[x]
    BY <1>4, <2>1 DEF Finish, IsView, ViewFields
  <2>3. /\ view'.before = view.before /\ view'.form = view.form /\ view'.saved = view.saved
        /\ view'.paths = view.paths /\ view'.calls = view.calls /\ view'.mode = view.mode
    BY <2>2 DEF ViewFields
  <2>4. Announced' = Announced /\ Changed' = Changed
    BY <2>1, <2>3 DEF Announced, Changed
  <2> QED BY <2>1, <2>3, <2>4 DEF Told
<1>5. CASE Meddle
  BY <1>5 DEF Meddle, Told
<1> QED BY <1>1, <1>2, <1>3, <1>4, <1>5

\* The summary under the form names every resource that a deployment or an update has
\* created, changed or removed, although it follows the path of the service by itself
\* (summary/resources/applicationResources.js, applicationService.js).
THEOREM SummaryIsTrue == KubeSpec => []SummaryTells
<1>1. ApplicationsInit => Told
  BY DEF ApplicationsInit, Told, Closed
<1>2. Shape /\ Told /\ [ApplicationsNext]_kubeVars => Told'
  <2> SUFFICES ASSUME Shape, Told, [ApplicationsNext]_kubeVars PROVE Told'
    OBVIOUS
  <2>1. CASE ApplicationsNext
    BY <2>1, SubmitTold, NextCallTold, OthersTold DEF ApplicationsNext
  <2>2. CASE UNCHANGED kubeVars
    BY <2>2 DEF kubeVars, Told, Announced, Changed
  <2> QED BY <2>1, <2>2
<1>3. Told => SummaryTells
  BY DEF Told, SummaryTells, Done, Announced
<1> QED BY <1>1, <1>2, <1>3, ShapeInvariance, PTL DEF KubeSpec

-----------------------------------------------------------------------------
(* A deletion leaves nothing behind.                                       *)

IngressOps == {"ingress.get", "ingress.patch"}

NoIngress(s) == \A c \in ToSet(s) : c.op \notin IngressOps

\* At most one call of a chain is about the routes.
OneIngress(s) == \A i, j \in 1 .. Len(s) : i < j /\ s[i].op \in IngressOps => s[j].op \notin IngressOps

LEMMA ShortChains ==
  ASSUME NEW c
  PROVE  /\ NoIngress(<<>>) /\ OneIngress(<<>>) /\ IsSeq(<<c>>) /\ ToSet(<<c>>) = {c} /\ OneIngress(<<c>>)
         /\ c.op \notin IngressOps => NoIngress(<<c>>)
<1>1. <<c>> \in Seq({c}) /\ Len(<<c>>) = 1 /\ <<c>>[1] = c
  OBVIOUS
<1> DEFINE s == <<c>>
<1> HIDE DEF s
<1>2. IsSeq(s) /\ Len(s) = 1 /\ s[1] = c
  BY <1>1 DEF IsSeq, s
<1>3. \A i \in 1 .. Len(s) : i = 1
  BY <1>2
<1>4. \A e : e \in ToSet(s) <=> e = c
  BY <1>2, <1>3, ToSetFacts
<1>5. ToSet(s) = {c}
  BY <1>4
<1>6. OneIngress(s)
  BY <1>3 DEF OneIngress
<1>7. c.op \notin IngressOps => NoIngress(s)
  BY <1>4 DEF NoIngress
<1>8. NoIngress(<<>>) /\ OneIngress(<<>>)
  BY EmptyFacts DEF NoIngress, OneIngress
<1> QED BY <1>2, <1>5, <1>6, <1>7, <1>8 DEF s

LEMMA LongChains ==
  ASSUME NEW s, IsSeq(s), NEW t, IsSeq(t)
  PROVE  /\ NoIngress(s) /\ NoIngress(t) => NoIngress(s \o t)
         /\ (NoIngress(s) /\ OneIngress(t)) \/ (OneIngress(s) /\ NoIngress(t)) => OneIngress(s \o t)
<1> DEFINE u == s \o t
<1>1. /\ Len(u) = Len(s) + Len(t) /\ ToSet(u) = ToSet(s) \cup ToSet(t)
      /\ \A i \in 1 .. Len(s) : u[i] = s[i]
      /\ \A i \in 1 .. Len(t) : u[Len(s) + i] = t[i]
  BY ConcatFacts
<1>2. Len(s) \in Nat /\ Len(t) \in Nat
  BY SeqFacts
<1> HIDE DEF u
<1>3. NoIngress(s) /\ NoIngress(t) => NoIngress(u)
  BY <1>1 DEF NoIngress
<1>4. ASSUME (NoIngress(s) /\ OneIngress(t)) \/ (OneIngress(s) /\ NoIngress(t)) PROVE OneIngress(u)
  <2> SUFFICES ASSUME NEW i \in 1 .. Len(u), NEW j \in 1 .. Len(u), i < j, u[i].op \in IngressOps
               PROVE  u[j].op \notin IngressOps
    BY DEF OneIngress
  <2> DEFINE k == i - Len(s)
             l == j - Len(s)
  <2>1. /\ i \in 1 .. Len(s) \/ (k \in 1 .. Len(t) /\ i = Len(s) + k)
        /\ j \in 1 .. Len(s) \/ (l \in 1 .. Len(t) /\ j = Len(s) + l /\ (k \in 1 .. Len(t) => k < l))
        /\ j \in 1 .. Len(s) => i \in 1 .. Len(s)
    BY <1>1, <1>2
  <2> HIDE DEF k, l
  <2>2. /\ NoIngress(s) => \A m \in 1 .. Len(s) : s[m].op \notin IngressOps
        /\ NoIngress(t) => \A m \in 1 .. Len(t) : t[m].op \notin IngressOps
    BY ToSetFacts DEF NoIngress
  <2>3. CASE j \in 1 .. Len(s)
    BY <1>1, <1>4, <2>1, <2>2, <2>3 DEF OneIngress
  <2>4. CASE j \notin 1 .. Len(s) /\ i \in 1 .. Len(s)
    BY <1>1, <1>4, <2>1, <2>2, <2>4 DEF OneIngress
  <2>5. CASE j \notin 1 .. Len(s) /\ i \notin 1 .. Len(s)
    BY <1>1, <1>4, <2>1, <2>2, <2>5 DEF OneIngress
  <2> QED BY <2>3, <2>4, <2>5
<1> QED BY <1>3, <1>4 DEF u

LEMMA HeadAndTail ==
  ASSUME NEW s, IsSeq(s), s # <<>>
  PROVE  /\ IsSeq(Tail(s)) /\ ToSet(s) = {Head(s)} \cup ToSet(Tail(s))
         /\ OneIngress(s) => OneIngress(Tail(s)) /\ (Head(s).op \in IngressOps => NoIngress(Tail(s)))
<1>1. PICK S : s \in Seq(S)
  BY DEF IsSeq
<1>2. Len(s) \in Nat /\ Len(s) # 0
  BY SeqFacts
<1> DEFINE t == Tail(s)
<1>3. t \in Seq(S) /\ Len(t) = Len(s) - 1 /\ (\A i \in 1 .. Len(t) : t[i] = s[i + 1]) /\ Head(s) = s[1]
  BY <1>1, <1>2
<1> HIDE DEF t
<1>4. IsSeq(t)
  BY <1>3 DEF IsSeq
<1>5. /\ 1 \in 1 .. Len(s)
      /\ \A i \in 1 .. Len(t) : i + 1 \in 1 .. Len(s) /\ 1 < i + 1
      /\ \A i \in 1 .. Len(s) : i = 1 \/ (i - 1 \in 1 .. Len(t) /\ s[i] = t[i - 1])
  BY <1>2, <1>3
<1>6. ASSUME NEW e PROVE e \in ToSet(s) <=> e = s[1] \/ e \in ToSet(t)
  <2>1. e \in ToSet(s) <=> \E i \in 1 .. Len(s) : s[i] = e
    BY ToSetFacts
  <2>2. e \in ToSet(t) <=> \E i \in 1 .. Len(t) : t[i] = e
    BY <1>4, ToSetFacts
  <2>3. e \in ToSet(s) => e = s[1] \/ e \in ToSet(t)
    BY <1>5, <2>1, <2>2
  <2>4. e \in ToSet(t) => e \in ToSet(s)
    BY <1>3, <1>5, <2>1, <2>2
  <2> QED BY <1>5, <2>1, <2>3, <2>4
<1>7. ToSet(s) = {s[1]} \cup ToSet(t)
  BY <1>6
<1>8. ASSUME OneIngress(s) PROVE OneIngress(t) /\ (s[1].op \in IngressOps => NoIngress(t))
  <2>1. OneIngress(t)
    <3> SUFFICES ASSUME NEW i \in 1 .. Len(t), NEW j \in 1 .. Len(t), i < j, t[i].op \in IngressOps
                 PROVE  t[j].op \notin IngressOps
      BY DEF OneIngress
    <3>1. i + 1 \in 1 .. Len(s) /\ j + 1 \in 1 .. Len(s) /\ i + 1 < j + 1
      BY <1>5
    <3> QED BY <1>3, <1>8, <3>1 DEF OneIngress
  <2>2. s[1].op \in IngressOps => \A i \in 1 .. Len(t) : t[i].op \notin IngressOps
    BY <1>3, <1>5, <1>8 DEF OneIngress
  <2> QED BY <1>4, <2>1, <2>2, ToSetFacts DEF NoIngress
<1> QED BY <1>3, <1>4, <1>7, <1>8 DEF t

LEMMA OwnIs ==
  ASSUME NEW paths \in Seq(Paths), NEW r
  PROVE  /\ r \in Own(paths) <=> r \in ToSet(paths) /\ r.svc = "self"
         /\ r \in ToSet(paths) => r \in Paths /\ r = Route(r.svc, r.port, r.route)
<1>1. IsSeq(paths) /\ DOMAIN paths = 1 .. Len(paths) /\ \A p \in ToSet(paths) : p \in Paths
  BY SeqIsSeq, SeqFacts
<1>2. r \in Own(paths) <=> \E i \in 1 .. Len(paths) : paths[i] = r /\ r.svc = "self"
  BY <1>1 DEF Own
<1>3. r \in ToSet(paths) <=> \E i \in 1 .. Len(paths) : paths[i] = r
  BY <1>1, ToSetFacts
<1>4. r \in Paths => r = Route(r.svc, r.port, r.route)
  BY DEF Paths, Route
<1> QED BY <1>1, <1>2, <1>3, <1>4

\* No route of the application goes to a port of the service.
RoutesGone(service, paths) == service # None => \A r \in Own(paths) : r.port \notin ToSet(service.ports)

LEMMA RowsCoverRoutes ==
  ASSUME NEW service, service # None, service.ports \in Seq(Nat), NEW paths \in Seq(Paths), NEW r \in Own(paths),
         r.port \in ToSet(service.ports)
  PROVE  LET rows == PortRows(service, paths, "self")
         IN  \E i \in 1 .. Len(rows) : rows[i].ingress /\ RouteOf("self", rows[i]) = r
<1> DEFINE rows == PortRows(service, paths, "self")
<1>1. IsSeq(service.ports) /\ IsSeq(paths)
  BY SeqIsSeq
<1>2. r \in ToSet(paths) /\ r.svc = "self" /\ r = Route(r.svc, r.port, r.route)
  BY OwnIs
<1>3. IsSeq(rows) /\ \E x \in ToSet(rows) : x.ingress /\ x.port = r.port /\ x.route = r.route
  BY <1>1, <1>2, PortRowsFacts
<1> HIDE DEF rows
<1>4. PICK x \in ToSet(rows) : x.ingress /\ x.port = r.port /\ x.route = r.route
  BY <1>3
<1>5. PICK i \in 1 .. Len(rows) : rows[i] = x
  BY <1>3, ToSetFacts
<1>6. RouteOf("self", rows[i]) = r
  BY <1>2, <1>4, <1>5 DEF RouteOf
<1> QED BY <1>4, <1>5, <1>6 DEF rows

\* Marked for deletion, the rows of a service take its routes out.
LEMMA MarkedRowsClear ==
  ASSUME NEW service, service # None, service.ports \in Seq(Nat), NEW paths \in Seq(Paths)
  PROVE  LET rows   == PortRows(service, paths, "self")
             marked == [i \in DOMAIN rows |-> [rows[i] EXCEPT !.del = TRUE]]
         IN  RoutesGone(service, ToIngress(paths, marked, "self"))
<1> DEFINE rows   == PortRows(service, paths, "self")
           marked == [i \in DOMAIN rows |-> [rows[i] EXCEPT !.del = TRUE]]
           after  == ToIngress(paths, marked, "self")
<1>1. rows \in Seq(PortRow)
  BY SavedRows
<1> DEFINE m == marked
<1>2. /\ m \in Seq(PortRow) /\ Len(m) = Len(rows)
      /\ \A i \in 1 .. Len(rows) : /\ m[i].del /\ m[i].ingress = rows[i].ingress
                                   /\ m[i].port = rows[i].port /\ m[i].route = rows[i].route
  BY <1>1, MarkedRows
<1>3. \A r \in Own(paths) : r.port \in ToSet(service.ports) => \E i \in 1 .. Len(rows) : rows[i].ingress /\ RouteOf("self", rows[i]) = r
  BY RowsCoverRoutes
<1> HIDE DEF rows
<1> HIDE DEF m
<1>4. IsSeq(paths) /\ IsSeq(m)
  BY <1>2, SeqIsSeq
<1> DEFINE a == ToIngress(paths, m, "self")
<1>5. /\ ToSet(a) \subseteq ToSet(paths)
      /\ \A n \in 1 .. Len(m) : m[n].ingress => RouteOf("self", m[n]) \notin ToSet(a)
  BY <1>2, <1>4, IngressGone
<1>6. a \in Seq(Paths)
  BY <1>2, IngressIsPaths
<1> HIDE DEF a
<1>7. ASSUME NEW r \in Own(a), r.port \in ToSet(service.ports) PROVE FALSE
  <2>1. r \in ToSet(a) /\ r.svc = "self"
    BY <1>6, OwnIs
  <2>2. r \in Own(paths)
    BY <1>5, <2>1, OwnIs
  <2>3. PICK i \in 1 .. Len(rows) : rows[i].ingress /\ RouteOf("self", rows[i]) = r
    BY <1>3, <1>7, <2>2
  <2>4. m[i].ingress /\ RouteOf("self", m[i]) = r
    BY <1>2, <2>3 DEF RouteOf
  <2> QED BY <1>2, <1>5, <2>1, <2>4
<1>8. RoutesGone(service, a)
  BY <1>7 DEF RoutesGone
<1> QED BY <1>8 DEF a, m, rows

DeleteOps == {"app.delete", "headless.delete", "service.delete", "ingress.get", "ingress.patch", "scaler.delete"}

\* A call of this kind is still to come.
ToCome(s, op) == \E c \in ToSet(s) : c.op = op

\* The calls s that are left of the deletion of an application, of what was read as c, with
\* the service it was bound to, see to what is still there now; the routes are as they were
\* read, or gone.
SeenTo(s, c, bound, now) ==
  /\ OneIngress(s) /\ \A call \in ToSet(s) : call.op \in DeleteOps
  /\ now.app = None \/ ToCome(s, "app.delete")
  /\ c.app.kind = "StatefulSet" => ~now.headless \/ ToCome(s, "headless.delete")
  /\ c.service = None => now.service = None
  /\ bound # None => now.service = None \/ ToCome(s, "service.delete")
  /\ BoundScaler(c) # None => now.scaler = None \/ ToCome(s, "scaler.delete")
  /\ IF NoIngress(s) THEN RoutesGone(bound, now.paths)
     ELSE /\ bound # None /\ now.paths = c.paths
          /\ \A call \in ToSet(s) :
               /\ call.op = "ingress.get" => call.new = PortRows(bound, c.paths, "self")
               /\ call.op = "ingress.patch" => call.old = c.paths /\ RoutesGone(bound, call.new)

Deleting ==
  view # Closed /\ view.mode = "delete" /\ view.status # "failed" /\ ~meddled
    => /\ IsCluster(view.before) /\ SeenTo(view.calls, view.before, BoundService(view.before), cluster)
       /\ view.status = "done" => view.calls = <<>>

LEMMA DeletionSeenTo ==
  ASSUME IsCluster(cluster), cluster.app # None
  PROVE  SeenTo(DeleteCalls(cluster), cluster, BoundService(cluster), cluster)
<1> DEFINE c     == cluster
           bound == BoundService(c)
           rows  == PortRows(bound, c.paths, "self")
           a == Call("app.delete", c.app.kind, None)
           h == Call("headless.delete", None, None)
           d == Call("service.delete", None, None)
           g == Call("ingress.get", None, rows)
           x == Call("scaler.delete", None, None)
           some   == \E i \in DOMAIN rows : rows[i].ingress
           routes == IF some THEN <<g>> ELSE <<>>
           one   == <<a>>
           two   == IF c.app.kind = "StatefulSet" THEN <<h>> ELSE <<>>
           del   == <<d>>
           three == IF bound = None THEN <<>> ELSE del \o routes
           four  == IF BoundScaler(c) # None THEN <<x>> ELSE <<>>
           s     == one \o two \o three \o four
<1>1. DeleteCalls(c) = s
  BY DEF DeleteCalls
<1>2. c.paths \in Seq(Paths) /\ (bound = None \/ bound.ports \in Seq(Nat)) /\ (bound = c.service \/ bound = None \/ bound.ports = <<>>)
  BY BoundFacts DEF IsCluster
<1>3. rows \in Seq(PortRow)
  BY <1>2, SavedRows
<1>4. /\ a.op = "app.delete" /\ h.op = "headless.delete" /\ d.op = "service.delete" /\ g.op = "ingress.get" /\ x.op = "scaler.delete"
      /\ g.new = rows
  BY CallFields
<1>5. c.service = None \/ bound # None
  <2> DEFINE headless == [type |-> "ClusterIP", ports |-> <<>>]
  <2>1. DOMAIN headless # {"none"}
    OBVIOUS
  <2> HIDE DEF headless
  <2>2. headless # None
    BY <2>1, NoneFacts
  <2>3. bound = IF c.headless /\ (headlessFirst \/ c.service = None) THEN headless ELSE c.service
    BY DEF BoundService, headless
  <2> QED BY <2>2, <2>3
<1>6. bound # None /\ ~some => RoutesGone(bound, c.paths)
  <2> SUFFICES ASSUME bound # None, ~some, NEW r \in Own(c.paths), r.port \in ToSet(bound.ports) PROVE FALSE
    BY DEF RoutesGone
  <2>1. \E i \in 1 .. Len(rows) : rows[i].ingress
    BY <1>2, RowsCoverRoutes
  <2>2. DOMAIN rows = 1 .. Len(rows)
    BY <1>3
  <2> QED BY <2>1, <2>2
<1> HIDE DEF a, h, d, g, x, bound, some
<1>7. /\ IsSeq(one) /\ ToSet(one) = {a} /\ OneIngress(one) /\ NoIngress(one)
      /\ IsSeq(del) /\ ToSet(del) = {d} /\ OneIngress(del) /\ NoIngress(del)
  BY <1>4, ShortChains DEF IngressOps
<1>8. /\ IsSeq(two) /\ ToSet(two) = (IF c.app.kind = "StatefulSet" THEN {h} ELSE {}) /\ NoIngress(two)
      /\ IsSeq(four) /\ ToSet(four) = (IF BoundScaler(c) # None THEN {x} ELSE {}) /\ NoIngress(four)
      /\ IsSeq(routes) /\ ToSet(routes) = (IF some THEN {g} ELSE {}) /\ OneIngress(routes)
  BY <1>4, ShortChains, EmptyFacts DEF IngressOps
<1> HIDE DEF one, del, two, four, routes
<1>9. /\ IsSeq(three) /\ OneIngress(three)
      /\ ToSet(three) = IF bound = None THEN {} ELSE {d} \cup (IF some THEN {g} ELSE {})
  <2>1. IsSeq(del \o routes) /\ OneIngress(del \o routes) /\ ToSet(del \o routes) = ToSet(del) \cup ToSet(routes)
    BY <1>7, <1>8, LongChains, ConcatFacts
  <2> QED BY <1>7, <1>8, <2>1, EmptyFacts, ShortChains
<1> HIDE DEF three
<1>10. IsSeq(one \o two) /\ NoIngress(one \o two) /\ ToSet(one \o two) = ToSet(one) \cup ToSet(two)
  BY <1>7, <1>8, ConcatFacts, LongChains
<1>11. IsSeq(one \o two \o three) /\ OneIngress(one \o two \o three) /\ ToSet(one \o two \o three) = ToSet(one \o two) \cup ToSet(three)
  BY <1>9, <1>10, ConcatFacts, LongChains
<1>12. IsSeq(s) /\ OneIngress(s) /\ ToSet(s) = ToSet(one \o two \o three) \cup ToSet(four)
  BY <1>8, <1>11, ConcatFacts, LongChains
<1> HIDE DEF s
<1>13. ToSet(s) = {a} \cup (IF c.app.kind = "StatefulSet" THEN {h} ELSE {}) \cup (IF bound = None THEN {} ELSE {d} \cup (IF some THEN {g} ELSE {}))
                  \cup (IF BoundScaler(c) # None THEN {x} ELSE {})
  BY <1>7, <1>8, <1>9, <1>10, <1>11, <1>12
<1>14. \A e \in ToSet(s) : e \in {a, h, d, g, x}
  BY <1>13
<1>15. /\ ToCome(s, "app.delete")
       /\ c.app.kind = "StatefulSet" => ToCome(s, "headless.delete")
       /\ bound # None => ToCome(s, "service.delete")
       /\ BoundScaler(c) # None => ToCome(s, "scaler.delete")
  <2>1. a \in ToSet(s) /\ (c.app.kind = "StatefulSet" => h \in ToSet(s)) /\ (bound # None => d \in ToSet(s))
        /\ (BoundScaler(c) # None => x \in ToSet(s))
    BY <1>13
  <2> QED BY <1>4, <2>1 DEF ToCome
<1>16. NoIngress(s) <=> ~(bound # None /\ some)
  <2>1. bound # None /\ some <=> g \in ToSet(s)
    BY <1>4, <1>13
  <2> QED BY <1>4, <1>14, <2>1 DEF NoIngress, IngressOps
<1>17. \A e \in ToSet(s) : /\ e.op \in DeleteOps /\ e.op # "ingress.patch"
                           /\ e.op = "ingress.get" => e.new = rows
  BY <1>4, <1>14 DEF DeleteOps
<1>18. bound = None => RoutesGone(bound, c.paths)
  BY DEF RoutesGone
<1>19. SeenTo(s, c, bound, c)
  BY <1>5, <1>6, <1>12, <1>15, <1>16, <1>17, <1>18 DEF SeenTo
<1> QED BY <1>1, <1>19 DEF bound

LEMMA ToComeLater ==
  ASSUME NEW s, NEW t, NEW call, ToSet(s) \subseteq {call} \cup ToSet(t), NEW op, ToCome(s, op), call.op # op
  PROVE  ToCome(t, op)
BY DEF ToCome

\* A call that is done leaves the rest to see to.
LEMMA NextSeenTo ==
  ASSUME NEW c, IsCluster(c), NEW bound, bound = None \/ bound.ports \in Seq(Nat),
         IsCluster(cluster), NEW s, IsSeq(s), s # <<>>, IsCall(Head(s)), SeenTo(s, c, bound, cluster)
  PROVE  LET call == Head(s)
             t    == IF call.op = "ingress.get" THEN RoutesCalls(call) \o Tail(s) ELSE Tail(s)
         IN  SeenTo(t, c, bound, Effect(call))
<1> DEFINE call  == Head(s)
           op    == call.op
           rest  == Tail(s)
           rows  == PortRows(bound, c.paths, "self")
           more  == RoutesCalls(call)
           t     == IF op = "ingress.get" THEN more \o rest ELSE rest
           now   == Effect(call)
<1>1. /\ IsSeq(rest) /\ ToSet(s) = {call} \cup ToSet(rest) /\ OneIngress(rest)
      /\ op \in IngressOps => NoIngress(rest)
  BY HeadAndTail DEF SeenTo
<1>2. c.paths \in Seq(Paths) /\ DOMAIN cluster = ClusterFields
  BY DEF IsCluster, ClusterFields
<1>3. /\ now.app = IF op = "app.create" THEN call.new ELSE IF op = "app.patch" THEN PatchedApp(cluster.app, call.old, call.new)
                   ELSE IF op = "app.delete" THEN None ELSE cluster.app
      /\ now.service = IF op = "service.create" THEN call.new ELSE IF op = "service.patch" THEN PatchedService(cluster.service, call.old, call.new)
                       ELSE IF op = "service.delete" THEN None ELSE cluster.service
      /\ now.headless = IF op = "headless.create" THEN TRUE ELSE IF op = "headless.delete" THEN FALSE ELSE cluster.headless
      /\ now.scaler = IF op \in {"scaler.create", "scaler.patch"} THEN call.new
                      ELSE IF op = "scaler.delete" THEN None ELSE cluster.scaler
      /\ now.paths = IF op = "ingress.patch" THEN Patched(call.old, call.new, cluster.paths) ELSE cluster.paths
  BY <1>2, EffectFacts
<1>4. op \in DeleteOps /\ \A e \in ToSet(rest) : e.op \in DeleteOps
  BY <1>1 DEF SeenTo
<1> HIDE DEF call, rest, more, now, rows
<1>5. /\ IsSeq(t) /\ OneIngress(t) /\ \A e \in ToSet(t) : e.op \in DeleteOps
      /\ ToSet(s) \subseteq {call} \cup ToSet(t)
      /\ IF NoIngress(t) THEN RoutesGone(bound, now.paths)
         ELSE /\ bound # None /\ now.paths = c.paths
              /\ \A e \in ToSet(t) :
                   /\ e.op = "ingress.get" => e.new = rows
                   /\ e.op = "ingress.patch" => e.old = c.paths /\ RoutesGone(bound, e.new)
  <2>1. CASE op \notin IngressOps
    <3>1. t = rest
      BY <2>1 DEF IngressOps
    <3>2. NoIngress(s) <=> NoIngress(rest)
      BY <1>1, <2>1 DEF NoIngress
    <3>3. now.paths = cluster.paths
      BY <1>3, <2>1 DEF IngressOps
    <3>4. IF NoIngress(s) THEN RoutesGone(bound, cluster.paths)
          ELSE /\ bound # None /\ cluster.paths = c.paths
               /\ \A e \in ToSet(s) :
                   /\ e.op = "ingress.get" => e.new = rows
                   /\ e.op = "ingress.patch" => e.old = c.paths /\ RoutesGone(bound, e.new)
      BY DEF SeenTo, rows
    <3> QED BY <1>1, <1>4, <3>1, <3>2, <3>3, <3>4
  <2>2. ASSUME op \in IngressOps
        PROVE  /\ NoIngress(rest) /\ bound # None /\ cluster.paths = c.paths
               /\ op = "ingress.get" => call.new = rows
               /\ op = "ingress.patch" => call.old = c.paths /\ RoutesGone(bound, call.new)
    <3>1. ~NoIngress(s) /\ call \in ToSet(s)
      BY <1>1, <2>2 DEF NoIngress
    <3> QED BY <1>1, <2>2, <3>1 DEF SeenTo, rows
  <2>3. CASE op = "ingress.patch"
    <3>1. t = rest /\ op \in IngressOps
      BY <2>3 DEF IngressOps
    <3>2. now.paths = Patched(call.old, call.new, call.old)
      BY <1>3, <2>2, <2>3, <3>1
    <3>3. IsSeq(call.old) /\ IsSeq(call.new)
      <4>1. call.old \in Seq(Paths) /\ call.new \in Seq(Paths)
        BY <2>3 DEF IsCall, call
      <4> QED BY <4>1, SeqIsSeq
    <3>4. now.paths = call.new
      BY <3>2, <3>3, PatchedWhole
    <3>5. RoutesGone(bound, now.paths) /\ NoIngress(rest)
      BY <2>2, <2>3, <3>1, <3>4
    <3> QED BY <1>1, <1>4, <3>1, <3>5
  <2>4. CASE op = "ingress.get"
    <3>1. t = more \o rest /\ op \in IngressOps
      BY <2>4 DEF IngressOps
    <3>2. NoIngress(rest) /\ bound # None /\ cluster.paths = c.paths /\ call.new = rows /\ now.paths = cluster.paths
      BY <1>3, <2>2, <2>4, <3>1
    <3> DEFINE marked == [i \in DOMAIN rows |-> [rows[i] EXCEPT !.del = TRUE]]
               after  == ToIngress(c.paths, marked, "self")
               patch  == Call("ingress.patch", c.paths, after)
    <3>3. RoutesGone(bound, after)
      BY <1>2, <3>2, MarkedRowsClear DEF rows
    <3>4. more = IF c.paths = after THEN <<>> ELSE <<patch>>
      BY <3>2 DEF more, RoutesCalls, PatchIf
    <3>5. patch.op = "ingress.patch" /\ patch.old = c.paths /\ patch.new = after
      BY CallFields
    <3> HIDE DEF after, patch
    <3>6. CASE c.paths = after
      <4>1. more = <<>> /\ IsSeq(more) /\ NoIngress(more) /\ OneIngress(more) /\ ToSet(more) = {}
        BY <3>4, <3>6, EmptyFacts, ShortChains
      <4>2. IsSeq(t) /\ NoIngress(t) /\ OneIngress(t) /\ ToSet(t) = ToSet(rest)
        BY <1>1, <3>1, <3>2, <4>1, LongChains, ConcatFacts
      <4> QED BY <1>1, <1>4, <3>2, <3>3, <3>6, <4>2
    <3>7. CASE c.paths # after
      <4>1. more = <<patch>> /\ IsSeq(more) /\ OneIngress(more) /\ ToSet(more) = {patch}
        BY <3>4, <3>7, ShortChains
      <4>2. IsSeq(t) /\ OneIngress(t) /\ ToSet(t) = {patch} \cup ToSet(rest)
        <5>1. OneIngress(more \o rest)
          BY <1>1, <3>2, <4>1, LongChains
        <5>2. IsSeq(more \o rest) /\ ToSet(more \o rest) = ToSet(more) \cup ToSet(rest)
          BY <1>1, <4>1, ConcatFacts
        <5> QED BY <3>1, <4>1, <5>1, <5>2
      <4>3. ~NoIngress(t) /\ patch.op \in DeleteOps
        BY <3>5, <4>2 DEF NoIngress, IngressOps, DeleteOps
      <4>4. \A e \in ToSet(rest) : e.op # "ingress.get" /\ e.op # "ingress.patch"
        BY <3>2 DEF NoIngress, IngressOps
      <4> QED BY <1>1, <1>4, <3>2, <3>3, <3>5, <4>2, <4>3, <4>4
    <3> QED BY <3>6, <3>7
  <2> QED BY <2>1, <2>3, <2>4 DEF IngressOps
<1> HIDE DEF t
<1>6. \A x : ToCome(s, x) /\ op # x => ToCome(t, x)
  BY <1>5, ToComeLater
<1>7. /\ cluster.app = None \/ ToCome(s, "app.delete")
      /\ c.app.kind = "StatefulSet" => ~cluster.headless \/ ToCome(s, "headless.delete")
      /\ c.service = None => cluster.service = None
      /\ bound # None => cluster.service = None \/ ToCome(s, "service.delete")
      /\ BoundScaler(c) # None => cluster.scaler = None \/ ToCome(s, "scaler.delete")
  BY DEF SeenTo
<1>8. /\ now.app = None \/ ToCome(t, "app.delete")
      /\ c.app.kind = "StatefulSet" => ~now.headless \/ ToCome(t, "headless.delete")
      /\ c.service = None => now.service = None
      /\ bound # None => now.service = None \/ ToCome(t, "service.delete")
      /\ BoundScaler(c) # None => now.scaler = None \/ ToCome(t, "scaler.delete")
  BY <1>3, <1>4, <1>6, <1>7 DEF DeleteOps
<1>9. SeenTo(t, c, bound, now)
  BY <1>5, <1>8 DEF SeenTo, rows
<1> QED BY <1>9 DEF t, call, rest, more, now

LEMMA OpenListDeleting == Shape /\ OpenList => Deleting'
<1> SUFFICES ASSUME Shape, OpenList PROVE Deleting'
  OBVIOUS
<1> DEFINE calls == DeleteCalls(cluster)
           bound == BoundService(cluster)
<1>1. /\ cluster' = cluster /\ headlessFirst' = headlessFirst /\ cluster.app # None
      /\ view' = [mode |-> "delete", status |-> "form", saved |-> None, form |-> None, paths |-> cluster.paths,
                  used |-> 0, calls |-> calls, before |-> cluster, tries |-> 0]
  BY DEF OpenList
<1>2. IsCluster(cluster) /\ SeenTo(calls, cluster, bound, cluster)
  BY <1>1, DeletionSeenTo DEF Shape
<1>3. view'.calls = calls /\ view'.before = cluster /\ view'.status = "form"
  <2> HIDE DEF calls
  <2> QED BY <1>1
<1>4. BoundService(view.before)' = bound
  BY <1>1, <1>3 DEF BoundService
<1> HIDE DEF calls, bound
<1> QED BY <1>1, <1>2, <1>3, <1>4 DEF Deleting

LEMMA NextCallDeleting == Shape /\ Deleting /\ NextCall => Deleting'
<1> SUFFICES ASSUME Shape, Deleting, NextCall PROVE Deleting'
  OBVIOUS
<1> SUFFICES ASSUME view.mode = "delete", ~meddled PROVE Deleting'
  <2>1. IsView(view) /\ meddled' = meddled
    BY NextCallCases, OpenViews
  <2>2. CallDone(Head(view.calls)) \/ CallFailed(Head(view.calls))
    BY NextCallCases
  <2>3. view'.mode = view.mode
    BY <2>1, <2>2 DEF CallDone, CallFailed, IsView, ViewFields
  <2> QED BY <2>1, <2>3 DEF Deleting
<1> DEFINE s     == view.calls
           call  == Head(s)
           c     == view.before
           bound == BoundService(c)
           t     == IF call.op = "ingress.get" THEN RoutesCalls(call) \o Tail(s) ELSE Tail(s)
<1>1. IsView(view) /\ IsCluster(cluster) /\ view.status = "calling" /\ s # <<>> /\ headlessFirst' = headlessFirst
  BY NextCallCases, OpenViews DEF Shape
<1>2. view # Closed
  BY <1>1 DEF Closed
<1>3. IsCluster(c) /\ SeenTo(s, c, bound, cluster)
  BY <1>1, <1>2 DEF Deleting
<1>4. IsSeq(s) /\ IsCall(call)
  <2>1. IsSeq(s) /\ \A i \in 1 .. Len(s) : IsCall(s[i])
    BY <1>1 DEF IsView
  <2>2. call \in ToSet(s)
    BY <1>1, <2>1, HeadAndTail
  <2> QED BY <2>1, <2>2, ToSetFacts
<1>5. CASE CallDone(call)
  <2>1. bound = None \/ bound.ports \in Seq(Nat)
    BY <1>3, BoundFacts
  <2>2. SeenTo(t, c, bound, Effect(call))
    <3> HIDE DEF bound
    <3> QED BY <1>1, <1>3, <1>4, <2>1, NextSeenTo
  <2>3. view' = [view EXCEPT !.calls = t] /\ cluster' = Effect(call)
    BY <1>5 DEF CallDone
  <2> HIDE DEF t
  <2>4. view'.calls = t /\ view'.before = c /\ view'.status = "calling"
    BY <1>1, <2>3 DEF IsView, ViewFields
  <2>5. BoundService(view.before)' = bound
    BY <1>1, <2>4 DEF BoundService
  <2> HIDE DEF bound, c
  <2> QED BY <1>3, <2>2, <2>3, <2>4, <2>5 DEF Deleting
<1>6. CASE CallFailed(call)
  <2>1. view'.status = "failed"
    BY <1>1, <1>6 DEF IsView, ViewFields, CallFailed
  <2> QED BY <2>1 DEF Deleting
<1>7. CallDone(call) \/ CallFailed(call)
  BY NextCallCases
<1> QED BY <1>5, <1>6, <1>7

LEMMA OthersDeleting ==
  Shape /\ Deleting /\ (OpenCreate \/ OpenEdit \/ Change \/ Submit \/ ConfirmDelete \/ Finish \/ Leave \/ Meddle) => Deleting'
<1> SUFFICES ASSUME Shape, Deleting, OpenCreate \/ OpenEdit \/ Change \/ Submit \/ ConfirmDelete \/ Finish \/ Leave \/ Meddle
             PROVE  Deleting'
  OBVIOUS
<1>1. CASE OpenCreate \/ OpenEdit \/ Leave
  <2>1. OpenCreate => view'.mode = "create"
    BY DEF OpenCreate
  <2>2. OpenEdit => view'.mode = "edit"
    BY DEF OpenEdit
  <2>3. Leave => view'.mode = "none"
    BY DEF Leave, Closed
  <2> QED BY <1>1, <2>1, <2>2, <2>3 DEF Deleting
<1>2. CASE Change \/ Submit
  <2>1. IsView(view) /\ view.mode \in {"create", "edit"}
    BY <1>2, OpenViews DEF Change, Submit
  <2>2. view'.mode = view.mode
    BY <1>2, <2>1 DEF Change, Submit, IsView, ViewFields
  <2> QED BY <2>1, <2>2 DEF Deleting
<1>3. CASE ConfirmDelete \/ Finish
  <2>1. /\ IsView(view) /\ cluster' = cluster /\ meddled' = meddled /\ headlessFirst' = headlessFirst
        /\ view.status \in {"form", "calling"} /\ (Finish => view.calls = <<>>)
    BY <1>3, OpenViews DEF ConfirmDelete, Finish
  <2>2. /\ \A x \in ViewFields \ {"status"} : view'[x] = view[x]
        /\ view'.status = "calling" \/ (view'.status = "done" /\ view.calls = <<>>)
    BY <1>3, <2>1 DEF ConfirmDelete, Finish, IsView, ViewFields
  <2>3. view'.before = view.before /\ view'.calls = view.calls /\ view'.mode = view.mode
    BY <2>2 DEF ViewFields
  <2>4. BoundService(view.before)' = BoundService(view.before)
    BY <2>1, <2>3 DEF BoundService
  <2>5. view # Closed
    BY <2>1 DEF Closed
  <2> QED BY <2>1, <2>2, <2>3, <2>4, <2>5 DEF Deleting
<1>4. CASE Meddle
  BY <1>4 DEF Meddle, Deleting
<1> QED BY <1>1, <1>2, <1>3, <1>4

LEMMA DeletingInvariance == KubeSpec => []Deleting
<1>1. ApplicationsInit => Deleting
  BY DEF ApplicationsInit, Deleting
<1>2. Shape /\ Deleting /\ [ApplicationsNext]_kubeVars => Deleting'
  <2> SUFFICES ASSUME Shape, Deleting, [ApplicationsNext]_kubeVars PROVE Deleting'
    OBVIOUS
  <2>1. CASE ApplicationsNext
    BY <2>1, OpenListDeleting, NextCallDeleting, OthersDeleting DEF ApplicationsNext
  <2>2. CASE UNCHANGED kubeVars
    <3>1. BoundService(view.before)' = BoundService(view.before)
      BY <2>2 DEF kubeVars, BoundService
    <3> QED BY <2>2, <3>1 DEF kubeVars, Deleting
  <2> QED BY <2>1, <2>2
<1> QED BY <1>1, <1>2, ShapeInvariance, PTL DEF KubeSpec

\* Once an application has been deleted without a failure, nothing of it is left: no pods,
\* no service, no autoscaler it was bound to, no route to a port of its service; of the
\* headless service, none that was known by the kind of the application
\* (applicationService.js, deleteAsync).
THEOREM NothingIsLeft == KubeSpec => []NothingLeftBehind
<1>1. Shape /\ Deleting => NothingLeftBehind
  <2> SUFFICES ASSUME Deleting, view.status = "done", view.mode = "delete", ~meddled
               PROVE  /\ cluster.app = None
                      /\ view.before.app.kind = "StatefulSet" => ~cluster.headless
                      /\ SeesService(view.before) =>
                           /\ cluster.service = None
                           /\ view.before.service # None =>
                                \A r \in Own(cluster.paths) : r.port \notin ToSet(view.before.service.ports)
                      /\ BoundScaler(view.before) # None => cluster.scaler = None
    BY DEF NothingLeftBehind
  <2> DEFINE c     == view.before
             bound == BoundService(c)
  <2>1. SeenTo(view.calls, c, bound, cluster) /\ view.calls = <<>>
    BY DEF Deleting, Closed
  <2>2. NoIngress(<<>>) /\ \A op : ~ToCome(<<>>, op)
    BY ShortChains, EmptyFacts DEF ToCome
  <2>3. /\ cluster.app = None /\ (c.app.kind = "StatefulSet" => ~cluster.headless)
        /\ c.service = None => cluster.service = None
        /\ bound # None => cluster.service = None
        /\ BoundScaler(c) # None => cluster.scaler = None
        /\ RoutesGone(bound, cluster.paths)
    BY <2>1, <2>2 DEF SeenTo
  <2>4. SeesService(c) => c.service = None \/ bound = c.service
    BY DEF SeesService
  <2> HIDE DEF bound
  <2> QED BY <2>3, <2>4 DEF RoutesGone
<1> QED BY <1>1, ShapeInvariance, DeletingInvariance, PTL

-----------------------------------------------------------------------------
(* The other application keeps its routes.  Its route is the first of the  *)
(* ingress, or has been lost before.                                       *)

SelfRoutes == [svc : {"self"}, port : Nat, route : Nat]
OtherRoute == Route("other", 1, 1)
Routes     == SelfRoutes \cup {OtherRoute}

Sound == {p \in Seq(Paths) : Shaped(p, Routes, SelfRoutes)}

HasOther(p) == p # <<>> /\ p[1] = OtherRoute

\* The lists of routes that a view that was opened with these may deal with: of a list that has
\* no route twice, they are all with the other application, or all without.
Lists(paths) == {p \in Sound : IsInjective(paths) => (HasOther(p) <=> HasOther(paths))}

LEMMA RouteFacts ==
  /\ SelfRoutes \subseteq Routes /\ SelfRoutes \subseteq Paths /\ OtherRoute \in Paths /\ OtherRoute \notin SelfRoutes
  /\ OtherRoute.svc = "other"
  /\ \A r \in PortRow : RouteOf("self", r) \in SelfRoutes
BY DEF SelfRoutes, Routes, OtherRoute, Route, Paths, PortRow, RouteOf

LEMMA WithoutOther ==
  ASSUME NEW p \in Seq(Paths)
  PROVE  Shaped(p, SelfRoutes, SelfRoutes) <=> p \in Sound /\ ~HasOther(p)
<1>1. IsSeq(p) /\ Len(p) \in Nat /\ (p = <<>> <=> Len(p) = 0)
  BY SeqIsSeq, SeqFacts
<1>2. ASSUME Shaped(p, SelfRoutes, SelfRoutes) PROVE p \in Sound /\ ~HasOther(p)
  <2>1. \A i \in 1 .. Len(p) : p[i] \in SelfRoutes
    BY <1>2 DEF Shaped
  <2>2. Shaped(p, Routes, SelfRoutes)
    BY <1>1, <2>1, RouteFacts DEF Shaped
  <2>3. p # <<>> => 1 \in 1 .. Len(p)
    BY <1>1
  <2> QED BY <2>1, <2>2, <2>3, RouteFacts DEF Sound, HasOther
<1>3. ASSUME p \in Sound, ~HasOther(p) PROVE Shaped(p, SelfRoutes, SelfRoutes)
  <2>1. \A i \in 1 .. Len(p) : p[i] \in IF i = 1 THEN Routes ELSE SelfRoutes
    BY <1>3 DEF Sound, Shaped
  <2>2. ASSUME NEW i \in 1 .. Len(p) PROVE p[i] \in SelfRoutes
    <3>1. i = 1 => p[1] # OtherRoute /\ p[1] \in Routes
      BY <1>1, <1>3, <2>1 DEF HasOther
    <3> QED BY <2>1, <3>1 DEF Routes
  <2> QED BY <1>1, <2>2 DEF Shaped
<1> QED BY <1>2, <1>3

LEMMA OthersAre ==
  ASSUME NEW p \in Sound
  PROVE  Other(p) = IF HasOther(p) THEN {OtherRoute} ELSE {}
<1>1. /\ IsSeq(p) /\ Len(p) \in Nat /\ DOMAIN p = 1 .. Len(p) /\ (p = <<>> <=> Len(p) = 0)
      /\ \A i \in 1 .. Len(p) : p[i] \in IF i = 1 THEN Routes ELSE SelfRoutes
  BY SeqFacts DEF Sound, Shaped
<1>2. \A i \in 1 .. Len(p) : p[i] = OtherRoute \/ p[i].svc = "self"
  BY <1>1 DEF Routes, SelfRoutes
<1>3. \A i \in 1 .. Len(p) : p[i] = OtherRoute => i = 1
  BY <1>1, RouteFacts
<1>4. \A r : r \in Other(p) <=> \E i \in 1 .. Len(p) : p[i].svc = "other" /\ r = p[i]
  BY <1>1 DEF Other
<1>5. \A i \in 1 .. Len(p) : p[i].svc = "other" <=> p[i] = OtherRoute
  BY <1>2, RouteFacts
<1>6. \A r : r \in Other(p) <=> r = OtherRoute /\ \E i \in 1 .. Len(p) : p[i] = OtherRoute
  BY <1>4, <1>5
<1>7. HasOther(p) <=> \E i \in 1 .. Len(p) : p[i] = OtherRoute
  BY <1>1, <1>3 DEF HasOther
<1> QED BY <1>6, <1>7

LEMMA PatchedAlike ==
  ASSUME NEW q, NEW old \in Lists(q), NEW new \in Lists(q), NEW current \in Lists(q), PatchApplies(old, new, current)
  PROVE  Patched(old, new, current) \in Lists(q)
<1> DEFINE p == Patched(old, new, current)
<1>1. /\ old \in Seq(Paths) /\ new \in Seq(Paths) /\ current \in Seq(Paths)
      /\ Shaped(old, Routes, SelfRoutes) /\ Shaped(new, Routes, SelfRoutes) /\ Shaped(current, Routes, SelfRoutes)
  BY DEF Lists, Sound
<1>2. p \in Seq(Paths)
  BY <1>1, PatchedWithin
<1>3. /\ Shaped(p, Routes, SelfRoutes)
      /\ HasOther(old) /\ HasOther(new) /\ HasOther(current) => HasOther(p)
  <2>1. SelfRoutes \subseteq Routes
    BY RouteFacts
  <2>2. /\ Shaped(p, Routes, SelfRoutes)
        /\ old # <<>> /\ new # <<>> /\ current # <<>>
              => /\ p # <<>>
                 /\ old[1] = new[1] => p[1] = current[1]
    BY <1>1, <2>1, PatchedShaped
  <2> HIDE DEF p
  <2> QED BY <2>2 DEF HasOther
<1>4. ~HasOther(old) /\ ~HasOther(new) /\ ~HasOther(current) => ~HasOther(p)
  <2> SUFFICES ASSUME ~HasOther(old), ~HasOther(new), ~HasOther(current) PROVE ~HasOther(p)
    OBVIOUS
  <2>1. Shaped(old, SelfRoutes, SelfRoutes) /\ Shaped(new, SelfRoutes, SelfRoutes) /\ Shaped(current, SelfRoutes, SelfRoutes)
    BY <1>1, WithoutOther DEF Sound
  <2>2. Shaped(p, SelfRoutes, SelfRoutes)
    BY <2>1, PatchedShaped
  <2> QED BY <1>2, <2>2, WithoutOther
<1> HIDE DEF p
<1>5. p \in Lists(q)
  BY <1>2, <1>3, <1>4 DEF Lists, Sound
<1> QED BY <1>5 DEF p

LEMMA IngressAlike ==
  ASSUME NEW q, NEW paths \in Lists(q), NEW rows \in Seq(PortRow),
         IsInjective(q) => Removable(paths, rows, "self")
  PROVE  ToIngress(paths, rows, "self") \in Lists(q)
<1> DEFINE p == ToIngress(paths, rows, "self")
<1>1. paths \in Seq(Paths) /\ Shaped(paths, Routes, SelfRoutes) /\ IsSeq(paths) /\ IsSeq(rows)
  BY SeqIsSeq DEF Lists, Sound
<1>2. \A n \in 1 .. Len(rows) : RouteOf("self", rows[n]) \in SelfRoutes
  BY SeqIsSeq, RouteFacts
<1>3. p \in Seq(Paths)
  BY <1>1, IngressIsPaths
<1>4. Shaped(p, Routes, SelfRoutes)
  <2>1. SelfRoutes \subseteq Routes
    BY RouteFacts
  <2> QED BY <1>1, <1>2, <2>1, IngressShaped
<1>5. ASSUME ~HasOther(paths) PROVE ~HasOther(p)
  <2>1. Shaped(paths, SelfRoutes, SelfRoutes)
    BY <1>1, <1>5, WithoutOther DEF Sound
  <2>2. Shaped(p, SelfRoutes, SelfRoutes)
    BY <1>1, <1>2, <2>1, IngressShaped
  <2> QED BY <1>3, <2>2, WithoutOther
<1>6. ASSUME HasOther(paths), Removable(paths, rows, "self") PROVE HasOther(p)
  <2>1. \A n \in 1 .. Len(rows) : RouteOf("self", rows[n]) # paths[1]
    BY <1>2, <1>6, RouteFacts DEF HasOther
  <2>2. p # <<>> /\ p[1] = paths[1]
    BY <1>1, <1>6, <2>1, IngressFirst DEF HasOther
  <2> HIDE DEF p
  <2> QED BY <1>6, <2>2 DEF HasOther
<1> HIDE DEF p
<1>7. p \in Lists(q)
  BY <1>3, <1>4, <1>5, <1>6 DEF Lists, Sound
<1> QED BY <1>7 DEF p

\* New rows are not marked; the others are those of the routes there were, each once.
RowsSound(rows, paths) ==
  /\ \A n \in 1 .. Len(rows) : rows[n].new => ~rows[n].del
  /\ \A n \in 1 .. Len(rows) : ~rows[n].new /\ rows[n].ingress => RouteOf("self", rows[n]) \in ToSet(paths)
  /\ \A m, n \in 1 .. Len(rows) : /\ ~rows[m].new /\ rows[m].ingress /\ ~rows[n].new /\ rows[n].ingress
                                  /\ RouteOf("self", rows[m]) = RouteOf("self", rows[n])
                                  => m = n

LEMMA SoundRowsRemovable ==
  ASSUME NEW rows, NEW paths, RowsSound(rows, paths)
  PROVE  Removable(paths, rows, "self")
BY DEF RowsSound, Removable

\* Marking a row, or not, does not matter if it is not new.
LEMMA SameRows ==
  ASSUME NEW rows, NEW paths, RowsSound(rows, paths), NEW t, Len(t) = Len(rows),
         \A n \in 1 .. Len(rows) : /\ t[n].new = rows[n].new /\ t[n].ingress = rows[n].ingress
                                   /\ t[n].port = rows[n].port /\ t[n].route = rows[n].route
                                   /\ t[n].new => ~t[n].del
  PROVE  RowsSound(t, paths)
<1>1. \A n \in 1 .. Len(rows) : RouteOf("self", t[n]) = RouteOf("self", rows[n])
  BY DEF RouteOf
<1> QED BY <1>1 DEF RowsSound

LEMMA SoundMarked ==
  ASSUME NEW rows, IsSeq(rows), NEW paths, RowsSound(rows, paths), NEW i \in DOMAIN rows, NEW e,
         e.new = rows[i].new, e.ingress = rows[i].ingress, e.port = rows[i].port, e.route = rows[i].route, e.new => ~e.del
  PROVE  RowsSound([rows EXCEPT ![i] = e], paths)
<1> DEFINE t == [rows EXCEPT ![i] = e]
<1>1. Len(t) = Len(rows) /\ \A j \in 1 .. Len(rows) : t[j] = IF j = i THEN e ELSE rows[j]
  BY RowReplaced
<1> HIDE DEF t
<1>2. \A n \in 1 .. Len(rows) : rows[n].new => ~rows[n].del
  BY DEF RowsSound
<1>3. \A n \in 1 .. Len(rows) : /\ t[n].new = rows[n].new /\ t[n].ingress = rows[n].ingress
                                /\ t[n].port = rows[n].port /\ t[n].route = rows[n].route
                                /\ t[n].new => ~t[n].del
  BY <1>1, <1>2
<1>4. RowsSound(t, paths)
  BY <1>1, <1>3, SameRows
<1> QED BY <1>4 DEF t

LEMMA SoundAppended ==
  ASSUME NEW rows, IsSeq(rows), NEW paths, RowsSound(rows, paths), NEW e, e.new, ~e.del
  PROVE  RowsSound(Append(rows, e), paths)
<1> DEFINE t == Append(rows, e)
           N == Len(rows)
<1>1. N \in Nat /\ Len(t) = N + 1 /\ t[N + 1] = e /\ \A j \in 1 .. N : t[j] = rows[j]
  BY SeqFacts, AppendFacts
<1> HIDE DEF t, N
<1>2. \A n \in 1 .. Len(t) : n \in 1 .. N \/ n = N + 1
  BY <1>1
<1>3. \A n \in 1 .. Len(t) : (t[n].new /\ ~t[n].del) \/ (n \in 1 .. N /\ t[n] = rows[n])
  BY <1>1, <1>2
<1>4. RowsSound(t, paths)
  BY <1>3 DEF RowsSound, N
<1> QED BY <1>4 DEF t

LEMMA SoundRemoved ==
  ASSUME NEW rows, IsSeq(rows), NEW paths, RowsSound(rows, paths), NEW i \in 1 .. Len(rows)
  PROVE  RowsSound(RemoveAt(rows, i), paths)
<1> DEFINE t == RemoveAt(rows, i)
           N == Len(rows)
           a == SubSeq(rows, 1, i - 1)
           b == SubSeq(rows, i + 1, Len(rows))
           at(n) == IF n < i THEN n ELSE n + 1
<1>1. t = a \o b
  BY DEF RemoveAt
<1>2. N \in Nat /\ i \in Nat
  BY SeqFacts
<1>3. /\ IsSeq(a) /\ Len(a) = i - 1 /\ \A j \in 1 .. i - 1 : a[j] = rows[j]
      /\ IsSeq(b) /\ Len(b) = N - i /\ \A j \in 1 .. N - i : b[j] = rows[i + j]
  <2>1. PICK S : rows \in Seq(S)
    BY DEF IsSeq
  <2>2. /\ a \in Seq(S) /\ Len(a) = i - 1 /\ \A j \in 1 .. i - 1 : a[j] = rows[j]
    BY <1>2, <2>1
  <2>3. /\ b \in Seq(S) /\ Len(b) = N - i /\ \A j \in 1 .. N - i : b[j] = rows[i + j]
    BY <1>2, <2>1
  <2> QED BY <2>2, <2>3 DEF IsSeq
<1> HIDE DEF a, b, t, N
<1>4. /\ Len(t) = (i - 1) + (N - i)
      /\ \A j \in 1 .. i - 1 : t[j] = a[j]
      /\ \A j \in 1 .. N - i : t[(i - 1) + j] = b[j]
  <2>1. /\ Len(t) = Len(a) + Len(b)
        /\ \A j \in 1 .. Len(a) : t[j] = a[j]
        /\ \A j \in 1 .. Len(b) : t[Len(a) + j] = b[j]
    <3>1. /\ Len(a \o b) = Len(a) + Len(b)
          /\ \A j \in 1 .. Len(a) : (a \o b)[j] = a[j]
          /\ \A j \in 1 .. Len(b) : (a \o b)[Len(a) + j] = b[j]
      <4>1. IsSeq(a) /\ IsSeq(b)
        BY <1>3
      <4> QED BY <4>1, ConcatFacts
    <3> QED BY <1>1, <3>1, Zenon
  <2> QED BY <1>3, <2>1
<1>5. ASSUME NEW n \in 1 .. Len(t) PROVE at(n) \in 1 .. N /\ t[n] = rows[at(n)]
  <2>1. CASE n < i
    BY <1>2, <1>3, <1>4, <2>1
  <2>2. CASE n >= i
    <3>1. n - (i - 1) \in 1 .. N - i /\ (i - 1) + (n - (i - 1)) = n /\ i + (n - (i - 1)) = n + 1 /\ n + 1 \in 1 .. N
      BY <1>2, <1>4, <2>2
    <3>2. t[n] = b[n - (i - 1)] /\ b[n - (i - 1)] = rows[n + 1]
      BY <1>3, <1>4, <3>1
    <3>3. at(n) = n + 1
      BY <1>2, <1>4, <2>2
    <3> QED BY <3>1, <3>2, <3>3
  <2> QED BY <1>2, <2>1, <2>2
<1>6. \A m, n \in 1 .. Len(t) : at(m) = at(n) => m = n
  BY <1>2, <1>4
<1> HIDE DEF at
<1>7. /\ \A n \in 1 .. N : rows[n].new => ~rows[n].del
      /\ \A n \in 1 .. N : ~rows[n].new /\ rows[n].ingress => RouteOf("self", rows[n]) \in ToSet(paths)
      /\ \A m, n \in 1 .. N : /\ ~rows[m].new /\ rows[m].ingress /\ ~rows[n].new /\ rows[n].ingress
                              /\ RouteOf("self", rows[m]) = RouteOf("self", rows[n])
                              => m = n
  BY DEF RowsSound, N
<1>8. ASSUME NEW n \in 1 .. Len(t)
      PROVE  /\ t[n].new => ~t[n].del
             /\ ~t[n].new /\ t[n].ingress => RouteOf("self", t[n]) \in ToSet(paths)
  BY <1>5, <1>7
<1>9. ASSUME NEW m \in 1 .. Len(t), NEW n \in 1 .. Len(t), ~t[m].new, t[m].ingress, ~t[n].new, t[n].ingress,
             RouteOf("self", t[m]) = RouteOf("self", t[n])
      PROVE  m = n
  <2>1. t[m] = rows[at(m)] /\ t[n] = rows[at(n)] /\ at(m) \in 1 .. N /\ at(n) \in 1 .. N
    BY <1>5
  <2>2. at(m) = at(n)
    BY <1>7, <1>9, <2>1
  <2> QED BY <1>6, <2>2
<1>10. RowsSound(t, paths)
  BY <1>8, <1>9 DEF RowsSound
<1> QED BY <1>10 DEF t

\* The rows of a service are those of its routes.
LEMMA ReadRowsSound ==
  ASSUME NEW service, service = None \/ (service.ports \in Seq(Nat) /\ IsInjective(service.ports)),
         NEW paths \in Seq(Paths), IsInjective(paths)
  PROVE  RowsSound(PortRows(service, paths, "self"), paths)
<1> DEFINE rows == PortRows(service, paths, "self")
<1>1. rows \in Seq(PortRow) /\ \A n \in 1 .. Len(rows) : ~rows[n].new /\ ~rows[n].del
  BY SavedRows DEF Untouched
<1>2. CASE service = None
  <2>1. rows = <<>>
    BY <1>2 DEF PortRows
  <2> HIDE DEF rows
  <2>2. Len(rows) = 0
    BY <2>1
  <2> QED BY <2>2 DEF RowsSound, rows
<1>3. CASE service # None
  <2>1. IsSeq(paths) /\ IsSeq(service.ports)
    BY <1>3, SeqIsSeq
  <2>2. \A p \in ToSet(paths) : p = Route(p.svc, p.port, p.route)
    <3>1. \A p \in Paths : p = Route(p.svc, p.port, p.route)
      BY DEF Paths, Route
    <3> QED BY <3>1, SeqIsSeq
  <2>3. /\ \A n \in 1 .. Len(rows) : \E port \in ToSet(service.ports) : IsRowOf(rows[n], port, paths, "self")
        /\ \A m, n \in 1 .. Len(rows) :
             rows[m].ingress /\ rows[n].ingress /\ rows[m].port = rows[n].port /\ rows[m].route = rows[n].route => m = n
    BY <1>3, <2>1, <2>2, PortRowsFacts
  <2> HIDE DEF rows
  <2>4. ASSUME NEW n \in 1 .. Len(rows), rows[n].ingress PROVE RouteOf("self", rows[n]) \in ToSet(paths)
    <3>1. PICK port : IsRowOf(rows[n], port, paths, "self")
      BY <2>3
    <3>2. PICK p \in ToSet(paths) : p.svc = "self" /\ p.port = rows[n].port /\ p.route = rows[n].route
      BY <2>4, <3>1 DEF IsRowOf
    <3> QED BY <2>2, <3>2 DEF RouteOf
  <2>5. \A m, n \in 1 .. Len(rows) : RouteOf("self", rows[m]) = RouteOf("self", rows[n])
           => rows[m].port = rows[n].port /\ rows[m].route = rows[n].route
    BY DEF RouteOf, Route
  <2>6. RowsSound(rows, paths)
    BY <1>1, <2>3, <2>4, <2>5 DEF RowsSound
  <2> QED BY <2>6 DEF rows
<1> QED BY <1>2, <1>3

\* A view deals with routes of one kind, before, now and in what it is going to ask for; the
\* rows of its form are those of the routes it was opened with.
Means(v) == IF v.mode = "delete" THEN WithReading ELSE Resources

RoutedView(v, paths) ==
  /\ v.paths \in Sound /\ paths \in Lists(v.paths)
  /\ CallsWithin(v.calls, Means(v), Lists(v.paths))
  /\ v.mode = "delete" => v.before.paths = v.paths
  /\ v.mode # "delete" /\ IsInjective(v.paths) => RowsSound(v.form.ports, v.paths)

Routing ==
  ~meddled => cluster.paths \in Sound /\ (view # Closed => RoutedView(view, cluster.paths))

LEMMA WiderCalls ==
  ASSUME NEW s, NEW K, NEW P, CallsWithin(s, K, P), NEW L, K \subseteq L, NEW Q, P \subseteq Q
  PROVE  CallsWithin(s, L, Q)
BY DEF CallsWithin, Tells

LEMMA InitRouting == ApplicationsInit => Routing
<1> SUFFICES ASSUME ApplicationsInit PROVE Routing
  OBVIOUS
<1> DEFINE p == <<OtherRoute>>
<1>1. cluster.paths = p /\ view = Closed
  BY DEF ApplicationsInit, OtherRoute
<1>2. p \in Seq(Paths) /\ Len(p) = 1 /\ p[1] = OtherRoute
  BY RouteFacts
<1> HIDE DEF p
<1>3. IsSeq(p) /\ \A i \in 1 .. Len(p) : i = 1
  BY <1>2, SeqIsSeq
<1>4. p \in Sound
  BY <1>2, <1>3 DEF Sound, Shaped, Routes
<1> QED BY <1>1, <1>4 DEF Routing

LEMMA OpenCreateRouting == Shape /\ Routing /\ OpenCreate => Routing'
<1> SUFFICES ASSUME Routing, OpenCreate, ~meddled PROVE Routing'
  BY DEF Routing, OpenCreate
<1>1. PICK f \in Forms :
        view' = [mode |-> "create", status |-> "form", saved |-> None, form |-> f, paths |-> cluster.paths,
                 used |-> UsedQuota, calls |-> <<>>, before |-> cluster, tries |-> 0]
  BY DEF OpenCreate
<1>2. cluster.paths \in Sound /\ cluster' = cluster /\ cluster.paths \in Lists(cluster.paths)
  BY DEF Routing, OpenCreate, Lists
<1>3. RowsSound(f.ports, cluster.paths)
  BY FormsAssumption, NewFormFacts DEF RowsSound
<1>4. view'.mode = "create" /\ view'.form = f /\ view'.paths = cluster.paths /\ view'.calls = <<>>
  BY <1>1
<1>5. RoutedView(view', cluster.paths)
  BY <1>2, <1>3, <1>4, NoCalls DEF RoutedView
<1> QED BY <1>2, <1>5 DEF Routing

LEMMA BoundInjective ==
  ASSUME NEW c, IsCluster(c), NEW service, service = BoundService(c)
  PROVE  service = None \/ (service.ports \in Seq(Nat) /\ IsInjective(service.ports))
<1>1. service = None \/ service.ports \in Seq(Nat)
  BY BoundFacts
<1>2. service = c.service \/ service = None \/ service.ports = <<>>
  BY BoundFacts
<1>3. c.service = None \/ IsInjective(c.service.ports)
  BY DEF IsCluster, IsService
<1>4. IsInjective(<<>>)
  BY DEF IsInjective
<1> QED BY <1>1, <1>2, <1>3, <1>4

LEMMA OpenEditRouting == Shape /\ Routing /\ OpenEdit => Routing'
<1> SUFFICES ASSUME Shape, Routing, OpenEdit, ~meddled PROVE Routing'
  BY DEF Routing, OpenEdit
<1> DEFINE service == BoundService(cluster)
           saved   == ApplicationToFormValues(cluster.app, service, cluster.paths, BoundScaler(cluster), rwx)
           folders == [i \in DOMAIN saved.folders |->
                         IF cluster.app.kind # "StatefulSet" /\ rwx
                         THEN [saved.folders[i] EXCEPT !.existing = saved.folders[i].claim] ELSE saved.folders[i]]
           form    == [saved EXCEPT !.appType = "none", !.folders = folders]
<1>1. /\ cluster' = cluster /\ cluster.app # None
      /\ view' = [mode |-> "edit", status |-> "form", saved |-> saved, form |-> form, paths |-> cluster.paths,
                  used |-> UsedQuota, calls |-> <<>>, before |-> cluster, tries |-> 0]
  BY DEF OpenEdit
<1>2. IsCluster(cluster) /\ cluster.paths \in Seq(Paths) /\ IsApp(cluster.app)
  BY <1>1 DEF Shape, IsCluster
<1>3. service = None \/ (service.ports \in Seq(Nat) /\ IsInjective(service.ports))
  BY <1>2, BoundInjective
<1> HIDE DEF service
<1>4. IsForm(saved) /\ saved.ports = PortRows(service, cluster.paths, "self")
  <2>1. service = None \/ service.ports \in Seq(Nat)
    BY <1>3
  <2> QED BY <1>2, <2>1, SavedForm
<1> HIDE DEF saved, folders
<1>5. form.ports = saved.ports
  BY <1>4 DEF IsForm, FormFields
<1> HIDE DEF form
<1>6. IsInjective(cluster.paths) => RowsSound(form.ports, cluster.paths)
  BY <1>2, <1>3, <1>4, <1>5, ReadRowsSound
<1>7. cluster.paths \in Sound /\ cluster.paths \in Lists(cluster.paths)
  BY DEF Routing, Lists
<1>8. view'.mode = "edit" /\ view'.form = form /\ view'.paths = cluster.paths /\ view'.calls = <<>>
  BY <1>1
<1>9. RoutedView(view', cluster.paths)
  BY <1>6, <1>7, <1>8, NoCalls DEF RoutedView
<1> QED BY <1>1, <1>7, <1>9 DEF Routing

LEMMA OpenListRouting == Shape /\ Routing /\ OpenList => Routing'
<1> SUFFICES ASSUME Shape, Routing, OpenList, ~meddled PROVE Routing'
  BY DEF Routing, OpenList
<1> DEFINE calls == DeleteCalls(cluster)
<1>1. /\ cluster' = cluster
      /\ view' = [mode |-> "delete", status |-> "form", saved |-> None, form |-> None, paths |-> cluster.paths,
                  used |-> 0, calls |-> calls, before |-> cluster, tries |-> 0]
  BY DEF OpenList
<1>2. cluster.paths \in Sound /\ cluster.paths \in Lists(cluster.paths)
  BY DEF Routing, Lists
<1>3. CallsWithin(calls, WithReading, Lists(cluster.paths))
  <2>1. CallsWithin(calls, WithReading, {})
    BY DeleteChain DEF Shape
  <2> DEFINE P == {}
             Q == Lists(cluster.paths)
  <2>2. P \subseteq Q
    OBVIOUS
  <2> HIDE DEF calls, P, Q
  <2>3. CallsWithin(calls, WithReading, P)
    BY <2>1 DEF P
  <2>4. CallsWithin(calls, WithReading, Q)
    BY <2>2, <2>3, WiderCalls, Zenon
  <2> QED BY <2>4 DEF Q
<1> HIDE DEF calls
<1>4. view'.mode = "delete" /\ view'.paths = cluster.paths /\ view'.calls = calls /\ view'.before = cluster
  BY <1>1
<1>5. RoutedView(view', cluster.paths)
  BY <1>2, <1>3, <1>4 DEF RoutedView, Means
<1> QED BY <1>1, <1>2, <1>5 DEF Routing

LEMMA ChangedPorts ==
  ASSUME NEW f, IsForm(f), NEW v, NEW g \in Changes(f, v), NEW paths, RowsSound(f.ports, paths)
  PROVE  RowsSound(g.ports, paths)
<1>1. DOMAIN f = FormFields /\ f.ports \in Seq(PortRow) /\ IsSeq(f.ports) /\ DOMAIN f.ports = 1 .. Len(f.ports)
  BY SeqIsSeq, SeqFacts DEF IsForm
<1>2. CASE ChangesVariables(f, g)
  <2>1. g.ports = f.ports
    BY <1>1, <1>2 DEF ChangesVariables, AddEnvironmentVariable, FormFields
  <2> QED BY <2>1
<1>3. CASE ChangesFolders(f, g)
  <2>1. \A p : DOMAIN AddPersistedFolder(f, p) = FormFields /\ AddPersistedFolder(f, p).ports = f.ports
    BY <1>1 DEF AddPersistedFolder, FormFields
  <2>2. \A h, i, c : DOMAIN h = FormFields => UseExistingVolume(h, i, c).ports = h.ports
    BY DEF UseExistingVolume, FormFields
  <2>3. \A i, c : UseExistingVolume(AddPersistedFolder(f, 2), i, c).ports = f.ports
    BY <2>1, <2>2
  <2>4. CASE \E p \in 1 .. 2 : g = AddPersistedFolder(f, p)
    <3>1. g.ports = f.ports
      BY <2>1, <2>4
    <3> QED BY <3>1
  <2>5. CASE \E c \in cluster.claims : g = UseExistingVolume(AddPersistedFolder(f, 2), Len(f.folders) + 1, c)
    <3>1. g.ports = f.ports
      BY <2>3, <2>5
    <3> QED BY <3>1
  <2>6. CASE \E i \in DOMAIN f.folders : g = [f EXCEPT !.folders = RemoveRow(@, i)] \/ g = [f EXCEPT !.folders = RestoreRow(@, i)]
    <3>1. PICK i \in DOMAIN f.folders : g = [f EXCEPT !.folders = RemoveRow(@, i)] \/ g = [f EXCEPT !.folders = RestoreRow(@, i)]
      BY <2>6
    <3>2. g.ports = f.ports
      BY <1>1, <3>1 DEF FormFields
    <3> QED BY <3>2
  <2> QED BY <1>3, <2>4, <2>5, <2>6 DEF ChangesFolders
<1>4. CASE ChangesPorts(f, g)
  <2>1. CASE \E p \in 1 .. 2, r \in {0, 2, 3} : g = AddPublishedPort(f, p, r, TRUE)
    <3>1. PICK p \in 1 .. 2, r \in {0, 2, 3} : g = AddPublishedPort(f, p, r, TRUE)
      BY <2>1
    <3> DEFINE e == [port |-> p, route |-> r, ingress |-> TRUE, new |-> TRUE, del |-> FALSE]
    <3>2. g.ports = Append(f.ports, e)
      BY <1>1, <3>1 DEF AddPublishedPort, FormFields
    <3>3. e.new /\ ~e.del
      OBVIOUS
    <3> HIDE DEF e
    <3> QED BY <1>1, <3>2, <3>3, SoundAppended
  <2>2. CASE \E i \in DOMAIN f.ports : g = [f EXCEPT !.ports = RemoveRow(@, i)] \/ g = [f EXCEPT !.ports = RestoreRow(@, i)]
    <3>1. PICK i \in DOMAIN f.ports : g = [f EXCEPT !.ports = RemoveRow(@, i)] \/ g = [f EXCEPT !.ports = RestoreRow(@, i)]
      BY <2>2
    <3> DEFINE gone == [f.ports[i] EXCEPT !.del = TRUE]
               back == [f.ports[i] EXCEPT !.del = FALSE]
    <3>2. g.ports = RemoveRow(f.ports, i) \/ g.ports = RestoreRow(f.ports, i)
      BY <1>1, <3>1 DEF FormFields
    <3>3. f.ports[i] \in PortRow
      BY <1>1
    <3>4. /\ gone.new = f.ports[i].new /\ gone.ingress = f.ports[i].ingress /\ gone.port = f.ports[i].port /\ gone.route = f.ports[i].route
          /\ back.new = f.ports[i].new /\ back.ingress = f.ports[i].ingress /\ back.port = f.ports[i].port /\ back.route = f.ports[i].route
          /\ ~back.del
      BY <3>3 DEF PortRow
    <3>5. /\ RestoreRow(f.ports, i) = [f.ports EXCEPT ![i] = back]
          /\ RemoveRow(f.ports, i) = IF f.ports[i].new THEN RemoveAt(f.ports, i) ELSE [f.ports EXCEPT ![i] = gone]
      BY RowMarked
    <3> HIDE DEF gone, back
    <3>6. RowsSound([f.ports EXCEPT ![i] = back], paths)
      BY <1>1, <3>4, SoundMarked
    <3>7. ~f.ports[i].new => RowsSound([f.ports EXCEPT ![i] = gone], paths)
      BY <1>1, <3>4, SoundMarked
    <3>8. RowsSound(RemoveAt(f.ports, i), paths)
      BY <1>1, SoundRemoved
    <3> QED BY <3>2, <3>5, <3>6, <3>7, <3>8
  <2> QED BY <1>4, <2>1, <2>2 DEF ChangesPorts
<1>5. CASE ChangesChoices(f, g)
  <2>1. g.ports = f.ports
    BY <1>1, <1>5 DEF ChangesChoices, AddPlacement, FormFields
  <2> QED BY <2>1
<1> QED BY <1>2, <1>3, <1>4, <1>5, ChangesAre

LEMMA ConvertedPorts ==
  ASSUME NEW f, IsForm(f), NEW v
  PROVE  Converted(f).ports = f.ports /\ Digested(v, f).ports = f.ports
<1>1. Converted(f).ports = f.ports
  BY DEF IsForm, FormFields, Converted
<1> QED BY <1>1 DEF Digested

LEMMA ChangeRouting == Shape /\ Routing /\ Change => Routing'
<1> SUFFICES ASSUME Shape, Routing, Change, ~meddled PROVE Routing'
  BY DEF Routing, Change
<1>1. PICK f \in Changes(view.form, view) : view' = [view EXCEPT !.form = Digested(view, f)]
  BY DEF Change
<1>2. IsView(view) /\ view.mode = "edit" /\ cluster' = cluster /\ view.status = "form"
  BY OpenViews DEF Change
<1>3. IsForm(view.form) /\ IsForm(f)
  BY <1>2, ChangesAreForms DEF IsView
<1>4. RoutedView(view, cluster.paths) /\ cluster.paths \in Sound
  BY <1>2 DEF Routing, Closed
<1> DEFINE form == Digested(view, f)
<1>5. form.ports = f.ports
  BY <1>3, ConvertedPorts
<1> HIDE DEF form
<1>6. view'.form = form /\ \A x \in ViewFields \ {"form"} : view'[x] = view[x]
  BY <1>1, <1>2 DEF IsView, ViewFields, form
<1>7. view'.paths = view.paths /\ view'.calls = view.calls /\ view'.mode = "edit"
  BY <1>2, <1>6 DEF ViewFields
<1>8. IsInjective(view.paths) => RowsSound(form.ports, view.paths)
  BY <1>2, <1>3, <1>4, <1>5, ChangedPorts DEF RoutedView
<1>9. RoutedView(view', cluster.paths)
  BY <1>2, <1>4, <1>6, <1>7, <1>8 DEF RoutedView, Means
<1> QED BY <1>2, <1>4, <1>9 DEF Routing

LEMMA SubmitRouting == Shape /\ Routing /\ Submit => Routing'
<1> SUFFICES ASSUME Shape, Routing, Submit, ~meddled PROVE Routing'
  BY DEF Routing, Submit
<1> DEFINE fresh == IF cluster.claims = {} THEN 0 ELSE Max(cluster.claims)
           calls == IF view.mode = "create" THEN CreateCalls(view.form, view.paths, fresh)
                    ELSE PatchCalls(view.saved, view.form, view.paths, fresh)
           tries == view.tries + 1
           form  == Converted(view.form)
           f     == view.form
           P     == Lists(view.paths)
<1>1. view' = [view EXCEPT !.status = "calling", !.before = cluster, !.tries = tries, !.form = form, !.calls = calls]
  BY DEF Submit
<1>2. IsView(view) /\ view.mode \in {"create", "edit"} /\ cluster' = cluster /\ view.status = "form"
  BY OpenViews DEF Submit
<1>3. IsForm(f) /\ view.paths \in Seq(Paths)
  BY <1>2 DEF IsView
<1>4. KindOf(f) \in Kinds
  BY <1>3, KindFacts DEF Submit, Disabled, IsDeployUpdateButtonDisabled
<1>5. form.ports = f.ports
  BY <1>3, ConvertedPorts
<1>6. RoutedView(view, cluster.paths) /\ cluster.paths \in Sound
  BY <1>2 DEF Routing, Closed
<1>7. view.paths \in P /\ ToIngress(view.paths, f.ports, "self") \in P
  <2>1. view.paths \in P
    BY <1>6 DEF RoutedView, Lists
  <2>2. IsInjective(view.paths) => Removable(view.paths, f.ports, "self")
    BY <1>2, <1>6, SoundRowsRemovable DEF RoutedView
  <2>3. f.ports \in Seq(PortRow)
    BY <1>3 DEF IsForm
  <2>4. ToIngress(view.paths, f.ports, "self") \in Lists(view.paths)
    BY <2>1, <2>2, <2>3, IngressAlike
  <2> QED BY <2>1, <2>4
<1>8. CallsWithin(calls, Resources, P)
  <2> HIDE DEF fresh, P
  <2> DEFINE create == CreateCalls(f, view.paths, fresh)
             patch  == PatchCalls(view.saved, f, view.paths, fresh)
             made   == CreatedResources(f, view.paths)
             told   == Summary(view.saved, f, view.paths)
  <2>1. made \subseteq Resources /\ told \subseteq Resources
    BY DEF CreatedResources, Summary, Resources
  <2>2. P \subseteq P
    OBVIOUS
  <2>3. CASE view.mode = "create"
    <3>1. CallsWithin(create, made, P)
      BY <1>3, <1>4, <1>7, CreateChain
    <3> HIDE DEF create, made
    <3>2. CallsWithin(create, Resources, P)
      BY <2>1, <2>2, <3>1, WiderCalls
    <3> QED BY <2>3, <3>2 DEF create
  <2>4. CASE view.mode = "edit"
    <3>1. IsForm(view.saved) /\ Untouched(view.saved.ports)
      BY <1>2, <2>4 DEF IsView
    <3>2. CallsWithin(patch, told, P)
      BY <1>3, <1>4, <1>7, <3>1, PatchChain
    <3> HIDE DEF patch, told
    <3>3. CallsWithin(patch, Resources, P)
      BY <2>1, <2>2, <3>2, WiderCalls
    <3> QED BY <2>4, <3>3 DEF patch
  <2> QED BY <1>2, <2>3, <2>4
<1> HIDE DEF calls, tries, form, P, f
<1>9. /\ view'.form = form /\ view'.calls = calls /\ view'.mode = view.mode /\ view'.paths = view.paths
  BY <1>1, <1>2 DEF IsView, ViewFields
<1>10. IsInjective(view.paths) => RowsSound(form.ports, view.paths)
  BY <1>2, <1>5, <1>6 DEF RoutedView, f
<1>11. RoutedView(view', cluster.paths)
  BY <1>2, <1>6, <1>8, <1>9, <1>10 DEF RoutedView, Means, P
<1> QED BY <1>2, <1>6, <1>11 DEF Routing

LEMMA OthersRouting == Shape /\ Routing /\ (ConfirmDelete \/ Finish \/ Leave \/ Meddle) => Routing'
<1> SUFFICES ASSUME Shape, Routing, ConfirmDelete \/ Finish \/ Leave \/ Meddle PROVE Routing'
  OBVIOUS
<1> SUFFICES ASSUME ~meddled' PROVE Routing'
  BY DEF Routing
<1>0. ~meddled
  BY DEF Meddle, ConfirmDelete, Finish, Leave
<1>1. CASE ConfirmDelete \/ Finish
  <2>1. IsView(view) /\ cluster' = cluster /\ view.status \in {"form", "calling"}
    BY <1>1, OpenViews DEF ConfirmDelete, Finish
  <2>2. \A x \in ViewFields \ {"status"} : view'[x] = view[x]
    BY <1>1, <2>1 DEF ConfirmDelete, Finish, IsView, ViewFields
  <2>3. /\ view'.before = view.before /\ view'.calls = view.calls /\ view'.mode = view.mode /\ view'.paths = view.paths
        /\ view'.form = view.form
    BY <2>2 DEF ViewFields
  <2>4. RoutedView(view, cluster.paths) /\ cluster.paths \in Sound
    BY <1>0, <2>1 DEF Routing, Closed
  <2>5. RoutedView(view', cluster.paths)
    BY <2>3, <2>4 DEF RoutedView, Means
  <2> QED BY <2>1, <2>4, <2>5 DEF Routing
<1>2. CASE Leave
  BY <1>0, <1>2 DEF Leave, Routing
<1>3. CASE Meddle
  BY <1>3 DEF Meddle
<1> QED BY <1>1, <1>2, <1>3

\* All the rows, as a deletion marks them.
Marked(rows) == [i \in DOMAIN rows |-> [rows[i] EXCEPT !.del = TRUE]]

\* The rows that a deletion takes out are those of the routes there are.
LEMMA DeletedRows ==
  ASSUME NEW service, service = None \/ (service.ports \in Seq(Nat) /\ IsInjective(service.ports)),
         NEW paths \in Seq(Paths), IsInjective(paths), NEW rows, rows = PortRows(service, paths, "self")
  PROVE  Removable(paths, Marked(rows), "self")
<1> DEFINE marked == [i \in DOMAIN rows |-> [rows[i] EXCEPT !.del = TRUE]]
<1>1. RowsSound(rows, paths)
  BY ReadRowsSound
<1>2. rows \in Seq(PortRow) /\ \A i \in 1 .. Len(rows) : ~rows[i].new
  BY SavedRows DEF Untouched
<1>3. /\ Len(marked) = Len(rows)
      /\ \A i \in 1 .. Len(rows) : /\ marked[i].ingress = rows[i].ingress /\ marked[i].new = rows[i].new
                                   /\ marked[i].port = rows[i].port /\ marked[i].route = rows[i].route
  BY <1>2, MarkedRows
<1> HIDE DEF marked
<1>4. RowsSound(marked, paths)
  BY <1>1, <1>2, <1>3, SameRows
<1>5. Removable(paths, marked, "self")
  BY <1>4, SoundRowsRemovable
<1> QED BY <1>5 DEF marked, Marked

LEMMA NextCallRouting == Shape /\ Deleting /\ Routing /\ NextCall => Routing'
<1> SUFFICES ASSUME Shape, Deleting, Routing, NextCall, ~meddled PROVE Routing'
  BY NextCallCases DEF Routing
<1> DEFINE call == Head(view.calls)
           rest == Tail(view.calls)
           K    == Means(view)
           P    == Lists(view.paths)
<1>1. IsView(view) /\ IsCluster(cluster) /\ view.status = "calling" /\ view.calls # <<>>
  BY NextCallCases, OpenViews DEF Shape
<1>2. view # Closed
  BY <1>1 DEF Closed
<1>3. RoutedView(view, cluster.paths)
  BY <1>2 DEF Routing
<1>4. /\ CallsWithin(rest, K, P) /\ IsCall(call) /\ Tells(K, call.op)
      /\ call.op = "ingress.patch" => call.old \in P /\ call.new \in P
  BY <1>1, <1>3, RestOfCalls DEF RoutedView
<1>5. CallDone(call) \/ CallFailed(call)
  BY NextCallCases
<1>6. DOMAIN cluster = ClusterFields
  BY <1>1 DEF IsCluster, ClusterFields
<1>7. Applies(call) => Effect(call).paths \in P
  <2>1. Effect(call).paths = IF call.op = "ingress.patch" THEN Patched(call.old, call.new, cluster.paths) ELSE cluster.paths
    BY <1>6, EffectFacts
  <2>2. cluster.paths \in P
    BY <1>3 DEF RoutedView
  <2>3. Applies(call) /\ call.op = "ingress.patch" => PatchApplies(call.old, call.new, cluster.paths)
    BY DEF Applies
  <2> HIDE DEF call
  <2>4. Applies(call) /\ call.op = "ingress.patch" => Patched(call.old, call.new, cluster.paths) \in Lists(view.paths)
    BY <1>4, <2>2, <2>3, PatchedAlike
  <2> QED BY <2>1, <2>2, <2>4
<1>8. cluster'.paths \in P
  <2>1. cluster.paths \in P
    BY <1>3 DEF RoutedView
  <2> QED BY <1>5, <1>7, <2>1 DEF CallDone, CallFailed
<1>9. CASE CallDone(call)
  <2> DEFINE calls == IF call.op = "ingress.get" THEN RoutesCalls(call) \o rest ELSE rest
  <2>1. view' = [view EXCEPT !.calls = calls]
    BY <1>9 DEF CallDone
  <2>3. CallsWithin(calls, K, P)
    <3>1. CASE call.op = "ingress.get"
      <4> DEFINE c       == view.before
                 service == BoundService(c)
                 marked  == [i \in DOMAIN call.new |-> [call.new[i] EXCEPT !.del = TRUE]]
      <4>1. view.mode = "delete" /\ "ingress" \in K
        BY <1>4, <3>1 DEF Tells, Means, Resources, WithReading
      <4>2. IsCluster(c) /\ SeenTo(view.calls, c, service, cluster)
        BY <1>1, <1>2, <4>1 DEF Deleting
      <4>3. call \in ToSet(view.calls)
        BY <1>1, HeadAndTail DEF IsView
      <4>4. cluster.paths = c.paths /\ call.new = PortRows(service, c.paths, "self")
        BY <3>1, <4>2, <4>3 DEF SeenTo, NoIngress, IngressOps
      <4>5. c.paths = view.paths
        BY <1>3, <4>1 DEF RoutedView
      <4>6. service = None \/ (service.ports \in Seq(Nat) /\ IsInjective(service.ports))
        BY <4>2, BoundInjective
      <4>7. cluster.paths \in Seq(Paths) /\ call.new \in Seq(PortRow)
        BY <1>1, <1>4, <3>1 DEF IsCluster, IsCall
      <4>8. marked \in Seq(PortRow)
        BY <4>7, MarkedRows
      <4> HIDE DEF service, call, P, K
      <4>9. IsInjective(view.paths) => Removable(cluster.paths, marked, "self")
        <5>1. marked = Marked(call.new)
          BY DEF Marked
        <5>2. cluster.paths = view.paths /\ call.new = PortRows(service, cluster.paths, "self")
          BY <4>4, <4>5
        <5> HIDE DEF marked
        <5>3. IsInjective(cluster.paths) => Removable(cluster.paths, Marked(call.new), "self")
          BY <4>6, <4>7, <5>2, DeletedRows
        <5> QED BY <5>1, <5>2, <5>3
      <4>10. cluster.paths \in Lists(view.paths)
        BY <1>3 DEF RoutedView
      <4> HIDE DEF marked
      <4>11. ToIngress(cluster.paths, marked, "self") \in P
        BY <4>8, <4>9, <4>10, IngressAlike DEF P
      <4>12. CallsWithin(RoutesCalls(call), K, P)
        BY <1>1, <1>4, <3>1, <4>1, <4>10, <4>11, RoutesCallsAre DEF marked, P
      <4>13. CallsWithin(RoutesCalls(call) \o rest, K, P)
        BY <1>4, <4>12, MoreCalls
      <4> QED BY <3>1, <4>13
    <3>2. CASE call.op # "ingress.get"
      BY <1>4, <3>2
    <3> QED BY <3>1, <3>2
  <2> HIDE DEF calls
  <2>4. view'.calls = calls /\ \A x \in ViewFields \ {"calls"} : view'[x] = view[x]
    BY <1>1, <2>1 DEF IsView, ViewFields
  <2>5. /\ view'.paths = view.paths /\ view'.mode = view.mode /\ view'.before = view.before /\ view'.form = view.form
    BY <2>4 DEF ViewFields
  <2>6. RoutedView(view', cluster'.paths) /\ cluster'.paths \in Sound
    BY <1>3, <1>8, <2>3, <2>4, <2>5 DEF RoutedView, Means, Lists
  <2> QED BY <2>6 DEF Routing
<1>10. CASE CallFailed(call)
  <2>1. view'.calls = <<>> /\ \A x \in ViewFields \ {"calls", "status"} : view'[x] = view[x]
    BY <1>1, <1>10 DEF IsView, ViewFields, CallFailed
  <2>2. /\ view'.paths = view.paths /\ view'.mode = view.mode /\ view'.before = view.before /\ view'.form = view.form
    BY <2>1 DEF ViewFields
  <2>3. RoutedView(view', cluster'.paths) /\ cluster'.paths \in Sound
    BY <1>3, <1>8, <2>1, <2>2, NoCalls DEF RoutedView, Means, Lists
  <2> QED BY <2>3 DEF Routing
<1> QED BY <1>5, <1>9, <1>10

\* What every deployment, update and deletion deals with, when nobody else edits the ingress, are
\* lists of routes that all have the other application's or all lack it, and rows whose routes are
\* found when they go (ingress/converter.js, applicationFormValuesToIngresses; service.js, patchAsync).
THEOREM RoutingInvariance == KubeSpec => [](Shape /\ Deleting /\ Routing)
<1>1. Shape /\ Deleting /\ Routing /\ [ApplicationsNext]_kubeVars => Routing'
  <2> SUFFICES ASSUME Shape, Deleting, Routing, [ApplicationsNext]_kubeVars PROVE Routing'
    OBVIOUS
  <2>1. CASE ApplicationsNext
    BY <2>1, OpenCreateRouting, OpenEditRouting, OpenListRouting, ChangeRouting, SubmitRouting, NextCallRouting,
       OthersRouting DEF ApplicationsNext
  <2>2. CASE UNCHANGED kubeVars
    BY <2>2 DEF kubeVars, Routing
  <2> QED BY <2>1, <2>2
<1> QED BY <1>1, InitRouting, ShapeInvariance, DeletingInvariance, PTL DEF KubeSpec

\* While nobody else edits the ingress, and it has no route twice when a view is opened, no step
\* of that view, be it a patch that is refused or repeated, takes the routes of the other
\* application (ingress/converter.js, _.remove; applicationService.js, patchAsync and deleteAsync).
THEOREM OthersKeepRoutes == KubeSpec => OthersRoutesKept
<1> DEFINE A == ~meddled' /\ view # Closed /\ IsInjective(view.paths) => Other(cluster.paths) = Other(cluster'.paths)
<1>1. Shape /\ Deleting /\ Routing /\ [ApplicationsNext]_kubeVars => [A]_kubeVars
  <2> SUFFICES ASSUME Shape, Deleting, Routing, ApplicationsNext, ~meddled', view # Closed, IsInjective(view.paths)
               PROVE  Other(cluster.paths) = Other(cluster'.paths)
    OBVIOUS
  <2>1. CASE NextCall
    <3>1. meddled' = meddled
      BY <2>1, NextCallCases
    <3>2. Routing'
      BY <2>1, NextCallRouting
    <3>3. RoutedView(view, cluster.paths)
      BY <3>1 DEF Routing
    <3>4. IsView(view) /\ (CallDone(Head(view.calls)) \/ CallFailed(Head(view.calls)))
      BY <2>1, OpenViews, NextCallCases
    <3>5. view'.paths = view.paths /\ view'.mode = view.mode
      BY <3>4 DEF IsView, ViewFields, CallDone, CallFailed
    <3>6. view' # Closed
      BY <3>4, <3>5 DEF Closed, IsView
    <3>7. RoutedView(view', cluster'.paths)
      BY <3>1, <3>2, <3>6 DEF Routing
    <3>8. cluster.paths \in Lists(view.paths) /\ cluster'.paths \in Lists(view.paths)
      BY <3>3, <3>5, <3>7 DEF RoutedView
    <3> QED BY <3>8, OthersAre DEF Lists
  <2>2. CASE OpenCreate \/ OpenEdit \/ Change \/ Submit \/ OpenList \/ ConfirmDelete \/ Finish \/ Leave
    <3>1. cluster' = cluster
      BY <2>2 DEF OpenCreate, OpenEdit, Change, Submit, OpenList, ConfirmDelete, Finish, Leave
    <3> QED BY <3>1
  <2>3. CASE Meddle
    BY <2>3 DEF Meddle
  <2> QED BY <2>1, <2>2, <2>3 DEF ApplicationsNext
<1>2. KubeSpec => [][A]_kubeVars
  BY <1>1, RoutingInvariance, PTL DEF KubeSpec
<1> QED BY <1>2 DEF OthersRoutesKept

-----------------------------------------------------------------------------
(* What an application is made of, read and written back                   *)

\* More of what the resources and the forms are made of: the claims have names, the kinds
\* that do not scale have no number and no affinity, a stateful set has a folder.
MountOf      == [claim : Nat \ {0}, path : Nat]
FolderRow    == [claim : Nat, existing : Nat, path : Nat, new : BOOLEAN, del : BOOLEAN]
PlacementRow == [label : Nat, value : Nat, new : BOOLEAN, del : BOOLEAN]
Affinities   == [mandatory : BOOLEAN, terms : Seq([label : Nat, value : Nat])]

\* The form, its folders and placements included
IsFullForm(f) ==
  /\ IsForm(f) /\ f.folders \in Seq(FolderRow) /\ f.placements \in Seq(PlacementRow)
  /\ f.mandatory \in BOOLEAN /\ f.scaler \in BOOLEAN

\* A resource that a form can be read from
FitApp(a) ==
  /\ IsApp(a) /\ a.mounts \in Seq(MountOf)
  /\ a.kind = "StatefulSet" => a.mounts # <<>>
  /\ a.kind = "DaemonSet" => a.replicas = 0 /\ a.affinity = None
  /\ a.affinity # None => a.affinity \in Affinities /\ a.affinity.terms # <<>>

\* What two applications agree on, that are the same but for the CPU, which no update changes
Alike(a, b) ==
  a.kind = b.kind /\ a.env = b.env /\ a.mounts = b.mounts /\ a.replicas = b.replicas /\ a.affinity = b.affinity

LEMMA KeptAll ==
  ASSUME NEW rows, IsSeq(rows), \A i \in 1 .. Len(rows) : ~rows[i].del
  PROVE  Kept(rows) = rows
<1> DEFINE S == {r \in ToSet(rows) : ~r.del}
<1>1. \A e \in ToSet(rows) : e \in S
  BY ToSetFacts
<1>2. Kept(rows) = Among(rows, S)
  BY DEF Kept
<1> HIDE DEF S
<1> QED BY <1>1, <1>2, AmongAll

\* The parts of an application that are lists, from the rows of the form
LEMMA EnvIs ==
  ASSUME NEW f, IsForm(f), NEW fresh
  PROVE  LET rows == Kept(f.env)
             env  == ToApplication(f, fresh).env
         IN  IsSeq(rows) /\ IsSeq(env) /\ Len(env) = Len(rows) /\ \A i \in 1 .. Len(rows) : env[i] = rows[i].name
<1> DEFINE rows == Kept(f.env)
           env  == ToApplication(f, fresh).env
<1>1. IsSeq(f.env)
  BY SeqIsSeq DEF IsForm
<1>2. IsSeq(rows)
  BY <1>1, KeptFacts
<1>3. env = [i \in DOMAIN rows |-> rows[i].name]
  BY DEF ToApplication
<1> HIDE DEF rows, env
<1>4. env = [i \in DOMAIN rows |-> env[i]] /\ \A i \in 1 .. Len(rows) : env[i] = rows[i].name
  BY <1>2, <1>3, SeqFacts
<1>5. IsSeq(env) /\ Len(env) = Len(rows)
  BY <1>2, <1>4, MappedSeq
<1> QED BY <1>2, <1>4, <1>5 DEF rows, env

ClaimOf(r, i, fresh) == IF r.existing # 0 THEN r.existing ELSE IF r.claim # 0 THEN r.claim ELSE fresh + i

\* The mounts are those of the folders that are kept, one after the other.
LEMMA MountsAre ==
  ASSUME NEW f, IsForm(f), NEW fresh
  PROVE  LET rows   == Kept(f.folders)
             mounts == ToApplication(f, fresh).mounts
         IN  /\ IsSeq(rows) /\ IsSeq(mounts) /\ Len(mounts) = Len(rows)
             /\ \A i \in 1 .. Len(rows) : /\ mounts[i] = [claim |-> ClaimOf(rows[i], i, fresh), path |-> rows[i].path]
                                          /\ mounts[i].path = rows[i].path
<1> DEFINE rows   == Kept(f.folders)
           mounts == ToApplication(f, fresh).mounts
           claims == Claims(f, fresh)
<1>1. IsSeq(rows)
  BY KeptFacts DEF IsForm
<1>2. mounts = [i \in DOMAIN claims |-> [claim |-> claims[i].name, path |-> claims[i].path]]
  BY DEF ToApplication
<1>3. claims = [i \in DOMAIN rows |-> [name |-> ClaimOf(rows[i], i, fresh), previous |-> rows[i].claim,
                                       known |-> rows[i].existing # 0, path |-> rows[i].path]]
  BY DEF Claims, ClaimOf
<1> HIDE DEF rows, mounts, claims
<1>4. DOMAIN claims = DOMAIN rows
  BY <1>3
<1>5. ASSUME NEW i \in DOMAIN rows PROVE claims[i].name = ClaimOf(rows[i], i, fresh) /\ claims[i].path = rows[i].path
  <2> DEFINE known == rows[i].existing # 0
             c == [name |-> ClaimOf(rows[i], i, fresh), previous |-> rows[i].claim, known |-> known, path |-> rows[i].path]
  <2>1. claims[i] = c
    BY <1>3
  <2> HIDE DEF known
  <2> QED BY <2>1
<1>6. mounts = [i \in DOMAIN rows |-> mounts[i]]
  BY <1>2, <1>4
<1>7. IsSeq(mounts) /\ Len(mounts) = Len(rows)
  BY <1>1, <1>6, MappedSeq
<1>8. \A i \in 1 .. Len(rows) : mounts[i] = [claim |-> ClaimOf(rows[i], i, fresh), path |-> rows[i].path]
  BY <1>1, <1>2, <1>4, <1>5, SeqFacts
<1>9. ASSUME NEW i \in 1 .. Len(rows) PROVE mounts[i].path = rows[i].path
  <2> DEFINE c == ClaimOf(rows[i], i, fresh)
  <2>1. mounts[i] = [claim |-> c, path |-> rows[i].path]
    BY <1>8
  <2> HIDE DEF c
  <2> QED BY <2>1
<1> QED BY <1>1, <1>7, <1>8, <1>9 DEF rows, mounts

\* The terms of the affinity are those of the placements that are kept.
LEMMA AffinityIs ==
  ASSUME NEW f, f.placements \in Seq(PlacementRow), f.mandatory \in BOOLEAN
  PROVE  LET rows == Kept(f.placements)
             a    == AffinityOf(f)
         IN  /\ rows \in Seq(PlacementRow)
             /\ f.deployment # "replicated" \/ rows = <<>> => a = None
             /\ f.deployment = "replicated" /\ rows # <<>> =>
                  /\ a \in Affinities /\ a # None /\ a.mandatory = f.mandatory /\ Len(a.terms) = Len(rows)
                  /\ \A i \in 1 .. Len(rows) : a.terms[i] = [label |-> rows[i].label, value |-> rows[i].value]
<1> DEFINE rows  == Kept(f.placements)
           a     == AffinityOf(f)
           terms == [i \in DOMAIN rows |-> [label |-> rows[i].label, value |-> rows[i].value]]
           TermOf == [label : Nat, value : Nat]
<1>1. rows \in Seq(PlacementRow)
  <2>1. \A r \in PlacementRow : [r EXCEPT !.del = TRUE] \in PlacementRow /\ [r EXCEPT !.del = FALSE] \in PlacementRow
    BY DEF PlacementRow
  <2> QED BY <2>1, RowsOf
<1>2. a = IF f.deployment # "replicated" \/ rows = <<>> THEN None ELSE [mandatory |-> f.mandatory, terms |-> terms]
  BY DEF AffinityOf
<1> HIDE DEF rows, a
<1>3. IsSeq(rows) /\ (\A i \in 1 .. Len(rows) : rows[i] \in PlacementRow) /\ DOMAIN rows = 1 .. Len(rows)
  BY <1>1, SeqIsSeq, SeqFacts
<1>4. /\ terms = [i \in DOMAIN rows |-> terms[i]]
      /\ \A i \in 1 .. Len(rows) : terms[i] = [label |-> rows[i].label, value |-> rows[i].value] /\ terms[i] \in TermOf
  BY <1>3 DEF PlacementRow
<1> HIDE DEF terms, TermOf
<1>5. terms \in Seq(TermOf) /\ Len(terms) = Len(rows)
  BY <1>3, <1>4, MappedWithin, MappedSeq
<1>6. ASSUME f.deployment = "replicated", rows # <<>>
      PROVE  a \in Affinities /\ a # None /\ a.mandatory = f.mandatory /\ a.terms = terms
  <2>1. a = [mandatory |-> f.mandatory, terms |-> terms]
    BY <1>2, <1>6
  <2>2. DOMAIN a = {"mandatory", "terms"} /\ a.mandatory = f.mandatory /\ a.terms = terms
    BY <2>1
  <2>3. a \in Affinities
    BY <1>5, <2>1 DEF Affinities, TermOf
  <2> QED BY <2>2, <2>3, NoneFacts
<1> QED BY <1>1, <1>2, <1>4, <1>5, <1>6 DEF rows, a

\* The form an application is read into says what it is.
LEMMA ReadApp ==
  ASSUME NEW a, FitApp(a), NEW service, service = None \/ service.ports \in Seq(Nat), NEW paths \in Seq(Paths),
         NEW scaler, NEW shared
  PROVE  LET g == ApplicationToFormValues(a, service, paths, scaler, shared)
         IN  IsFullForm(g) /\ KindOf(g) = a.kind /\ \A fresh : Alike(ToApplication(g, fresh), a)
<1> DEFINE rows    == PortRows(service, paths, "self")
           env     == [i \in DOMAIN a.env |-> [name |-> a.env[i], new |-> FALSE, del |-> FALSE]]
           folders == [i \in DOMAIN a.mounts |-> [claim |-> a.mounts[i].claim, existing |-> 0,
                                                  path |-> a.mounts[i].path, new |-> FALSE, del |-> FALSE]]
           way     == PublishingOf(service, rows)
           places  == PlacementRows(a.affinity)
           must    == a.affinity # None /\ a.affinity.mandatory
           scales  == scaler # None
           number  == IF a.kind = "DaemonSet" THEN Nodes ELSE a.replicas
           most    == IF scaler # None THEN scaler.max ELSE IF a.kind = "DaemonSet" THEN Nodes ELSE a.replicas
           g       == ApplicationToFormValues(a, service, paths, scaler, shared)
<1>0. /\ IsApp(a) /\ a.mounts \in Seq(MountOf) /\ a.kind \in Kinds /\ a.env \in Seq(1 .. 2)
      /\ a.kind = "StatefulSet" => a.mounts # <<>>
      /\ a.kind = "DaemonSet" => a.replicas = 0 /\ a.affinity = None
      /\ a.affinity # None => a.affinity \in Affinities /\ a.affinity.terms # <<>>
  BY DEF FitApp, IsApp
<1>1. IsForm(g)
  BY <1>0, SavedForm
<1>2. g = [appType    |-> a.kind,
           deployment |-> IF a.kind = "DaemonSet" THEN "global" ELSE "replicated",
           policy     |-> IF a.kind = "StatefulSet" THEN "isolated" ELSE "shared",
           env |-> env, folders |-> folders, ports |-> rows, publishing |-> way, placements |-> places,
           mandatory |-> must, scaler |-> scales, replicas |-> number, maxReplicas |-> most,
           cpu |-> a.cpu, rwx |-> shared]
  BY DEF ApplicationToFormValues
<1> HIDE DEF rows, env, folders, way, places, must, scales, number, most, g
<1>3. /\ g.appType = a.kind /\ g.deployment = IF a.kind = "DaemonSet" THEN "global" ELSE "replicated"
      /\ g.policy = IF a.kind = "StatefulSet" THEN "isolated" ELSE "shared"
      /\ g.env = env /\ g.folders = folders /\ g.placements = places /\ g.mandatory = must /\ g.scaler = scales
      /\ g.replicas = number
  BY <1>2
<1>4. /\ IsSeq(folders) /\ Len(folders) = Len(a.mounts) /\ folders \in Seq(FolderRow)
      /\ \A i \in 1 .. Len(folders) : /\ folders[i].claim = a.mounts[i].claim /\ folders[i].existing = 0
                                      /\ folders[i].path = a.mounts[i].path /\ ~folders[i].del
  <2>1. IsSeq(a.mounts) /\ (\A i \in 1 .. Len(a.mounts) : a.mounts[i] \in MountOf) /\ DOMAIN a.mounts = 1 .. Len(a.mounts)
    BY <1>0, SeqIsSeq, SeqFacts
  <2>2. /\ folders = [i \in DOMAIN a.mounts |-> folders[i]]
        /\ \A i \in 1 .. Len(a.mounts) : /\ folders[i].claim = a.mounts[i].claim /\ folders[i].existing = 0
                                         /\ folders[i].path = a.mounts[i].path /\ ~folders[i].del
                                         /\ folders[i] \in FolderRow
    BY <2>1 DEF folders, MountOf, FolderRow
  <2>3. IsSeq(folders) /\ Len(folders) = Len(a.mounts) /\ folders \in Seq(FolderRow)
    BY <2>1, <2>2, MappedSeq, MappedWithin
  <2> QED BY <2>2, <2>3
<1>5. Kept(g.folders) = folders
  BY <1>3, <1>4, KeptAll
<1>6. folders = <<>> <=> a.mounts = <<>>
  BY <1>0, <1>4, SeqIsSeq, SeqFacts
<1>7. KindOf(g) = a.kind
  BY <1>0, <1>3, <1>5, <1>6 DEF KindOf, Kinds
<1>8. /\ IsSeq(places) /\ places \in Seq(PlacementRow)
      /\ a.affinity = None => places = <<>>
      /\ a.affinity # None => /\ Len(places) = Len(a.affinity.terms)
                              /\ \A i \in 1 .. Len(places) : /\ places[i].label = a.affinity.terms[i].label
                                                             /\ places[i].value = a.affinity.terms[i].value
      /\ \A i \in 1 .. Len(places) : ~places[i].del
  <2>1. CASE a.affinity = None
    <3>1. places = <<>>
      BY <2>1 DEF places, PlacementRows
    <3>2. IsSeq(<<>>) /\ <<>> \in Seq(PlacementRow) /\ Len(<<>>) = 0
      BY EmptyFacts
    <3> QED BY <2>1, <3>1, <3>2
  <2>2. CASE a.affinity # None
    <3> DEFINE terms == a.affinity.terms
    <3>1. places = [i \in DOMAIN terms |-> [label |-> terms[i].label, value |-> terms[i].value, new |-> FALSE, del |-> FALSE]]
      BY <2>2 DEF places, PlacementRows
    <3>2. terms \in Seq([label : Nat, value : Nat])
      BY <1>0, <2>2 DEF Affinities
    <3> HIDE DEF terms
    <3>3. IsSeq(terms) /\ (\A i \in 1 .. Len(terms) : terms[i] \in [label : Nat, value : Nat]) /\ DOMAIN terms = 1 .. Len(terms)
      BY <3>2, SeqIsSeq, SeqFacts
    <3>4. /\ places = [i \in DOMAIN terms |-> places[i]]
          /\ \A i \in 1 .. Len(terms) : /\ places[i].label = terms[i].label /\ places[i].value = terms[i].value
                                        /\ ~places[i].del /\ places[i] \in PlacementRow
      BY <3>1, <3>3 DEF PlacementRow
    <3>5. IsSeq(places) /\ Len(places) = Len(terms) /\ places \in Seq(PlacementRow)
      BY <3>3, <3>4, MappedSeq, MappedWithin
    <3> QED BY <2>2, <3>4, <3>5 DEF terms
  <2> QED BY <2>1, <2>2
<1>9. Kept(g.placements) = places
  BY <1>3, <1>8, KeptAll
<1>10. g.mandatory \in BOOLEAN /\ g.scaler \in BOOLEAN
  <2>1. must \in BOOLEAN
    BY <1>0 DEF must, Affinities
  <2>2. scales \in BOOLEAN
    BY DEF scales
  <2> QED BY <1>3, <2>1, <2>2
<1>11. IsFullForm(g)
  BY <1>1, <1>3, <1>4, <1>8, <1>10 DEF IsFullForm
<1>12. ASSUME NEW fresh PROVE Alike(ToApplication(g, fresh), a)
  <2> DEFINE b == ToApplication(g, fresh)
  <2>1. b.kind = KindOf(g) /\ b.replicas = (IF KindOf(g) = "DaemonSet" THEN 0 ELSE g.replicas) /\ b.affinity = AffinityOf(g)
    BY DEF ToApplication
  <2>2. b.env = a.env
    <3>1. IsSeq(a.env) /\ DOMAIN a.env = 1 .. Len(a.env)
      BY <1>0, SeqIsSeq, SeqFacts
    <3>2. env = [i \in DOMAIN a.env |-> env[i]] /\ \A i \in 1 .. Len(a.env) : env[i].name = a.env[i] /\ ~env[i].del
      BY <3>1 DEF env
    <3>3. IsSeq(env) /\ Len(env) = Len(a.env)
      BY <3>1, <3>2, MappedSeq
    <3>4. Kept(env) = env
      BY <3>2, <3>3, KeptAll
    <3>5. LET kept == Kept(g.env) IN IsSeq(b.env) /\ Len(b.env) = Len(kept) /\ \A i \in 1 .. Len(kept) : b.env[i] = kept[i].name
      BY <1>1, EnvIs
    <3> HIDE DEF b
    <3>6. IsSeq(b.env) /\ Len(b.env) = Len(a.env) /\ \A i \in 1 .. Len(a.env) : b.env[i] = a.env[i]
      <4>1. Kept(g.env) = env
        BY <1>3, <3>4
      <4>2. IsSeq(b.env) /\ Len(b.env) = Len(env) /\ \A i \in 1 .. Len(env) : b.env[i] = env[i].name
        BY <3>5, <4>1
      <4> QED BY <3>2, <3>3, <4>2
    <3> QED BY <3>1, <3>6, SeqsEqual
  <2>3. b.mounts = a.mounts
    <3>1. IsSeq(a.mounts) /\ \A i \in 1 .. Len(a.mounts) : a.mounts[i] \in MountOf
      BY <1>0, SeqIsSeq
    <3>2. LET kept == Kept(g.folders)
          IN  /\ IsSeq(b.mounts) /\ Len(b.mounts) = Len(kept)
              /\ \A i \in 1 .. Len(kept) : b.mounts[i] = [claim |-> ClaimOf(kept[i], i, fresh), path |-> kept[i].path]
      BY <1>1, MountsAre
    <3> HIDE DEF b
    <3>3. /\ IsSeq(b.mounts) /\ Len(b.mounts) = Len(a.mounts)
          /\ \A i \in 1 .. Len(a.mounts) : b.mounts[i] = [claim |-> ClaimOf(folders[i], i, fresh), path |-> folders[i].path]
      BY <1>4, <1>5, <3>2
    <3>4. ASSUME NEW i \in 1 .. Len(a.mounts) PROVE b.mounts[i] = a.mounts[i]
      <4>1. a.mounts[i] \in MountOf
        BY <3>1
      <4>2. a.mounts[i] = [claim |-> a.mounts[i].claim, path |-> a.mounts[i].path] /\ a.mounts[i].claim # 0
        BY <4>1 DEF MountOf
      <4>3. ClaimOf(folders[i], i, fresh) = a.mounts[i].claim /\ folders[i].path = a.mounts[i].path
        BY <1>4, <4>2 DEF ClaimOf
      <4> QED BY <3>3, <4>2, <4>3
    <3> QED BY <3>1, <3>3, <3>4, SeqsEqual
  <2>4. b.affinity = a.affinity
    <3>1. LET kept == Kept(g.placements)
              x    == AffinityOf(g)
          IN  /\ g.deployment # "replicated" \/ kept = <<>> => x = None
              /\ g.deployment = "replicated" /\ kept # <<>> =>
                   /\ x \in Affinities /\ x # None /\ x.mandatory = g.mandatory /\ Len(x.terms) = Len(kept)
                   /\ \A i \in 1 .. Len(kept) : x.terms[i] = [label |-> kept[i].label, value |-> kept[i].value]
      BY <1>11, AffinityIs DEF IsFullForm
    <3>2. CASE a.affinity = None
      BY <1>8, <1>9, <2>1, <3>1, <3>2
    <3>3. CASE a.affinity # None
      <4> DEFINE x == AffinityOf(g)
                 y == a.affinity
      <4>1. g.deployment = "replicated"
        BY <1>0, <1>3, <3>3
      <4>2. y \in Affinities /\ y.terms # <<>> /\ y # None
        BY <1>0, <3>3
      <4>3. /\ Len(places) = Len(y.terms)
            /\ \A i \in 1 .. Len(places) : places[i].label = y.terms[i].label /\ places[i].value = y.terms[i].value
        BY <1>8, <3>3
      <4>4. y.terms \in Seq([label : Nat, value : Nat]) /\ y = [mandatory |-> y.mandatory, terms |-> y.terms] /\ y.mandatory \in BOOLEAN
        BY <4>2 DEF Affinities
      <4>5. /\ IsSeq(y.terms) /\ Len(y.terms) # 0
            /\ \A i \in 1 .. Len(y.terms) : y.terms[i] \in [label : Nat, value : Nat]
        BY <4>2, <4>4, SeqIsSeq, SeqFacts
      <4>6. places # <<>>
        BY <4>3, <4>5, EmptyFacts
      <4>7. /\ x \in Affinities /\ x.mandatory = g.mandatory /\ Len(x.terms) = Len(places)
            /\ \A i \in 1 .. Len(places) : x.terms[i] = [label |-> places[i].label, value |-> places[i].value]
        BY <1>9, <3>1, <4>1, <4>6
      <4>8. g.mandatory = y.mandatory
        BY <1>3, <4>2, <4>4 DEF must
      <4> HIDE DEF x, y
      <4>9. x = [mandatory |-> x.mandatory, terms |-> x.terms] /\ x.terms \in Seq([label : Nat, value : Nat])
        BY <4>7 DEF Affinities
      <4>10. x.terms = y.terms
        <5>1. \A i \in 1 .. Len(y.terms) : y.terms[i] = [label |-> y.terms[i].label, value |-> y.terms[i].value]
          BY <4>5
        <5>2. \A i \in 1 .. Len(y.terms) : x.terms[i] = y.terms[i]
          BY <4>3, <4>7, <5>1
        <5>3. IsSeq(x.terms) /\ Len(x.terms) = Len(y.terms)
          BY <4>3, <4>7, <4>9, SeqIsSeq
        <5> QED BY <4>5, <5>2, <5>3, SeqsEqual
      <4>11. x = y
        BY <4>4, <4>7, <4>8, <4>9, <4>10
      <4> QED BY <2>1, <4>11 DEF x, y
    <3> QED BY <3>2, <3>3
  <2>5. b.replicas = a.replicas
    BY <1>0, <1>3, <1>7, <2>1 DEF number
  <2> HIDE DEF b
  <2>6. Alike(b, a)
    BY <1>7, <2>1, <2>2, <2>3, <2>4, <2>5 DEF Alike
  <2> QED BY <2>6 DEF b
<1> QED BY <1>7, <1>11, <1>12 DEF g

\* A form that is filled in or changed, which has no kind of its own
FitForm(f) == IsFullForm(f) /\ f.appType = "none"

LEMMA FolderKept ==
  ASSUME NEW f, IsFullForm(f)
  PROVE  Kept(f.folders) \in Seq(FolderRow)
<1>1. \A r \in FolderRow : [r EXCEPT !.del = TRUE] \in FolderRow /\ [r EXCEPT !.del = FALSE] \in FolderRow
  BY DEF FolderRow
<1>2. f.folders \in Seq(FolderRow)
  BY DEF IsFullForm
<1> QED BY <1>1, <1>2, RowsOf

\* What a form is turned into can be read again.
LEMMA NewApp ==
  ASSUME NEW f, FitForm(f), KindOf(f) \in Kinds, NEW fresh \in Nat
  PROVE  FitApp(ToApplication(f, fresh))
<1> DEFINE a == ToApplication(f, fresh)
           rows == Kept(f.folders)
<1>1. IsFullForm(f) /\ IsForm(f) /\ f.appType = "none"
  BY DEF FitForm, IsFullForm
<1>2. a.kind = KindOf(f) /\ a.replicas = (IF KindOf(f) = "DaemonSet" THEN 0 ELSE f.replicas) /\ a.affinity = AffinityOf(f)
  BY DEF ToApplication
<1>3. IsApp(a)
  BY <1>1, ApplicationOf
<1>4. rows \in Seq(FolderRow)
  BY <1>1, FolderKept
<1>5. /\ IsSeq(rows) /\ IsSeq(a.mounts) /\ Len(a.mounts) = Len(rows)
      /\ \A i \in 1 .. Len(rows) : a.mounts[i] = [claim |-> ClaimOf(rows[i], i, fresh), path |-> rows[i].path]
  BY <1>1, MountsAre
<1> HIDE DEF a
<1>6. a.mounts \in Seq(MountOf)
  <2>1. ASSUME NEW i \in 1 .. Len(rows) PROVE a.mounts[i] \in MountOf
    <3>1. rows[i] \in FolderRow
      BY <1>4, SeqIsSeq
    <3>2. rows[i].existing \in Nat /\ rows[i].claim \in Nat /\ rows[i].path \in Nat
      BY <3>1 DEF FolderRow
    <3>3. Len(rows) \in Nat
      BY <1>5, SeqFacts
    <3>4. ClaimOf(rows[i], i, fresh) \in Nat \ {0}
      BY <3>2, <3>3 DEF ClaimOf
    <3> DEFINE c == ClaimOf(rows[i], i, fresh)
               p == rows[i].path
    <3>5. a.mounts[i] = [claim |-> c, path |-> p] /\ c \in Nat \ {0} /\ p \in Nat
      BY <1>5, <3>2, <3>4
    <3> HIDE DEF c, p
    <3> QED BY <3>5 DEF MountOf
  <2>2. \A i \in 1 .. Len(a.mounts) : a.mounts[i] \in MountOf
    BY <1>5, <2>1
  <2> QED BY <1>5, <2>2, SeqFrom
<1>7. a.kind = "StatefulSet" => a.mounts # <<>>
  <2>1. KindOf(f) = "StatefulSet" => rows # <<>>
    BY <1>1 DEF KindOf
  <2> HIDE DEF rows
  <2>2. rows # <<>> => Len(rows) # 0
    BY <1>5, SeqFacts
  <2> QED BY <1>2, <1>5, <2>1, <2>2, EmptyFacts
<1>8. a.kind = "DaemonSet" => f.deployment # "replicated"
  BY <1>1, <1>2 DEF KindOf, IsForm
<1>9. LET kept == Kept(f.placements)
          x    == AffinityOf(f)
      IN  /\ kept \in Seq(PlacementRow)
          /\ f.deployment # "replicated" \/ kept = <<>> => x = None
          /\ f.deployment = "replicated" /\ kept # <<>> =>
               /\ x \in Affinities /\ x # None /\ x.mandatory = f.mandatory /\ Len(x.terms) = Len(kept)
               /\ \A i \in 1 .. Len(kept) : x.terms[i] = [label |-> kept[i].label, value |-> kept[i].value]
  BY <1>1, AffinityIs DEF IsFullForm
<1>10. a.affinity # None => a.affinity \in Affinities /\ a.affinity.terms # <<>>
  <2> SUFFICES ASSUME a.affinity # None PROVE a.affinity \in Affinities /\ a.affinity.terms # <<>>
    OBVIOUS
  <2> DEFINE kept == Kept(f.placements)
  <2>1. kept \in Seq(PlacementRow) /\ kept # <<>> /\ a.affinity \in Affinities /\ Len(a.affinity.terms) = Len(kept)
    BY <1>2, <1>9
  <2> HIDE DEF kept
  <2>2. Len(kept) # 0
    BY <2>1, SeqIsSeq, SeqFacts
  <2> QED BY <2>1, <2>2, EmptyFacts
<1>11. FitApp(a)
  BY <1>2, <1>3, <1>6, <1>7, <1>8, <1>9, <1>10 DEF FitApp
<1> QED BY <1>11 DEF a

\* What the form refuses to submit: a variable or a path that is there twice
LEMMA NewAppUnambiguous ==
  ASSUME NEW f, FitForm(f), NEW paths, IsValid(f, paths), NEW saved, IsComplete(f, saved), NEW fresh
  PROVE  IsInjective(ToApplication(f, fresh).env) /\ Mountable(ToApplication(f, fresh).mounts)
<1>1. IsForm(f) /\ f.env \in Seq(EnvRows) /\ IsSeq(f.env) /\ f.folders \in Seq(FolderRow) /\ IsSeq(f.folders)
  BY SeqIsSeq DEF FitForm, IsFullForm, IsForm
<1>2. IsInjective(ToApplication(f, fresh).env)
  <2> DEFINE rows == f.env
             S    == {r \in ToSet(rows) : ~r.del}
             kept == Among(rows, S)
             env  == ToApplication(f, fresh).env
  <2>1. \A i, j \in 1 .. Len(rows) : rows[i].name = rows[j].name => i = j
    <3> DEFINE names == [i \in DOMAIN rows |-> rows[i].name]
    <3>1. DOMAIN rows = 1 .. Len(rows)
      BY <1>1, SeqFacts
    <3>2. GetDuplicates(names) = {}
      BY DEF IsValid, DuplicateVariables
    <3>3. DOMAIN names = 1 .. Len(rows) /\ \A i \in 1 .. Len(rows) : names[i] = rows[i].name /\ names[i] # 0
      BY <3>1 DEF IsComplete
    <3> HIDE DEF names
    <3> QED BY <3>2, <3>3 DEF GetDuplicates
  <2>2. IsInjective(kept)
    <3> HIDE DEF S
    <3>1. \A i, j \in 1 .. Len(rows) : rows[i] \in S /\ rows[i] = rows[j] => i = j
      BY <2>1
    <3> QED BY <1>1, <3>1, AmongDistinct
  <2>3. \A e, d \in ToSet(rows) : e.name = d.name => e = d
    BY <1>1, <2>1, ToSetFacts
  <2>4. IsSeq(kept) /\ \A e \in ToSet(kept) : e \in ToSet(rows)
    <3> HIDE DEF S
    <3> QED BY <1>1, AmongElements
  <2>5. IsSeq(env) /\ Len(env) = Len(kept) /\ \A i \in 1 .. Len(kept) : env[i] = kept[i].name
    <3>1. kept = Kept(f.env)
      BY DEF Kept
    <3> HIDE DEF kept, env
    <3> QED BY <1>1, <3>1, EnvIs DEF env
  <2> HIDE DEF kept, env
  <2>6. \A i \in 1 .. Len(kept) : kept[i] \in ToSet(rows)
    BY <2>4, ToSetFacts
  <2>7. DOMAIN env = 1 .. Len(kept) /\ DOMAIN kept = 1 .. Len(kept)
    BY <2>4, <2>5, SeqFacts
  <2>8. \A i, j \in 1 .. Len(kept) : env[i] = env[j] => kept[i] = kept[j]
    BY <2>3, <2>5, <2>6
  <2>9. IsInjective(env)
    BY <2>2, <2>7, <2>8 DEF IsInjective
  <2> QED BY <2>9 DEF env
<1>3. Mountable(ToApplication(f, fresh).mounts)
  <2> DEFINE rows   == f.folders
             S      == {r \in ToSet(rows) : ~r.del}
             kept   == Among(rows, S)
             mounts == ToApplication(f, fresh).mounts
  <2>1. \A i, j \in 1 .. Len(rows) : ~rows[i].del /\ ~rows[j].del /\ rows[i].path = rows[j].path => i = j
    <3> DEFINE names == [i \in DOMAIN rows |-> IF rows[i].del THEN 0 ELSE rows[i].path]
    <3>1. DOMAIN rows = 1 .. Len(rows)
      BY <1>1, SeqFacts
    <3>2. GetDuplicates(names) = {}
      BY DEF IsValid, DuplicateFolders
    <3>3. /\ DOMAIN names = 1 .. Len(rows)
          /\ \A i \in 1 .. Len(rows) : ~rows[i].del => names[i] = rows[i].path /\ names[i] # 0
      BY <3>1 DEF IsComplete
    <3> HIDE DEF names
    <3> QED BY <3>2, <3>3 DEF GetDuplicates
  <2>a. \A i \in 1 .. Len(rows) : rows[i] \in S <=> ~rows[i].del
    BY <1>1, ToSetFacts
  <2>b. \A e : e \in S <=> e \in ToSet(rows) /\ ~e.del
    OBVIOUS
  <2>2. IsInjective(kept)
    <3> HIDE DEF S
    <3>1. \A i, j \in 1 .. Len(rows) : rows[i] \in S /\ rows[i] = rows[j] => i = j
      BY <2>1, <2>a
    <3> QED BY <1>1, <3>1, AmongDistinct
  <2>3. \A e, d \in S : e.path = d.path => e = d
    BY <1>1, <2>1, ToSetFacts
  <2>4. IsSeq(kept) /\ \A e \in ToSet(kept) : e \in S
    <3> HIDE DEF S
    <3> QED BY <1>1, AmongElements
  <2>5. /\ IsSeq(mounts) /\ Len(mounts) = Len(kept)
        /\ \A i \in 1 .. Len(kept) : mounts[i].path = kept[i].path
    <3>1. kept = Kept(f.folders)
      BY DEF Kept
    <3> HIDE DEF kept, mounts
    <3> QED BY <1>1, <3>1, MountsAre DEF mounts
  <2> HIDE DEF kept, mounts, S
  <2>6. \A i \in 1 .. Len(kept) : kept[i] \in S
    BY <2>4, ToSetFacts
  <2>7. DOMAIN mounts = 1 .. Len(kept) /\ DOMAIN kept = 1 .. Len(kept)
    BY <2>4, <2>5, SeqFacts
  <2>8. \A i, j \in 1 .. Len(kept) : mounts[i].path = mounts[j].path => kept[i] = kept[j]
    BY <2>3, <2>5, <2>6
  <2>9. Mountable(mounts)
    BY <2>2, <2>7, <2>8 DEF IsInjective, Mountable
  <2> QED BY <2>9 DEF mounts
<1> QED BY <1>2, <1>3

\* The form that is read from an application shows the ports of its service.
LEMMA ReadService ==
  ASSUME NEW a, FitApp(a), NEW service, service = None \/ IsService(service) \/ service.ports = <<>>, NEW paths \in Seq(Paths),
         NEW scaler, NEW shared
  PROVE  LET g == ApplicationToFormValues(a, service, paths, scaler, shared)
         IN  /\ service = None \/ service.ports = <<>> => ToService(g) = None
             /\ service # None /\ IsService(service) =>
                  ToService(g) # None /\ ToService(g).ports = service.ports /\ ToService(g).type = service.type
<1> DEFINE g    == ApplicationToFormValues(a, service, paths, scaler, shared)
           rows == PortRows(service, paths, "self")
           way  == PublishingOf(service, rows)
           S    == {r \in ToSet(rows) : r.new \/ ~r.del}
<1>1. /\ g.ports = rows /\ g.publishing = way
  BY DEF ApplicationToFormValues
<1>2. rows \in Seq(PortRow) /\ Untouched(rows) /\ IsSeq(rows)
  <2>1. <<>> \in Seq(Nat)
    OBVIOUS
  <2>2. service = None \/ service.ports \in Seq(Nat)
    BY <2>1 DEF IsService
  <2> QED BY <2>2, SavedRows, SeqIsSeq
<1>3. Among(rows, S) = rows
  <2>1. \A e \in ToSet(rows) : e \in S
    BY <1>2, ToSetFacts DEF Untouched
  <2> HIDE DEF rows, S
  <2> QED BY <1>2, <2>1, AmongAll
<1>4. PublishedPorts(g) = Uniq(PortsOf(rows))
  <2> DEFINE kept == Among(g.ports, {r \in ToSet(g.ports) : r.new \/ ~r.del})
  <2>1. PublishedPorts(g) = Uniq([i \in DOMAIN kept |-> kept[i].port])
    BY DEF PublishedPorts
  <2>2. kept = rows
    BY <1>1, <1>3
  <2> HIDE DEF kept
  <2> QED BY <2>1, <2>2 DEF PortsOf
<1> HIDE DEF g
<1>5. ASSUME service = None \/ service.ports = <<>> PROVE ToService(g) = None
  <2>1. rows = <<>>
    <3>1. CASE service = None
      BY <3>1 DEF PortRows
    <3>2. CASE service # None /\ service.ports = <<>>
      <4>1. IsSeq(service.ports) /\ Len(service.ports) = 0 /\ IsSeq(paths)
        BY <3>2, EmptyFacts, SeqIsSeq
      <4>2. PICK f : PortRows(service, paths, "self") = f[Len(service.ports)] /\ RowsBy(f, service.ports, paths, "self")
        BY <3>2, <4>1, RowsSteps
      <4> QED BY <4>1, <4>2 DEF RowsBy
    <3> QED BY <1>5, <3>1, <3>2
  <2>2. PortsOf(<<>>) = <<>>
    <3>1. IsSeq(PortsOf(<<>>)) /\ Len(PortsOf(<<>>)) = Len(<<>>) /\ Len(<<>>) = 0
      BY EmptyFacts, PortsOfFacts
    <3> QED BY <3>1, SeqFacts
  <2>3. PICK u : UniqBy(u, <<>>)
    BY EmptyFacts, UniqSteps
  <2>4. Uniq(<<>>) = <<>>
    BY <2>3, EmptyFacts DEF UniqBy
  <2>5. PublishedPorts(g) = <<>>
    BY <1>4, <2>1, <2>2, <2>4
  <2> QED BY <2>5 DEF ToService
<1>6. ASSUME service # None, IsService(service)
      PROVE  ToService(g) # None /\ ToService(g).ports = service.ports /\ ToService(g).type = service.type
  <2>1. service.ports \in Seq(Nat) /\ service.ports # <<>> /\ IsInjective(service.ports) /\ service.type \in {"NodePort", "ClusterIP"}
    BY <1>6 DEF IsService
  <2>2. PublishedPorts(g) = service.ports
    BY <1>4, <1>6, <2>1, PortsRead, SeqIsSeq
  <2> DEFINE t == IF g.publishing = "cluster" THEN "NodePort" ELSE "ClusterIP"
             s == [type |-> t, ports |-> service.ports]
  <2>3. ToService(g) = s
    BY <2>1, <2>2 DEF ToService
  <2>4. t = service.type
    BY <1>1, <1>6, <2>1 DEF PublishingOf
  <2> HIDE DEF t
  <2>5. s.ports = service.ports /\ s.type = t /\ DOMAIN s = {"type", "ports"}
    OBVIOUS
  <2>6. s # None
    BY <2>5, NoneFacts
  <2> QED BY <2>3, <2>4, <2>5, <2>6
<1> QED BY <1>5, <1>6 DEF g

\* The service is the one of the form.
ServiceFits(s, f) ==
  IF ToService(f) = None THEN s = None ELSE s # None /\ IsService(s) /\ s.ports = ToService(f).ports

\* Opened again, an application that is like the one of a form, with the service of that form,
\* says what the form said.
LEMMA FacetsRead ==
  ASSUME NEW f, FitForm(f), KindOf(f) \in Kinds, NEW fresh \in Nat, NEW a, FitApp(a), Alike(a, ToApplication(f, fresh)),
         NEW service, ServiceFits(service, f), NEW paths \in Seq(Paths), NEW scaler, NEW shared
  PROVE  Facets(ApplicationToFormValues(a, service, paths, scaler, shared)) = Facets(f)
<1> DEFINE g == ApplicationToFormValues(a, service, paths, scaler, shared)
           b == ToApplication(f, fresh)
<1>1. service = None \/ (service # None /\ IsService(service))
  BY DEF ServiceFits
<1>2. IsFullForm(g) /\ KindOf(g) = a.kind /\ \A x : Alike(ToApplication(g, x), a)
  <2>1. service = None \/ service.ports \in Seq(Nat)
    BY <1>1 DEF IsService
  <2> QED BY <2>1, ReadApp
<1>3. /\ service = None \/ service.ports = <<>> => ToService(g) = None
      /\ service # None /\ IsService(service) => ToService(g) # None /\ ToService(g).ports = service.ports
  BY <1>1, ReadService
<1>4. /\ a.kind = b.kind /\ a.env = b.env /\ a.mounts = b.mounts /\ a.replicas = b.replicas /\ a.affinity = b.affinity
      /\ IsForm(f) /\ FitApp(a)
  BY DEF Alike, FitForm, IsFullForm
<1>a. g.folders = [i \in DOMAIN a.mounts |-> [claim |-> a.mounts[i].claim, existing |-> 0,
                                              path |-> a.mounts[i].path, new |-> FALSE, del |-> FALSE]]
  BY DEF ApplicationToFormValues
<1>5. /\ b.kind = KindOf(f) /\ b.affinity = AffinityOf(f)
      /\ \A x : ToApplication(f, x).env = b.env /\ ToApplication(f, x).replicas = b.replicas
  BY DEF ToApplication
<1>6. \A x : /\ ToApplication(g, x).kind = KindOf(g) /\ ToApplication(g, x).affinity = AffinityOf(g)
             /\ ToApplication(g, x).env = a.env /\ ToApplication(g, x).replicas = a.replicas
             /\ ToApplication(g, x).affinity = a.affinity
  BY <1>2 DEF ToApplication, Alike
<1> HIDE DEF g
<1>7. {g.folders[i].path : i \in {j \in DOMAIN g.folders : ~g.folders[j].del}}
        = {f.folders[i].path : i \in {j \in DOMAIN f.folders : ~f.folders[j].del}}
  <2> DEFINE rows == f.folders
             kept == Kept(rows)
  <2>0. IsSeq(rows)
    BY <1>4 DEF IsForm
  <2>1. IsSeq(kept) /\ \A r : r \in ToSet(kept) <=> r \in ToSet(rows) /\ ~r.del
    BY <2>0, KeptFacts
  <2>2. /\ IsSeq(b.mounts) /\ Len(b.mounts) = Len(kept)
        /\ \A i \in 1 .. Len(kept) : b.mounts[i].path = kept[i].path
    BY <1>4, MountsAre
  <2> HIDE DEF b, kept
  <2>3. /\ DOMAIN a.mounts = 1 .. Len(kept) /\ \A i \in 1 .. Len(kept) : a.mounts[i].path = kept[i].path
    BY <1>4, <2>2, SeqFacts
  <2>4. /\ DOMAIN g.folders = 1 .. Len(kept)
        /\ \A i \in 1 .. Len(kept) : g.folders[i].path = kept[i].path /\ ~g.folders[i].del
    BY <1>a, <2>3
  <2>5. DOMAIN rows = 1 .. Len(rows)
    BY <2>0, SeqFacts
  <2>6. ASSUME NEW i \in 1 .. Len(kept) PROVE \E j \in 1 .. Len(rows) : rows[j] = kept[i] /\ ~rows[j].del
    <3>1. kept[i] \in ToSet(kept)
      BY <2>1, ToSetFacts
    <3>2. kept[i] \in ToSet(rows) /\ ~kept[i].del
      BY <2>1, <3>1
    <3>3. PICK j \in 1 .. Len(rows) : rows[j] = kept[i]
      BY <2>0, <3>2, ToSetFacts
    <3> QED BY <3>2, <3>3
  <2>7. ASSUME NEW j \in 1 .. Len(rows), ~rows[j].del PROVE \E i \in 1 .. Len(kept) : rows[j] = kept[i]
    <3>1. rows[j] \in ToSet(rows)
      BY <2>0, ToSetFacts
    <3>2. rows[j] \in ToSet(kept)
      BY <2>1, <2>7, <3>1
    <3>3. \E i \in 1 .. Len(kept) : kept[i] = rows[j]
      BY <2>1, <3>2, ToSetFacts
    <3> QED BY <3>3
  <2> HIDE DEF rows
  <2>8. {g.folders[i].path : i \in {j \in DOMAIN g.folders : ~g.folders[j].del}} = {kept[i].path : i \in 1 .. Len(kept)}
    BY <2>4
  <2>9. {rows[i].path : i \in {j \in DOMAIN rows : ~rows[j].del}} = {kept[i].path : i \in 1 .. Len(kept)}
    <3>1. ASSUME NEW e \in {rows[i].path : i \in {j \in DOMAIN rows : ~rows[j].del}} PROVE e \in {kept[i].path : i \in 1 .. Len(kept)}
      <4>1. PICK j \in 1 .. Len(rows) : ~rows[j].del /\ e = rows[j].path
        BY <2>5, <3>1
      <4>2. PICK i \in 1 .. Len(kept) : rows[j] = kept[i]
        BY <2>7, <4>1
      <4> QED BY <4>1, <4>2
    <3>2. ASSUME NEW i \in 1 .. Len(kept) PROVE kept[i].path \in {rows[k].path : k \in {j \in DOMAIN rows : ~rows[j].del}}
      <4>1. PICK j \in 1 .. Len(rows) : rows[j] = kept[i] /\ ~rows[j].del
        BY <2>6
      <4> QED BY <2>5, <4>1
    <3> QED BY <3>1, <3>2
  <2> QED BY <2>8, <2>9 DEF rows
<1>8. (IF ToService(g) = None THEN {} ELSE ToSet(ToService(g).ports)) = (IF ToService(f) = None THEN {} ELSE ToSet(ToService(f).ports))
  BY <1>3 DEF ServiceFits
<1> HIDE DEF b
<1>9. /\ KindOf(g) = KindOf(f) /\ ToApplication(g, 0).env = ToApplication(f, 0).env
      /\ ToApplication(g, 0).replicas = ToApplication(f, 0).replicas /\ AffinityOf(g) = AffinityOf(f)
  BY <1>2, <1>4, <1>5, <1>6
<1> QED BY <1>7, <1>8, <1>9 DEF Facets, g

-----------------------------------------------------------------------------
(* Chains of calls: what they make of what there is, if each applies       *)

\* What a deployment or an update is about, and what it becomes of by a call, if that applies
Held(c) == [app |-> c.app, service |-> c.service, scaler |-> c.scaler, paths |-> c.paths]

Turned(call, x) ==
  LET op == call.op
  IN  [app     |-> IF op = "app.create" THEN call.new ELSE IF op = "app.patch" THEN PatchedApp(x.app, call.old, call.new)
                   ELSE IF op = "app.delete" THEN None ELSE x.app,
       service |-> IF op = "service.create" THEN call.new
                   ELSE IF op = "service.patch" THEN PatchedService(x.service, call.old, call.new)
                   ELSE IF op = "service.delete" THEN None ELSE x.service,
       scaler  |-> IF op \in {"scaler.create", "scaler.patch"} THEN call.new
                   ELSE IF op = "scaler.delete" THEN None ELSE x.scaler,
       paths   |-> IF op = "ingress.patch" THEN Patched(call.old, call.new, x.paths) ELSE x.paths]

\* The calls s, each of which applies, make y of x: t is what there is after each.
Traces(t, s, x, y) ==
  t[0] = x /\ t[Len(s)] = y /\ \A n \in 1 .. Len(s) : t[n] = Turned(s[n], t[n - 1])

Makes(s, x, y) == \E t : Traces(t, s, x, y)

LEMMA MakesNothing ==
  ASSUME NEW x
  PROVE  Makes(<<>>, x, x)
<1> DEFINE t == [n \in {0} |-> x]
<1>1. t[0] = x /\ Len(<<>>) = 0
  BY EmptyFacts
<1> HIDE DEF t
<1>2. Traces(t, <<>>, x, x)
  BY <1>1 DEF Traces
<1> QED BY <1>2 DEF Makes

LEMMA MadeNothing ==
  ASSUME NEW x, NEW y, Makes(<<>>, x, y)
  PROVE  x = y
BY EmptyFacts DEF Makes, Traces

LEMMA OneElement ==
  ASSUME NEW c
  PROVE  IsSeq(<<c>>) /\ Len(<<c>>) = 1 /\ <<c>>[1] = c /\ ToSet(<<c>>) = {c}
<1>1. <<c>> \in Seq({c})
  OBVIOUS
<1>2. IsSeq(<<c>>) /\ Len(<<c>>) = 1 /\ <<c>>[1] = c
  BY <1>1 DEF IsSeq
<1>3. ASSUME NEW e PROVE e \in ToSet(<<c>>) <=> e = c
  <2>1. e \in ToSet(<<c>>) <=> \E i \in 1 .. 1 : <<c>>[i] = e
    BY <1>2, ToSetFacts
  <2> QED BY <1>2, <2>1
<1> QED BY <1>2, <1>3

LEMMA MakesOne ==
  ASSUME NEW c, NEW x
  PROVE  Makes(<<c>>, x, Turned(c, x))
<1> DEFINE y == Turned(c, x)
           s == <<c>>
           t == [n \in 0 .. 1 |-> IF n = 0 THEN x ELSE y]
<1>1. Len(s) = 1 /\ s[1] = c
  BY OneElement
<1>2. t[0] = x /\ t[1] = y
  OBVIOUS
<1>3. \A n \in 1 .. 1 : n = 1 /\ n - 1 = 0
  OBVIOUS
<1> HIDE DEF t, s
<1>4. Traces(t, s, x, y)
  BY <1>1, <1>2, <1>3 DEF Traces
<1>5. Makes(s, x, y)
  BY <1>4 DEF Makes
<1> QED BY <1>5 DEF s

\* One chain after the other
LEMMA MakesMore ==
  ASSUME NEW s, IsSeq(s), NEW r, IsSeq(r), NEW x, NEW y, Makes(s, x, y), NEW z, Makes(r, y, z)
  PROVE  Makes(s \o r, x, z)
<1>1. PICK t : Traces(t, s, x, y)
  BY DEF Makes
<1>2. PICK q : Traces(q, r, y, z)
  BY DEF Makes
<1> DEFINE M == Len(s)
           N == Len(r)
           u == s \o r
           w == [n \in 0 .. M + N |-> IF n <= M THEN t[n] ELSE q[n - M]]
<1>3. M \in Nat /\ N \in Nat
  BY SeqFacts
<1>4. /\ Len(u) = M + N
      /\ \A i \in 1 .. M : u[i] = s[i]
      /\ \A i \in 1 .. N : u[M + i] = r[i]
  BY ConcatFacts
<1>5. \A n \in 0 .. M : w[n] = t[n]
  BY <1>3
<1>6. \A n \in 1 .. N : w[M + n] = q[n]
  BY <1>3
<1>7. w[M + 0] = q[0] /\ M + 0 = M /\ w[M] = q[0]
  <2>1. t[M] = q[0]
    BY <1>1, <1>2 DEF Traces
  <2> QED BY <1>3, <1>5, <2>1
<1>8. w[0] = x /\ w[M + N] = z
  <2>1. w[0] = x
    BY <1>1, <1>3, <1>5 DEF Traces
  <2>2. q[N] = z
    BY <1>2 DEF Traces
  <2>3. N = 0 \/ N \in 1 .. N
    BY <1>3
  <2> HIDE DEF w, M, N
  <2> QED BY <1>6, <1>7, <2>1, <2>2, <2>3
<1> HIDE DEF w, u
<1>9. ASSUME NEW n \in 1 .. M + N
      PROVE  w[n] = Turned(u[n], w[n - 1])
  <2>1. CASE n \in 1 .. M
    <3>1. n - 1 \in 0 .. M /\ n \in 0 .. M
      BY <1>3, <2>1
    <3>2. t[n] = Turned(s[n], t[n - 1])
      BY <1>1, <2>1 DEF Traces
    <3> QED BY <1>4, <1>5, <2>1, <3>1, <3>2
  <2>2. CASE n \notin 1 .. M
    <3> DEFINE i == n - M
    <3>1. i \in 1 .. N /\ M + i = n /\ M + (i - 1) = n - 1 /\ (i - 1 = 0 \/ i - 1 \in 1 .. N)
      BY <1>3, <2>2
    <3> HIDE DEF i
    <3>2. q[i] = Turned(r[i], q[i - 1])
      BY <1>2, <3>1 DEF Traces
    <3>3. w[M + i] = q[i] /\ u[M + i] = r[i]
      BY <1>4, <1>6, <3>1
    <3>4. w[M + (i - 1)] = q[i - 1]
      BY <1>6, <1>7, <3>1
    <3> QED BY <3>1, <3>2, <3>3, <3>4
  <2> QED BY <2>1, <2>2
<1>10. Traces(w, u, x, z)
  BY <1>4, <1>8, <1>9 DEF Traces
<1> QED BY <1>10 DEF Makes, u

LEMMA TailFacts ==
  ASSUME NEW s, IsSeq(s), s # <<>>
  PROVE  /\ Len(s) \in Nat \ {0} /\ Head(s) = s[1]
         /\ IsSeq(Tail(s)) /\ Len(Tail(s)) = Len(s) - 1 /\ \A i \in 1 .. Len(s) - 1 : Tail(s)[i] = s[i + 1]
<1>1. Len(s) \in Nat /\ Len(s) # 0
  BY SeqFacts
<1>2. PICK S : s \in Seq(S)
  BY DEF IsSeq
<1>3. Tail(s) \in Seq(S) /\ Head(s) = s[1] /\ Len(Tail(s)) = Len(s) - 1 /\ \A i \in 1 .. Len(s) - 1 : Tail(s)[i] = s[i + 1]
  BY <1>1, <1>2
<1> QED BY <1>1, <1>3 DEF IsSeq

\* The rest of a chain goes on from what its first call makes.
LEMMA MakesNext ==
  ASSUME NEW s, IsSeq(s), s # <<>>, NEW x, NEW y, Makes(s, x, y)
  PROVE  Makes(Tail(s), Turned(Head(s), x), y)
<1>1. PICK t : Traces(t, s, x, y)
  BY DEF Makes
<1> DEFINE N == Len(s) - 1
           r == Tail(s)
           z == Turned(Head(s), x)
           w == [n \in 0 .. N |-> t[n + 1]]
<1>2. N \in Nat /\ Len(s) = N + 1 /\ Head(s) = s[1] /\ Len(r) = N /\ \A i \in 1 .. N : r[i] = s[i + 1]
  BY TailFacts
<1>3. \A n \in 0 .. N : w[n] = t[n + 1]
  OBVIOUS
<1> HIDE DEF w, r
<1>4. w[0] = z
  <2>1. t[1] = Turned(s[1], t[1 - 1]) /\ t[0] = x
    BY <1>1, <1>2 DEF Traces
  <2>2. w[0] = t[0 + 1] /\ 0 + 1 = 1 /\ 1 - 1 = 0
    BY <1>2, <1>3
  <2> QED BY <1>2, <2>1, <2>2
<1>5. w[N] = y
  <2>1. t[N + 1] = y
    BY <1>1, <1>2 DEF Traces
  <2> QED BY <1>2, <1>3, <2>1
<1>6. ASSUME NEW n \in 1 .. N
      PROVE  w[n] = Turned(r[n], w[n - 1])
  <2>1. n \in 0 .. N /\ n - 1 \in 0 .. N /\ n + 1 \in 1 .. Len(s) /\ (n - 1) + 1 = n /\ (n + 1) - 1 = n
    BY <1>2
  <2>2. t[n + 1] = Turned(s[n + 1], t[(n + 1) - 1])
    BY <1>1, <2>1 DEF Traces
  <2>3. w[n] = t[n + 1] /\ w[n - 1] = t[n] /\ r[n] = s[n + 1]
    BY <1>2, <1>3, <2>1
  <2> QED BY <2>1, <2>2, <2>3
<1> HIDE DEF N
<1>7. Traces(w, r, z, y)
  BY <1>2, <1>4, <1>5, <1>6 DEF Traces
<1> QED BY <1>7 DEF Makes, r

\* A call does what is said of it.
LEMMA EffectHeld ==
  ASSUME IsCluster(cluster), NEW call
  PROVE  Held(Effect(call)) = Turned(call, Held(cluster))
<1> DEFINE e == Effect(call)
           x == Held(cluster)
           op == call.op
           app   == PatchedApp(cluster.app, call.old, call.new)
           serv  == PatchedService(cluster.service, call.old, call.new)
           paths == Patched(call.old, call.new, cluster.paths)
<1>1. DOMAIN cluster = ClusterFields
  BY DEF IsCluster, ClusterFields
<1>2. /\ e.app = IF op = "app.create" THEN call.new ELSE IF op = "app.patch" THEN app
                 ELSE IF op = "app.delete" THEN None ELSE cluster.app
      /\ e.service = IF op = "service.create" THEN call.new ELSE IF op = "service.patch" THEN serv
                     ELSE IF op = "service.delete" THEN None ELSE cluster.service
      /\ e.scaler = IF op \in {"scaler.create", "scaler.patch"} THEN call.new
                    ELSE IF op = "scaler.delete" THEN None ELSE cluster.scaler
      /\ e.paths = IF op = "ingress.patch" THEN paths ELSE cluster.paths
  BY <1>1, EffectFacts
<1>3. x.app = cluster.app /\ x.service = cluster.service /\ x.scaler = cluster.scaler /\ x.paths = cluster.paths
  BY DEF Held
<1> HIDE DEF e, x
<1> QED BY <1>2, <1>3 DEF Held, Turned, e, x

\* The numbers of claims, as many as there are
Bounded(S) == S \subseteq Nat /\ \E N \in Nat : \A n \in S : n <= N

\* A call that leaves resources of the kind that a form can be read from
FitCall(c) ==
  /\ c.op = "app.create" => FitApp(c.new)
  /\ c.op = "app.patch" => FitApp(c.old) /\ FitApp(c.new) /\ c.old.kind = c.new.kind
  /\ c.op \in {"scaler.create", "scaler.patch"} => c.new.kind # "DaemonSet"
  /\ c.op = "claims.create" => Bounded(c.new)

\* A list of such calls, each of which is one of K
FitCalls(s, K) == IsSeq(s) /\ \A c \in ToSet(s) : FitCall(c) /\ c.op \in K

LEMMA FitNothing ==
  ASSUME NEW K
  PROVE  FitCalls(<<>>, K)
BY EmptyFacts DEF FitCalls

LEMMA FitOne ==
  ASSUME NEW c, FitCall(c), NEW K, c.op \in K
  PROVE  FitCalls(<<c>>, K)
BY OneElement DEF FitCalls

LEMMA FitMore ==
  ASSUME NEW s, NEW r, NEW K, FitCalls(s, K), FitCalls(r, K)
  PROVE  FitCalls(s \o r, K)
<1>1. IsSeq(s \o r) /\ ToSet(s \o r) = ToSet(s) \cup ToSet(r)
  BY ConcatFacts DEF FitCalls
<1> QED BY <1>1 DEF FitCalls

LEMMA FitPatch ==
  ASSUME NEW op, NEW old, NEW new, old # new => FitCall(Call(op, old, new)), NEW K, op \in K
  PROVE  FitCalls(PatchIf(op, old, new), K)
<1>1. CASE old = new
  <2>1. PatchIf(op, old, new) = <<>>
    BY <1>1 DEF PatchIf
  <2> QED BY <2>1, FitNothing
<1>2. CASE old # new
  <2>1. PatchIf(op, old, new) = <<Call(op, old, new)>>
    BY <1>2 DEF PatchIf
  <2>2. Call(op, old, new).op = op
    BY CallFields
  <2>3. FitCalls(<<Call(op, old, new)>>, K)
    BY <1>2, <2>2, FitOne
  <2> QED BY <2>1, <2>3
<1> QED BY <1>1, <1>2

\* Calls about services, routes, headless services, and those that remove
LEMMA OtherCallsFit ==
  ASSUME NEW op, op \notin {"app.create", "app.patch", "scaler.create", "scaler.patch", "claims.create"}, NEW old, NEW new
  PROVE  FitCall(Call(op, old, new))
<1>1. Call(op, old, new).op = op
  BY CallFields
<1> QED BY <1>1 DEF FitCall

LEMMA ComesIn ==
  ASSUME NEW s, IsSeq(s), NEW r, IsSeq(r), NEW op
  PROVE  ToCome(s \o r, op) <=> ToCome(s, op) \/ ToCome(r, op)
<1>1. ToSet(s \o r) = ToSet(s) \cup ToSet(r)
  BY ConcatFacts
<1> QED BY <1>1 DEF ToCome

LEMMA ComesOne ==
  ASSUME NEW c, NEW op
  PROVE  ToCome(<<c>>, op) <=> c.op = op
BY OneElement DEF ToCome

LEMMA ClaimsAreBounded ==
  ASSUME NEW f, FitForm(f), NEW fresh \in Nat
  PROVE  Bounded(ClaimsToCreate(Claims(f, fresh)))
<1> DEFINE rows   == Kept(f.folders)
           claims == Claims(f, fresh)
           N      == fresh + Len(rows)
<1>1. rows \in Seq(FolderRow) /\ IsSeq(rows)
  BY FolderKept, SeqIsSeq DEF FitForm
<1>2. Len(rows) \in Nat /\ DOMAIN rows = 1 .. Len(rows)
  BY <1>1, SeqFacts
<1> HIDE DEF rows
<1>3. /\ DOMAIN claims = 1 .. Len(rows)
      /\ \A i \in 1 .. Len(rows) : ~claims[i].known /\ claims[i].previous = 0 => claims[i].name = fresh + i
  <2>1. claims = [i \in DOMAIN rows |->
                    [name |-> ClaimOf(rows[i], i, fresh), previous |-> rows[i].claim, known |-> rows[i].existing # 0,
                     path |-> rows[i].path]]
    BY DEF Claims, rows, ClaimOf
  <2> HIDE DEF claims
  <2>2. \A i \in 1 .. Len(rows) : /\ claims[i].name = ClaimOf(rows[i], i, fresh)
                                  /\ claims[i].previous = rows[i].claim /\ claims[i].known = (rows[i].existing # 0)
    BY <1>2, <2>1
  <2> QED BY <1>2, <2>1, <2>2 DEF ClaimOf
<1> HIDE DEF claims
<1>4. \A n \in ClaimsToCreate(claims) : \E i \in 1 .. Len(rows) : n = fresh + i
  BY <1>3 DEF ClaimsToCreate
<1>5. \A i \in 1 .. Len(rows) : fresh + i \in Nat /\ fresh + i <= N
  BY <1>2
<1>6. N \in Nat
  BY <1>2
<1>7. Bounded(ClaimsToCreate(claims))
  BY <1>4, <1>5, <1>6 DEF Bounded
<1> QED BY <1>7 DEF claims

\* Numbers for new claims are counted from the largest there is.
LEMMA LargestClaim ==
  ASSUME NEW S, Bounded(S)
  PROVE  (IF S = {} THEN 0 ELSE Max(S)) \in Nat
<1>1. CASE S = {}
  BY <1>1
<1>2. CASE S # {}
  <2> DEFINE T == {N \in Nat : \A n \in S : n <= N}
  <2>1. T \in SUBSET Nat /\ T # {} /\ S \subseteq Nat
    BY DEF Bounded
  <2>2. PICK N \in T : \A m \in T : N <= m
    BY <2>1, Smallest
  <2>3. N \in S
    <3>1. CASE N = 0
      <4>1. PICK n : n \in S
        BY <1>2
      <4>2. n \in Nat /\ n <= 0
        BY <2>1, <2>2, <3>1, <4>1
      <4> QED BY <3>1, <4>1, <4>2
    <3>2. CASE N # 0
      <4>1. N \in Nat /\ N - 1 \in Nat /\ ~(N <= N - 1)
        BY <2>2, <3>2
      <4>2. N - 1 \notin T
        BY <2>2, <4>1
      <4>3. PICK n \in S : ~(n <= N - 1)
        BY <4>1, <4>2
      <4>4. n \in Nat /\ n <= N
        BY <2>1, <2>2
      <4> QED BY <4>1, <4>3, <4>4
    <3> QED BY <3>1, <3>2
  <2>4. \E x \in S : \A y \in S : x >= y
    BY <2>1, <2>2, <2>3
  <2>5. Max(S) \in S
    BY <2>4 DEF Max
  <2> QED BY <1>2, <2>1, <2>5
<1> QED BY <1>1, <1>2

-----------------------------------------------------------------------------
(* The chain of a deployment                                               *)

\* What each kind of call makes, and what it leaves
LEMMA TurnedIs ==
  ASSUME NEW c, NEW x
  PROVE  LET y == Turned(c, x)
         IN  /\ y.app = IF c.op = "app.create" THEN c.new ELSE IF c.op = "app.patch" THEN PatchedApp(x.app, c.old, c.new)
                        ELSE IF c.op = "app.delete" THEN None ELSE x.app
             /\ y.service = IF c.op = "service.create" THEN c.new
                            ELSE IF c.op = "service.patch" THEN PatchedService(x.service, c.old, c.new)
                            ELSE IF c.op = "service.delete" THEN None ELSE x.service
             /\ y.scaler = IF c.op \in {"scaler.create", "scaler.patch"} THEN c.new
                           ELSE IF c.op = "scaler.delete" THEN None ELSE x.scaler
             /\ y.paths = IF c.op = "ingress.patch" THEN Patched(c.old, c.new, x.paths) ELSE x.paths
BY DEF Turned

\* The parts of createAsync
ServiceMade(f, paths) ==
  IF ToService(f) = None THEN <<>>
  ELSE <<Call("service.create", None, ToService(f))>> \o
       (IF f.publishing = "ingress" THEN PatchIf("ingress.patch", paths, ToIngress(paths, f.ports, "self")) ELSE <<>>)

ClaimsMade(f, fresh) ==
  IF ClaimsToCreate(Claims(f, fresh)) # {} THEN <<Call("claims.create", None, ClaimsToCreate(Claims(f, fresh)))>> ELSE <<>>

StorageMade(f, fresh) ==
  IF KindOf(f) = "StatefulSet" THEN <<Call("headless.create", None, None)>> ELSE ClaimsMade(f, fresh)

ScalerMade(f) ==
  IF f.scaler /\ f.deployment # "global" THEN <<Call("scaler.create", None, ScalerOf(f))>> ELSE <<>>

LEMMA CreateParts ==
  ASSUME NEW f, NEW paths, NEW fresh
  PROVE  CreateCalls(f, paths, fresh) =
           ServiceMade(f, paths) \o StorageMade(f, fresh) \o ScalerMade(f) \o <<Call("app.create", None, ToApplication(f, fresh))>>
BY DEF CreateCalls, ServiceMade, StorageMade, ClaimsMade, ScalerMade

CreateOps == {"service.create", "ingress.patch", "headless.create", "claims.create", "scaler.create", "app.create"}

LEMMA MakesPatch ==
  ASSUME NEW op, NEW old, NEW new, NEW x, NEW y, old # new => y = Turned(Call(op, old, new), x), old = new => y = x
  PROVE  Makes(PatchIf(op, old, new), x, y)
<1>1. CASE old = new
  BY <1>1, MakesNothing DEF PatchIf
<1>2. CASE old # new
  <2>1. Makes(<<Call(op, old, new)>>, x, Turned(Call(op, old, new), x))
    BY MakesOne
  <2> QED BY <1>2, <2>1 DEF PatchIf
<1> QED BY <1>1, <1>2

\* The routes are patched from what they are.
LEMMA RoutesMade ==
  ASSUME NEW x, IsSeq(x.paths), NEW new, IsSeq(new)
  PROVE  /\ FitCalls(PatchIf("ingress.patch", x.paths, new), {"ingress.patch"})
         /\ \E y : /\ Makes(PatchIf("ingress.patch", x.paths, new), x, y)
                   /\ y.app = x.app /\ y.service = x.service /\ y.scaler = x.scaler /\ y.paths = new
<1> DEFINE old == x.paths
           c   == Call("ingress.patch", old, new)
           y   == IF old = new THEN x ELSE Turned(c, x)
<1>1. FitCalls(PatchIf("ingress.patch", old, new), {"ingress.patch"})
  <2>1. FitCall(Call("ingress.patch", old, new))
    BY OtherCallsFit
  <2> HIDE DEF old
  <2> QED BY <2>1, FitPatch
<1>2. c.op = "ingress.patch" /\ c.old = old /\ c.new = new
  BY CallFields
<1>3. Patched(old, new, old) = new
  BY PatchedWhole
<1>4. Makes(PatchIf("ingress.patch", old, new), x, y)
  BY MakesPatch
<1>5. y.app = x.app /\ y.service = x.service /\ y.scaler = x.scaler /\ y.paths = new
  <2>1. CASE old = new
    BY <2>1
  <2>2. CASE old # new
    <3>1. y = Turned(c, x)
      BY <2>2
    <3> HIDE DEF c, y
    <3> QED BY <1>2, <1>3, <3>1, TurnedIs
  <2> QED BY <2>1, <2>2
<1> QED BY <1>1, <1>4, <1>5

LEMMA ServiceMadeFits ==
  ASSUME NEW f, NEW paths
  PROVE  /\ FitCalls(ServiceMade(f, paths), {"service.create", "ingress.patch"})
         /\ ToService(f) # None => ToCome(ServiceMade(f, paths), "service.create")
         /\ ToService(f) # None => ServiceMade(f, paths) # <<>> /\ ServiceMade(f, paths)[1].op = "service.create"
         /\ ToService(f) = None => ServiceMade(f, paths) = <<>>
<1> DEFINE K == {"service.create", "ingress.patch"}
           c == Call("service.create", None, ToService(f))
           r == IF f.publishing = "ingress" THEN PatchIf("ingress.patch", paths, ToIngress(paths, f.ports, "self")) ELSE <<>>
<1>1. CASE ToService(f) = None
  BY <1>1, FitNothing DEF ServiceMade
<1>2. CASE ToService(f) # None
  <2>1. ServiceMade(f, paths) = <<c>> \o r
    BY <1>2 DEF ServiceMade
  <2>2. c.op = "service.create" /\ FitCall(c)
    BY CallFields, OtherCallsFit
  <2>3. FitCalls(r, K)
    <3>1. FitCall(Call("ingress.patch", paths, ToIngress(paths, f.ports, "self")))
      BY OtherCallsFit
    <3>2. FitCalls(PatchIf("ingress.patch", paths, ToIngress(paths, f.ports, "self")), K)
      BY <3>1, FitPatch
    <3> QED BY <3>2, FitNothing
  <2> HIDE DEF c, r
  <2>4. FitCalls(<<c>>, K)
    BY <2>2, FitOne
  <2>5. FitCalls(<<c>> \o r, K)
    BY <2>3, <2>4, FitMore
  <2>6. IsSeq(<<c>>) /\ IsSeq(r)
    BY <2>3, <2>4 DEF FitCalls
  <2>7. ToCome(<<c>> \o r, "service.create")
    BY <2>2, <2>6, ComesIn, ComesOne
  <2>8. <<c>> \o r # <<>> /\ (<<c>> \o r)[1] = c
    <3>1. Len(<<c>>) = 1 /\ <<c>>[1] = c /\ 1 \in 1 .. 1
      BY OneElement
    <3>2. (<<c>> \o r)[1] = c /\ Len(<<c>> \o r) = 1 + Len(r) /\ Len(r) \in Nat
      BY <2>6, <3>1, ConcatFacts, SeqFacts
    <3>3. Len(<<c>> \o r) # 0
      BY <3>2
    <3> QED BY <3>2, <3>3, EmptyFacts
  <2> QED BY <1>2, <2>1, <2>2, <2>5, <2>7, <2>8
<1> QED BY <1>1, <1>2

LEMMA EmptyRight ==
  ASSUME NEW s, IsSeq(s)
  PROVE  s \o <<>> = s
<1>1. IsSeq(s \o <<>>) /\ Len(s \o <<>>) = Len(s) + 0 /\ \A i \in 1 .. Len(s) : (s \o <<>>)[i] = s[i]
  BY EmptyFacts, ConcatFacts
<1>2. Len(s) + 0 = Len(s)
  BY SeqFacts
<1> QED BY <1>1, <1>2, SeqsEqual

LEMMA ServiceMadeMakes ==
  ASSUME NEW f, IsForm(f), NEW x, x.paths \in Seq(Paths)
  PROVE  \E y : /\ Makes(ServiceMade(f, x.paths), x, y)
                /\ y.app = x.app /\ y.scaler = x.scaler
                /\ y.service = IF ToService(f) = None THEN x.service ELSE ToService(f)
                /\ y.paths = IF ToService(f) # None /\ f.publishing = "ingress" THEN ToIngress(x.paths, f.ports, "self") ELSE x.paths
<1> DEFINE s   == ToService(f)
           new == ToIngress(x.paths, f.ports, "self")
           c   == Call("service.create", None, s)
           m   == Turned(c, x)
           q   == PatchIf("ingress.patch", x.paths, new)
<1>1. CASE s = None
  <2>1. Makes(ServiceMade(f, x.paths), x, x)
    BY <1>1, MakesNothing DEF ServiceMade
  <2> QED BY <1>1, <2>1
<1>2. CASE s # None
  <2>1. c.op = "service.create" /\ c.new = s
    BY CallFields
  <2>2. Makes(<<c>>, x, m)
    BY MakesOne
  <2>3. m.app = x.app /\ m.scaler = x.scaler /\ m.service = s /\ m.paths = x.paths
    <3> HIDE DEF c, s
    <3> QED BY <2>1, TurnedIs
  <2>4. IsSeq(x.paths) /\ IsSeq(new) /\ IsSeq(<<c>>)
    <3>1. f.ports \in Seq(PortRow)
      BY DEF IsForm
    <3>2. new \in Seq(Paths)
      BY <3>1, IngressIsPaths
    <3> QED BY <3>2, SeqIsSeq, OneElement
  <2>5. CASE f.publishing = "ingress"
    <3>1. ServiceMade(f, x.paths) = <<c>> \o q
      BY <1>2, <2>5 DEF ServiceMade
    <3> HIDE DEF c, s, new, m
    <3>2. FitCalls(PatchIf("ingress.patch", m.paths, new), {"ingress.patch"})
          /\ \E y : /\ Makes(PatchIf("ingress.patch", m.paths, new), m, y)
                    /\ y.app = m.app /\ y.service = m.service /\ y.scaler = m.scaler /\ y.paths = new
      BY <2>3, <2>4, RoutesMade
    <3>3. IsSeq(q)
      BY <2>3, <3>2 DEF FitCalls
    <3>4. PICK y : Makes(q, m, y) /\ y.app = x.app /\ y.service = m.service /\ y.scaler = x.scaler /\ y.paths = new
      BY <2>3, <3>2
    <3>5. Makes(<<c>> \o q, x, y)
      BY <2>2, <2>4, <3>3, <3>4, MakesMore
    <3> QED BY <1>2, <2>3, <2>5, <3>1, <3>4, <3>5 DEF s, new
  <2>6. CASE f.publishing # "ingress"
    <3>1. ServiceMade(f, x.paths) = <<c>> \o <<>>
      BY <1>2, <2>6 DEF ServiceMade
    <3>2. <<c>> \o <<>> = <<c>>
      BY <2>4, EmptyRight
    <3> QED BY <1>2, <2>2, <2>3, <2>6, <3>1, <3>2
  <2> QED BY <2>5, <2>6
<1> QED BY <1>1, <1>2

LEMMA FitWider ==
  ASSUME NEW s, NEW K, FitCalls(s, K), NEW L, K \subseteq L
  PROVE  FitCalls(s, L)
BY DEF FitCalls

LEMMA NotComing ==
  ASSUME NEW s, NEW K, FitCalls(s, K), NEW op, op \notin K
  PROVE  ~ToCome(s, op)
BY DEF FitCalls, ToCome

\* Calls that are about none of the four
MakesNone(s, x) ==
  \E y : Makes(s, x, y) /\ y.app = x.app /\ y.service = x.service /\ y.scaler = x.scaler /\ y.paths = x.paths

LEMMA MakesSame ==
  ASSUME NEW c, c.op \in {"headless.create", "headless.delete", "claims.create"}, NEW x
  PROVE  MakesNone(<<c>>, x)
<1>1. Makes(<<c>>, x, Turned(c, x))
  BY MakesOne
<1> QED BY <1>1, TurnedIs DEF MakesNone

LEMMA ClaimsMadeIs ==
  ASSUME NEW f, FitForm(f), NEW fresh \in Nat, NEW x
  PROVE  /\ FitCalls(ClaimsMade(f, fresh), {"claims.create"})
         /\ MakesNone(ClaimsMade(f, fresh), x)
<1> DEFINE claims == ClaimsToCreate(Claims(f, fresh))
           c      == Call("claims.create", None, claims)
<1>1. CASE claims = {}
  <2>1. ClaimsMade(f, fresh) = <<>>
    BY <1>1 DEF ClaimsMade
  <2> QED BY <2>1, FitNothing, MakesNothing DEF MakesNone
<1>2. CASE claims # {}
  <2>1. ClaimsMade(f, fresh) = <<c>>
    BY <1>2 DEF ClaimsMade
  <2>2. Bounded(claims)
    BY ClaimsAreBounded
  <2> HIDE DEF claims
  <2>3. c.op = "claims.create" /\ c.new = claims
    BY CallFields
  <2> HIDE DEF c
  <2>4. FitCall(c)
    BY <2>2, <2>3 DEF FitCall
  <2>5. FitCalls(<<c>>, {"claims.create"})
    BY <2>3, <2>4, FitOne
  <2>6. MakesNone(<<c>>, x)
    BY <2>3, MakesSame
  <2> QED BY <2>1, <2>5, <2>6
<1> QED BY <1>1, <1>2

LEMMA StorageMadeIs ==
  ASSUME NEW f, FitForm(f), NEW fresh \in Nat, NEW x
  PROVE  /\ FitCalls(StorageMade(f, fresh), {"headless.create", "claims.create"})
         /\ MakesNone(StorageMade(f, fresh), x)
<1>1. CASE KindOf(f) = "StatefulSet"
  <2> DEFINE c == Call("headless.create", None, None)
  <2>1. StorageMade(f, fresh) = <<c>>
    BY <1>1 DEF StorageMade
  <2>2. c.op = "headless.create" /\ FitCall(c)
    BY CallFields, OtherCallsFit
  <2> HIDE DEF c
  <2>3. FitCalls(<<c>>, {"headless.create", "claims.create"})
    BY <2>2, FitOne
  <2>4. MakesNone(<<c>>, x)
    BY <2>2, MakesSame
  <2> QED BY <2>1, <2>3, <2>4
<1>2. CASE KindOf(f) # "StatefulSet"
  <2>1. StorageMade(f, fresh) = ClaimsMade(f, fresh)
    BY <1>2 DEF StorageMade
  <2>2. FitCalls(ClaimsMade(f, fresh), {"headless.create", "claims.create"})
    <3>1. FitCalls(ClaimsMade(f, fresh), {"claims.create"})
      BY ClaimsMadeIs
    <3> QED BY <3>1, FitWider
  <2>3. MakesNone(ClaimsMade(f, fresh), x)
    BY ClaimsMadeIs
  <2> QED BY <2>1, <2>2, <2>3
<1> QED BY <1>1, <1>2

\* What is not run on every node is no daemon set.
LEMMA ScalingKind ==
  ASSUME NEW f, FitForm(f), f.deployment # "global"
  PROVE  ScalerOf(f).kind = KindOf(f) /\ KindOf(f) # "DaemonSet"
<1>1. f.deployment = "replicated" /\ f.appType = "none"
  BY DEF FitForm, IsFullForm, IsForm
<1> QED BY <1>1 DEF ScalerOf, KindOf

LEMMA ScalerMadeIs ==
  ASSUME NEW f, FitForm(f), NEW x
  PROVE  /\ FitCalls(ScalerMade(f), {"scaler.create"})
         /\ \E y : /\ Makes(ScalerMade(f), x, y)
                   /\ y.app = x.app /\ y.service = x.service /\ y.paths = x.paths
                   /\ y.scaler = IF f.scaler /\ f.deployment # "global" THEN ScalerOf(f) ELSE x.scaler
<1>1. CASE ~(f.scaler /\ f.deployment # "global")
  <2>1. ScalerMade(f) = <<>>
    BY <1>1 DEF ScalerMade
  <2>2. FitCalls(ScalerMade(f), {"scaler.create"}) /\ Makes(ScalerMade(f), x, x)
    BY <2>1, FitNothing, MakesNothing
  <2> QED BY <1>1, <2>2
<1>2. CASE f.scaler /\ f.deployment # "global"
  <2> DEFINE s == ScalerOf(f)
             c == Call("scaler.create", None, s)
             y == Turned(c, x)
  <2>1. ScalerMade(f) = <<c>>
    BY <1>2 DEF ScalerMade
  <2>2. s.kind # "DaemonSet"
    BY <1>2, ScalingKind
  <2> HIDE DEF s
  <2>3. c.op = "scaler.create" /\ c.new = s
    BY CallFields
  <2>4. FitCalls(<<c>>, {"scaler.create"})
    <3> HIDE DEF c
    <3>1. FitCall(c)
      BY <2>2, <2>3 DEF FitCall
    <3> QED BY <2>3, <3>1, FitOne
  <2>5. Makes(<<c>>, x, y)
    BY MakesOne
  <2>6. y.app = x.app /\ y.service = x.service /\ y.paths = x.paths /\ y.scaler = s
    <3> HIDE DEF c
    <3> QED BY <2>3, TurnedIs
  <2> QED BY <1>2, <2>1, <2>4, <2>5, <2>6 DEF s
<1> QED BY <1>1, <1>2

\* The calls of a deployment
LEMMA CreateFits ==
  ASSUME NEW f, FitForm(f), KindOf(f) \in Kinds, NEW paths, NEW fresh \in Nat
  PROVE  /\ FitCalls(CreateCalls(f, paths, fresh), CreateOps)
         /\ ToCome(CreateCalls(f, paths, fresh), "app.create")
         /\ ToService(f) # None => ToCome(CreateCalls(f, paths, fresh), "service.create")
         /\ IF ToService(f) # None THEN CreateCalls(f, paths, fresh) # <<>> /\ CreateCalls(f, paths, fresh)[1].op = "service.create"
            ELSE ~ToCome(CreateCalls(f, paths, fresh), "ingress.patch")
<1> DEFINE a  == ToApplication(f, fresh)
           c  == Call("app.create", None, a)
           s1 == ServiceMade(f, paths)
           s2 == StorageMade(f, fresh)
           s3 == ScalerMade(f)
           s  == s1 \o s2 \o s3 \o <<c>>
<1>1. CreateCalls(f, paths, fresh) = s
  BY CreateParts
<1>2. FitApp(a)
  BY NewApp
<1> HIDE DEF a
<1>3. c.op = "app.create" /\ FitCall(c)
  <2>1. c.op = "app.create" /\ c.new = a
    BY CallFields
  <2> QED BY <1>2, <2>1 DEF FitCall
<1> HIDE DEF c
<1>4. FitCalls(<<c>>, {"app.create"})
  BY <1>3, FitOne
<1>5. FitCalls(s1, {"service.create", "ingress.patch"})
  BY ServiceMadeFits
<1>6. FitCalls(s2, {"headless.create", "claims.create"})
  BY StorageMadeIs
<1>7. FitCalls(s3, {"scaler.create"})
  BY ScalerMadeIs
<1>8. /\ ToService(f) # None => ToCome(s1, "service.create") /\ s1 # <<>> /\ s1[1].op = "service.create"
      /\ ToService(f) = None => s1 = <<>>
  BY ServiceMadeFits
<1> HIDE DEF s1, s2, s3
<1>9. /\ FitCalls(<<c>>, CreateOps) /\ FitCalls(s1, CreateOps) /\ FitCalls(s2, CreateOps) /\ FitCalls(s3, CreateOps)
      /\ FitCalls(s1 \o s2, CreateOps) /\ FitCalls(s1 \o s2 \o s3, CreateOps) /\ FitCalls(s, CreateOps)
  <2>1. FitCalls(<<c>>, CreateOps) /\ FitCalls(s1, CreateOps)
    BY <1>4, <1>5, FitWider DEF CreateOps
  <2>2. FitCalls(s2, CreateOps) /\ FitCalls(s3, CreateOps)
    BY <1>6, <1>7, FitWider DEF CreateOps
  <2>3. FitCalls(s1 \o s2, CreateOps)
    BY <2>1, <2>2, FitMore
  <2>4. FitCalls(s1 \o s2 \o s3, CreateOps)
    BY <2>2, <2>3, FitMore
  <2>5. FitCalls(s, CreateOps)
    BY <2>1, <2>4, FitMore
  <2> QED BY <2>1, <2>2, <2>3, <2>4, <2>5
<1>10. IsSeq(<<c>>) /\ IsSeq(s1) /\ IsSeq(s2) /\ IsSeq(s3) /\ IsSeq(s1 \o s2) /\ IsSeq(s1 \o s2 \o s3)
  BY <1>9 DEF FitCalls
<1>11. ASSUME NEW op
       PROVE  ToCome(s, op) <=> ToCome(s1, op) \/ ToCome(s2, op) \/ ToCome(s3, op) \/ c.op = op
  <2>1. ToCome(s, op) <=> ToCome(s1 \o s2 \o s3, op) \/ ToCome(<<c>>, op)
    BY <1>10, ComesIn
  <2>2. ToCome(s1 \o s2 \o s3, op) <=> ToCome(s1 \o s2, op) \/ ToCome(s3, op)
    BY <1>10, ComesIn
  <2>3. ToCome(s1 \o s2, op) <=> ToCome(s1, op) \/ ToCome(s2, op)
    BY <1>10, ComesIn
  <2> QED BY <2>1, <2>2, <2>3, ComesOne
<1>12. ASSUME ToService(f) # None
       PROVE  s # <<>> /\ s[1].op = "service.create"
  <2>1. Len(s1) \in Nat /\ Len(s1) # 0
    BY <1>8, <1>10, <1>12, SeqFacts
  <2>2. 1 \in 1 .. Len(s1)
    BY <2>1
  <2>3. (s1 \o s2)[1] = s1[1] /\ Len(s1 \o s2) = Len(s1) + Len(s2)
    BY <1>10, <2>2, ConcatFacts
  <2>4. 1 \in 1 .. Len(s1 \o s2)
    BY <1>10, <2>1, <2>3, SeqFacts
  <2>5. (s1 \o s2 \o s3)[1] = s1[1] /\ Len(s1 \o s2 \o s3) = Len(s1 \o s2) + Len(s3)
    BY <1>10, <2>3, <2>4, ConcatFacts
  <2>6. 1 \in 1 .. Len(s1 \o s2 \o s3)
    BY <1>10, <2>4, <2>5, SeqFacts
  <2>7. s[1] = s1[1]
    BY <1>10, <2>5, <2>6, ConcatFacts
  <2>8. s # <<>>
    <3>1. Len(s) = Len(s1 \o s2 \o s3) + Len(<<c>>) /\ Len(<<c>>) = 1
      BY <1>10, ConcatFacts, OneElement
    <3>2. Len(s) # 0
      BY <2>6, <3>1
    <3> HIDE DEF s
    <3> QED BY <3>2, EmptyFacts
  <2> QED BY <1>8, <1>12, <2>7, <2>8
<1>13. ASSUME ToService(f) = None
       PROVE  ~ToCome(s, "ingress.patch")
  <2>1. ~ToCome(s1, "ingress.patch")
    BY <1>8, <1>13, EmptyFacts DEF ToCome
  <2>2. ~ToCome(s2, "ingress.patch") /\ ~ToCome(s3, "ingress.patch")
    BY <1>6, <1>7, NotComing
  <2> QED BY <1>3, <1>11, <2>1, <2>2
<1> HIDE DEF s
<1> QED BY <1>1, <1>3, <1>8, <1>9, <1>11, <1>12, <1>13

\* What a deployment makes, if each of its calls applies
LEMMA CreateMakes ==
  ASSUME NEW f, FitForm(f), NEW fresh \in Nat, NEW x, x.paths \in Seq(Paths)
  PROVE  \E y : /\ Makes(CreateCalls(f, x.paths, fresh), x, y)
                /\ y.app = ToApplication(f, fresh)
                /\ y.service = IF ToService(f) = None THEN x.service ELSE ToService(f)
                /\ y.scaler = IF f.scaler /\ f.deployment # "global" THEN ScalerOf(f) ELSE x.scaler
                /\ y.paths = IF ToService(f) # None /\ f.publishing = "ingress" THEN ToIngress(x.paths, f.ports, "self") ELSE x.paths
<1> DEFINE a  == ToApplication(f, fresh)
           c  == Call("app.create", None, a)
           s1 == ServiceMade(f, x.paths)
           s2 == StorageMade(f, fresh)
           s3 == ScalerMade(f)
           s  == s1 \o s2 \o s3 \o <<c>>
<1>1. CreateCalls(f, x.paths, fresh) = s
  BY CreateParts
<1>2. IsSeq(s1) /\ IsSeq(s2) /\ IsSeq(s3) /\ IsSeq(<<c>>) /\ IsForm(f)
  <2>1. IsSeq(s1)
    BY ServiceMadeFits DEF FitCalls
  <2>2. IsSeq(s2)
    BY StorageMadeIs DEF FitCalls
  <2>3. IsSeq(s3)
    BY ScalerMadeIs DEF FitCalls
  <2> QED BY <2>1, <2>2, <2>3, OneElement DEF FitForm, IsFullForm
<1>3. PICK y1 : /\ Makes(s1, x, y1) /\ y1.app = x.app /\ y1.scaler = x.scaler
                /\ y1.service = IF ToService(f) = None THEN x.service ELSE ToService(f)
                /\ y1.paths = IF ToService(f) # None /\ f.publishing = "ingress" THEN ToIngress(x.paths, f.ports, "self") ELSE x.paths
  BY <1>2, ServiceMadeMakes
<1>4. PICK y2 : Makes(s2, y1, y2) /\ y2.app = y1.app /\ y2.service = y1.service /\ y2.scaler = y1.scaler /\ y2.paths = y1.paths
  <2>1. MakesNone(s2, y1)
    BY StorageMadeIs
  <2> QED BY <2>1 DEF MakesNone
<1>5. PICK y3 : /\ Makes(s3, y2, y3) /\ y3.app = y2.app /\ y3.service = y2.service /\ y3.paths = y2.paths
                /\ y3.scaler = IF f.scaler /\ f.deployment # "global" THEN ScalerOf(f) ELSE y2.scaler
  BY ScalerMadeIs
<1> DEFINE y == Turned(c, y3)
<1>6. Makes(<<c>>, y3, y)
  BY MakesOne
<1>7. c.op = "app.create" /\ c.new = a
  BY CallFields
<1>8. y.app = a /\ y.service = y3.service /\ y.scaler = y3.scaler /\ y.paths = y3.paths
  <2> HIDE DEF c, a
  <2> QED BY <1>7, TurnedIs
<1> HIDE DEF y, c, s1, s2, s3
<1>9. Makes(s1 \o s2, x, y2) /\ IsSeq(s1 \o s2)
  BY <1>2, <1>3, <1>4, MakesMore, ConcatFacts
<1>10. Makes(s1 \o s2 \o s3, x, y3) /\ IsSeq(s1 \o s2 \o s3)
  BY <1>2, <1>5, <1>9, MakesMore, ConcatFacts
<1>11. Makes(s, x, y)
  BY <1>2, <1>6, <1>10, MakesMore
<1> HIDE DEF s
<1>12. /\ y.app = a
       /\ y.service = IF ToService(f) = None THEN x.service ELSE ToService(f)
       /\ y.scaler = IF f.scaler /\ f.deployment # "global" THEN ScalerOf(f) ELSE x.scaler
       /\ y.paths = IF ToService(f) # None /\ f.publishing = "ingress" THEN ToIngress(x.paths, f.ports, "self") ELSE x.paths
  BY <1>3, <1>4, <1>5, <1>8
<1> QED BY <1>1, <1>11, <1>12 DEF a

-----------------------------------------------------------------------------
(* The chain of an update                                                  *)

\* The form g is what the application a was read into.
SavedAs(g, a) == IsFullForm(g) /\ KindOf(g) = a.kind /\ \A fresh : Alike(ToApplication(g, fresh), a)

LEMMA AlikeFit ==
  ASSUME NEW a, FitApp(a), NEW b, IsApp(b), Alike(b, a)
  PROVE  FitApp(b)
BY DEF FitApp, Alike

LEMMA SavedApp ==
  ASSUME NEW a, FitApp(a), NEW g, SavedAs(g, a), NEW fresh
  PROVE  LET b == ToApplication(g, fresh) IN FitApp(b) /\ b.kind = KindOf(g) /\ Alike(b, a) /\ KindOf(g) \in Kinds
<1> DEFINE b == ToApplication(g, fresh)
<1>1. Alike(b, a) /\ IsForm(g) /\ KindOf(g) = a.kind
  BY DEF SavedAs, IsFullForm
<1>2. a.kind \in Kinds
  BY DEF FitApp, IsApp
<1>3. IsApp(b) /\ b.kind = KindOf(g)
  BY <1>1, <1>2, ApplicationOf
<1> HIDE DEF b
<1>4. FitApp(b)
  BY <1>1, <1>3, AlikeFit
<1> QED BY <1>1, <1>2, <1>3, <1>4 DEF b

\* An application that was patched from what it was is like the one it was patched to.
LEMMA PatchedAppAlike ==
  ASSUME NEW app, FitApp(app), NEW old, FitApp(old), Alike(old, app), NEW new, FitApp(new), old.kind = new.kind
  PROVE  FitApp(PatchedApp(app, old, new)) /\ Alike(PatchedApp(app, old, new), new)
<1> DEFINE env    == Patched(old.env, new.env, app.env)
           mounts == Patched(old.mounts, new.mounts, app.mounts)
           many   == Scalar(old.replicas, new.replicas, app.replicas)
           aff    == Scalar(old.affinity, new.affinity, app.affinity)
           b      == PatchedApp(app, old, new)
<1>1. /\ old.kind = app.kind /\ old.env = app.env /\ old.mounts = app.mounts
      /\ old.replicas = app.replicas /\ old.affinity = app.affinity
  BY DEF Alike
<1>2. IsSeq(old.env) /\ IsSeq(new.env) /\ IsSeq(old.mounts) /\ IsSeq(new.mounts)
  BY SeqIsSeq DEF FitApp, IsApp
<1>3. env = new.env /\ mounts = new.mounts
  BY <1>1, <1>2, PatchedWhole
<1>4. many = new.replicas /\ aff = new.affinity
  BY <1>1 DEF Scalar
<1>5. IsApp(app) /\ IsApp(new)
  BY DEF FitApp
<1>6. b = [app EXCEPT !.env = env, !.mounts = mounts, !.replicas = many, !.affinity = aff]
  BY DEF PatchedApp
<1> HIDE DEF env, mounts, many, aff, b
<1>7. /\ DOMAIN b = {"kind", "env", "mounts", "replicas", "cpu", "affinity"} /\ b.kind = app.kind
      /\ b.env = env /\ b.mounts = mounts /\ b.replicas = many /\ b.affinity = aff
  BY <1>5, <1>6 DEF IsApp
<1>8. Alike(b, new)
  BY <1>1, <1>3, <1>4, <1>7 DEF Alike
<1>9. IsApp(b)
  BY <1>3, <1>5, <1>7 DEF IsApp
<1>10. FitApp(b)
  BY <1>8, <1>9, AlikeFit
<1> QED BY <1>8, <1>10 DEF b

AppPatch(old, new, fresh) == PatchIf("app.patch", ToApplication(old, fresh), ToApplication(new, fresh))

LEMMA AppPatchFits ==
  ASSUME NEW a, FitApp(a), NEW old, SavedAs(old, a), NEW new, FitForm(new), KindOf(new) = KindOf(old), NEW fresh \in Nat
  PROVE  FitCalls(AppPatch(old, new, fresh), {"app.patch"})
<1> DEFINE was == ToApplication(old, fresh)
           is  == ToApplication(new, fresh)
           c   == Call("app.patch", was, is)
<1>1. FitApp(was) /\ was.kind = KindOf(old) /\ KindOf(old) \in Kinds
  BY SavedApp
<1>2. FitApp(is) /\ is.kind = KindOf(new)
  BY <1>1, NewApp DEF ToApplication
<1> HIDE DEF was, is
<1>3. c.op = "app.patch" /\ c.old = was /\ c.new = is
  BY CallFields
<1> HIDE DEF c
<1>4. FitCall(c)
  BY <1>1, <1>2, <1>3 DEF FitCall
<1>5. FitCalls(PatchIf("app.patch", was, is), {"app.patch"})
  BY <1>4, FitPatch DEF c
<1> QED BY <1>5 DEF AppPatch, was, is

\* An application that is patched becomes like the one of the new form.
LEMMA AppPatchMakes ==
  ASSUME NEW x, FitApp(x.app), NEW old, SavedAs(old, x.app), NEW new, FitForm(new), KindOf(new) = KindOf(old), NEW fresh \in Nat
  PROVE  \E y : /\ Makes(AppPatch(old, new, fresh), x, y)
                /\ FitApp(y.app) /\ Alike(y.app, ToApplication(new, fresh))
                /\ y.service = x.service /\ y.scaler = x.scaler /\ y.paths = x.paths
<1> DEFINE was == ToApplication(old, fresh)
           is  == ToApplication(new, fresh)
           c   == Call("app.patch", was, is)
           y   == IF was = is THEN x ELSE Turned(c, x)
<1>1. FitApp(was) /\ was.kind = KindOf(old) /\ KindOf(old) \in Kinds /\ Alike(was, x.app)
  BY SavedApp
<1>2. FitApp(is) /\ is.kind = KindOf(new)
  BY <1>1, NewApp DEF ToApplication
<1> HIDE DEF was, is
<1>3. c.op = "app.patch" /\ c.old = was /\ c.new = is
  BY CallFields
<1>4. Makes(PatchIf("app.patch", was, is), x, y)
  BY MakesPatch
<1>5. /\ FitApp(y.app) /\ Alike(y.app, is)
      /\ y.service = x.service /\ y.scaler = x.scaler /\ y.paths = x.paths
  <2>1. CASE was = is
    <3>1. Alike(x.app, is)
      BY <1>1, <2>1 DEF Alike
    <3> QED BY <2>1, <3>1
  <2>2. CASE was # is
    <3>1. y = Turned(c, x)
      BY <2>2
    <3>2. FitApp(PatchedApp(x.app, was, is)) /\ Alike(PatchedApp(x.app, was, is), is)
      BY <1>1, <1>2, PatchedAppAlike
    <3> HIDE DEF y, c
    <3>3. /\ y.app = PatchedApp(x.app, was, is) /\ y.service = x.service /\ y.scaler = x.scaler /\ y.paths = x.paths
      BY <1>3, <3>1, TurnedIs
    <3> QED BY <3>2, <3>3
  <2> QED BY <2>1, <2>2
<1> QED BY <1>4, <1>5 DEF AppPatch, was, is

\* The routes, if they are to be patched
RoutesIf(way, paths, new) == IF way THEN PatchIf("ingress.patch", paths, new) ELSE <<>>

RoutesIfMakes(way, x, new) ==
  \E y : /\ Makes(RoutesIf(way, x.paths, new), x, y)
         /\ y.app = x.app /\ y.service = x.service /\ y.scaler = x.scaler
         /\ y.paths = IF way THEN new ELSE x.paths

LEMMA RoutesIfIs ==
  ASSUME NEW way, NEW x, IsSeq(x.paths), NEW new, IsSeq(new)
  PROVE  RoutesIfMakes(way, x, new)
<1>1. CASE way
  <2>1. \E y : /\ Makes(PatchIf("ingress.patch", x.paths, new), x, y)
               /\ y.app = x.app /\ y.service = x.service /\ y.scaler = x.scaler /\ y.paths = new
    BY RoutesMade
  <2> QED BY <1>1, <2>1 DEF RoutesIf, RoutesIfMakes
<1>2. CASE ~way
  BY <1>2, MakesNothing DEF RoutesIf, RoutesIfMakes
<1> QED BY <1>1, <1>2

LEMMA RoutesIfFits ==
  ASSUME NEW way, NEW paths, NEW new
  PROVE  FitCalls(RoutesIf(way, paths, new), {"ingress.patch"})
<1>1. FitCall(Call("ingress.patch", paths, new))
  BY OtherCallsFit
<1>2. FitCalls(PatchIf("ingress.patch", paths, new), {"ingress.patch"})
  BY <1>1, FitPatch
<1> QED BY <1>2, FitNothing DEF RoutesIf

ScalerPatched(old, new) ==
  CASE ~old.scaler /\ new.scaler -> <<Call("scaler.create", None, ScalerOf(new))>>
    [] old.scaler /\ new.scaler  -> PatchIf("scaler.patch", ScalerOf(old), ScalerOf(new))
    [] old.scaler /\ ~new.scaler -> <<Call("scaler.delete", None, None)>>
    [] OTHER                     -> <<>>

LEMMA ScalerPatchedFits ==
  ASSUME NEW old, old.scaler \in BOOLEAN, NEW new, FitForm(new), new.deployment = "global" => ~new.scaler
  PROVE  FitCalls(ScalerPatched(old, new), ScalerOps)
<1> DEFINE s == ScalerOf(new)
<1>0. new.scaler \in BOOLEAN
  BY DEF FitForm, IsFullForm
<1>1. new.scaler => s.kind # "DaemonSet"
  BY ScalingKind
<1> HIDE DEF s
<1>2. CASE new.scaler /\ ~old.scaler
  <2> DEFINE c == Call("scaler.create", None, s)
  <2>1. ScalerPatched(old, new) = <<c>>
    BY <1>2 DEF ScalerPatched, s
  <2>2. c.op = "scaler.create" /\ c.new = s
    BY CallFields
  <2> HIDE DEF c
  <2>3. FitCall(c)
    BY <1>1, <1>2, <2>2 DEF FitCall
  <2>4. FitCalls(<<c>>, ScalerOps)
    BY <2>2, <2>3, FitOne DEF ScalerOps
  <2> QED BY <2>1, <2>4
<1>3. CASE new.scaler /\ old.scaler
  <2> DEFINE q == ScalerOf(old)
             c == Call("scaler.patch", q, s)
  <2>1. ScalerPatched(old, new) = PatchIf("scaler.patch", q, s)
    BY <1>3 DEF ScalerPatched, s
  <2>2. c.op = "scaler.patch" /\ c.new = s
    BY CallFields
  <2> HIDE DEF q
  <2>3. FitCall(c)
    <3> HIDE DEF c
    <3> QED BY <1>1, <1>3, <2>2 DEF FitCall
  <2>4. "scaler.patch" \in ScalerOps
    BY DEF ScalerOps
  <2>5. FitCalls(PatchIf("scaler.patch", q, s), ScalerOps)
    BY <2>3, <2>4, FitPatch
  <2> QED BY <2>1, <2>5
<1>4. CASE ~new.scaler /\ old.scaler
  <2> DEFINE c == Call("scaler.delete", None, None)
  <2>1. ScalerPatched(old, new) = <<c>>
    BY <1>4 DEF ScalerPatched
  <2>2. c.op = "scaler.delete" /\ FitCall(c)
    BY CallFields, OtherCallsFit
  <2> HIDE DEF c
  <2>3. FitCalls(<<c>>, ScalerOps)
    BY <2>2, FitOne DEF ScalerOps
  <2> QED BY <2>1, <2>3
<1>5. CASE ~new.scaler /\ ~old.scaler
  <2>1. ScalerPatched(old, new) = <<>>
    BY <1>5 DEF ScalerPatched
  <2> QED BY <2>1, FitNothing
<1> QED BY <1>0, <1>2, <1>3, <1>4, <1>5

\* What becomes of an autoscaler
ScalerTo(old, new, s, t) ==
  /\ new.scaler => t = ScalerOf(new) \/ (old.scaler /\ ScalerOf(new) = ScalerOf(old) /\ t = s)
  /\ ~new.scaler => t = IF old.scaler THEN None ELSE s

ScalerMakes(old, new, x) ==
  \E y : /\ Makes(ScalerPatched(old, new), x, y)
         /\ y.app = x.app /\ y.service = x.service /\ y.paths = x.paths
         /\ ScalerTo(old, new, x.scaler, y.scaler)

LEMMA ScalerPatchedMakes ==
  ASSUME NEW old, IsFullForm(old), NEW new, IsFullForm(new), NEW x
  PROVE  ScalerMakes(old, new, x)
<1>0. old.scaler \in BOOLEAN /\ new.scaler \in BOOLEAN
  BY DEF IsFullForm
<1> DEFINE s == ScalerOf(new)
<1> HIDE DEF s
<1>2. CASE new.scaler /\ ~old.scaler
  <2> DEFINE c == Call("scaler.create", None, s)
  <2>1. ScalerPatched(old, new) = <<c>>
    BY <1>2 DEF ScalerPatched, s
  <2>2. c.op = "scaler.create" /\ c.new = s
    BY CallFields
  <2> HIDE DEF c
  <2>3. Makes(<<c>>, x, Turned(c, x))
    BY MakesOne
  <2>4. /\ Turned(c, x).app = x.app /\ Turned(c, x).service = x.service /\ Turned(c, x).paths = x.paths
        /\ Turned(c, x).scaler = s
    BY <2>2, TurnedIs
  <2> QED BY <1>2, <2>1, <2>3, <2>4 DEF s, ScalerTo, ScalerMakes
<1>3. CASE new.scaler /\ old.scaler
  <2> DEFINE q == ScalerOf(old)
             c == Call("scaler.patch", q, s)
             y == IF q = s THEN x ELSE Turned(c, x)
  <2>1. ScalerPatched(old, new) = PatchIf("scaler.patch", q, s)
    BY <1>3 DEF ScalerPatched, s
  <2>2. c.op = "scaler.patch" /\ c.new = s
    BY CallFields
  <2> HIDE DEF q
  <2>3. Makes(PatchIf("scaler.patch", q, s), x, y)
    BY MakesPatch
  <2>4. /\ y.app = x.app /\ y.service = x.service /\ y.paths = x.paths
        /\ y.scaler = s \/ (q = s /\ y.scaler = x.scaler)
    <3>1. CASE q = s
      BY <3>1
    <3>2. CASE q # s
      <4>1. y = Turned(c, x)
        BY <3>2
      <4> HIDE DEF c, y
      <4> QED BY <2>2, <4>1, TurnedIs
    <3> QED BY <3>1, <3>2
  <2> QED BY <1>3, <2>1, <2>3, <2>4 DEF s, q, ScalerTo, ScalerMakes
<1>4. CASE ~new.scaler /\ old.scaler
  <2> DEFINE c == Call("scaler.delete", None, None)
  <2>1. ScalerPatched(old, new) = <<c>>
    BY <1>4 DEF ScalerPatched
  <2>2. c.op = "scaler.delete"
    BY CallFields
  <2> HIDE DEF c
  <2>3. Makes(<<c>>, x, Turned(c, x))
    BY MakesOne
  <2>4. /\ Turned(c, x).app = x.app /\ Turned(c, x).service = x.service /\ Turned(c, x).paths = x.paths
        /\ Turned(c, x).scaler = None
    BY <2>2, TurnedIs
  <2> QED BY <1>4, <2>1, <2>3, <2>4 DEF ScalerTo, ScalerMakes
<1>5. CASE ~new.scaler /\ ~old.scaler
  <2>1. ScalerPatched(old, new) = <<>>
    BY <1>5 DEF ScalerPatched
  <2> QED BY <1>5, <2>1, MakesNothing DEF ScalerTo, ScalerMakes
<1> QED BY <1>0, <1>2, <1>3, <1>4, <1>5

\* The service of an update, and its routes
ServicePart(old, new) ==
  LET was == ToService(old)
      is  == ToService(new)
  IN  IF was # None /\ is # None THEN PatchIf("service.patch", was, is)
      ELSE IF was = None /\ is # None THEN <<Call("service.create", None, is)>>
      ELSE IF was # None /\ is = None THEN <<Call("service.delete", None, None)>>
      ELSE <<>>

RoutesFrom(old, new, paths) ==
  IF ToService(old) # None /\ ToService(new) # None THEN ToIngress(paths, old.ports, "self") ELSE paths

RoutesPatched(old, new) ==
  LET was == ToService(old)
      is  == ToService(new)
  IN  IF was # None /\ is # None THEN "ingress" \in {old.publishing, new.publishing}
      ELSE IF was = None /\ is # None THEN new.publishing = "ingress"
      ELSE was # None /\ is = None /\ old.publishing = "ingress"

\* The calls about the service, and those about its routes
LEMMA ServiceParts ==
  ASSUME NEW old, NEW new, NEW paths
  PROVE  ServiceCalls(old, new, paths) =
           ServicePart(old, new) \o
           RoutesIf(RoutesPatched(old, new), RoutesFrom(old, new, paths), ToIngress(paths, new.ports, "self"))
<1> DEFINE was == ToService(old)
           is  == ToService(new)
           r   == ToIngress(paths, new.ports, "self")
           q   == ToIngress(paths, old.ports, "self")
<1>1. CASE was # None /\ is # None
  <2>1. ServiceCalls(old, new, paths) = PatchIf("service.patch", was, is) \o
          (IF "ingress" \in {old.publishing, new.publishing} THEN PatchIf("ingress.patch", q, r) ELSE <<>>)
    BY <1>1 DEF ServiceCalls
  <2>2. ServicePart(old, new) = PatchIf("service.patch", was, is)
    BY <1>1 DEF ServicePart
  <2>3. RoutesFrom(old, new, paths) = q /\ RoutesPatched(old, new) = ("ingress" \in {old.publishing, new.publishing})
    BY <1>1 DEF RoutesFrom, RoutesPatched
  <2> HIDE DEF was, is, q, r
  <2> QED BY <2>1, <2>2, <2>3 DEF RoutesIf, r
<1>2. CASE was = None /\ is # None
  <2>1. ServiceCalls(old, new, paths) = <<Call("service.create", None, is)>> \o
          (IF new.publishing = "ingress" THEN PatchIf("ingress.patch", paths, r) ELSE <<>>)
    BY <1>2 DEF ServiceCalls
  <2>2. ServicePart(old, new) = <<Call("service.create", None, is)>>
    BY <1>2 DEF ServicePart
  <2>3. RoutesFrom(old, new, paths) = paths /\ RoutesPatched(old, new) = (new.publishing = "ingress")
    BY <1>2 DEF RoutesFrom, RoutesPatched
  <2> HIDE DEF was, is, q, r
  <2> QED BY <2>1, <2>2, <2>3 DEF RoutesIf, r
<1>3. CASE was # None /\ is = None
  <2>1. ServiceCalls(old, new, paths) = <<Call("service.delete", None, None)>> \o
          (IF old.publishing = "ingress" THEN PatchIf("ingress.patch", paths, r) ELSE <<>>)
    BY <1>3 DEF ServiceCalls
  <2>2. ServicePart(old, new) = <<Call("service.delete", None, None)>>
    BY <1>3 DEF ServicePart
  <2>3. RoutesFrom(old, new, paths) = paths /\ RoutesPatched(old, new) = (old.publishing = "ingress")
    BY <1>3 DEF RoutesFrom, RoutesPatched
  <2> HIDE DEF was, is, q, r
  <2> QED BY <2>1, <2>2, <2>3 DEF RoutesIf, r
<1>4. CASE was = None /\ is = None
  <2>1. ServiceCalls(old, new, paths) = <<>>
    BY <1>4 DEF ServiceCalls
  <2>2. ServicePart(old, new) = <<>>
    BY <1>4 DEF ServicePart
  <2>3. RoutesPatched(old, new) = FALSE
    BY <1>4 DEF RoutesPatched
  <2>4. RoutesIf(RoutesPatched(old, new), RoutesFrom(old, new, paths), r) = <<>>
    BY <2>3 DEF RoutesIf
  <2>5. <<>> \o <<>> = <<>>
    BY EmptyFacts, EmptyRight
  <2> QED BY <2>1, <2>2, <2>4, <2>5
<1> QED BY <1>1, <1>2, <1>3, <1>4

LEMMA ServicePartFits ==
  ASSUME NEW old, NEW new
  PROVE  /\ FitCalls(ServicePart(old, new), ServiceOps)
         /\ ToService(old) = None /\ ToService(new) # None => ToCome(ServicePart(old, new), "service.create")
         /\ ToService(old) = None => ~ToCome(ServicePart(old, new), "service.delete")
<1> DEFINE was == ToService(old)
           is  == ToService(new)
<1> HIDE DEF was, is
<1>1. CASE was # None /\ is # None
  <2>1. ServicePart(old, new) = PatchIf("service.patch", was, is)
    BY <1>1 DEF ServicePart, was, is
  <2>2. FitCall(Call("service.patch", was, is)) /\ "service.patch" \in ServiceOps
    BY OtherCallsFit DEF ServiceOps
  <2>3. FitCalls(PatchIf("service.patch", was, is), ServiceOps)
    BY <2>2, FitPatch
  <2> QED BY <1>1, <2>1, <2>3 DEF was
<1>2. CASE was = None /\ is # None
  <2> DEFINE c == Call("service.create", None, is)
  <2>1. ServicePart(old, new) = <<c>>
    BY <1>2 DEF ServicePart, was, is
  <2>2. FitCall(c) /\ c.op = "service.create"
    BY OtherCallsFit, CallFields
  <2> HIDE DEF c
  <2>3. FitCalls(<<c>>, ServiceOps) /\ ToCome(<<c>>, "service.create") /\ ~ToCome(<<c>>, "service.delete")
    BY <2>2, FitOne, ComesOne DEF ServiceOps
  <2> QED BY <2>1, <2>3
<1>3. CASE was # None /\ is = None
  <2> DEFINE c == Call("service.delete", None, None)
  <2>1. ServicePart(old, new) = <<c>>
    BY <1>3 DEF ServicePart, was, is
  <2>2. FitCall(c) /\ c.op = "service.delete"
    BY OtherCallsFit, CallFields
  <2> HIDE DEF c
  <2>3. FitCalls(<<c>>, ServiceOps)
    BY <2>2, FitOne DEF ServiceOps
  <2> QED BY <1>3, <2>1, <2>3 DEF was
<1>4. CASE was = None /\ is = None
  <2>1. ServicePart(old, new) = <<>>
    BY <1>4 DEF ServicePart, was, is
  <2>2. FitCalls(<<>>, ServiceOps) /\ ~ToCome(<<>>, "service.delete")
    BY FitNothing, EmptyFacts DEF ToCome
  <2> QED BY <1>4, <2>1, <2>2 DEF is
<1> QED BY <1>1, <1>2, <1>3, <1>4

\* A service that was the one of the former form is the one of the new form.
LEMMA ServicePartMakes ==
  ASSUME NEW old, IsForm(old), NEW new, IsForm(new), NEW x
  PROVE  \E y : /\ Makes(ServicePart(old, new), x, y)
                /\ y.app = x.app /\ y.scaler = x.scaler /\ y.paths = x.paths
                /\ ServiceFits(x.service, old) => ServiceFits(y.service, new)
<1> DEFINE was == ToService(old)
           is  == ToService(new)
<1>0. (was = None \/ IsService(was)) /\ (is = None \/ IsService(is))
  BY ServiceOf
<1>a. \A s : ServiceFits(s, old) <=> IF was = None THEN s = None ELSE s # None /\ IsService(s) /\ s.ports = was.ports
  BY DEF ServiceFits
<1>b. \A s : ServiceFits(s, new) <=> IF is = None THEN s = None ELSE s # None /\ IsService(s) /\ s.ports = is.ports
  BY DEF ServiceFits
<1> HIDE DEF was, is
<1>1. CASE was # None /\ is # None
  <2> DEFINE c == Call("service.patch", was, is)
             y == IF was = is THEN x ELSE Turned(c, x)
  <2>1. ServicePart(old, new) = PatchIf("service.patch", was, is)
    BY <1>1 DEF ServicePart, was, is
  <2>2. Makes(PatchIf("service.patch", was, is), x, y)
    BY MakesPatch
  <2>3. c.op = "service.patch" /\ c.old = was /\ c.new = is
    BY CallFields
  <2>4. CASE was = is
    <3>1. Makes(ServicePart(old, new), x, x)
      BY <2>1, <2>2, <2>4
    <3>2. ServiceFits(x.service, old) => ServiceFits(x.service, new)
      BY <1>1, <1>a, <1>b, <2>4
    <3> QED BY <3>1, <3>2
  <2>5. CASE was # is
    <3> DEFINE t == PatchedService(x.service, was, is)
    <3>1. y = Turned(c, x)
      BY <2>5
    <3>2. y.app = x.app /\ y.scaler = x.scaler /\ y.paths = x.paths /\ y.service = t
      <4> HIDE DEF y, c
      <4> QED BY <2>3, <3>1, TurnedIs
    <3>3. ASSUME x.service # None, IsService(x.service), x.service.ports = was.ports
          PROVE  t # None /\ IsService(t) /\ t.ports = is.ports
      <4> DEFINE ports == Patched(was.ports, is.ports, x.service.ports)
                 type  == Scalar(was.type, is.type, x.service.type)
      <4>1. IsSeq(was.ports) /\ IsSeq(is.ports)
        BY <1>0, <1>1, SeqIsSeq DEF IsService
      <4>2. ports = is.ports
        BY <3>3, <4>1, PatchedWhole
      <4>3. type \in {is.type, x.service.type}
        BY DEF Scalar
      <4>4. t = [x.service EXCEPT !.type = type, !.ports = ports]
        BY DEF PatchedService
      <4> HIDE DEF t, type, ports
      <4>5. DOMAIN t = {"type", "ports"} /\ t.type = type /\ t.ports = ports
        BY <3>3, <4>4 DEF IsService
      <4>6. IsService(t)
        BY <1>0, <1>1, <3>3, <4>2, <4>3, <4>5 DEF IsService
      <4> QED BY <4>2, <4>5, <4>6, NoneFacts
    <3> HIDE DEF t, y
    <3>4. ServiceFits(x.service, old) => ServiceFits(y.service, new)
      BY <1>1, <1>a, <1>b, <3>2, <3>3
    <3> QED BY <2>1, <2>2, <3>2, <3>4
  <2> QED BY <2>4, <2>5
<1>2. CASE was = None /\ is # None
  <2> DEFINE c == Call("service.create", None, is)
             y == Turned(c, x)
  <2>1. ServicePart(old, new) = <<c>>
    BY <1>2 DEF ServicePart, was, is
  <2>2. c.op = "service.create" /\ c.new = is
    BY CallFields
  <2> HIDE DEF c
  <2>3. Makes(<<c>>, x, y)
    BY MakesOne
  <2>4. y.app = x.app /\ y.scaler = x.scaler /\ y.paths = x.paths /\ y.service = is
    BY <2>2, TurnedIs
  <2> HIDE DEF y
  <2>5. ServiceFits(y.service, new)
    BY <1>0, <1>2, <1>b, <2>4
  <2> QED BY <2>1, <2>3, <2>4, <2>5
<1>3. CASE was # None /\ is = None
  <2> DEFINE c == Call("service.delete", None, None)
             y == Turned(c, x)
  <2>1. ServicePart(old, new) = <<c>>
    BY <1>3 DEF ServicePart, was, is
  <2>2. c.op = "service.delete"
    BY CallFields
  <2> HIDE DEF c
  <2>3. Makes(<<c>>, x, y)
    BY MakesOne
  <2>4. y.app = x.app /\ y.scaler = x.scaler /\ y.paths = x.paths /\ y.service = None
    BY <2>2, TurnedIs
  <2> HIDE DEF y
  <2>5. ServiceFits(y.service, new)
    BY <1>3, <1>b, <2>4
  <2> QED BY <2>1, <2>3, <2>4, <2>5
<1>4. CASE was = None /\ is = None
  <2>1. ServicePart(old, new) = <<>>
    BY <1>4 DEF ServicePart, was, is
  <2>2. Makes(<<>>, x, x)
    BY MakesNothing
  <2>3. ServiceFits(x.service, old) => ServiceFits(x.service, new)
    BY <1>4, <1>a, <1>b
  <2> QED BY <2>1, <2>2, <2>3
<1> QED BY <1>1, <1>2, <1>3, <1>4

\* The parts of patchAsync
ClaimsPatched(f, fresh) == IF KindOf(f) = "StatefulSet" THEN <<>> ELSE ClaimsMade(f, fresh)
HeadlessGone(f) == IF KindOf(f) = "StatefulSet" THEN <<Call("headless.delete", None, None)>> ELSE <<>>
ServiceGone(f)  == IF ToService(f) # None THEN <<Call("service.delete", None, None)>> ELSE <<>>

\* An update of an application that keeps its kind, and of one that becomes another
LEMMA SameKindParts ==
  ASSUME NEW old, NEW new, KindOf(old) = KindOf(new), NEW paths, NEW fresh
  PROVE  PatchCalls(old, new, paths, fresh) =
           ClaimsPatched(new, fresh) \o AppPatch(old, new, fresh) \o ServiceCalls(old, new, paths) \o ScalerPatched(old, new)
<1>1. ClaimsPatched(new, fresh) = IF KindOf(new) # "StatefulSet" /\ ClaimsToCreate(Claims(new, fresh)) # {}
                                  THEN <<Call("claims.create", None, ClaimsToCreate(Claims(new, fresh)))>> ELSE <<>>
  BY DEF ClaimsPatched, ClaimsMade
<1> QED BY <1>1 DEF PatchCalls, AppPatch, ScalerPatched

LEMMA OtherKindParts ==
  ASSUME NEW old, NEW new, KindOf(old) # KindOf(new), NEW paths, NEW fresh
  PROVE  PatchCalls(old, new, paths, fresh) =
           <<Call("app.delete", KindOf(old), None)>> \o HeadlessGone(old) \o ServiceGone(old) \o CreateCalls(new, paths, fresh)
BY DEF PatchCalls, HeadlessGone, ServiceGone

UpdateOps == CreateOps \cup {"app.patch", "app.delete", "headless.delete"} \cup ServiceOps \cup ScalerOps

LEMMA ServiceCallsFit ==
  ASSUME NEW old, NEW new, NEW paths
  PROVE  /\ FitCalls(ServiceCalls(old, new, paths), ServiceOps \cup {"ingress.patch"})
         /\ ToService(old) = None /\ ToService(new) # None => ToCome(ServiceCalls(old, new, paths), "service.create")
         /\ ToService(old) = None => ~ToCome(ServiceCalls(old, new, paths), "service.delete")
<1> DEFINE s == ServicePart(old, new)
           r == RoutesIf(RoutesPatched(old, new), RoutesFrom(old, new, paths), ToIngress(paths, new.ports, "self"))
           K == ServiceOps \cup {"ingress.patch"}
<1>1. ServiceCalls(old, new, paths) = s \o r
  BY ServiceParts
<1>2. /\ FitCalls(s, ServiceOps)
      /\ ToService(old) = None /\ ToService(new) # None => ToCome(s, "service.create")
      /\ ToService(old) = None => ~ToCome(s, "service.delete")
  BY ServicePartFits
<1>3. FitCalls(r, {"ingress.patch"})
  BY RoutesIfFits
<1> HIDE DEF s, r
<1>4. ~ToCome(r, "service.delete")
  BY <1>3, NotComing
<1>5. FitCalls(s, K) /\ FitCalls(r, K) /\ IsSeq(s) /\ IsSeq(r)
  BY <1>2, <1>3, FitWider DEF FitCalls
<1>6. FitCalls(s \o r, K)
  BY <1>5, FitMore
<1>7. /\ ToCome(s \o r, "service.create") <=> ToCome(s, "service.create") \/ ToCome(r, "service.create")
      /\ ToCome(s \o r, "service.delete") <=> ToCome(s, "service.delete") \/ ToCome(r, "service.delete")
  BY <1>5, ComesIn
<1> QED BY <1>1, <1>2, <1>4, <1>6, <1>7

LEMMA ClaimsPatchedIs ==
  ASSUME NEW f, FitForm(f), NEW fresh \in Nat, NEW x
  PROVE  FitCalls(ClaimsPatched(f, fresh), {"claims.create"}) /\ MakesNone(ClaimsPatched(f, fresh), x)
<1>1. CASE KindOf(f) = "StatefulSet"
  BY <1>1, FitNothing, MakesNothing DEF ClaimsPatched, MakesNone
<1>2. CASE KindOf(f) # "StatefulSet"
  BY <1>2, ClaimsMadeIs DEF ClaimsPatched
<1> QED BY <1>1, <1>2

LEMMA HeadlessGoneIs ==
  ASSUME NEW f, NEW x
  PROVE  FitCalls(HeadlessGone(f), {"headless.delete"}) /\ MakesNone(HeadlessGone(f), x)
<1>1. CASE KindOf(f) # "StatefulSet"
  BY <1>1, FitNothing, MakesNothing DEF HeadlessGone, MakesNone
<1>2. CASE KindOf(f) = "StatefulSet"
  <2> DEFINE c == Call("headless.delete", None, None)
  <2>1. HeadlessGone(f) = <<c>>
    BY <1>2 DEF HeadlessGone
  <2>2. c.op = "headless.delete" /\ FitCall(c)
    BY CallFields, OtherCallsFit
  <2> HIDE DEF c
  <2>3. FitCalls(<<c>>, {"headless.delete"})
    BY <2>2, FitOne
  <2>4. MakesNone(<<c>>, x)
    BY <2>2, MakesSame
  <2> QED BY <2>1, <2>3, <2>4
<1> QED BY <1>1, <1>2

LEMMA ServiceGoneIs ==
  ASSUME NEW f, NEW x
  PROVE  /\ FitCalls(ServiceGone(f), {"service.delete"})
         /\ ToService(f) = None => ServiceGone(f) = <<>>
         /\ \E y : /\ Makes(ServiceGone(f), x, y)
                   /\ y.app = x.app /\ y.scaler = x.scaler /\ y.paths = x.paths
                   /\ y.service = IF ToService(f) # None THEN None ELSE x.service
<1>1. CASE ToService(f) = None
  <2>1. ServiceGone(f) = <<>>
    BY <1>1 DEF ServiceGone
  <2> QED BY <1>1, <2>1, FitNothing, MakesNothing
<1>2. CASE ToService(f) # None
  <2> DEFINE c == Call("service.delete", None, None)
             y == Turned(c, x)
  <2>1. ServiceGone(f) = <<c>>
    BY <1>2 DEF ServiceGone
  <2>2. c.op = "service.delete" /\ FitCall(c)
    BY CallFields, OtherCallsFit
  <2> HIDE DEF c
  <2>3. FitCalls(<<c>>, {"service.delete"})
    BY <2>2, FitOne
  <2>4. Makes(<<c>>, x, y)
    BY MakesOne
  <2>5. y.app = x.app /\ y.scaler = x.scaler /\ y.paths = x.paths /\ y.service = None
    BY <2>2, TurnedIs
  <2> QED BY <1>2, <2>1, <2>3, <2>4, <2>5
<1> QED BY <1>1, <1>2

\* The calls of an update
LEMMA PatchFits ==
  ASSUME NEW a, FitApp(a), NEW old, SavedAs(old, a), NEW new, FitForm(new), KindOf(new) \in Kinds,
         new.deployment = "global" => ~new.scaler, NEW paths, NEW fresh \in Nat
  PROVE  /\ FitCalls(PatchCalls(old, new, paths, fresh), UpdateOps)
         /\ ToService(old) = None /\ ToService(new) # None =>
              /\ ToCome(PatchCalls(old, new, paths, fresh), "service.create")
              /\ ~ToCome(PatchCalls(old, new, paths, fresh), "service.delete")
<1> DEFINE p == PatchCalls(old, new, paths, fresh)
<1>1. CASE KindOf(old) = KindOf(new)
  <2> DEFINE s1 == ClaimsPatched(new, fresh)
             s2 == AppPatch(old, new, fresh)
             s3 == ServiceCalls(old, new, paths)
             s4 == ScalerPatched(old, new)
  <2>1. p = s1 \o s2 \o s3 \o s4
    BY <1>1, SameKindParts
  <2>2. FitCalls(s1, {"claims.create"})
    BY ClaimsPatchedIs
  <2>3. FitCalls(s2, {"app.patch"})
    BY <1>1, AppPatchFits
  <2>4. /\ FitCalls(s3, ServiceOps \cup {"ingress.patch"})
        /\ ToService(old) = None /\ ToService(new) # None => ToCome(s3, "service.create")
        /\ ToService(old) = None => ~ToCome(s3, "service.delete")
    BY ServiceCallsFit
  <2>5. FitCalls(s4, ScalerOps)
    <3>1. old.scaler \in BOOLEAN
      BY DEF SavedAs, IsFullForm
    <3> QED BY <3>1, ScalerPatchedFits
  <2> HIDE DEF s1, s2, s3, s4, p
  <2>6. FitCalls(s1, UpdateOps) /\ FitCalls(s2, UpdateOps) /\ FitCalls(s3, UpdateOps) /\ FitCalls(s4, UpdateOps)
    <3>1. /\ {"claims.create"} \subseteq UpdateOps /\ {"app.patch"} \subseteq UpdateOps /\ ScalerOps \subseteq UpdateOps
          /\ ServiceOps \cup {"ingress.patch"} \subseteq UpdateOps
      BY DEF UpdateOps, CreateOps
    <3> QED BY <2>2, <2>3, <2>4, <2>5, <3>1, FitWider
  <2>7. FitCalls(s1 \o s2, UpdateOps)
    BY <2>6, FitMore
  <2>8. FitCalls(s1 \o s2 \o s3, UpdateOps)
    BY <2>6, <2>7, FitMore
  <2>9. FitCalls(s1 \o s2 \o s3 \o s4, UpdateOps)
    BY <2>6, <2>8, FitMore
  <2>10. IsSeq(s1) /\ IsSeq(s2) /\ IsSeq(s3) /\ IsSeq(s4) /\ IsSeq(s1 \o s2) /\ IsSeq(s1 \o s2 \o s3)
    BY <2>6, <2>7, <2>8 DEF FitCalls
  <2>11. \A op : ToCome(p, op) <=> ToCome(s1, op) \/ ToCome(s2, op) \/ ToCome(s3, op) \/ ToCome(s4, op)
    <3> TAKE op
    <3>1. ToCome(p, op) <=> ToCome(s1 \o s2 \o s3, op) \/ ToCome(s4, op)
      BY <2>1, <2>10, ComesIn
    <3>2. ToCome(s1 \o s2 \o s3, op) <=> ToCome(s1 \o s2, op) \/ ToCome(s3, op)
      BY <2>10, ComesIn
    <3>3. ToCome(s1 \o s2, op) <=> ToCome(s1, op) \/ ToCome(s2, op)
      BY <2>10, ComesIn
    <3> QED BY <3>1, <3>2, <3>3
  <2>12. ~ToCome(s1, "service.delete") /\ ~ToCome(s2, "service.delete") /\ ~ToCome(s4, "service.delete")
    BY <2>2, <2>3, <2>5, NotComing DEF ScalerOps
  <2> QED BY <2>1, <2>4, <2>9, <2>11, <2>12 DEF p
<1>2. CASE KindOf(old) # KindOf(new)
  <2> DEFINE c  == Call("app.delete", KindOf(old), None)
             s2 == HeadlessGone(old)
             s3 == ServiceGone(old)
             s4 == CreateCalls(new, paths, fresh)
             s1 == <<c>>
  <2>1. p = s1 \o s2 \o s3 \o s4
    BY <1>2, OtherKindParts
  <2>a. c.op = "app.delete" /\ FitCall(c)
    BY CallFields, OtherCallsFit
  <2>2. FitCalls(s1, {"app.delete"})
    <3> HIDE DEF c
    <3> QED BY <2>a, FitOne
  <2>3. FitCalls(s2, {"headless.delete"})
    BY HeadlessGoneIs
  <2>4. FitCalls(s3, {"service.delete"}) /\ (ToService(old) = None => s3 = <<>>)
    BY ServiceGoneIs
  <2>5. FitCalls(s4, CreateOps) /\ (ToService(new) # None => ToCome(s4, "service.create"))
    BY CreateFits
  <2> HIDE DEF s1, s2, s3, s4, p
  <2>6. FitCalls(s1, UpdateOps) /\ FitCalls(s2, UpdateOps) /\ FitCalls(s3, UpdateOps) /\ FitCalls(s4, UpdateOps)
    <3>1. /\ {"app.delete"} \subseteq UpdateOps /\ {"headless.delete"} \subseteq UpdateOps /\ CreateOps \subseteq UpdateOps
          /\ {"service.delete"} \subseteq UpdateOps
      BY DEF UpdateOps, ServiceOps
    <3> QED BY <2>2, <2>3, <2>4, <2>5, <3>1, FitWider
  <2>7. FitCalls(s1 \o s2, UpdateOps)
    BY <2>6, FitMore
  <2>8. FitCalls(s1 \o s2 \o s3, UpdateOps)
    BY <2>6, <2>7, FitMore
  <2>9. FitCalls(s1 \o s2 \o s3 \o s4, UpdateOps)
    BY <2>6, <2>8, FitMore
  <2>10. IsSeq(s1) /\ IsSeq(s2) /\ IsSeq(s3) /\ IsSeq(s4) /\ IsSeq(s1 \o s2) /\ IsSeq(s1 \o s2 \o s3)
    BY <2>6, <2>7, <2>8 DEF FitCalls
  <2>11. \A op : ToCome(p, op) <=> ToCome(s1, op) \/ ToCome(s2, op) \/ ToCome(s3, op) \/ ToCome(s4, op)
    <3> TAKE op
    <3>1. ToCome(p, op) <=> ToCome(s1 \o s2 \o s3, op) \/ ToCome(s4, op)
      BY <2>1, <2>10, ComesIn
    <3>2. ToCome(s1 \o s2 \o s3, op) <=> ToCome(s1 \o s2, op) \/ ToCome(s3, op)
      BY <2>10, ComesIn
    <3>3. ToCome(s1 \o s2, op) <=> ToCome(s1, op) \/ ToCome(s2, op)
      BY <2>10, ComesIn
    <3> QED BY <3>1, <3>2, <3>3
  <2>12. ~ToCome(s1, "service.delete") /\ ~ToCome(s2, "service.delete") /\ ~ToCome(s4, "service.delete")
    BY <2>2, <2>3, <2>5, NotComing DEF CreateOps
  <2>13. ToService(old) = None => ~ToCome(s3, "service.delete")
    BY <2>4, EmptyFacts DEF ToCome
  <2> QED BY <2>1, <2>5, <2>9, <2>11, <2>12, <2>13 DEF p
<1> QED BY <1>1, <1>2

\* What an update from one form to another makes y of x
Updated(x, y, old, new, fresh) ==
  /\ FitApp(y.app) /\ Alike(y.app, ToApplication(new, fresh))
  /\ ServiceFits(x.service, old) => ServiceFits(y.service, new)
  /\ new.scaler => y.scaler = ScalerOf(new) \/ (old.scaler /\ KindOf(old) = KindOf(new) /\ y.scaler = x.scaler)
  /\ ~new.scaler => y.scaler = x.scaler \/ (old.scaler /\ KindOf(old) = KindOf(new) /\ y.scaler = None)
  /\ ~new.scaler /\ old.scaler /\ KindOf(old) = KindOf(new) => y.scaler = None
  /\ new.publishing = "ingress" => y.paths = ToIngress(x.paths, new.ports, "self")
  /\ old.publishing # "ingress" /\ new.publishing # "ingress" => y.paths = x.paths

LEMMA ServiceCallsMake ==
  ASSUME NEW old, IsForm(old), Untouched(old.ports), NEW new, IsForm(new), NEW x, x.paths \in Seq(Paths),
         new.publishing = "ingress" => ToService(new) # None
  PROVE  \E y : /\ Makes(ServiceCalls(old, new, x.paths), x, y)
                /\ y.app = x.app /\ y.scaler = x.scaler
                /\ ServiceFits(x.service, old) => ServiceFits(y.service, new)
                /\ new.publishing = "ingress" => y.paths = ToIngress(x.paths, new.ports, "self")
                /\ old.publishing # "ingress" /\ new.publishing # "ingress" => y.paths = x.paths
<1> DEFINE s   == ServicePart(old, new)
           way == RoutesPatched(old, new)
           new1 == ToIngress(x.paths, new.ports, "self")
           r   == RoutesIf(way, x.paths, new1)
<1>1. RoutesFrom(old, new, x.paths) = x.paths
  <2>1. IsSeq(old.ports) /\ IsSeq(x.paths)
    BY SeqIsSeq DEF IsForm
  <2>2. ToIngress(x.paths, old.ports, "self") = x.paths
    BY <2>1, IngressSame DEF Untouched
  <2> QED BY <2>2 DEF RoutesFrom
<1>2. ServiceCalls(old, new, x.paths) = s \o r
  BY <1>1, ServiceParts
<1>3. PICK y1 : /\ Makes(s, x, y1)
                /\ y1.app = x.app /\ y1.scaler = x.scaler /\ y1.paths = x.paths
                /\ ServiceFits(x.service, old) => ServiceFits(y1.service, new)
  BY ServicePartMakes
<1>4. (new.publishing = "ingress" => way)
      /\ (old.publishing # "ingress" /\ new.publishing # "ingress" => ~way)
  <2> DEFINE was == ToService(old)
             is  == ToService(new)
  <2>1. way = IF was # None /\ is # None THEN "ingress" \in {old.publishing, new.publishing}
              ELSE IF was = None /\ is # None THEN new.publishing = "ingress"
              ELSE was # None /\ is = None /\ old.publishing = "ingress"
    BY DEF RoutesPatched
  <2>2. new.publishing = "ingress" => is # None
    OBVIOUS
  <2> HIDE DEF way, was, is
  <2>4. new.publishing = "ingress" => way
    BY <2>1, <2>2
  <2>5. old.publishing # "ingress" /\ new.publishing # "ingress" => ~way
    BY <2>1
  <2> QED BY <2>4, <2>5
<1>5. IsSeq(y1.paths) /\ IsSeq(new1)
  <2>2. new.ports \in Seq(PortRow)
    BY DEF IsForm
  <2>3. new1 \in Seq(Paths)
    BY <2>2, IngressIsPaths
  <2> QED BY <1>3, <2>3, SeqIsSeq
<1>6. IsSeq(s) /\ IsSeq(r)
  <2>1. FitCalls(s, ServiceOps)
    BY ServicePartFits
  <2>2. FitCalls(r, {"ingress.patch"})
    BY RoutesIfFits
  <2> QED BY <2>1, <2>2 DEF FitCalls
<1> HIDE DEF s, way, new1
<1>7. PICK y : /\ Makes(RoutesIf(way, y1.paths, new1), y1, y)
               /\ y.app = y1.app /\ y.service = y1.service /\ y.scaler = y1.scaler
               /\ y.paths = IF way THEN new1 ELSE y1.paths
  <2>1. RoutesIfMakes(way, y1, new1)
    BY <1>5, RoutesIfIs
  <2> QED BY <2>1 DEF RoutesIfMakes
<1>8. Makes(r, y1, y)
  BY <1>3, <1>7
<1> HIDE DEF r
<1>9. Makes(s \o r, x, y)
  BY <1>3, <1>6, <1>8, MakesMore
<1> QED BY <1>2, <1>3, <1>4, <1>7, <1>9 DEF new1

\* What an update makes, if each of its calls applies: the routes are patched from what they were.
LEMMA PatchMakes ==
  ASSUME NEW x, FitApp(x.app), x.paths \in Seq(Paths),
         NEW old, SavedAs(old, x.app), Untouched(old.ports),
         NEW new, FitForm(new), KindOf(new) \in Kinds, new.deployment = "global" => ~new.scaler,
         new.publishing = "ingress" => ToService(new) # None, NEW fresh \in Nat
  PROVE  \E y : Makes(PatchCalls(old, new, x.paths, fresh), x, y) /\ Updated(x, y, old, new, fresh)
<1> DEFINE p == PatchCalls(old, new, x.paths, fresh)
<1>0. IsForm(old) /\ IsForm(new) /\ old.scaler \in BOOLEAN /\ new.scaler \in BOOLEAN
  BY DEF SavedAs, FitForm, IsFullForm
<1>1. CASE KindOf(old) = KindOf(new)
  <2> DEFINE s1 == ClaimsPatched(new, fresh)
             s2 == AppPatch(old, new, fresh)
             s3 == ServiceCalls(old, new, x.paths)
             s4 == ScalerPatched(old, new)
  <2>1. p = s1 \o s2 \o s3 \o s4
    BY <1>1, SameKindParts
  <2>2. IsSeq(s1) /\ IsSeq(s2) /\ IsSeq(s3) /\ IsSeq(s4)
    <3>1. IsSeq(s1)
      BY ClaimsPatchedIs DEF FitCalls
    <3>2. FitCalls(s2, {"app.patch"})
      BY <1>1, AppPatchFits
    <3>3. IsSeq(s3)
      BY ServiceCallsFit DEF FitCalls
    <3>4. FitCalls(s4, ScalerOps)
      BY <1>0, ScalerPatchedFits
    <3> QED BY <3>1, <3>2, <3>3, <3>4 DEF FitCalls
  <2>3. PICK y1 : Makes(s1, x, y1) /\ y1.app = x.app /\ y1.service = x.service /\ y1.scaler = x.scaler /\ y1.paths = x.paths
    <3>1. MakesNone(s1, x)
      BY ClaimsPatchedIs
    <3> QED BY <3>1 DEF MakesNone
  <2>4. PICK y2 : /\ Makes(s2, y1, y2) /\ FitApp(y2.app) /\ Alike(y2.app, ToApplication(new, fresh))
                  /\ y2.service = y1.service /\ y2.scaler = y1.scaler /\ y2.paths = y1.paths
    <3>1. FitApp(y1.app) /\ SavedAs(old, y1.app)
      BY <2>3
    <3> QED BY <1>1, <3>1, AppPatchMakes
  <2>5. PICK y3 : /\ Makes(s3, y2, y3) /\ y3.app = y2.app /\ y3.scaler = y2.scaler
                  /\ ServiceFits(y2.service, old) => ServiceFits(y3.service, new)
                  /\ new.publishing = "ingress" => y3.paths = ToIngress(y2.paths, new.ports, "self")
                  /\ old.publishing # "ingress" /\ new.publishing # "ingress" => y3.paths = y2.paths
    <3>1. y2.paths = x.paths
      BY <2>3, <2>4
    <3>2. \E y : /\ Makes(ServiceCalls(old, new, y2.paths), y2, y)
                 /\ y.app = y2.app /\ y.scaler = y2.scaler
                 /\ ServiceFits(y2.service, old) => ServiceFits(y.service, new)
                 /\ new.publishing = "ingress" => y.paths = ToIngress(y2.paths, new.ports, "self")
                 /\ old.publishing # "ingress" /\ new.publishing # "ingress" => y.paths = y2.paths
      BY <1>0, <3>1, ServiceCallsMake
    <3> QED BY <3>1, <3>2
  <2>6. PICK y : /\ Makes(s4, y3, y)
                 /\ y.app = y3.app /\ y.service = y3.service /\ y.paths = y3.paths
                 /\ ScalerTo(old, new, y3.scaler, y.scaler)
    <3>1. ScalerMakes(old, new, y3)
      BY ScalerPatchedMakes DEF SavedAs, FitForm
    <3> QED BY <3>1 DEF ScalerMakes
  <2> HIDE DEF s1, s2, s3, s4, p
  <2>7. Makes(s1 \o s2, x, y2) /\ IsSeq(s1 \o s2)
    BY <2>2, <2>3, <2>4, MakesMore, ConcatFacts
  <2>8. Makes(s1 \o s2 \o s3, x, y3) /\ IsSeq(s1 \o s2 \o s3)
    BY <2>2, <2>5, <2>7, MakesMore, ConcatFacts
  <2>9. Makes(s1 \o s2 \o s3 \o s4, x, y)
    BY <2>2, <2>6, <2>8, MakesMore
  <2>10. Updated(x, y, old, new, fresh)
    <3>1. y3.scaler = x.scaler /\ y2.paths = x.paths /\ y2.service = x.service
      BY <2>3, <2>4, <2>5
    <3>2. FitApp(y.app) /\ Alike(y.app, ToApplication(new, fresh))
      BY <2>4, <2>5, <2>6
    <3>3. ServiceFits(x.service, old) => ServiceFits(y.service, new)
      BY <2>5, <2>6, <3>1
    <3>4. /\ new.scaler => y.scaler = ScalerOf(new) \/ (old.scaler /\ y.scaler = x.scaler)
          /\ ~new.scaler => y.scaler = IF old.scaler THEN None ELSE x.scaler
      BY <2>6, <3>1 DEF ScalerTo
    <3>5. /\ new.publishing = "ingress" => y.paths = ToIngress(x.paths, new.ports, "self")
          /\ old.publishing # "ingress" /\ new.publishing # "ingress" => y.paths = x.paths
      BY <2>5, <2>6, <3>1
    <3> QED BY <1>1, <3>2, <3>3, <3>4, <3>5 DEF Updated
  <2> QED BY <2>1, <2>9, <2>10 DEF p
<1>2. CASE KindOf(old) # KindOf(new)
  <2> DEFINE c  == Call("app.delete", KindOf(old), None)
             s2 == HeadlessGone(old)
             s3 == ServiceGone(old)
             s4 == CreateCalls(new, x.paths, fresh)
             s1 == <<c>>
             y1 == Turned(c, x)
  <2>1. p = s1 \o s2 \o s3 \o s4
    BY <1>2, OtherKindParts
  <2>2. IsSeq(s1) /\ IsSeq(s2) /\ IsSeq(s3) /\ IsSeq(s4)
    <3>1. IsSeq(s1)
      BY OneElement
    <3>2. FitCalls(s2, {"headless.delete"})
      BY HeadlessGoneIs
    <3>3. FitCalls(s3, {"service.delete"})
      BY ServiceGoneIs
    <3>4. FitCalls(s4, CreateOps)
      BY CreateFits
    <3> QED BY <3>1, <3>2, <3>3, <3>4 DEF FitCalls
  <2>3. Makes(s1, x, y1)
    BY MakesOne
  <2>4. y1.service = x.service /\ y1.scaler = x.scaler /\ y1.paths = x.paths
    <3>1. c.op = "app.delete"
      BY CallFields
    <3> HIDE DEF c
    <3> QED BY <3>1, TurnedIs
  <2> HIDE DEF y1, c
  <2>5. PICK y2 : Makes(s2, y1, y2) /\ y2.app = y1.app /\ y2.service = y1.service /\ y2.scaler = y1.scaler /\ y2.paths = y1.paths
    <3>1. MakesNone(s2, y1)
      BY HeadlessGoneIs
    <3> QED BY <3>1 DEF MakesNone
  <2>6. PICK y3 : /\ Makes(s3, y2, y3) /\ y3.app = y2.app /\ y3.scaler = y2.scaler /\ y3.paths = y2.paths
                  /\ y3.service = IF ToService(old) # None THEN None ELSE y2.service
    BY ServiceGoneIs
  <2>7. y3.paths = x.paths /\ y3.scaler = x.scaler
    BY <2>4, <2>5, <2>6
  <2>8. PICK y : /\ Makes(CreateCalls(new, y3.paths, fresh), y3, y)
                 /\ y.app = ToApplication(new, fresh)
                 /\ y.service = IF ToService(new) = None THEN y3.service ELSE ToService(new)
                 /\ y.scaler = IF new.scaler /\ new.deployment # "global" THEN ScalerOf(new) ELSE y3.scaler
                 /\ y.paths = IF ToService(new) # None /\ new.publishing = "ingress" THEN ToIngress(y3.paths, new.ports, "self") ELSE y3.paths
    BY <2>7, CreateMakes
  <2>9. Makes(s4, y3, y)
    BY <2>7, <2>8
  <2> HIDE DEF s1, s2, s3, s4, p
  <2>10. Makes(s1 \o s2, x, y2) /\ IsSeq(s1 \o s2)
    BY <2>2, <2>3, <2>5, MakesMore, ConcatFacts
  <2>11. Makes(s1 \o s2 \o s3, x, y3) /\ IsSeq(s1 \o s2 \o s3)
    BY <2>2, <2>6, <2>10, MakesMore, ConcatFacts
  <2>12. Makes(s1 \o s2 \o s3 \o s4, x, y)
    BY <2>2, <2>9, <2>11, MakesMore
  <2>13. Updated(x, y, old, new, fresh)
    <3>1. FitApp(ToApplication(new, fresh))
      BY NewApp
    <3>2. FitApp(y.app) /\ Alike(y.app, ToApplication(new, fresh))
      BY <2>8, <3>1 DEF Alike
    <3>3. ServiceFits(x.service, old) => ServiceFits(y.service, new)
      <4>1. ToService(new) = None \/ IsService(ToService(new))
        BY <1>0, ServiceOf
      <4>2. y2.service = x.service
        BY <2>4, <2>5
      <4>3. CASE ToService(old) # None
        BY <2>6, <2>8, <4>1, <4>3 DEF ServiceFits
      <4>4. CASE ToService(old) = None
        BY <2>6, <2>8, <4>1, <4>2, <4>4 DEF ServiceFits
      <4> QED BY <4>3, <4>4
    <3>4. y.scaler = IF new.scaler THEN ScalerOf(new) ELSE x.scaler
      BY <2>7, <2>8
    <3>5. /\ new.publishing = "ingress" => y.paths = ToIngress(x.paths, new.ports, "self")
          /\ old.publishing # "ingress" /\ new.publishing # "ingress" => y.paths = x.paths
      BY <2>7, <2>8
    <3> QED BY <1>2, <3>2, <3>3, <3>4, <3>5 DEF Updated
  <2> QED BY <2>1, <2>12, <2>13 DEF p
<1> QED BY <1>1, <1>2

-----------------------------------------------------------------------------
(* The form as it is edited                                                *)

\* A form as it is edited: what runs on every node does not scale.
EditForm(f) == FitForm(f) /\ (f.deployment = "global" => ~f.scaler)

LEMMA EditFormIs ==
  ASSUME NEW g, IsForm(g)
  PROVE  EditForm(g) <=>
           /\ g.folders \in Seq(FolderRow) /\ g.placements \in Seq(PlacementRow)
           /\ g.mandatory \in BOOLEAN /\ g.scaler \in BOOLEAN /\ g.appType = "none"
           /\ g.deployment = "global" => ~g.scaler
BY DEF EditForm, FitForm, IsFullForm

LEMMA FolderRows ==
  ASSUME NEW rows \in Seq(FolderRow)
  PROVE  /\ \A p \in 1 .. 2 : Append(rows, [claim |-> 0, existing |-> 0, path |-> p, new |-> TRUE, del |-> FALSE]) \in Seq(FolderRow)
         /\ \A i \in DOMAIN rows : RemoveRow(rows, i) \in Seq(FolderRow) /\ RestoreRow(rows, i) \in Seq(FolderRow)
<1>1. \A r \in FolderRow : [r EXCEPT !.del = TRUE] \in FolderRow /\ [r EXCEPT !.del = FALSE] \in FolderRow
  BY DEF FolderRow
<1>2. \A p \in 1 .. 2 : [claim |-> 0, existing |-> 0, path |-> p, new |-> TRUE, del |-> FALSE] \in FolderRow
  BY DEF FolderRow
<1> QED BY <1>1, <1>2, RowsOf

\* A folder that is added, on a new volume or on one that is there
LEMMA FolderAdded ==
  ASSUME NEW f, IsForm(f), EditForm(f), NEW p \in 1 .. 2
  PROVE  LET h == AddPersistedFolder(f, p)
         IN  /\ EditForm(h) /\ h.deployment = "replicated"
             /\ DOMAIN h = FormFields /\ h.policy = f.policy /\ Len(h.folders) = Len(f.folders) + 1
<1> DEFINE h == AddPersistedFolder(f, p)
           e == [claim |-> 0, existing |-> 0, path |-> p, new |-> TRUE, del |-> FALSE]
<1>1. /\ DOMAIN f = FormFields /\ f.env \in Seq(EnvRows) /\ f.ports \in Seq(PortRow) /\ f.policy \in {"shared", "isolated"}
  BY DEF IsForm
<1>2. /\ f.folders \in Seq(FolderRow) /\ f.placements \in Seq(PlacementRow)
      /\ f.mandatory \in BOOLEAN /\ f.scaler \in BOOLEAN /\ f.appType = "none"
  BY EditFormIs
<1>3. h = [f EXCEPT !.folders = Append(@, e), !.deployment = "replicated"]
  BY DEF AddPersistedFolder
<1>4. Append(f.folders, e) \in Seq(FolderRow)
  BY <1>2, FolderRows
<1> HIDE DEF h, e
<1>5. /\ DOMAIN h = FormFields /\ h.folders = Append(f.folders, e) /\ h.deployment = "replicated"
      /\ h.policy = f.policy /\ h.env = f.env /\ h.ports = f.ports /\ h.placements = f.placements
      /\ h.mandatory = f.mandatory /\ h.scaler = f.scaler /\ h.appType = f.appType
  BY <1>1, <1>3 DEF FormFields
<1>6. IsSeq(f.folders) /\ IsSeq(Append(f.folders, e))
  BY <1>2, <1>4, SeqIsSeq
<1>7. IsForm(h)
  BY <1>1, <1>5, <1>6 DEF IsForm
<1>8. EditForm(h)
  BY <1>2, <1>4, <1>5, <1>7, EditFormIs
<1>9. Len(h.folders) = Len(f.folders) + 1
  BY <1>5, <1>6, AppendFacts
<1> QED BY <1>5, <1>8, <1>9 DEF h

LEMMA FolderOnVolume ==
  ASSUME NEW h, IsForm(h), EditForm(h), NEW n \in DOMAIN h.folders, NEW c \in Nat, h.deployment = "replicated"
  PROVE  EditForm(UseExistingVolume(h, n, c))
<1> DEFINE g == UseExistingVolume(h, n, c)
           e == [h.folders[n] EXCEPT !.existing = c]
           t == [h.folders EXCEPT ![n] = e]
<1>1. /\ DOMAIN h = FormFields /\ h.env \in Seq(EnvRows) /\ h.ports \in Seq(PortRow) /\ IsSeq(h.folders)
  BY DEF IsForm
<1>2. /\ h.folders \in Seq(FolderRow) /\ h.placements \in Seq(PlacementRow)
      /\ h.mandatory \in BOOLEAN /\ h.scaler \in BOOLEAN /\ h.appType = "none"
  BY EditFormIs
<1>3. e \in FolderRow
  <2>1. h.folders[n] \in FolderRow
    BY <1>2
  <2> QED BY <2>1 DEF FolderRow
<1>4. g = [h EXCEPT !.folders = t, !.policy = "shared", !.deployment = IF h.policy = "isolated" THEN "replicated" ELSE @]
  BY DEF UseExistingVolume
<1> HIDE DEF e
<1>5. t \in Seq(FolderRow)
  <2>1. IsSeq(t) /\ Len(t) = Len(h.folders) /\ \A j \in 1 .. Len(h.folders) : t[j] = IF j = n THEN e ELSE h.folders[j]
    BY <1>1, RowReplaced
  <2>2. \A j \in 1 .. Len(t) : t[j] \in FolderRow
    BY <1>2, <1>3, <2>1
  <2> HIDE DEF t
  <2> QED BY <2>1, <2>2, SeqFrom
<1> HIDE DEF t, g
<1>6. /\ DOMAIN g = FormFields /\ g.folders = t /\ g.deployment = "replicated" /\ g.policy = "shared"
      /\ g.env = h.env /\ g.ports = h.ports /\ g.placements = h.placements
      /\ g.mandatory = h.mandatory /\ g.scaler = h.scaler /\ g.appType = h.appType
  BY <1>1, <1>4 DEF FormFields
<1>7. IsSeq(t)
  BY <1>5, SeqIsSeq
<1>8. IsForm(g)
  BY <1>1, <1>6, <1>7 DEF IsForm
<1>9. EditForm(g)
  BY <1>2, <1>5, <1>6, <1>8, EditFormIs
<1> QED BY <1>9 DEF g

\* What the user does to a form leaves one.
LEMMA ChangesAreEdits ==
  ASSUME NEW f, IsForm(f), EditForm(f), cluster.claims \subseteq Nat, NEW v, NEW g \in Changes(f, v)
  PROVE  EditForm(g)
<1>0. /\ DOMAIN f = FormFields
      /\ f.folders \in Seq(FolderRow) /\ f.placements \in Seq(PlacementRow)
      /\ f.mandatory \in BOOLEAN /\ f.scaler \in BOOLEAN /\ f.appType = "none"
      /\ f.deployment = "global" => ~f.scaler
  BY EditFormIs DEF IsForm
<1>1. IsForm(g)
  BY ChangesAreForms
<1>2. \A i \in DOMAIN f.folders : RemoveRow(f.folders, i) \in Seq(FolderRow) /\ RestoreRow(f.folders, i) \in Seq(FolderRow)
  BY <1>0, FolderRows
<1>3. CASE ChangesVariables(f, g)
  <2>1. \A x \in FormFields \ {"env"} : g[x] = f[x]
    BY <1>0, <1>3, Zenon DEF ChangesVariables, AddEnvironmentVariable
  <2> QED BY <1>0, <1>1, <2>1, EditFormIs DEF FormFields
<1>4. CASE \E p \in 1 .. 2 : g = AddPersistedFolder(f, p)
  BY <1>4, FolderAdded
<1>5. CASE \E c \in cluster.claims : g = UseExistingVolume(AddPersistedFolder(f, 2), Len(f.folders) + 1, c)
  <2>1. PICK c \in cluster.claims : g = UseExistingVolume(AddPersistedFolder(f, 2), Len(f.folders) + 1, c)
    BY <1>5
  <2> DEFINE h == AddPersistedFolder(f, 2)
             n == Len(f.folders) + 1
  <2>2. EditForm(h) /\ h.deployment = "replicated" /\ Len(h.folders) = n
    BY FolderAdded
  <2> HIDE DEF h
  <2>3. IsForm(h) /\ IsSeq(h.folders) /\ IsSeq(f.folders)
    BY <2>2 DEF EditForm, FitForm, IsFullForm, IsForm
  <2>4. n \in DOMAIN h.folders
    BY <2>2, <2>3, SeqFacts
  <2>5. c \in Nat
    BY <2>1
  <2> HIDE DEF n
  <2>6. EditForm(UseExistingVolume(h, n, c))
    BY <2>2, <2>3, <2>4, <2>5, FolderOnVolume
  <2> QED BY <2>1, <2>6 DEF h, n
<1>6. CASE \E i \in DOMAIN f.folders : g = [f EXCEPT !.folders = RemoveRow(@, i)] \/ g = [f EXCEPT !.folders = RestoreRow(@, i)]
  <2>1. PICK i \in DOMAIN f.folders : g = [f EXCEPT !.folders = RemoveRow(@, i)] \/ g = [f EXCEPT !.folders = RestoreRow(@, i)]
    BY <1>6
  <2>2. g.folders \in Seq(FolderRow) /\ \A x \in FormFields \ {"folders"} : g[x] = f[x]
    BY <1>0, <1>2, <2>1 DEF FormFields
  <2> QED BY <1>0, <1>1, <2>2, EditFormIs DEF FormFields
<1>7. CASE ChangesPorts(f, g)
  <2>1. \A x \in FormFields \ {"ports"} : g[x] = f[x]
    BY <1>0, <1>7, Zenon DEF ChangesPorts, AddPublishedPort
  <2> QED BY <1>0, <1>1, <2>1, EditFormIs DEF FormFields
<1>8. CASE ChangesChoices(f, g)
  <2>1. CASE \E t : g = [f EXCEPT !.publishing = t]
    <3>1. \A x \in FormFields \ {"publishing"} : g[x] = f[x]
      BY <1>0, <2>1, Zenon
    <3> QED BY <1>0, <1>1, <3>1, EditFormIs DEF FormFields
  <2>2. CASE g = [f EXCEPT !.deployment = "replicated"]
    <3>1. g.deployment = "replicated" /\ \A x \in FormFields \ {"deployment"} : g[x] = f[x]
      BY <1>0, <2>2 DEF FormFields
    <3> QED BY <1>0, <1>1, <3>1, EditFormIs DEF FormFields
  <2>3. CASE g = [f EXCEPT !.deployment = "global", !.scaler = FALSE]
    <3>1. g.scaler = FALSE /\ \A x \in FormFields \ {"deployment", "scaler"} : g[x] = f[x]
      BY <1>0, <2>3 DEF FormFields
    <3> QED BY <1>0, <1>1, <3>1, EditFormIs DEF FormFields
  <2>4. CASE f.deployment = "replicated" /\ g = [f EXCEPT !.scaler = ~@]
    <3>1. g.scaler = ~f.scaler /\ \A x \in FormFields \ {"scaler"} : g[x] = f[x]
      BY <1>0, <2>4, Zenon DEF FormFields
    <3>2. g.scaler \in BOOLEAN
      BY <1>0, <3>1, Zenon
    <3>3. g.deployment = "replicated" /\ g.folders = f.folders /\ g.placements = f.placements /\ g.mandatory = f.mandatory /\ g.appType = f.appType
      BY <2>4, <3>1 DEF FormFields
    <3> QED BY <1>0, <1>1, <3>2, <3>3, EditFormIs
  <2>5. CASE g = [f EXCEPT !.replicas = 3 - @]
    <3>1. \A x \in FormFields \ {"replicas"} : g[x] = f[x]
      BY <1>0, <2>5, Zenon
    <3> QED BY <1>0, <1>1, <3>1, EditFormIs DEF FormFields
  <2>6. CASE g = AddPlacement(f, 1)
    <3> DEFINE e == [label |-> 1, value |-> 1, new |-> TRUE, del |-> FALSE]
    <3>1. g = [f EXCEPT !.placements = Append(@, e)]
      BY <2>6 DEF AddPlacement
    <3>2. Append(f.placements, e) \in Seq(PlacementRow)
      <4>1. e \in PlacementRow
        BY DEF PlacementRow
      <4> QED BY <1>0, <4>1
    <3> HIDE DEF e
    <3>3. g.placements = Append(f.placements, e) /\ \A x \in FormFields \ {"placements"} : g[x] = f[x]
      BY <1>0, <3>1 DEF FormFields
    <3> QED BY <1>0, <1>1, <3>2, <3>3, EditFormIs DEF FormFields
  <2>7. CASE \E i \in DOMAIN f.placements : g = [f EXCEPT !.placements = RemoveRow(@, i)]
    <3>1. PICK i \in DOMAIN f.placements : g = [f EXCEPT !.placements = RemoveRow(@, i)]
      BY <2>7
    <3>2. \A r \in PlacementRow : [r EXCEPT !.del = TRUE] \in PlacementRow /\ [r EXCEPT !.del = FALSE] \in PlacementRow
      BY DEF PlacementRow
    <3>3. RemoveRow(f.placements, i) \in Seq(PlacementRow)
      BY <1>0, <3>1, <3>2, RowsOf
    <3>4. g.placements = RemoveRow(f.placements, i) /\ \A x \in FormFields \ {"placements"} : g[x] = f[x]
      BY <1>0, <3>1 DEF FormFields
    <3> QED BY <1>0, <1>1, <3>3, <3>4, EditFormIs DEF FormFields
  <2> QED BY <1>8, <2>1, <2>2, <2>3, <2>4, <2>5, <2>6, <2>7, Zenon DEF ChangesChoices
<1>9. ChangesFolders(f, g) => EditForm(g)
  BY <1>4, <1>5, <1>6 DEF ChangesFolders
<1> QED BY <1>3, <1>7, <1>8, <1>9, ChangesAre

\* The rows of the ports that there were come first, marked or not; the others are new.
SameRow(r, s) == ~r.new /\ r.ingress = s.ingress /\ r.port = s.port /\ r.route = s.route

RowsKept(rows, saved) ==
  /\ Len(saved) <= Len(rows)
  /\ \A i \in 1 .. Len(rows) : IF i <= Len(saved) THEN SameRow(rows[i], saved[i]) ELSE rows[i].new

\* Marking, adding and removing rows keep the order.
LEMMA KeptMarked ==
  ASSUME NEW rows, IsSeq(rows), NEW saved, IsSeq(saved), RowsKept(rows, saved), NEW i \in DOMAIN rows, NEW e,
         e.new = rows[i].new, e.ingress = rows[i].ingress, e.port = rows[i].port, e.route = rows[i].route
  PROVE  RowsKept([rows EXCEPT ![i] = e], saved)
<1> DEFINE t == [rows EXCEPT ![i] = e]
<1>1. Len(t) = Len(rows) /\ \A j \in 1 .. Len(rows) : t[j] = IF j = i THEN e ELSE rows[j]
  BY RowReplaced
<1> HIDE DEF t
<1>2. RowsKept(t, saved)
  BY <1>1 DEF RowsKept, SameRow
<1> QED BY <1>2 DEF t

LEMMA KeptAppended ==
  ASSUME NEW rows, IsSeq(rows), NEW saved, IsSeq(saved), RowsKept(rows, saved), NEW e, e.new
  PROVE  RowsKept(Append(rows, e), saved)
<1> DEFINE t == Append(rows, e)
           N == Len(rows)
           M == Len(saved)
<1>1. N \in Nat /\ M \in Nat /\ Len(t) = N + 1 /\ t[N + 1] = e /\ \A j \in 1 .. N : t[j] = rows[j]
  BY SeqFacts, AppendFacts
<1>2. M <= N /\ \A i \in 1 .. N : IF i <= M THEN SameRow(rows[i], saved[i]) ELSE rows[i].new
  BY DEF RowsKept
<1> HIDE DEF t, N, M
<1>3. \A n \in 1 .. Len(t) : n \in 1 .. N \/ n = N + 1
  BY <1>1
<1>4. \A n \in 1 .. Len(t) : IF n <= M THEN SameRow(t[n], saved[n]) ELSE t[n].new
  BY <1>1, <1>2, <1>3
<1>5. RowsKept(t, saved)
  BY <1>1, <1>2, <1>4 DEF RowsKept, M
<1> QED BY <1>5 DEF t

LEMMA KeptRemoved ==
  ASSUME NEW rows, IsSeq(rows), NEW saved, IsSeq(saved), RowsKept(rows, saved), NEW i \in 1 .. Len(rows), rows[i].new
  PROVE  RowsKept(RemoveAt(rows, i), saved)
<1> DEFINE t == RemoveAt(rows, i)
           N == Len(rows)
           M == Len(saved)
           a == SubSeq(rows, 1, i - 1)
           b == SubSeq(rows, i + 1, N)
<1>1. t = a \o b
  BY DEF RemoveAt
<1>2. N \in Nat /\ M \in Nat /\ i \in 1 .. N
  BY SeqFacts
<1>3. M <= N /\ \A n \in 1 .. N : IF n <= M THEN SameRow(rows[n], saved[n]) ELSE rows[n].new
  BY DEF RowsKept
<1>4. M < i
  BY <1>2, <1>3 DEF SameRow
<1>5. /\ IsSeq(a) /\ Len(a) = i - 1 /\ \A j \in 1 .. i - 1 : a[j] = rows[j]
      /\ IsSeq(b) /\ Len(b) = N - i /\ \A j \in 1 .. N - i : b[j] = rows[i + j]
  <2>1. PICK S : rows \in Seq(S)
    BY DEF IsSeq
  <2>2. /\ a \in Seq(S) /\ Len(a) = i - 1 /\ \A j \in 1 .. i - 1 : a[j] = rows[j]
    BY <1>2, <2>1
  <2>3. /\ b \in Seq(S) /\ Len(b) = N - i /\ \A j \in 1 .. N - i : b[j] = rows[i + j]
    BY <1>2, <2>1
  <2> QED BY <2>2, <2>3 DEF IsSeq
<1> HIDE DEF a, b, t, N, M
<1>6. /\ Len(t) = Len(a) + Len(b)
      /\ \A j \in 1 .. Len(a) : t[j] = a[j]
      /\ \A j \in 1 .. Len(b) : t[Len(a) + j] = b[j]
  <2>1. /\ Len(a \o b) = Len(a) + Len(b)
        /\ \A j \in 1 .. Len(a) : (a \o b)[j] = a[j]
        /\ \A j \in 1 .. Len(b) : (a \o b)[Len(a) + j] = b[j]
    <3>1. IsSeq(a) /\ IsSeq(b)
      BY <1>5
    <3> QED BY <3>1, ConcatFacts
  <2> QED BY <1>1, <2>1, Zenon
<1>7. /\ Len(t) = (i - 1) + (N - i)
      /\ \A j \in 1 .. i - 1 : t[j] = rows[j]
      /\ \A j \in 1 .. N - i : t[(i - 1) + j] = rows[i + j]
  BY <1>5, <1>6
<1>8. ASSUME NEW n \in 1 .. Len(t) PROVE IF n <= M THEN SameRow(t[n], saved[n]) ELSE t[n].new
  <2>1. CASE n < i
    BY <1>2, <1>3, <1>7, <2>1
  <2>2. CASE n >= i
    <3> DEFINE j == n - (i - 1)
    <3>1. j \in 1 .. N - i /\ (i - 1) + j = n /\ i + j \in 1 .. N /\ ~(i + j <= M) /\ ~(n <= M)
      BY <1>2, <1>4, <1>7, <2>2
    <3> HIDE DEF j
    <3>2. t[n] = rows[i + j]
      BY <1>7, <3>1
    <3> QED BY <1>3, <3>1, <3>2
  <2> QED BY <1>2, <2>1, <2>2
<1>9. M <= Len(t)
  BY <1>2, <1>4, <1>7
<1>10. RowsKept(t, saved)
  BY <1>8, <1>9 DEF RowsKept, M
<1> QED BY <1>10 DEF t

LEMMA ChangedKeepsRows ==
  ASSUME NEW f, IsForm(f), NEW v, NEW g \in Changes(f, v), NEW saved, IsSeq(saved), RowsKept(f.ports, saved)
  PROVE  RowsKept(g.ports, saved)
<1>1. DOMAIN f = FormFields /\ f.ports \in Seq(PortRow) /\ IsSeq(f.ports) /\ DOMAIN f.ports = 1 .. Len(f.ports)
  BY SeqIsSeq, SeqFacts DEF IsForm
<1>2. CASE ChangesVariables(f, g)
  <2>1. g.ports = f.ports
    BY <1>1, <1>2 DEF ChangesVariables, AddEnvironmentVariable, FormFields
  <2> QED BY <2>1
<1>3. CASE ChangesFolders(f, g)
  <2>1. \A p : DOMAIN AddPersistedFolder(f, p) = FormFields /\ AddPersistedFolder(f, p).ports = f.ports
    BY <1>1 DEF AddPersistedFolder, FormFields
  <2>2. \A h, i, c : DOMAIN h = FormFields => UseExistingVolume(h, i, c).ports = h.ports
    BY DEF UseExistingVolume, FormFields
  <2>3. \A i, c : UseExistingVolume(AddPersistedFolder(f, 2), i, c).ports = f.ports
    BY <2>1, <2>2
  <2>4. CASE \E p \in 1 .. 2 : g = AddPersistedFolder(f, p)
    <3>1. g.ports = f.ports
      BY <2>1, <2>4
    <3> QED BY <3>1
  <2>5. CASE \E c \in cluster.claims : g = UseExistingVolume(AddPersistedFolder(f, 2), Len(f.folders) + 1, c)
    <3>1. g.ports = f.ports
      BY <2>3, <2>5
    <3> QED BY <3>1
  <2>6. CASE \E i \in DOMAIN f.folders : g = [f EXCEPT !.folders = RemoveRow(@, i)] \/ g = [f EXCEPT !.folders = RestoreRow(@, i)]
    <3>1. PICK i \in DOMAIN f.folders : g = [f EXCEPT !.folders = RemoveRow(@, i)] \/ g = [f EXCEPT !.folders = RestoreRow(@, i)]
      BY <2>6
    <3>2. g.ports = f.ports
      BY <1>1, <3>1 DEF FormFields
    <3> QED BY <3>2
  <2> QED BY <1>3, <2>4, <2>5, <2>6 DEF ChangesFolders
<1>4. CASE ChangesPorts(f, g)
  <2>1. CASE \E p \in 1 .. 2, r \in {0, 2, 3} : g = AddPublishedPort(f, p, r, TRUE)
    <3>1. PICK p \in 1 .. 2, r \in {0, 2, 3} : g = AddPublishedPort(f, p, r, TRUE)
      BY <2>1
    <3> DEFINE e == [port |-> p, route |-> r, ingress |-> TRUE, new |-> TRUE, del |-> FALSE]
    <3>2. g.ports = Append(f.ports, e)
      BY <1>1, <3>1 DEF AddPublishedPort, FormFields
    <3>3. e.new
      OBVIOUS
    <3> HIDE DEF e
    <3> QED BY <1>1, <3>2, <3>3, KeptAppended
  <2>2. CASE \E i \in DOMAIN f.ports : g = [f EXCEPT !.ports = RemoveRow(@, i)] \/ g = [f EXCEPT !.ports = RestoreRow(@, i)]
    <3>1. PICK i \in DOMAIN f.ports : g = [f EXCEPT !.ports = RemoveRow(@, i)] \/ g = [f EXCEPT !.ports = RestoreRow(@, i)]
      BY <2>2
    <3> DEFINE gone == [f.ports[i] EXCEPT !.del = TRUE]
               back == [f.ports[i] EXCEPT !.del = FALSE]
    <3>2. g.ports = RemoveRow(f.ports, i) \/ g.ports = RestoreRow(f.ports, i)
      BY <1>1, <3>1 DEF FormFields
    <3>3. f.ports[i] \in PortRow
      BY <1>1
    <3>4. /\ gone.new = f.ports[i].new /\ gone.ingress = f.ports[i].ingress /\ gone.port = f.ports[i].port /\ gone.route = f.ports[i].route
          /\ back.new = f.ports[i].new /\ back.ingress = f.ports[i].ingress /\ back.port = f.ports[i].port /\ back.route = f.ports[i].route
      BY <3>3 DEF PortRow
    <3>5. /\ RestoreRow(f.ports, i) = [f.ports EXCEPT ![i] = back]
          /\ RemoveRow(f.ports, i) = IF f.ports[i].new THEN RemoveAt(f.ports, i) ELSE [f.ports EXCEPT ![i] = gone]
      BY RowMarked
    <3> HIDE DEF gone, back
    <3>6. RowsKept([f.ports EXCEPT ![i] = back], saved)
      BY <1>1, <3>4, KeptMarked
    <3>7. RowsKept([f.ports EXCEPT ![i] = gone], saved)
      BY <1>1, <3>4, KeptMarked
    <3>8. f.ports[i].new => RowsKept(RemoveAt(f.ports, i), saved)
      BY <1>1, KeptRemoved
    <3> QED BY <3>2, <3>5, <3>6, <3>7, <3>8
  <2> QED BY <1>4, <2>1, <2>2 DEF ChangesPorts
<1>5. CASE ChangesChoices(f, g)
  <2>1. g.ports = f.ports
    BY <1>1, <1>5 DEF ChangesChoices, AddPlacement, FormFields
  <2> QED BY <2>1
<1> QED BY <1>2, <1>3, <1>4, <1>5, ChangesAre

-----------------------------------------------------------------------------
(* Fit: whatever the steps, resources, forms and calls are such that a     *)
(* form can be read again.                                                 *)

\* Resources that a form can be read from, and the numbers of claims
FitCluster(c) ==
  /\ c.app = None \/ FitApp(c.app)
  /\ c.scaler # None => c.scaler.kind # "DaemonSet"
  /\ Bounded(c.claims)

LEMMA BoundedTogether ==
  ASSUME NEW S, Bounded(S), NEW T, Bounded(T)
  PROVE  Bounded(S \cup T)
<1>1. PICK M \in Nat : \A n \in S : n <= M
  BY DEF Bounded
<1>2. PICK N \in Nat : \A n \in T : n <= N
  BY DEF Bounded
<1>3. M + N \in Nat /\ \A n \in S \cup T : n \in Nat /\ n <= M + N
  BY <1>1, <1>2 DEF Bounded
<1> QED BY <1>3 DEF Bounded

\* A patch leaves a resource that a form can be read from.
LEMMA PatchedAppFits ==
  ASSUME NEW app, FitApp(app), NEW old, FitApp(old), NEW new, FitApp(new), old.kind = new.kind, app.kind = old.kind,
         PatchApplies(old.env, new.env, app.env), PatchApplies(old.mounts, new.mounts, app.mounts)
  PROVE  FitApp(PatchedApp(app, old, new))
<1> DEFINE env    == Patched(old.env, new.env, app.env)
           mounts == Patched(old.mounts, new.mounts, app.mounts)
           number == Scalar(old.replicas, new.replicas, app.replicas)
           where  == Scalar(old.affinity, new.affinity, app.affinity)
           a      == PatchedApp(app, old, new)
<1>1. a = [app EXCEPT !.env = env, !.mounts = mounts, !.replicas = number, !.affinity = where]
  BY DEF PatchedApp
<1>2. IsApp(app) /\ IsApp(old) /\ IsApp(new)
  BY DEF FitApp
<1>3. IsApp(a)
  BY <1>2, PatchedAppIs DEF IsApp
<1>4. /\ mounts \in Seq(MountOf)
      /\ app.kind = "StatefulSet" => mounts # <<>>
  BY PatchedWithin DEF FitApp
<1>5. app.kind = "DaemonSet" => number = 0 /\ where = None
  BY DEF FitApp, Scalar
<1>6. where # None => where \in Affinities /\ where.terms # <<>>
  BY DEF FitApp, Scalar
<1> HIDE DEF env, mounts, number, where, a
<1>7. a.mounts = mounts /\ a.replicas = number /\ a.affinity = where /\ a.kind = app.kind
  BY <1>1, <1>2 DEF IsApp
<1> QED BY <1>3, <1>4, <1>5, <1>6, <1>7 DEF FitApp, a

\* A call leaves such resources.
LEMMA EffectFits ==
  ASSUME IsCluster(cluster), FitCluster(cluster), NEW call, FitCall(call), Applies(call)
  PROVE  FitCluster(Effect(call))
<1> DEFINE e  == Effect(call)
           op == call.op
<1>1. /\ e.app = IF op = "app.create" THEN call.new ELSE IF op = "app.patch" THEN PatchedApp(cluster.app, call.old, call.new)
                 ELSE IF op = "app.delete" THEN None ELSE cluster.app
      /\ e.scaler = IF op \in {"scaler.create", "scaler.patch"} THEN call.new
                    ELSE IF op = "scaler.delete" THEN None ELSE cluster.scaler
      /\ e.claims = IF op = "claims.create" THEN cluster.claims \cup call.new ELSE cluster.claims
  BY EffectFacts DEF IsCluster, ClusterFields
<1> HIDE DEF e
<1>2. e.app = None \/ FitApp(e.app)
  <2>1. CASE op = "app.patch"
    <3>1. /\ cluster.app # None /\ cluster.app.kind = call.old.kind
          /\ PatchApplies(call.old.env, call.new.env, cluster.app.env)
          /\ PatchApplies(call.old.mounts, call.new.mounts, cluster.app.mounts)
      BY <2>1 DEF Applies
    <3>2. FitApp(call.old) /\ FitApp(call.new) /\ call.old.kind = call.new.kind /\ FitApp(cluster.app)
      BY <2>1, <3>1 DEF FitCall, FitCluster
    <3>3. FitApp(PatchedApp(cluster.app, call.old, call.new))
      BY <3>1, <3>2, PatchedAppFits
    <3> QED BY <1>1, <2>1, <3>3
  <2>2. CASE op # "app.patch"
    BY <1>1, <2>2 DEF FitCall, FitCluster
  <2> QED BY <2>1, <2>2
<1>3. e.scaler # None => e.scaler.kind # "DaemonSet"
  BY <1>1 DEF FitCall, FitCluster
<1>4. Bounded(e.claims)
  BY <1>1, BoundedTogether DEF FitCall, FitCluster
<1> QED BY <1>2, <1>3, <1>4 DEF FitCluster, e

\* The conversion of a form keeps what it stands for.
LEMMA ConvertedFits ==
  ASSUME NEW f, FitForm(f)
  PROVE  /\ FitForm(Converted(f)) /\ KindOf(Converted(f)) = KindOf(f) /\ ToService(Converted(f)) = ToService(f)
         /\ \A fresh : ToApplication(Converted(f), fresh) = ToApplication(f, fresh)
         /\ DOMAIN Converted(f) = FormFields
         /\ \A x \in FormFields \ {"env", "folders"} : Converted(f)[x] = f[x]
<1> DEFINE k == Converted(f)
<1>1. IsForm(f) /\ IsFullForm(f) /\ f.appType = "none" /\ DOMAIN f = FormFields
  BY DEF FitForm, IsFullForm, IsForm
<1>2. /\ IsForm(k) /\ KindOf(k) = KindOf(f) /\ DOMAIN k = FormFields
      /\ \A x \in FormFields \ {"env", "folders"} : k[x] = f[x]
      /\ \A fresh : Claims(k, fresh) = Claims(f, fresh)
  BY <1>1, KindFacts
<1>3. k.folders = Kept(f.folders) /\ k.env = Kept(f.env)
  BY <1>1 DEF FormFields, Converted
<1>4. Kept(f.folders) \in Seq(FolderRow)
  BY <1>1, FolderKept
<1>5. Kept(Kept(f.env)) = Kept(f.env)
  <2>1. IsSeq(f.env)
    BY <1>1, SeqIsSeq DEF IsForm
  <2> QED BY <2>1, KeptFacts
<1> HIDE DEF k
<1>6. /\ k.placements = f.placements /\ k.mandatory = f.mandatory /\ k.scaler = f.scaler /\ k.appType = f.appType
      /\ k.ports = f.ports /\ k.publishing = f.publishing /\ k.deployment = f.deployment /\ k.replicas = f.replicas /\ k.cpu = f.cpu
  BY <1>2 DEF FormFields
<1>7. FitForm(k)
  BY <1>1, <1>2, <1>3, <1>4, <1>6 DEF FitForm, IsFullForm
<1>8. ToService(k) = ToService(f)
  BY <1>6 DEF ToService, PublishedPorts
<1>9. AffinityOf(k) = AffinityOf(f)
  BY <1>6 DEF AffinityOf
<1>10. ASSUME NEW fresh PROVE ToApplication(k, fresh) = ToApplication(f, fresh)
  <2>1. Kept(k.env) = Kept(f.env) /\ Claims(k, fresh) = Claims(f, fresh)
    BY <1>2, <1>3, <1>5
  <2> QED BY <1>2, <1>6, <1>9, <2>1 DEF ToApplication
<1> QED BY <1>2, <1>7, <1>8, <1>10 DEF k

LEMMA NewFormsFit ==
  ASSUME NEW f \in NewForms
  PROVE  FitForm(f) /\ RowsKept(f.ports, <<>>)
<1> DEFINE Folders == [claim : {0}, existing : Nat, path : Nat, new : {TRUE}, del : {FALSE}]
           Places  == [label : Nat, value : Nat, new : {TRUE}, del : {FALSE}]
<1>1. /\ f.folders \in Seq(Folders) /\ f.placements \in Seq(Places)
      /\ f.mandatory \in BOOLEAN /\ f.scaler \in BOOLEAN /\ f.appType = "none"
  BY DEF NewForms
<1>2. (\A r \in Folders : r \in FolderRow) /\ (\A r \in Places : r \in PlacementRow)
  <2>1. ASSUME NEW r \in Folders PROVE r \in FolderRow
    <3>1. /\ r = [claim |-> r.claim, existing |-> r.existing, path |-> r.path, new |-> r.new, del |-> r.del]
          /\ r.claim \in {0} /\ r.existing \in Nat /\ r.path \in Nat /\ r.new \in {TRUE} /\ r.del \in {FALSE}
      OBVIOUS
    <3> HIDE DEF Folders
    <3>2. r.claim \in Nat
      BY <3>1
    <3>3. r.new \in BOOLEAN /\ r.del \in BOOLEAN
      BY <3>1, Zenon
    <3> QED BY <3>1, <3>2, <3>3 DEF FolderRow
  <2>2. ASSUME NEW r \in Places PROVE r \in PlacementRow
    BY DEF PlacementRow
  <2> HIDE DEF Folders, Places
  <2> QED BY <2>1, <2>2
<1> HIDE DEF Folders, Places
<1>3. /\ IsSeq(f.folders) /\ \A i \in 1 .. Len(f.folders) : f.folders[i] \in Folders
      /\ IsSeq(f.placements) /\ \A i \in 1 .. Len(f.placements) : f.placements[i] \in Places
  BY <1>1, SeqIsSeq
<1>4. f.folders \in Seq(FolderRow) /\ f.placements \in Seq(PlacementRow)
  BY <1>2, <1>3, SeqFrom
<1>5. IsForm(f) /\ \A i \in 1 .. Len(f.ports) : f.ports[i].new
  BY NewFormFacts
<1>6. RowsKept(f.ports, <<>>)
  <2>1. Len(<<>>) = 0 /\ Len(f.ports) \in Nat
    BY <1>5, EmptyFacts, SeqIsSeq, SeqFacts DEF IsForm
  <2> QED BY <1>5, <2>1 DEF RowsKept
<1> QED BY <1>1, <1>4, <1>5, <1>6 DEF FitForm, IsFullForm

\* The form of the view to edit an application, from what was read of it
Opened(saved, selects) ==
  [saved EXCEPT !.appType = "none",
                !.folders = [i \in DOMAIN @ |-> IF selects THEN [saved.folders[i] EXCEPT !.existing = saved.folders[i].claim] ELSE @[i]]]

LEMMA OpenedFits ==
  ASSUME NEW saved, IsFullForm(saved), saved.deployment = "global" => ~saved.scaler, NEW selects
  PROVE  EditForm(Opened(saved, selects)) /\ Opened(saved, selects).ports = saved.ports
<1> DEFINE folders == [i \in DOMAIN saved.folders |->
                         IF selects THEN [saved.folders[i] EXCEPT !.existing = saved.folders[i].claim] ELSE saved.folders[i]]
           f       == Opened(saved, selects)
<1>1. f = [saved EXCEPT !.appType = "none", !.folders = folders]
  BY DEF Opened
<1>2. IsForm(saved) /\ saved.folders \in Seq(FolderRow) /\ DOMAIN saved = FormFields
  BY DEF IsFullForm, IsForm
<1>3. folders \in Seq(FolderRow)
  <2>1. IsSeq(saved.folders) /\ (\A i \in 1 .. Len(saved.folders) : saved.folders[i] \in FolderRow) /\ DOMAIN saved.folders = 1 .. Len(saved.folders)
    BY <1>2, SeqIsSeq, SeqFacts
  <2>2. folders = [i \in DOMAIN saved.folders |-> folders[i]] /\ \A i \in 1 .. Len(saved.folders) : folders[i] \in FolderRow
    <3>1. \A r \in FolderRow : [r EXCEPT !.existing = r.claim] \in FolderRow
      BY DEF FolderRow
    <3> QED BY <2>1, <3>1
  <2> HIDE DEF folders
  <2> QED BY <2>1, <2>2, MappedWithin
<1> HIDE DEF f, folders
<1>4. /\ DOMAIN f = FormFields /\ f.appType = "none" /\ f.folders = folders
      /\ \A x \in FormFields \ {"appType", "folders"} : f[x] = saved[x]
  BY <1>1, <1>2 DEF FormFields
<1>5. /\ f.deployment = saved.deployment /\ f.policy = saved.policy /\ f.env = saved.env /\ f.ports = saved.ports
      /\ f.placements = saved.placements /\ f.mandatory = saved.mandatory /\ f.scaler = saved.scaler
  BY <1>4 DEF FormFields
<1>6. IsSeq(folders)
  BY <1>3, SeqIsSeq
<1>7. IsForm(f)
  BY <1>2, <1>4, <1>5, <1>6 DEF IsForm
<1>8. EditForm(f)
  BY <1>3, <1>4, <1>5, <1>7, EditFormIs DEF IsFullForm
<1> QED BY <1>5, <1>8 DEF f

\* The form was read from an application.
WasRead(g) == \E a : FitApp(a) /\ SavedAs(g, a)

FitView(v) ==
  /\ \A c \in ToSet(v.calls) : FitCall(c)
  /\ v.mode = "create" => FitForm(v.form) /\ RowsKept(v.form.ports, <<>>)
  /\ v.mode = "edit" => EditForm(v.form) /\ RowsKept(v.form.ports, v.saved.ports) /\ WasRead(v.saved)

\* The resources, forms and calls that are left to send are of the kind that a form can be
\* read from again, and the rows of a form keep the order of those that were read.
Fit == FitCluster(cluster) /\ (view = Closed \/ FitView(view))

\* Each step keeps Fit.
LEMMA FitInit == ApplicationsInit => Fit
<1> SUFFICES ASSUME ApplicationsInit PROVE Fit
  OBVIOUS
<1> DEFINE paths == <<Route("other", 1, 1)>>
<1>1. cluster = [app |-> None, service |-> None, headless |-> FALSE, scaler |-> None, paths |-> paths, claims |-> {}]
  BY DEF ApplicationsInit
<1> HIDE DEF paths
<1>2. cluster.app = None /\ cluster.scaler = None /\ cluster.claims = {}
  BY <1>1
<1>3. Bounded({})
  BY DEF Bounded
<1> QED BY <1>2, <1>3 DEF FitCluster, ApplicationsInit, Fit

LEMMA FitViewFrom ==
  ASSUME NEW v, FitView(v), NEW w, w.mode = v.mode, w.saved = v.saved, w.form = v.form, \A c \in ToSet(w.calls) : FitCall(c)
  PROVE  FitView(w)
BY DEF FitView

LEMMA NoCallsFit == \A c \in ToSet(<<>>) : FitCall(c)
BY EmptyFacts

LEMMA FitViews ==
  ASSUME Shape, Fit, view.status \in {"form", "calling", "done", "failed"}
  PROVE  FitView(view) /\ FitCluster(cluster) /\ IsView(view) /\ IsCluster(cluster)
<1>1. Closed.status = "closed"
  BY DEF Closed
<1> QED BY <1>1, OpenViews DEF Fit, Shape

LEMMA OpenCreateFit == Shape /\ Fit /\ OpenCreate => Fit'
<1> SUFFICES ASSUME Shape, Fit, OpenCreate PROVE Fit'
  OBVIOUS
<1>1. PICK f \in Forms :
        view' = [mode |-> "create", status |-> "form", saved |-> None, form |-> f, paths |-> cluster.paths,
                 used |-> UsedQuota, calls |-> <<>>, before |-> cluster, tries |-> 0]
  BY DEF OpenCreate
<1>2. FitForm(f) /\ RowsKept(f.ports, <<>>)
  BY FormsAssumption, NewFormsFit
<1>3. cluster' = cluster /\ FitCluster(cluster)
  BY DEF Fit, OpenCreate
<1>4. view'.mode = "create" /\ view'.form = f /\ view'.calls = <<>>
  BY <1>1
<1>5. FitView(view')
  BY <1>2, <1>4, NoCallsFit DEF FitView
<1>6. FitCluster(cluster')
  BY <1>3
<1> QED BY <1>5, <1>6 DEF Fit

\* What is read of an application
LEMMA ReadFields ==
  ASSUME NEW a, NEW service, NEW paths, NEW scaler, NEW shared
  PROVE  LET g == ApplicationToFormValues(a, service, paths, scaler, shared)
         IN  /\ g.deployment = (IF a.kind = "DaemonSet" THEN "global" ELSE "replicated")
             /\ g.scaler = (scaler # None)
             /\ g.ports = PortRows(service, paths, "self")
             /\ g.publishing = PublishingOf(service, PortRows(service, paths, "self"))
<1> DEFINE rows   == PortRows(service, paths, "self")
           way    == PublishingOf(service, rows)
           scales == scaler # None
<1> HIDE DEF rows, way, scales
<1>1. LET g == ApplicationToFormValues(a, service, paths, scaler, shared)
      IN  /\ g.deployment = (IF a.kind = "DaemonSet" THEN "global" ELSE "replicated")
          /\ g.scaler = scales /\ g.ports = rows /\ g.publishing = way
  BY DEF ApplicationToFormValues, rows, way, scales
<1> QED BY <1>1, Zenon DEF rows, way, scales

LEMMA UntouchedKept ==
  ASSUME NEW rows, IsSeq(rows), Untouched(rows)
  PROVE  RowsKept(rows, rows)
<1>1. Len(rows) \in Nat
  BY SeqFacts
<1> QED BY <1>1 DEF Untouched, RowsKept, SameRow

LEMMA OpenEditFit == Shape /\ Fit /\ OpenEdit => Fit'
<1> SUFFICES ASSUME Shape, Fit, OpenEdit PROVE Fit'
  OBVIOUS
<1> DEFINE saved   == ApplicationToFormValues(cluster.app, BoundService(cluster), cluster.paths, BoundScaler(cluster), rwx)
           selects == cluster.app.kind # "StatefulSet" /\ rwx
           form    == Opened(saved, selects)
<1>1. /\ cluster' = cluster /\ cluster.app # None
      /\ view' = [mode |-> "edit", status |-> "form", saved |-> saved, form |-> form, paths |-> cluster.paths,
                  used |-> UsedQuota, calls |-> <<>>, before |-> cluster, tries |-> 0]
  BY DEF OpenEdit, Opened
<1>2. IsCluster(cluster) /\ cluster.paths \in Seq(Paths) /\ FitApp(cluster.app) /\ FitCluster(cluster) /\ IsApp(cluster.app)
  BY <1>1 DEF Shape, Fit, FitCluster, IsCluster
<1>3. SavedAs(saved, cluster.app) /\ IsFullForm(saved)
  BY <1>2, BoundFacts, ReadApp DEF SavedAs
<1>4. saved.deployment = "global" => ~saved.scaler
  <2>1. saved.deployment = (IF cluster.app.kind = "DaemonSet" THEN "global" ELSE "replicated")
        /\ saved.scaler = (BoundScaler(cluster) # None)
    BY ReadFields
  <2>2. cluster.app.kind = "DaemonSet" => BoundScaler(cluster) = None
    BY <1>2 DEF FitCluster, BoundScaler
  <2> HIDE DEF saved
  <2> QED BY <2>1, <2>2
<1>5. IsForm(saved) /\ Untouched(saved.ports)
  BY <1>2, BoundFacts, SavedForm
<1> HIDE DEF saved, selects
<1>6. EditForm(form) /\ form.ports = saved.ports
  BY <1>3, <1>4, OpenedFits
<1> HIDE DEF form
<1>7. RowsKept(form.ports, saved.ports)
  <2>1. IsSeq(saved.ports)
    BY <1>5, SeqIsSeq DEF IsForm
  <2> QED BY <1>5, <1>6, <2>1, UntouchedKept
<1>8. view'.mode = "edit" /\ view'.form = form /\ view'.calls = <<>> /\ view'.saved = saved
  BY <1>1
<1>9. WasRead(saved)
  BY <1>2, <1>3 DEF WasRead
<1>10. FitView(view')
  BY <1>6, <1>7, <1>8, <1>9, NoCallsFit DEF FitView
<1>11. FitCluster(cluster')
  BY <1>1, <1>2
<1> QED BY <1>10, <1>11 DEF Fit

LEMMA ConvertedEdit ==
  ASSUME NEW f, EditForm(f)
  PROVE  EditForm(Converted(f)) /\ Converted(f).ports = f.ports
<1>1. /\ FitForm(Converted(f)) /\ \A x \in FormFields \ {"env", "folders"} : Converted(f)[x] = f[x]
  BY ConvertedFits DEF EditForm
<1> QED BY <1>1 DEF EditForm, FormFields

LEMMA ChangeFit == Shape /\ Fit /\ Change => Fit'
<1> SUFFICES ASSUME Shape, Fit, Change PROVE Fit'
  OBVIOUS
<1>1. PICK f \in Changes(view.form, view) : view' = [view EXCEPT !.form = Digested(view, f)]
  BY DEF Change
<1>2. FitView(view) /\ FitCluster(cluster) /\ IsView(view) /\ view.mode = "edit" /\ cluster' = cluster
  BY FitViews DEF Change
<1>3. IsForm(view.form) /\ EditForm(view.form) /\ IsForm(view.saved) /\ RowsKept(view.form.ports, view.saved.ports) /\ WasRead(view.saved)
  BY <1>2 DEF IsView, FitView
<1>4. EditForm(f)
  BY <1>2, <1>3, ChangesAreEdits DEF FitCluster, Bounded
<1>5. RowsKept(f.ports, view.saved.ports)
  <2>1. IsSeq(view.saved.ports)
    BY <1>3, SeqIsSeq DEF IsForm
  <2> QED BY <1>3, <2>1, ChangedKeepsRows
<1>6. EditForm(Digested(view, f)) /\ Digested(view, f).ports = f.ports
  BY <1>4, ConvertedEdit DEF Digested
<1> DEFINE form == Digested(view, f)
<1> HIDE DEF form
<1>7. view'.form = form /\ \A x \in ViewFields \ {"form"} : view'[x] = view[x]
  BY <1>1, <1>2 DEF IsView, ViewFields, form
<1>8. view'.mode = "edit" /\ view'.saved = view.saved /\ view'.calls = view.calls
  BY <1>2, <1>7 DEF ViewFields
<1>9. EditForm(form) /\ RowsKept(form.ports, view.saved.ports)
  BY <1>5, <1>6 DEF form
<1>10. FitView(view')
  BY <1>2, <1>3, <1>7, <1>8, <1>9 DEF FitView
<1>11. FitCluster(cluster')
  BY <1>2
<1> QED BY <1>10, <1>11 DEF Fit

LEMMA SubmitFit == Shape /\ Fit /\ Submit => Fit'
<1> SUFFICES ASSUME Shape, Fit, Submit PROVE Fit'
  OBVIOUS
<1> DEFINE fresh == IF cluster.claims = {} THEN 0 ELSE Max(cluster.claims)
           calls == IF view.mode = "create" THEN CreateCalls(view.form, view.paths, fresh)
                    ELSE PatchCalls(view.saved, view.form, view.paths, fresh)
           tries == view.tries + 1
           form  == Converted(view.form)
<1>1. view' = [view EXCEPT !.status = "calling", !.before = cluster, !.tries = tries, !.form = form, !.calls = calls]
  BY DEF Submit
<1>2. FitView(view) /\ FitCluster(cluster) /\ IsView(view) /\ view.mode \in {"create", "edit"} /\ cluster' = cluster
  BY FitViews DEF Submit
<1>3. IsForm(view.form) /\ FitForm(view.form)
  BY <1>2 DEF IsView, FitView, EditForm
<1>4. KindOf(view.form) \in Kinds
  BY <1>3, KindFacts DEF Submit, Disabled, IsDeployUpdateButtonDisabled
<1>5. fresh \in Nat
  BY <1>2, LargestClaim DEF FitCluster
<1>6. \A c \in ToSet(calls) : FitCall(c)
  <2> HIDE DEF fresh
  <2>1. CASE view.mode = "create"
    <3>1. FitCalls(CreateCalls(view.form, view.paths, fresh), CreateOps)
      BY <1>3, <1>4, <1>5, CreateFits
    <3> QED BY <2>1, <3>1 DEF FitCalls
  <2>2. CASE view.mode = "edit"
    <3>1. PICK a : FitApp(a) /\ SavedAs(view.saved, a)
      BY <1>2, <2>2 DEF FitView, WasRead
    <3>2. view.form.deployment = "global" => ~view.form.scaler
      BY <1>2, <2>2 DEF FitView, EditForm
    <3>3. FitCalls(PatchCalls(view.saved, view.form, view.paths, fresh), UpdateOps)
      BY <1>3, <1>4, <1>5, <3>1, <3>2, PatchFits
    <3> QED BY <2>2, <3>3 DEF FitCalls
  <2> QED BY <1>2, <2>1, <2>2
<1>7. form.ports = view.form.ports /\ FitForm(form) /\ (view.mode = "edit" => EditForm(form))
  <2>1. FitForm(form) /\ form.ports = view.form.ports
    BY <1>3, ConvertedFits DEF FormFields
  <2>2. view.mode = "edit" => EditForm(form)
    BY <1>2, ConvertedEdit DEF FitView
  <2> QED BY <2>1, <2>2
<1> HIDE DEF calls, tries, form, fresh
<1>8. view'.form = form /\ view'.calls = calls /\ view'.mode = view.mode /\ view'.saved = view.saved
  BY <1>1, <1>2 DEF IsView, ViewFields
<1>9. FitView(view')
  BY <1>2, <1>6, <1>7, <1>8 DEF FitView
<1>10. FitCluster(cluster')
  BY <1>2
<1> QED BY <1>9, <1>10 DEF Fit

LEMMA OpenListFit == Shape /\ Fit /\ OpenList => Fit'
<1> SUFFICES ASSUME Shape, Fit, OpenList PROVE Fit'
  OBVIOUS
<1>1. cluster' = cluster /\ FitCluster(cluster) /\ IsCluster(cluster) /\ cluster.app # None
  BY DEF Fit, Shape, OpenList
<1> DEFINE calls == DeleteCalls(cluster)
<1>2. \A c \in ToSet(calls) : FitCall(c)
  <2>1. SeenTo(calls, cluster, BoundService(cluster), cluster)
    BY <1>1, DeletionSeenTo
  <2>2. \A c \in ToSet(calls) : c.op \in DeleteOps
    BY <2>1 DEF SeenTo
  <2> HIDE DEF calls
  <2> QED BY <2>2 DEF DeleteOps, FitCall
<1>3. view' = [mode |-> "delete", status |-> "form", saved |-> None, form |-> None, paths |-> cluster.paths,
               used |-> 0, calls |-> calls, before |-> cluster, tries |-> 0]
  BY DEF OpenList
<1> HIDE DEF calls
<1>4. view'.mode = "delete" /\ view'.calls = calls
  BY <1>3
<1>5. FitView(view')
  BY <1>2, <1>4 DEF FitView
<1>6. FitCluster(cluster')
  BY <1>1
<1> QED BY <1>5, <1>6 DEF Fit

LEMMA NextCallFit == Shape /\ Fit /\ NextCall => Fit'
<1> SUFFICES ASSUME Shape, Fit, NextCall PROVE Fit'
  OBVIOUS
<1> DEFINE call == Head(view.calls)
           rest == Tail(view.calls)
<1>1. FitView(view) /\ FitCluster(cluster) /\ IsView(view) /\ IsCluster(cluster) /\ view.calls # <<>> /\ IsSeq(view.calls)
  BY NextCallCases, FitViews DEF IsView
<1>2. FitCall(call) /\ IsSeq(rest) /\ \A c \in ToSet(rest) : FitCall(c)
  <2>1. IsSeq(rest) /\ ToSet(view.calls) = {call} \cup ToSet(rest)
    BY <1>1, HeadAndTail
  <2> HIDE DEF call, rest
  <2> QED BY <1>1, <2>1 DEF FitView
<1>3. CallDone(call) \/ CallFailed(call)
  BY NextCallCases
<1> HIDE DEF call, rest
<1>4. FitCluster(cluster')
  BY <1>1, <1>2, <1>3, EffectFits DEF CallDone, CallFailed
<1>5. CASE CallDone(call)
  <2> DEFINE calls == IF call.op = "ingress.get" THEN RoutesCalls(call) \o rest ELSE rest
  <2>1. view' = [view EXCEPT !.calls = calls]
    BY <1>5 DEF CallDone, rest
  <2>2. \A c \in ToSet(calls) : FitCall(c)
    <3>1. FitCalls(RoutesCalls(call), {"ingress.patch"})
      BY FitPatch, OtherCallsFit DEF RoutesCalls
    <3>2. IsSeq(RoutesCalls(call)) /\ \A c \in ToSet(RoutesCalls(call)) : FitCall(c)
      BY <3>1 DEF FitCalls
    <3>3. ToSet(RoutesCalls(call) \o rest) = ToSet(RoutesCalls(call)) \cup ToSet(rest)
      BY <1>2, <3>2, ConcatFacts
    <3> QED BY <1>2, <3>2, <3>3
  <2> HIDE DEF calls
  <2>3. view'.calls = calls /\ view'.mode = view.mode /\ view'.saved = view.saved /\ view'.form = view.form
    BY <1>1, <2>1 DEF IsView, ViewFields
  <2>4. FitView(view')
    BY <1>1, <2>2, <2>3, FitViewFrom
  <2> QED BY <1>4, <2>4 DEF Fit
<1>6. CASE CallFailed(call)
  <2>1. view'.calls = <<>> /\ view'.mode = view.mode /\ view'.saved = view.saved /\ view'.form = view.form
    BY <1>1, <1>6 DEF IsView, ViewFields, CallFailed
  <2>2. \A c \in ToSet(view'.calls) : FitCall(c)
    BY <2>1, NoCallsFit
  <2>3. FitView(view')
    BY <1>1, <2>1, <2>2, FitViewFrom
  <2> QED BY <1>4, <2>3 DEF Fit
<1> QED BY <1>3, <1>5, <1>6

LEMMA StatusFit == Shape /\ Fit /\ (ConfirmDelete \/ Finish \/ Leave) => Fit'
<1> SUFFICES ASSUME Shape, Fit, ConfirmDelete \/ Finish \/ Leave PROVE Fit'
  OBVIOUS
<1>1. FitView(view) /\ FitCluster(cluster) /\ IsView(view) /\ cluster' = cluster
  BY FitViews DEF ConfirmDelete, Finish, Leave
<1>2. FitCluster(cluster')
  BY <1>1
<1>3. CASE ConfirmDelete \/ Finish
  <2>1. view'.calls = view.calls /\ view'.mode = view.mode /\ view'.saved = view.saved /\ view'.form = view.form
    BY <1>1, <1>3 DEF IsView, ViewFields, ConfirmDelete, Finish
  <2>2. \A c \in ToSet(view'.calls) : FitCall(c)
    BY <1>1, <2>1 DEF FitView
  <2>3. FitView(view')
    BY <1>1, <2>1, <2>2, FitViewFrom
  <2> QED BY <1>2, <2>3 DEF Fit
<1>4. CASE Leave
  BY <1>2, <1>4 DEF Leave, Fit, Closed
<1> QED BY <1>3, <1>4

LEMMA MeddleFit == Shape /\ Fit /\ Meddle => Fit'
<1> SUFFICES ASSUME Shape, Fit, Meddle PROVE Fit'
  OBVIOUS
<1>0. DOMAIN cluster = ClusterFields /\ view' = view /\ FitCluster(cluster) /\ (view = Closed \/ FitView(view))
  BY DEF Shape, Fit, IsCluster, ClusterFields, Meddle
<1>1. CASE cluster.app # None /\ cluster' = [cluster EXCEPT !.app.env = Append(@, 2)]
  <2> DEFINE env == Append(cluster.app.env, 2)
             app == [cluster.app EXCEPT !.env = env]
  <2>1. FitApp(cluster.app) /\ IsApp(cluster.app) /\ cluster.app.env \in Seq(1 .. 2)
    BY <1>0, <1>1 DEF FitApp, FitCluster, IsApp
  <2>2. env \in Seq(1 .. 2)
    BY <2>1
  <2>3. cluster' = [cluster EXCEPT !.app = app]
    BY <1>0, <1>1
  <2> HIDE DEF env
  <2>4. IsApp(app) /\ app.mounts = cluster.app.mounts /\ app.kind = cluster.app.kind /\ app.replicas = cluster.app.replicas
        /\ app.affinity = cluster.app.affinity
    BY <2>1, <2>2 DEF IsApp
  <2> HIDE DEF app
  <2>5. FitApp(app)
    BY <2>1, <2>4 DEF FitApp
  <2>6. cluster'.app = app /\ cluster'.scaler = cluster.scaler /\ cluster'.claims = cluster.claims
    BY <1>0, <2>3 DEF ClusterFields
  <2>7. FitCluster(cluster')
    BY <1>0, <2>5, <2>6 DEF FitCluster
  <2> QED BY <1>0, <2>7 DEF Fit
<1>2. ASSUME NEW paths, cluster' = [cluster EXCEPT !.paths = paths] PROVE Fit'
  <2>1. cluster'.app = cluster.app /\ cluster'.scaler = cluster.scaler /\ cluster'.claims = cluster.claims
    BY <1>0, <1>2 DEF ClusterFields
  <2>2. FitCluster(cluster')
    BY <1>0, <2>1 DEF FitCluster
  <2> QED BY <1>0, <2>2 DEF Fit
<1>3. CASE \E i \in DOMAIN cluster.paths : cluster' = [cluster EXCEPT !.paths = RemoveAt(@, i)]
  <2>1. PICK i \in DOMAIN cluster.paths : cluster' = [cluster EXCEPT !.paths = RemoveAt(@, i)]
    BY <1>3
  <2> QED BY <1>2, <2>1
<1>4. CASE cluster' = [cluster EXCEPT !.paths = Append(@, Route("other", 2, 3))]
  BY <1>2, <1>4
<1> QED BY <1>1, <1>3, <1>4 DEF Meddle

-----------------------------------------------------------------------------
(* What a view knows: a deployment of the routes, an update of what it     *)
(* was opened with                                                         *)

\* A deployment creates the service before it patches the routes: as long as there is no
\* service, these are the ones that the view was opened with.
Creating ==
  view.mode = "create" =>
    /\ \A c \in ToSet(view.calls) : c.op \in CreateOps
    /\ cluster.service = None =>
         /\ cluster.paths = view.paths
         /\ ToCome(view.calls, "ingress.patch") => view.calls # <<>> /\ view.calls[1].op = "service.create"

\* Each step keeps Creating.
LEMMA CreatingInit == ApplicationsInit => Creating
BY DEF ApplicationsInit, Creating, Closed

LEMMA NothingToCome == \A op : ~ToCome(<<>>, op)
BY EmptyFacts DEF ToCome

LEMMA OpenCreateCreating == Shape /\ OpenCreate => Creating'
<1> SUFFICES ASSUME Shape, OpenCreate PROVE Creating'
  OBVIOUS
<1>1. PICK f \in Forms :
        view' = [mode |-> "create", status |-> "form", saved |-> None, form |-> f, paths |-> cluster.paths,
                 used |-> UsedQuota, calls |-> <<>>, before |-> cluster, tries |-> 0]
  BY DEF OpenCreate
<1>2. cluster' = cluster
  BY DEF OpenCreate
<1>3. view'.paths = cluster.paths /\ view'.calls = <<>>
  BY <1>1
<1>4. (\A c \in ToSet(view'.calls) : c.op \in CreateOps) /\ ~ToCome(view'.calls, "ingress.patch")
  BY <1>3, EmptyFacts, NothingToCome
<1> QED BY <1>2, <1>3, <1>4 DEF Creating

LEMMA SubmitCreating == Shape /\ Fit /\ Creating /\ Submit => Creating'
<1> SUFFICES ASSUME Shape, Fit, Creating, Submit, view'.mode = "create" PROVE Creating'
  BY DEF Creating
<1> DEFINE fresh == IF cluster.claims = {} THEN 0 ELSE Max(cluster.claims)
           calls == IF view.mode = "create" THEN CreateCalls(view.form, view.paths, fresh)
                    ELSE PatchCalls(view.saved, view.form, view.paths, fresh)
           tries == view.tries + 1
           form  == Converted(view.form)
<1>1. view' = [view EXCEPT !.status = "calling", !.before = cluster, !.tries = tries, !.form = form, !.calls = calls]
  BY DEF Submit
<1>2. FitView(view) /\ FitCluster(cluster) /\ IsView(view) /\ cluster' = cluster
  BY FitViews DEF Submit
<1> HIDE DEF calls, tries, form, fresh
<1>3. view'.calls = calls /\ view'.mode = view.mode /\ view'.paths = view.paths
  BY <1>1, <1>2 DEF IsView, ViewFields
<1>4. IsForm(view.form) /\ FitForm(view.form) /\ view.mode = "create"
  BY <1>2, <1>3 DEF IsView, FitView
<1>5. KindOf(view.form) \in Kinds
  BY <1>4, KindFacts DEF Submit, Disabled, IsDeployUpdateButtonDisabled
<1>6. fresh \in Nat
  BY <1>2, LargestClaim DEF FitCluster, fresh
<1>7. calls = CreateCalls(view.form, view.paths, fresh)
  BY <1>4 DEF calls
<1>8. /\ FitCalls(calls, CreateOps)
      /\ IF ToService(view.form) # None THEN calls # <<>> /\ calls[1].op = "service.create" ELSE ~ToCome(calls, "ingress.patch")
  BY <1>4, <1>5, <1>6, <1>7, CreateFits
<1>9. \A c \in ToSet(calls) : c.op \in CreateOps
  BY <1>8 DEF FitCalls
<1>10. cluster.service = None => cluster.paths = view.paths
  BY <1>4 DEF Creating
<1>11. ToCome(calls, "ingress.patch") => calls # <<>> /\ calls[1].op = "service.create"
  BY <1>8
<1> QED BY <1>2, <1>3, <1>9, <1>10, <1>11 DEF Creating

\* A call that was made, whatever came of it
LEMMA NextCallCreating == Shape /\ Fit /\ Creating /\ NextCall => Creating'
<1> SUFFICES ASSUME Shape, Fit, Creating, NextCall, view'.mode = "create" PROVE Creating'
  BY DEF Creating
<1> DEFINE call == Head(view.calls)
           rest == Tail(view.calls)
<1>1. IsView(view) /\ IsCluster(cluster) /\ view.calls # <<>> /\ IsSeq(view.calls)
  BY NextCallCases, FitViews DEF IsView
<1>2. /\ call = view.calls[1] /\ IsSeq(rest) /\ ToSet(view.calls) = {call} \cup ToSet(rest) /\ IsCall(call)
  <2>1. Len(view.calls) \in Nat \ {0}
    BY <1>1, TailFacts
  <2> QED BY <1>1, <2>1, TailFacts, HeadAndTail DEF IsView
<1>3. CallDone(call) \/ CallFailed(call)
  BY NextCallCases
<1> HIDE DEF call, rest
<1>4. \E calls : view' = [view EXCEPT !.calls = calls] \/ \E status : view' = [view EXCEPT !.calls = calls, !.status = status]
  BY <1>3 DEF CallDone, CallFailed
<1>5. view.mode = "create" /\ view'.paths = view.paths
  BY <1>1, <1>4 DEF IsView, ViewFields
<1>6. /\ \A c \in ToSet(view.calls) : c.op \in CreateOps
      /\ cluster.service = None =>
           /\ cluster.paths = view.paths
           /\ ToCome(view.calls, "ingress.patch") => view.calls # <<>> /\ view.calls[1].op = "service.create"
  BY <1>5 DEF Creating
<1>7. call.op \in CreateOps /\ \A c \in ToSet(rest) : c.op \in CreateOps
  BY <1>2, <1>6
<1>8. view'.calls = rest \/ view'.calls = <<>>
  <2>1. call.op # "ingress.get"
    BY <1>7 DEF CreateOps
  <2>2. CASE CallDone(call)
    BY <1>1, <2>1, <2>2 DEF CallDone, IsView, ViewFields, rest
  <2>3. CASE CallFailed(call)
    BY <1>1, <2>3 DEF CallFailed, IsView, ViewFields
  <2> QED BY <1>3, <2>2, <2>3
<1>9. \A c \in ToSet(view'.calls) : c.op \in CreateOps
  BY <1>7, <1>8, EmptyFacts
<1>10. ASSUME cluster'.service = None PROVE cluster'.paths = view.paths /\ ~ToCome(view'.calls, "ingress.patch")
  <2>1. CASE cluster' = cluster /\ CallFailed(call)
    <3>1. view'.calls = <<>>
      BY <1>1, <2>1 DEF CallFailed, IsView, ViewFields
    <3> QED BY <1>6, <1>10, <2>1, <3>1, NothingToCome
  <2>2. CASE cluster' = Effect(call)
    <3>1. /\ cluster'.service = IF call.op = "service.create" THEN call.new
                                ELSE IF call.op = "service.patch" THEN PatchedService(cluster.service, call.old, call.new)
                                ELSE IF call.op = "service.delete" THEN None ELSE cluster.service
          /\ cluster'.paths = IF call.op = "ingress.patch" THEN Patched(call.old, call.new, cluster.paths) ELSE cluster.paths
      BY <1>1, <2>2, EffectFacts DEF IsCluster, ClusterFields
    <3>2. call.op # "service.create"
      <4>1. call.op = "service.create" => IsService(call.new)
        BY <1>2 DEF IsCall
      <4> QED BY <1>10, <3>1, <4>1, NoneFacts
    <3>3. cluster.service = None
      BY <1>7, <1>10, <3>1, <3>2 DEF CreateOps
    <3>4. ~ToCome(view.calls, "ingress.patch") /\ cluster.paths = view.paths
      BY <1>2, <1>6, <3>2, <3>3
    <3>5. call.op # "ingress.patch" /\ ~ToCome(rest, "ingress.patch")
      BY <1>2, <3>4 DEF ToCome
    <3>6. ~ToCome(view'.calls, "ingress.patch")
      BY <1>8, <3>5, NothingToCome
    <3> QED BY <3>1, <3>4, <3>5, <3>6
  <2> QED BY <1>3, <2>1, <2>2 DEF CallDone, CallFailed
<1>11. cluster'.service = None => cluster'.paths = view'.paths /\ ~ToCome(view'.calls, "ingress.patch")
  BY <1>5, <1>10
<1> QED BY <1>9, <1>11 DEF Creating

LEMMA OthersCreating ==
  Shape /\ Creating /\ (OpenEdit \/ Change \/ OpenList \/ ConfirmDelete \/ Finish \/ Leave \/ Meddle) => Creating'
<1> SUFFICES ASSUME Shape, Creating, OpenEdit \/ Change \/ OpenList \/ ConfirmDelete \/ Finish \/ Leave \/ Meddle,
                    view'.mode = "create"
             PROVE  Creating'
  BY DEF Creating
<1>1. CASE OpenEdit \/ OpenList \/ Leave
  <2>1. view'.mode \in {"edit", "delete", "none"}
    BY <1>1 DEF OpenEdit, OpenList, Leave, Closed
  <2> QED BY <2>1
<1>2. CASE Change \/ ConfirmDelete
  <2>1. IsView(view) /\ view.mode \in {"edit", "delete"}
    BY <1>2, OpenViews DEF Change, ConfirmDelete
  <2>2. view'.mode = view.mode
    BY <1>2, <2>1 DEF Change, ConfirmDelete, IsView, ViewFields
  <2> QED BY <2>1, <2>2
<1>3. CASE Finish
  <2>1. IsView(view) /\ cluster' = cluster
    BY <1>3, OpenViews DEF Finish
  <2>2. view'.mode = view.mode /\ view'.calls = view.calls /\ view'.paths = view.paths
    BY <1>3, <2>1 DEF Finish, IsView, ViewFields
  <2> QED BY <2>1, <2>2 DEF Creating
<1>4. CASE Meddle
  BY <1>4 DEF Meddle
<1> QED BY <1>1, <1>2, <1>3, <1>4

\* Until an update is submitted for the first time, the cluster is as it was read.
AsRead ==
  /\ view.paths = cluster.paths /\ cluster.app # None
  /\ view.saved = ApplicationToFormValues(cluster.app, BoundService(cluster), cluster.paths, BoundScaler(cluster), rwx)

Untried ==
  view.mode = "edit" =>
    /\ view.tries \in Nat
    /\ view.status = "calling" => view.tries # 0
    /\ view.status = "form" /\ view.tries = 0 /\ ~meddled => AsRead

\* Each step keeps Untried.
LEMMA UntriedInit == ApplicationsInit => Untried
BY DEF ApplicationsInit, Untried, Closed

LEMMA OpenEditUntried == OpenEdit => Untried'
<1> SUFFICES ASSUME OpenEdit PROVE Untried'
  OBVIOUS
<1> DEFINE saved == ApplicationToFormValues(cluster.app, BoundService(cluster), cluster.paths, BoundScaler(cluster), rwx)
           form  == Opened(saved, cluster.app.kind # "StatefulSet" /\ rwx)
<1>1. /\ cluster' = cluster /\ cluster.app # None /\ rwx' = rwx /\ headlessFirst' = headlessFirst
      /\ view' = [mode |-> "edit", status |-> "form", saved |-> saved, form |-> form, paths |-> cluster.paths,
                  used |-> UsedQuota, calls |-> <<>>, before |-> cluster, tries |-> 0]
  BY DEF OpenEdit, Opened
<1>2. saved' = saved
  BY <1>1 DEF BoundService, BoundScaler
<1>3. view'.saved = saved /\ view'.paths = cluster.paths /\ view'.tries = 0 /\ view'.status = "form"
  <2> HIDE DEF saved, form
  <2> QED BY <1>1
<1>4. AsRead'
  BY <1>1, <1>2, <1>3 DEF AsRead
<1> QED BY <1>3, <1>4 DEF Untried

LEMMA OthersUntried ==
  Shape /\ Untried /\ (OpenCreate \/ Change \/ Submit \/ OpenList \/ ConfirmDelete \/ NextCall \/ Finish \/ Leave \/ Meddle)
    => Untried'
<1> SUFFICES ASSUME Shape, Untried,
                    OpenCreate \/ Change \/ Submit \/ OpenList \/ ConfirmDelete \/ NextCall \/ Finish \/ Leave \/ Meddle,
                    view'.mode = "edit"
             PROVE  Untried'
  BY DEF Untried
<1>1. CASE OpenCreate \/ OpenList \/ Leave
  <2>1. CASE OpenCreate
    <3>1. view'.mode = "create"
      BY <2>1 DEF OpenCreate
    <3> QED BY <3>1
  <2>2. CASE OpenList \/ Leave
    <3>1. view'.mode \in {"delete", "none"}
      BY <2>2 DEF OpenList, Leave, Closed
    <3> QED BY <3>1
  <2> QED BY <1>1, <2>1, <2>2
<1>2. CASE Change
  <2>1. IsView(view) /\ view.mode = "edit" /\ view.status = "form" /\ cluster' = cluster
        /\ rwx' = rwx /\ headlessFirst' = headlessFirst /\ meddled' = meddled
    BY <1>2, OpenViews DEF Change
  <2>2. PICK form : view' = [view EXCEPT !.form = form]
    BY <1>2 DEF Change
  <2>3. view'.status = "form" /\ view'.saved = view.saved /\ view'.paths = view.paths /\ view'.tries = view.tries
    BY <2>1, <2>2 DEF IsView, ViewFields
  <2>4. AsRead => AsRead'
    BY <2>1, <2>3 DEF AsRead, BoundService, BoundScaler
  <2> QED BY <2>1, <2>3, <2>4 DEF Untried
<1>3. CASE Submit
  <2>1. IsView(view) /\ view.status = "form"
    BY <1>3, OpenViews DEF Submit
  <2> DEFINE tries == view.tries + 1
  <2>2. \E calls, form : view' = [view EXCEPT !.status = "calling", !.before = cluster, !.tries = tries, !.form = form, !.calls = calls]
    BY <1>3 DEF Submit
  <2> HIDE DEF tries
  <2>3. view'.status = "calling" /\ view'.tries = tries /\ view'.mode = view.mode
    BY <2>1, <2>2 DEF IsView, ViewFields
  <2>4. view.tries \in Nat
    BY <2>3 DEF Untried
  <2>5. tries \in Nat /\ tries # 0
    BY <2>4 DEF tries
  <2> QED BY <2>3, <2>5 DEF Untried
<1>4. CASE ConfirmDelete
  <2>1. IsView(view) /\ view.mode = "delete"
    BY <1>4, OpenViews DEF ConfirmDelete
  <2>2. view'.mode = view.mode
    BY <1>4, <2>1 DEF ConfirmDelete, IsView, ViewFields
  <2> QED BY <2>1, <2>2
<1>5. CASE NextCall
  <2>1. IsView(view) /\ view.status = "calling"
    BY <1>5, NextCallCases, OpenViews
  <2>2. \E calls : view' = [view EXCEPT !.calls = calls] \/ \E status : view' = [view EXCEPT !.calls = calls, !.status = status]
    BY <1>5, NextCallCases DEF CallDone, CallFailed
  <2>3. view'.tries = view.tries /\ view'.mode = view.mode
    BY <2>1, <2>2 DEF IsView, ViewFields
  <2>4. view.tries \in Nat /\ view.tries # 0
    BY <2>1, <2>3 DEF Untried
  <2> QED BY <2>3, <2>4 DEF Untried
<1>6. CASE Finish
  <2>1. IsView(view)
    BY <1>6, OpenViews DEF Finish
  <2>2. view'.status = "done" /\ view'.tries = view.tries /\ view'.mode = view.mode
    BY <1>6, <2>1 DEF Finish, IsView, ViewFields
  <2> QED BY <2>2 DEF Untried
<1>7. CASE Meddle
  BY <1>7 DEF Meddle, Untried
<1> QED BY <1>1, <1>2, <1>3, <1>4, <1>5, <1>6, <1>7

-----------------------------------------------------------------------------
(* The routes that are submitted                                           *)

\* Each route is there once.
RoutesOnce(paths) == \A i, j \in 1 .. Len(paths) : paths[i].route = paths[j].route => i = j

\* The same, for the paths of a cluster
LEMMA RoutesOnceIs ==
  ASSUME NEW c, IsSeq(c.paths)
  PROVE  RoutesUnambiguous(c) <=> RoutesOnce(c.paths)
<1> DEFINE routes == [i \in DOMAIN c.paths |-> c.paths[i].route]
<1>1. DOMAIN c.paths = 1 .. Len(c.paths)
  BY SeqFacts
<1>2. DOMAIN routes = 1 .. Len(c.paths) /\ \A i \in 1 .. Len(c.paths) : routes[i] = c.paths[i].route
  BY <1>1
<1>3. RoutesUnambiguous(c) <=> IsInjective(routes)
  BY DEF RoutesUnambiguous
<1> HIDE DEF routes
<1>4. IsInjective(routes) <=> \A i, j \in DOMAIN routes : routes[i] = routes[j] => i = j
  BY DEF IsInjective
<1> QED BY <1>2, <1>3, <1>4 DEF RoutesOnce

LEMMA SameRouteSamePath ==
  ASSUME NEW paths, IsSeq(paths), RoutesOnce(paths), NEW p \in ToSet(paths), NEW q \in ToSet(paths), p.route = q.route
  PROVE  p = q
<1>1. PICK i \in 1 .. Len(paths) : paths[i] = p
  BY ToSetFacts
<1>2. PICK j \in 1 .. Len(paths) : paths[j] = q
  BY ToSetFacts
<1> QED BY <1>1, <1>2 DEF RoutesOnce

LEMMA RoutesOncePaths ==
  ASSUME NEW paths, IsSeq(paths), RoutesOnce(paths)
  PROVE  IsInjective(paths)
<1>1. DOMAIN paths = 1 .. Len(paths)
  BY SeqFacts
<1> QED BY <1>1 DEF RoutesOnce, IsInjective

\* What the form refuses to submit behind the ingress: a new row without a route, a new route
\* that is there twice, or that the ingress has and keeps
NewRoutesValid(rows, paths) ==
  /\ \A n \in 1 .. Len(rows) : rows[n].new => rows[n].ingress /\ rows[n].route # 0
  /\ \A m, n \in 1 .. Len(rows) : rows[m].new /\ rows[n].new /\ rows[m].route = rows[n].route => m = n
  /\ \A n \in 1 .. Len(rows) : rows[n].new =>
       \A p \in ToSet(paths) : p.route = rows[n].route =>
         \E k \in 1 .. Len(rows) : rows[k].del /\ rows[k].route = rows[n].route

\* A form that is valid and complete has such rows.
LEMMA ValidRoutes ==
  ASSUME NEW f, f.ports \in Seq(PortRow), f.publishing = "ingress", NEW paths \in Seq(Paths),
         \A n \in 1 .. Len(f.ports) : f.ports[n].new => ~f.ports[n].del,
         DuplicateRoutes(f, paths) = {}, NEW saved, IsComplete(f, saved)
  PROVE  NewRoutesValid(f.ports, paths)
<1> DEFINE rows  == f.ports
           new   == [i \in DOMAIN rows |-> IF rows[i].new THEN rows[i].route ELSE 0]
           toDel == {rows[i].route : i \in {j \in DOMAIN rows : rows[j].del}}
<1>1. IsSeq(rows) /\ DOMAIN rows = 1 .. Len(rows) /\ IsSeq(paths) /\ DOMAIN paths = 1 .. Len(paths)
  BY SeqIsSeq, SeqFacts
<1>2. /\ GetDuplicates(new) = {}
      /\ \A i \in DOMAIN new : new[i] # 0 /\ new[i] \notin toDel => \A j \in DOMAIN paths : paths[j].route # new[i]
  BY DEF DuplicateRoutes
<1>3. DOMAIN new = 1 .. Len(rows) /\ \A i \in 1 .. Len(rows) : rows[i].new => new[i] = rows[i].route
  BY <1>1
<1>4. \A x : x \in toDel => \E k \in 1 .. Len(rows) : rows[k].del /\ rows[k].route = x
  BY <1>1
<1>5. \A n \in 1 .. Len(rows) : rows[n].new => rows[n].ingress /\ rows[n].route # 0
  BY <1>1 DEF IsComplete
<1> HIDE DEF rows, new, toDel
<1>6. \A m, n \in 1 .. Len(rows) : rows[m].new /\ rows[n].new /\ rows[m].route = rows[n].route => m = n
  BY <1>2, <1>3, <1>5 DEF GetDuplicates
<1>7. ASSUME NEW n \in 1 .. Len(rows), rows[n].new, NEW p \in ToSet(paths), p.route = rows[n].route
      PROVE  \E k \in 1 .. Len(rows) : rows[k].del /\ rows[k].route = rows[n].route
  <2>1. PICK j \in 1 .. Len(paths) : paths[j] = p
    BY <1>1, ToSetFacts
  <2>2. new[n] = rows[n].route /\ new[n] # 0 /\ n \in DOMAIN new
    BY <1>3, <1>5, <1>7
  <2>3. new[n] \in toDel
    BY <1>1, <1>2, <1>7, <2>1, <2>2
  <2> QED BY <1>4, <2>2, <2>3
<1>8. NewRoutesValid(rows, paths)
  BY <1>5, <1>6, <1>7 DEF NewRoutesValid
<1> QED BY <1>8 DEF rows

\* The routes of an application behind the ingress are those of the rows that are kept.
KeptRoutes(rows) == {Route("self", r.port, r.route) : r \in {q \in ToSet(Kept(rows)) : q.ingress}}

LEMMA KeptRoutesAre ==
  ASSUME NEW rows, IsSeq(rows), NEW p
  PROVE  p \in KeptRoutes(rows) <=> \E n \in 1 .. Len(rows) : rows[n].ingress /\ ~rows[n].del /\ p = RouteOf("self", rows[n])
<1>1. \A r : r \in ToSet(Kept(rows)) <=> r \in ToSet(rows) /\ ~r.del
  BY KeptFacts
<1>2. \A r : r \in ToSet(rows) <=> \E n \in 1 .. Len(rows) : rows[n] = r
  BY ToSetFacts
<1>3. p \in KeptRoutes(rows) <=> \E r : r \in ToSet(Kept(rows)) /\ r.ingress /\ p = RouteOf("self", r)
  BY DEF KeptRoutes, RouteOf
<1> QED BY <1>1, <1>2, <1>3

\* The routes that a valid form leads to are those of its kept rows, each once.
LEMMA RoutesSubmitted ==
  ASSUME NEW paths \in Seq(Paths), RoutesOnce(paths), NEW rows \in Seq(PortRow), RowsSound(rows, paths), NewRoutesValid(rows, paths),
         NEW saved, IsSeq(saved), RowsKept(rows, saved),
         \A i \in 1 .. Len(saved) : ~saved[i].ingress => saved[i].route = 0,
         \A p \in Own(paths) : \E i \in 1 .. Len(saved) : saved[i].ingress /\ RouteOf("self", saved[i]) = p
  PROVE  /\ Own(ToIngress(paths, rows, "self")) = KeptRoutes(rows)
         /\ RoutesOnce(ToIngress(paths, rows, "self"))
<1> DEFINE T == ToIngress(paths, rows, "self")
           G == Gone(rows, "self")
           A == Added(rows, "self")
           R(n) == RouteOf("self", rows[n])
<1>1. IsSeq(paths) /\ IsSeq(rows) /\ Len(rows) \in Nat /\ Len(saved) \in Nat
  BY SeqIsSeq, SeqFacts
<1>2. \A n \in 1 .. Len(rows) : /\ rows[n] \in PortRow /\ rows[n].new \in BOOLEAN /\ rows[n].del \in BOOLEAN
                                /\ rows[n].ingress \in BOOLEAN /\ (rows[n].new => ~rows[n].del)
  <2>1. \A n \in 1 .. Len(rows) : rows[n] \in PortRow
    BY SeqIsSeq
  <2> QED BY <2>1 DEF PortRow, RowsSound
<1>3. T \in Seq(Paths) /\ IsSeq(T)
  BY IngressIsPaths, SeqIsSeq
<1>4. /\ \A p : p \in G <=> \E n \in 1 .. Len(rows) : rows[n].ingress /\ rows[n].del /\ p = R(n)
      /\ \A p : p \in A <=> \E n \in 1 .. Len(rows) : rows[n].ingress /\ rows[n].new /\ p = R(n)
  BY DEF Gone, Added
<1>5. \A n \in 1 .. Len(rows) : R(n).svc = "self" /\ R(n).route = rows[n].route
  BY DEF RouteOf, Route
<1>6. \A p \in G : p \in ToSet(paths)
  BY <1>2, <1>4 DEF RowsSound
<1> HIDE DEF R
\* A route that the ingress has and a new row wants goes.
<1>7. ASSUME NEW n \in 1 .. Len(rows), rows[n].new, NEW p \in ToSet(paths), p.route = rows[n].route PROVE p \in G
  <2>1. PICK k \in 1 .. Len(rows) : rows[k].del /\ rows[k].route = rows[n].route
    BY <1>7 DEF NewRoutesValid
  <2>2. ~rows[k].new /\ rows[k].route # 0
    BY <1>2, <1>7, <2>1 DEF NewRoutesValid
  <2>3. rows[k].ingress
    <3>1. k <= Len(saved) /\ k \in 1 .. Len(saved) /\ SameRow(rows[k], saved[k])
      BY <1>1, <2>2 DEF RowsKept
    <3> QED BY <2>2, <3>1 DEF SameRow
  <2>4. R(k) \in G
    BY <1>4, <2>1, <2>3
  <2>5. R(k) \in ToSet(paths) /\ R(k).route = p.route
    BY <1>5, <1>6, <1>7, <2>1, <2>4
  <2>6. R(k) = p
    BY <1>1, <2>5, SameRouteSamePath
  <2> QED BY <2>4, <2>6
<1>8. Ordered(rows)
  <2>1. ASSUME NEW m \in 1 .. Len(rows), NEW n \in 1 .. Len(rows), m < n, rows[m].new PROVE rows[n].new
    <3>1. ~(m <= Len(saved))
      BY <2>1 DEF RowsKept, SameRow
    <3>2. ~(n <= Len(saved))
      BY <1>1, <2>1, <3>1
    <3> QED BY <3>2 DEF RowsKept
  <2> QED BY <1>2, <2>1 DEF Ordered
<1>9. Removable(paths, rows, "self")
  BY SoundRowsRemovable
<1>10. Fresh(paths, rows, "self")
  <2>1. IsInjective(paths)
    BY <1>1, RoutesOncePaths
  <2>2. ASSUME NEW n \in 1 .. Len(rows), rows[n].ingress, rows[n].new
        PROVE  /\ R(n) \notin ToSet(paths) \ G
               /\ \A m \in 1 .. Len(rows) : rows[m].ingress /\ rows[m].new /\ R(m) = R(n) => m = n
    <3>1. R(n) \in ToSet(paths) => R(n) \in G
      BY <1>5, <1>7, <2>2
    <3>2. \A m \in 1 .. Len(rows) : rows[m].new /\ R(m) = R(n) => m = n
      BY <1>5, <2>2 DEF NewRoutesValid
    <3> QED BY <3>1, <3>2
  <2> QED BY <2>1, <2>2 DEF Fresh, R
<1> HIDE DEF G, A
<1>11. ToSet(T) = (ToSet(paths) \ G) \cup A /\ IsInjective(T)
  BY <1>1, <1>8, <1>9, <1>10, IngressIs DEF G, A
<1> HIDE DEF T
<1>12. ASSUME NEW p \in ToSet(T), NEW q \in ToSet(T), p.route = q.route PROVE p = q
  <2>1. CASE p \in ToSet(paths) \ G /\ q \in ToSet(paths) \ G
    BY <1>1, <1>12, <2>1, SameRouteSamePath
  <2>2. CASE p \in A /\ q \in A
    <3>1. PICK m \in 1 .. Len(rows) : rows[m].new /\ p = R(m)
      BY <1>4, <2>2
    <3>2. PICK n \in 1 .. Len(rows) : rows[n].new /\ q = R(n)
      BY <1>4, <2>2
    <3> QED BY <1>5, <1>12, <3>1, <3>2 DEF NewRoutesValid
  <2>3. ASSUME NEW x \in ToSet(paths) \ G, NEW y \in A, x.route = y.route PROVE FALSE
    <3>1. PICK n \in 1 .. Len(rows) : rows[n].new /\ y = R(n)
      BY <1>4
    <3> QED BY <1>5, <1>7, <2>3, <3>1
  <2> QED BY <1>11, <1>12, <2>1, <2>2, <2>3
<1>13. RoutesOnce(T)
  <2>1. DOMAIN T = 1 .. Len(T)
    BY <1>3, SeqFacts
  <2>2. ASSUME NEW i \in 1 .. Len(T), NEW j \in 1 .. Len(T), T[i].route = T[j].route PROVE i = j
    <3>1. T[i] \in ToSet(T) /\ T[j] \in ToSet(T)
      BY <1>3, ToSetFacts
    <3>2. T[i] = T[j]
      BY <1>12, <2>2, <3>1
    <3> QED BY <1>11, <2>1, <3>2 DEF IsInjective
  <2> QED BY <2>2 DEF RoutesOnce
<1>14. ASSUME NEW p \in Own(T) PROVE p \in KeptRoutes(rows)
  <2>1. p \in ToSet(T) /\ p.svc = "self"
    BY <1>3, OwnIs
  <2>2. CASE p \in A
    <3>1. PICK n \in 1 .. Len(rows) : rows[n].ingress /\ rows[n].new /\ p = R(n)
      BY <1>4, <2>2
    <3> QED BY <1>1, <1>2, <3>1, KeptRoutesAre DEF R
  <2>3. CASE p \in ToSet(paths) \ G
    <3>1. p \in Own(paths)
      BY <2>1, <2>3, OwnIs
    <3>2. PICK i \in 1 .. Len(saved) : saved[i].ingress /\ RouteOf("self", saved[i]) = p
      BY <3>1
    <3>3. i \in 1 .. Len(rows) /\ SameRow(rows[i], saved[i])
      BY <1>1 DEF RowsKept
    <3>4. rows[i].ingress /\ p = R(i)
      BY <3>2, <3>3 DEF SameRow, RouteOf, R
    <3>5. ~rows[i].del
      BY <1>4, <2>3, <3>3, <3>4
    <3> QED BY <1>1, <3>3, <3>4, <3>5, KeptRoutesAre DEF R
  <2> QED BY <1>11, <2>1, <2>2, <2>3
<1>15. ASSUME NEW p \in KeptRoutes(rows) PROVE p \in Own(T)
  <2>1. PICK n \in 1 .. Len(rows) : rows[n].ingress /\ ~rows[n].del /\ p = R(n)
    BY <1>1, KeptRoutesAre DEF R
  <2>2. p \in ToSet(T)
    <3>1. CASE rows[n].new
      BY <1>4, <1>11, <2>1, <3>1
    <3>2. CASE ~rows[n].new
      <4>1. R(n) \in ToSet(paths)
        BY <2>1, <3>2 DEF RowsSound, R
      <4>2. R(n) \notin G
        <5>1. SUFFICES ASSUME NEW m \in 1 .. Len(rows), rows[m].ingress, rows[m].del, R(n) = R(m) PROVE FALSE
          BY <1>4
        <5>2. ~rows[m].new
          BY <1>2, <5>1
        <5>3. m = n
          BY <2>1, <3>2, <5>1, <5>2 DEF RowsSound, R
        <5> QED BY <2>1, <5>1, <5>3
      <4> QED BY <1>11, <2>1, <4>1, <4>2
    <3> QED BY <1>2, <3>1, <3>2
  <2> QED BY <1>3, <1>5, <2>1, <2>2, OwnIs
<1>16. Own(T) = KeptRoutes(rows)
  BY <1>14, <1>15
<1> QED BY <1>13, <1>16 DEF T

-----------------------------------------------------------------------------
(* What is submitted is what is there once the chain is through: as        *)
(* long as it runs, either the calls that are left make of the cluster     *)
(* what the form asks for, or one of them is going to be refused.          *)

\* The rows that were read have the routes of the application, and no others.
LEMMA ReadRowsCover ==
  ASSUME NEW c, IsCluster(c), ~Leftovers(c), SeesService(c), NEW rows, rows = PortRows(BoundService(c), c.paths, "self")
  PROVE  /\ \A i \in 1 .. Len(rows) : ~rows[i].ingress => rows[i].route = 0
         /\ \A p \in Own(c.paths) : \E i \in 1 .. Len(rows) : rows[i].ingress /\ RouteOf("self", rows[i]) = p
<1> DEFINE bound == BoundService(c)
<1>1. (bound = None \/ bound.ports \in Seq(Nat)) /\ c.paths \in Seq(Paths) /\ IsSeq(c.paths)
  BY BoundFacts, SeqIsSeq DEF IsCluster
<1>2. bound = c.service \/ c.service = None
  BY DEF SeesService
<1>3. rows = PortRows(bound, c.paths, "self")
  OBVIOUS
<1> HIDE DEF bound
<1>4. \A i \in 1 .. Len(rows) : ~rows[i].ingress => rows[i].route = 0
  <2>1. CASE bound = None
    <3>1. rows = <<>>
      BY <1>3, <2>1 DEF PortRows
    <3> QED BY <3>1, EmptyFacts
  <2>2. CASE bound # None
    <3>1. \A n \in 1 .. Len(rows) : \E port \in ToSet(bound.ports) : IsRowOf(rows[n], port, c.paths, "self")
      BY <1>1, <1>3, <2>2, SeqIsSeq, PortRowsFacts
    <3> QED BY <3>1 DEF IsRowOf
  <2> QED BY <2>1, <2>2
<1>5. ASSUME NEW p \in Own(c.paths) PROVE \E i \in 1 .. Len(rows) : rows[i].ingress /\ RouteOf("self", rows[i]) = p
  <2>1. c.service # None /\ p.port \in ToSet(c.service.ports)
    BY DEF Leftovers
  <2>2. bound = c.service /\ bound # None /\ bound.ports \in Seq(Nat)
    BY <1>1, <1>2, <2>1
  <2>3. LET read == PortRows(bound, c.paths, "self")
        IN  \E i \in 1 .. Len(read) : read[i].ingress /\ RouteOf("self", read[i]) = p
    BY <1>1, <2>1, <2>2, RowsCoverRoutes
  <2> QED BY <1>3, <2>3
<1> QED BY <1>4, <1>5

\* What a form asks for, and has been given
Right(x, f, sees, leaves) ==
  /\ FitApp(x.app) /\ \E fresh \in Nat : Alike(x.app, ToApplication(f, fresh))
  /\ IsInjective(x.app.env) /\ Mountable(x.app.mounts)
  /\ sees => ServiceFits(x.service, f)
  /\ (x.scaler # None /\ x.scaler.kind = KindOf(f)) <=> (f.scaler /\ f.deployment # "global")
  /\ f.publishing = "ingress" => Own(x.paths) = KeptRoutes(f.ports)
  /\ RoutesOnce(x.paths) \/ leaves

LEMMA RightConverted ==
  ASSUME NEW f, FitForm(f), NEW x, NEW sees, NEW leaves, Right(x, f, sees, leaves)
  PROVE  Right(x, Converted(f), sees, leaves)
<1> DEFINE k == Converted(f)
<1>1. /\ KindOf(k) = KindOf(f) /\ ToService(k) = ToService(f)
      /\ \A fresh : ToApplication(k, fresh) = ToApplication(f, fresh)
      /\ k.scaler = f.scaler /\ k.deployment = f.deployment /\ k.publishing = f.publishing /\ k.ports = f.ports
  BY ConvertedFits DEF FormFields
<1> HIDE DEF k
<1>2. Right(x, k, sees, leaves)
  BY <1>1 DEF Right, ServiceFits
<1> QED BY <1>2 DEF k

\* A form that can be submitted
Submittable(f, saved, paths) ==
  /\ FitForm(f) /\ KindOf(f) \in Kinds
  /\ IsValid(f, paths) /\ IsComplete(f, saved)
  /\ f.publishing = "ingress" => ToService(f) # None

LEMMA PublishesSomething ==
  ASSUME NEW f, IsForm(f), f.publishing # "internal", ~IsNotInternalAndHasNoPublishedPorts(f)
  PROVE  ToService(f) # None
<1> DEFINE S    == {r \in ToSet(f.ports) : r.new \/ ~r.del}
           rows == Among(f.ports, S)
           nums == [i \in DOMAIN rows |-> rows[i].port]
<1>1. IsSeq(f.ports)
  BY SeqIsSeq DEF IsForm
<1>2. Kept(f.ports) # <<>> /\ IsSeq(Kept(f.ports)) /\ \A r : r \in ToSet(Kept(f.ports)) <=> r \in ToSet(f.ports) /\ ~r.del
  BY <1>1, KeptFacts DEF IsNotInternalAndHasNoPublishedPorts
<1>3. PICK r : r \in ToSet(f.ports) /\ ~r.del
  <2>1. Kept(f.ports)[1] \in ToSet(Kept(f.ports))
    <3>1. Len(Kept(f.ports)) \in Nat /\ Len(Kept(f.ports)) # 0
      BY <1>2, SeqFacts
    <3> QED BY <1>2, <3>1, ToSetFacts
  <2> QED BY <1>2, <2>1
<1>4. IsSeq(rows) /\ r \in ToSet(rows)
  BY <1>1, <1>3, AmongElements
<1>5. PublishedPorts(f) = Uniq(nums)
  BY DEF PublishedPorts
<1> HIDE DEF S, rows
<1>6. IsSeq(nums) /\ Len(nums) = Len(rows)
  <2>1. nums = [i \in DOMAIN rows |-> nums[i]]
    OBVIOUS
  <2> HIDE DEF nums
  <2> QED BY <1>4, <2>1, MappedSeq
<1> HIDE DEF nums
<1>7. Uniq(nums) # <<>>
  <2>1. Len(rows) # 0 /\ Len(rows) \in Nat
    BY <1>4, ToSetFacts, SeqFacts
  <2>2. nums[1] \in ToSet(nums)
    BY <1>6, <2>1, ToSetFacts
  <2>3. ToSet(Uniq(nums)) # {}
    BY <1>6, <2>2, UniqFacts
  <2> QED BY <2>3, EmptyFacts
<1>8. [type |-> IF f.publishing = "cluster" THEN "NodePort" ELSE "ClusterIP", ports |-> PublishedPorts(f)] # None
  BY DEF None
<1> QED BY <1>5, <1>7, <1>8 DEF ToService

LEMMA ScalersAreSome ==
  ASSUME NEW f
  PROVE  ScalerOf(f) # None /\ ScalerOf(f).kind = KindOf(f)
BY DEF ScalerOf, None

\* A call is still to come that cannot succeed: what it creates is there.
StuckOn(s, c) ==
  \/ c.app # None /\ ToCome(s, "app.create") /\ ~ToCome(s, "app.delete")
  \/ c.service # None /\ ToCome(s, "service.create") /\ ~ToCome(s, "service.delete")

\* The calls that are left lead to what the form asks for, if all of them apply.
Promised(s, c, f, sees, leaves) ==
  StuckOn(s, c) \/ \E x : Makes(s, Held(c), x) /\ Right(x, f, sees, leaves)

LEMMA HeldFields ==
  ASSUME NEW c
  PROVE  Held(c).app = c.app /\ Held(c).service = c.service /\ Held(c).scaler = c.scaler /\ Held(c).paths = c.paths
BY DEF Held

\* A deployment that can be submitted promises what its form asks for.
LEMMA CreatePromised ==
  ASSUME NEW c, IsCluster(c), ~Leftovers(c), RoutesUnambiguous(c),
         NEW paths, c.service = None => c.paths = paths,
         NEW f, Submittable(f, None, paths), IsInjective(paths) => RowsSound(f.ports, paths), RowsKept(f.ports, <<>>),
         NEW fresh \in Nat, NEW sees
  PROVE  Promised(CreateCalls(f, paths, fresh), c, f, sees, FALSE)
<1> DEFINE calls == CreateCalls(f, paths, fresh)
           x     == Held(c)
<1>0. FitForm(f) /\ KindOf(f) \in Kinds /\ IsForm(f) /\ IsValid(f, paths) /\ IsComplete(f, None)
      /\ (f.publishing = "ingress" => ToService(f) # None)
  BY DEF Submittable, FitForm, IsFullForm
<1>1. CASE c.app # None
  <2>1. FitCalls(calls, CreateOps) /\ ToCome(calls, "app.create")
    BY <1>0, CreateFits
  <2> HIDE DEF calls
  <2>2. ~ToCome(calls, "app.delete")
    BY <2>1, NotComing DEF CreateOps
  <2>3. StuckOn(calls, c)
    BY <1>1, <2>1, <2>2 DEF StuckOn
  <2> QED BY <2>3 DEF Promised, calls
<1>2. CASE c.app = None
  <2>1. c.service = None /\ c.scaler = None /\ Own(c.paths) = {}
    BY <1>2 DEF Leftovers
  <2>2. c.paths = paths /\ paths \in Seq(Paths) /\ IsSeq(paths)
    BY <2>1, SeqIsSeq DEF IsCluster
  <2>3. RoutesOnce(paths)
    BY <2>2, RoutesOnceIs
  <2>4. x.paths = paths /\ x.service = None /\ x.scaler = None
    BY <2>1, <2>2, HeldFields
  <2> HIDE DEF x
  <2>5. PICK y : /\ Makes(CreateCalls(f, x.paths, fresh), x, y)
                 /\ y.app = ToApplication(f, fresh)
                 /\ y.service = IF ToService(f) = None THEN x.service ELSE ToService(f)
                 /\ y.scaler = IF f.scaler /\ f.deployment # "global" THEN ScalerOf(f) ELSE x.scaler
                 /\ y.paths = IF ToService(f) # None /\ f.publishing = "ingress" THEN ToIngress(x.paths, f.ports, "self") ELSE x.paths
    BY <1>0, <2>2, <2>4, CreateMakes
  <2>6. FitApp(y.app) /\ Alike(y.app, ToApplication(f, fresh))
    BY <1>0, <2>5, NewApp DEF Alike
  <2>7. IsInjective(y.app.env) /\ Mountable(y.app.mounts)
    BY <1>0, <2>5, NewAppUnambiguous
  <2>8. ServiceFits(y.service, f)
    BY <1>0, <2>4, <2>5, ServiceOf DEF ServiceFits
  <2>9. (y.scaler # None /\ y.scaler.kind = KindOf(f)) <=> (f.scaler /\ f.deployment # "global")
    BY <2>4, <2>5, ScalersAreSome
  <2>10. f.publishing = "ingress" => Own(y.paths) = KeptRoutes(f.ports) /\ RoutesOnce(y.paths)
    <3> SUFFICES ASSUME f.publishing = "ingress" PROVE Own(y.paths) = KeptRoutes(f.ports) /\ RoutesOnce(y.paths)
      OBVIOUS
    <3>1. y.paths = ToIngress(paths, f.ports, "self")
      BY <1>0, <2>4, <2>5
    <3>2. RowsSound(f.ports, paths) /\ f.ports \in Seq(PortRow)
      BY <1>0, <2>2, <2>3, RoutesOncePaths DEF IsForm
    <3>3. NewRoutesValid(f.ports, paths)
      <4>1. \A n \in 1 .. Len(f.ports) : f.ports[n].new => ~f.ports[n].del
        BY <3>2 DEF RowsSound
      <4>2. DuplicateRoutes(f, paths) = {}
        BY <1>0 DEF IsValid
      <4> QED BY <1>0, <2>2, <3>2, <4>1, <4>2, ValidRoutes
    <3>4. /\ IsSeq(<<>>) /\ \A i \in 1 .. Len(<<>>) : ~(<<>>)[i].ingress => (<<>>)[i].route = 0
          /\ \A p \in Own(paths) : \E i \in 1 .. Len(<<>>) : (<<>>)[i].ingress /\ RouteOf("self", (<<>>)[i]) = p
      BY <2>1, <2>2, EmptyFacts
    <3>5. Own(ToIngress(paths, f.ports, "self")) = KeptRoutes(f.ports) /\ RoutesOnce(ToIngress(paths, f.ports, "self"))
      BY <2>2, <2>3, <3>2, <3>3, <3>4, RoutesSubmitted
    <3> QED BY <3>1, <3>5
  <2>11. RoutesOnce(y.paths)
    BY <2>3, <2>4, <2>5, <2>10
  <2>12. Right(y, f, sees, FALSE)
    BY <2>6, <2>7, <2>8, <2>9, <2>10, <2>11 DEF Right
  <2>13. Makes(calls, Held(c), y)
    BY <2>4, <2>5 DEF x
  <2> HIDE DEF calls
  <2>14. Promised(calls, c, f, sees, FALSE)
    BY <2>12, <2>13 DEF Promised
  <2> QED BY <2>14 DEF calls
<1> QED BY <1>1, <1>2

\* What was read of a cluster that has nothing left over
LEMMA SavedIs ==
  ASSUME NEW c, IsCluster(c), c.app # None, FitApp(c.app), ~Leftovers(c), NEW shared,
         NEW saved, saved = ApplicationToFormValues(c.app, BoundService(c), c.paths, BoundScaler(c), shared)
  PROVE  /\ IsForm(saved) /\ SavedAs(saved, c.app) /\ Untouched(saved.ports)
         /\ saved.ports = PortRows(BoundService(c), c.paths, "self")
         /\ SeesService(c) => ServiceFits(c.service, saved)
         /\ ~SeesService(c) => c.service # None /\ ToService(saved) = None
         /\ saved.scaler = (c.scaler # None) /\ (c.scaler # None => c.scaler.kind = KindOf(saved))
<1> DEFINE bound  == BoundService(c)
           scaler == BoundScaler(c)
<1>1. /\ bound = None \/ bound.ports \in Seq(Nat)
      /\ bound = c.service \/ bound = None \/ bound.ports = <<>>
  BY BoundFacts
<1>2. c.paths \in Seq(Paths) /\ IsApp(c.app) /\ (c.service = None \/ IsService(c.service))
  BY DEF IsCluster, FitApp
<1>3. c.scaler # None => c.scaler.kind = c.app.kind
  BY DEF Leftovers
<1>4. (scaler # None) = (c.scaler # None)
  BY <1>3 DEF BoundScaler
<1>5. (SeesService(c) => bound = c.service \/ c.service = None) /\ (~SeesService(c) => c.service # None /\ bound # c.service)
  BY DEF SeesService
<1>6. saved = ApplicationToFormValues(c.app, bound, c.paths, scaler, shared)
  OBVIOUS
<1> HIDE DEF bound, scaler
<1>7. IsForm(saved) /\ saved.ports = PortRows(bound, c.paths, "self") /\ Untouched(saved.ports)
  BY <1>1, <1>2, <1>6, SavedForm
<1>8. IsFullForm(saved) /\ KindOf(saved) = c.app.kind /\ \A fresh : Alike(ToApplication(saved, fresh), c.app)
  <2>1. LET g == ApplicationToFormValues(c.app, bound, c.paths, scaler, shared)
        IN  IsFullForm(g) /\ KindOf(g) = c.app.kind /\ \A fresh : Alike(ToApplication(g, fresh), c.app)
    BY <1>1, <1>2, ReadApp
  <2> QED BY <1>6, <2>1
<1>9. /\ bound = None \/ bound.ports = <<>> => ToService(saved) = None
      /\ bound # None /\ IsService(bound) =>
           ToService(saved) # None /\ ToService(saved).ports = bound.ports /\ ToService(saved).type = bound.type
  <2>1. bound = None \/ IsService(bound) \/ bound.ports = <<>>
    BY <1>1, <1>2
  <2> QED BY <1>2, <1>6, <2>1, ReadService
<1>10. ASSUME SeesService(c) PROVE ServiceFits(c.service, saved)
  <2>1. CASE c.service # None
    BY <1>2, <1>5, <1>9, <1>10, <2>1 DEF ServiceFits
  <2>2. CASE c.service = None
    <3>1. bound = None \/ bound.ports = <<>>
      BY <1>1, <2>2
    <3> QED BY <1>9, <2>2, <3>1 DEF ServiceFits
  <2> QED BY <2>1, <2>2
<1>11. saved.scaler = (scaler # None)
  BY <1>6, ReadFields
<1> QED BY <1>1, <1>3, <1>4, <1>5, <1>7, <1>8, <1>9, <1>10, <1>11 DEF SavedAs, bound

\* So does an update.
LEMMA EditPromised ==
  ASSUME NEW c, IsCluster(c), c.app # None, FitApp(c.app), ~Leftovers(c), RoutesUnambiguous(c), NEW shared,
         NEW saved, saved = ApplicationToFormValues(c.app, BoundService(c), c.paths, BoundScaler(c), shared),
         NEW f, Submittable(f, saved, c.paths), EditForm(f),
         IsInjective(c.paths) => RowsSound(f.ports, c.paths), RowsKept(f.ports, saved.ports), NEW fresh \in Nat
  PROVE  Promised(PatchCalls(saved, f, c.paths, fresh), c, f, SeesService(c), saved.publishing = "ingress" /\ f.publishing # "ingress")
<1> DEFINE calls  == PatchCalls(saved, f, c.paths, fresh)
           x      == Held(c)
           sees   == SeesService(c)
           leaves == saved.publishing = "ingress" /\ f.publishing # "ingress"
<1>1. /\ IsForm(saved) /\ SavedAs(saved, c.app) /\ Untouched(saved.ports)
      /\ saved.ports = PortRows(BoundService(c), c.paths, "self")
      /\ SeesService(c) => ServiceFits(c.service, saved)
      /\ ~SeesService(c) => c.service # None /\ ToService(saved) = None
      /\ saved.scaler = (c.scaler # None) /\ (c.scaler # None => c.scaler.kind = KindOf(saved))
  BY SavedIs
<1>2. FitForm(f) /\ KindOf(f) \in Kinds /\ IsForm(f) /\ IsValid(f, c.paths) /\ IsComplete(f, saved)
      /\ (f.publishing = "ingress" => ToService(f) # None) /\ (f.deployment = "global" => ~f.scaler) /\ f.scaler \in BOOLEAN
  BY DEF Submittable, FitForm, IsFullForm, EditForm
<1>3. CASE ToService(saved) = None /\ ToService(f) # None /\ c.service # None
  <2>1. ToCome(calls, "service.create") /\ ~ToCome(calls, "service.delete")
    BY <1>1, <1>2, <1>3, PatchFits
  <2> HIDE DEF calls
  <2>2. StuckOn(calls, c)
    BY <1>3, <2>1 DEF StuckOn
  <2> QED BY <2>2 DEF Promised, calls
<1>4. CASE ~(ToService(saved) = None /\ ToService(f) # None /\ c.service # None)
  <2>1. c.paths \in Seq(Paths) /\ IsSeq(c.paths) /\ RoutesOnce(c.paths)
    BY SeqIsSeq, RoutesOnceIs DEF IsCluster
  <2>2. x.app = c.app /\ x.service = c.service /\ x.scaler = c.scaler /\ x.paths = c.paths
    BY HeldFields
  <2> HIDE DEF x
  <2>3. PICK y : Makes(PatchCalls(saved, f, x.paths, fresh), x, y) /\ Updated(x, y, saved, f, fresh)
    BY <1>1, <1>2, <2>1, <2>2, PatchMakes
  <2>4. FitApp(y.app) /\ Alike(y.app, ToApplication(f, fresh))
    BY <2>3 DEF Updated
  <2>5. IsInjective(y.app.env) /\ Mountable(y.app.mounts)
    <3>1. IsInjective(ToApplication(f, fresh).env) /\ Mountable(ToApplication(f, fresh).mounts)
      BY <1>2, NewAppUnambiguous
    <3>2. y.app.env = ToApplication(f, fresh).env /\ y.app.mounts = ToApplication(f, fresh).mounts
      BY <2>4 DEF Alike
    <3> QED BY <3>1, <3>2
  <2>6. SeesService(c) => ServiceFits(y.service, f)
    BY <1>1, <2>2, <2>3 DEF Updated
  <2>7. (y.scaler # None /\ y.scaler.kind = KindOf(f)) <=> (f.scaler /\ f.deployment # "global")
    <3>1. /\ f.scaler => y.scaler = ScalerOf(f) \/ (saved.scaler /\ KindOf(saved) = KindOf(f) /\ y.scaler = c.scaler)
          /\ ~f.scaler => y.scaler = c.scaler \/ (saved.scaler /\ KindOf(saved) = KindOf(f) /\ y.scaler = None)
          /\ ~f.scaler /\ saved.scaler /\ KindOf(saved) = KindOf(f) => y.scaler = None
      BY <2>2, <2>3 DEF Updated
    <3>2. saved.scaler <=> c.scaler # None
      BY <1>1
    <3>3. ScalerOf(f) # None /\ ScalerOf(f).kind = KindOf(f)
      BY ScalersAreSome
    <3> QED BY <1>1, <1>2, <3>1, <3>2, <3>3
  <2>8. f.publishing = "ingress" => Own(y.paths) = KeptRoutes(f.ports) /\ RoutesOnce(y.paths)
    <3> SUFFICES ASSUME f.publishing = "ingress" PROVE Own(y.paths) = KeptRoutes(f.ports) /\ RoutesOnce(y.paths)
      OBVIOUS
    <3>1. y.paths = ToIngress(c.paths, f.ports, "self")
      BY <2>2, <2>3 DEF Updated
    <3>2. RowsSound(f.ports, c.paths) /\ f.ports \in Seq(PortRow)
      BY <1>2, <2>1, RoutesOncePaths DEF IsForm
    <3>3. NewRoutesValid(f.ports, c.paths)
      <4>1. \A n \in 1 .. Len(f.ports) : f.ports[n].new => ~f.ports[n].del
        BY <3>2 DEF RowsSound
      <4>2. DuplicateRoutes(f, c.paths) = {}
        BY <1>2 DEF IsValid
      <4> QED BY <1>2, <2>1, <3>2, <4>1, <4>2, ValidRoutes
    <3>4. SeesService(c)
      BY <1>1, <1>2, <1>4
    <3>5. /\ \A i \in 1 .. Len(saved.ports) : ~saved.ports[i].ingress => saved.ports[i].route = 0
          /\ \A p \in Own(c.paths) : \E i \in 1 .. Len(saved.ports) : saved.ports[i].ingress /\ RouteOf("self", saved.ports[i]) = p
      BY <1>1, <3>4, ReadRowsCover
    <3>6. IsSeq(saved.ports)
      BY <1>1, SeqIsSeq DEF IsForm
    <3>7. Own(ToIngress(c.paths, f.ports, "self")) = KeptRoutes(f.ports) /\ RoutesOnce(ToIngress(c.paths, f.ports, "self"))
      <4> DEFINE rows == saved.ports
      <4>1. \A i \in 1 .. Len(rows) : ~rows[i].ingress => rows[i].route = 0
        BY <3>5
      <4>2. \A p \in Own(c.paths) : \E i \in 1 .. Len(rows) : rows[i].ingress /\ RouteOf("self", rows[i]) = p
        BY <3>5
      <4>3. IsSeq(rows) /\ RowsKept(f.ports, rows)
        BY <3>6
      <4> HIDE DEF rows
      <4> QED BY <2>1, <3>2, <3>3, <4>1, <4>2, <4>3, RoutesSubmitted
    <3> QED BY <3>1, <3>7
  <2>9. RoutesOnce(y.paths) \/ leaves
    <3>1. CASE f.publishing = "ingress"
      BY <2>8, <3>1
    <3>2. CASE f.publishing # "ingress" /\ saved.publishing # "ingress"
      BY <2>1, <2>2, <2>3, <3>2 DEF Updated
    <3> QED BY <3>1, <3>2
  <2>10. Makes(calls, Held(c), y)
    BY <2>2, <2>3 DEF x
  <2> HIDE DEF calls, leaves, sees
  <2>11. Right(y, f, sees, leaves)
    BY <2>4, <2>5, <2>6, <2>7, <2>8, <2>9 DEF Right, sees
  <2>12. Promised(calls, c, f, sees, leaves)
    BY <2>10, <2>11 DEF Promised
  <2> QED BY <2>12 DEF calls, leaves, sees
<1> QED BY <1>3, <1>4

\* What is promised of a form is promised of its conversion, and whatever is left over may be.
LEMMA PromisedConverted ==
  ASSUME NEW s, NEW c, NEW f, FitForm(f), NEW sees, NEW leaves, Promised(s, c, f, sees, leaves),
         NEW g, g = Converted(f), NEW also, also => sees, NEW left, leaves => left
  PROVE  Promised(s, c, g, also, left)
<1>1. CASE StuckOn(s, c)
  BY <1>1 DEF Promised
<1>2. CASE ~StuckOn(s, c)
  <2>1. PICK x : Makes(s, Held(c), x) /\ Right(x, f, sees, leaves)
    BY <1>2 DEF Promised
  <2>2. Right(x, g, sees, leaves)
    BY <2>1, RightConverted
  <2>3. Right(x, g, also, left)
    BY <2>2 DEF Right
  <2> QED BY <2>1, <2>3 DEF Promised
<1> QED BY <1>1, <1>2

LEMMA PromisedSame ==
  ASSUME NEW s, NEW c, NEW f, NEW sees, NEW leaves, Promised(s, c, f, sees, leaves),
         NEW also, also => sees, NEW left, leaves => left
  PROVE  Promised(s, c, f, also, left)
<1>1. CASE StuckOn(s, c)
  BY <1>1 DEF Promised
<1>2. CASE ~StuckOn(s, c)
  <2>1. PICK x : Makes(s, Held(c), x) /\ Right(x, f, sees, leaves)
    BY <1>2 DEF Promised
  <2>2. Right(x, f, also, left)
    BY <2>1 DEF Right
  <2> QED BY <2>1, <2>2 DEF Promised
<1> QED BY <1>1, <1>2

\* A call that applies keeps the promise.
LEMMA PromisedNext ==
  ASSUME IsCluster(cluster), NEW s, IsSeq(s), s # <<>>, NEW call, call = Head(s), IsCall(call), Applies(call),
         NEW f, NEW sees, NEW leaves, Promised(s, cluster, f, sees, leaves)
  PROVE  Promised(Tail(s), Effect(call), f, sees, leaves)
<1> DEFINE e == Effect(call)
           t == Tail(s)
<1>1. ToSet(s) = {call} \cup ToSet(t)
  BY HeadAndTail
<1>2. /\ e.app = IF call.op = "app.create" THEN call.new
                 ELSE IF call.op = "app.patch" THEN PatchedApp(cluster.app, call.old, call.new)
                 ELSE IF call.op = "app.delete" THEN None ELSE cluster.app
      /\ e.service = IF call.op = "service.create" THEN call.new
                     ELSE IF call.op = "service.patch" THEN PatchedService(cluster.service, call.old, call.new)
                     ELSE IF call.op = "service.delete" THEN None ELSE cluster.service
  BY EffectFacts DEF IsCluster, ClusterFields
<1>3. Held(e) = Turned(call, Held(cluster))
  BY EffectHeld
<1> HIDE DEF e, t
<1>4. CASE cluster.app # None /\ ToCome(s, "app.create") /\ ~ToCome(s, "app.delete")
  <2>1. call.op # "app.create"
    BY <1>4 DEF Applies
  <2>2. call.op # "app.delete" /\ ToCome(t, "app.create") /\ ~ToCome(t, "app.delete")
    BY <1>1, <1>4, <2>1 DEF ToCome
  <2>3. PatchedApp(cluster.app, call.old, call.new) # None
    <3>1. DOMAIN cluster.app # DOMAIN None
      BY <1>4 DEF IsCluster, IsApp, None
    <3>2. DOMAIN PatchedApp(cluster.app, call.old, call.new) = DOMAIN cluster.app
      BY DEF PatchedApp
    <3> QED BY <3>1, <3>2
  <2>4. e.app # None
    BY <1>2, <1>4, <2>1, <2>2, <2>3
  <2>5. StuckOn(t, e)
    BY <2>2, <2>4 DEF StuckOn
  <2> QED BY <2>5 DEF Promised, e, t
<1>5. CASE cluster.service # None /\ ToCome(s, "service.create") /\ ~ToCome(s, "service.delete")
  <2>1. call.op # "service.create"
    BY <1>5 DEF Applies
  <2>2. call.op # "service.delete" /\ ToCome(t, "service.create") /\ ~ToCome(t, "service.delete")
    BY <1>1, <1>5, <2>1 DEF ToCome
  <2>3. PatchedService(cluster.service, call.old, call.new) # None
    <3>1. DOMAIN cluster.service # DOMAIN None
      BY <1>5 DEF IsCluster, IsService, None
    <3>2. DOMAIN PatchedService(cluster.service, call.old, call.new) = DOMAIN cluster.service
      BY DEF PatchedService
    <3> QED BY <3>1, <3>2
  <2>4. e.service # None
    BY <1>2, <1>5, <2>1, <2>2, <2>3
  <2>5. StuckOn(t, e)
    BY <2>2, <2>4 DEF StuckOn
  <2> QED BY <2>5 DEF Promised, e, t
<1>6. CASE ~StuckOn(s, cluster)
  <2>1. PICK x : Makes(s, Held(cluster), x) /\ Right(x, f, sees, leaves)
    BY <1>6 DEF Promised
  <2>2. Makes(t, Held(e), x)
    <3>1. Makes(Tail(s), Turned(Head(s), Held(cluster)), x)
      BY <2>1, MakesNext
    <3> QED BY <1>3, <3>1 DEF t
  <2>3. Promised(t, e, f, sees, leaves)
    BY <2>1, <2>2 DEF Promised
  <2> QED BY <2>3 DEF e, t
<1> QED BY <1>4, <1>5, <1>6 DEF StuckOn

\* A first try, of a cluster that had nothing left over and nothing twice
Trying ==
  /\ view.status \in {"calling", "done"} /\ view.mode \in {"create", "edit"} /\ ~meddled
  /\ view.tries > 1 => view.mode = "create"
  /\ ~Leftovers(view.before) /\ Unambiguous(view.before)

\* The calls that are left make of the cluster what the form asks for, or one is among them that
\* is going to be refused.
Submitted ==
  Trying =>
    /\ view.status = "done" => view.calls = <<>>
    /\ KindOf(view.form) \in Kinds /\ ~ToCome(view.calls, "ingress.get")
    /\ Promised(view.calls, cluster, view.form, SeesService(view.before), LeavesIngress)

\* Each step keeps Submitted.
LEMMA SubmitSubmitted == Shape /\ Fit /\ Creating /\ Untried /\ Routing /\ Submit => Submitted'
<1> SUFFICES ASSUME Shape, Fit, Creating, Untried, Routing, Submit, Trying' PROVE Submitted'
  BY DEF Submitted
<1> DEFINE fresh == IF cluster.claims = {} THEN 0 ELSE Max(cluster.claims)
           f     == view.form
           calls == IF view.mode = "create" THEN CreateCalls(f, view.paths, fresh)
                    ELSE PatchCalls(view.saved, f, view.paths, fresh)
           tries == view.tries + 1
           form  == Converted(f)
           sees  == SeesService(cluster)
           leaves == view.mode = "edit" /\ view.saved.publishing = "ingress" /\ f.publishing # "ingress"
<1>1. view' = [view EXCEPT !.status = "calling", !.before = cluster, !.tries = tries, !.form = form, !.calls = calls]
  BY DEF Submit
<1>2. /\ FitView(view) /\ FitCluster(cluster) /\ IsView(view) /\ IsCluster(cluster) /\ view.mode \in {"create", "edit"}
      /\ cluster' = cluster /\ headlessFirst' = headlessFirst /\ meddled' = meddled /\ view.status = "form"
  BY FitViews DEF Submit
<1>3. IsForm(f) /\ FitForm(f) /\ view.paths \in Seq(Paths)
  BY <1>2 DEF IsView, FitView, EditForm
<1>4. /\ IsComplete(f, view.saved) /\ IsValid(f, view.paths) /\ ~IsNonScalable(f) /\ ~IsNotInternalAndHasNoPublishedPorts(f)
  BY DEF Submit, Disabled, IsDeployUpdateButtonDisabled
<1>5. KindOf(f) \in Kinds
  BY <1>3, <1>4, KindFacts
<1>6. fresh \in Nat
  BY <1>2, LargestClaim DEF FitCluster
<1>7. Submittable(f, view.saved, view.paths)
  <2>1. f.publishing = "ingress" => ToService(f) # None
    BY <1>3, <1>4, PublishesSomething
  <2> HIDE DEF f
  <2> QED BY <1>3, <1>4, <1>5, <2>1 DEF Submittable
<1>8. /\ form.ports = f.ports /\ form.publishing = f.publishing /\ KindOf(form) = KindOf(f)
  BY <1>3, ConvertedFits DEF FormFields
<1> HIDE DEF calls, tries, form, fresh
<1>9. /\ view'.form = form /\ view'.calls = calls /\ view'.mode = view.mode /\ view'.saved = view.saved
      /\ view'.before = cluster /\ view'.tries = tries /\ view'.status = "calling"
  BY <1>1, <1>2 DEF IsView, ViewFields
<1>10. ~meddled /\ ~Leftovers(cluster) /\ RoutesUnambiguous(cluster) /\ (tries > 1 => view.mode = "create")
  BY <1>2, <1>9 DEF Trying, Unambiguous
<1>11. IsInjective(view.paths) => RowsSound(f.ports, view.paths)
  <2>1. RoutedView(view, cluster.paths)
    BY <1>2, <1>10 DEF Routing, Closed
  <2> QED BY <1>2, <2>1 DEF RoutedView
<1>12. /\ SeesService(view.before)' => sees
       /\ leaves => LeavesIngress'
  <2>1. SeesService(view.before)' => sees
    BY <1>2, <1>9 DEF SeesService, BoundService
  <2>2. leaves => LeavesIngress'
    BY <1>8, <1>9 DEF LeavesIngress
  <2> QED BY <2>1, <2>2
<1>13. Promised(calls, cluster, f, sees, leaves) /\ ~ToCome(calls, "ingress.get")
  <2> HIDE DEF f, sees
  <2>1. CASE view.mode = "create"
    <3>1. calls = CreateCalls(f, view.paths, fresh) /\ view.saved = None
      BY <1>2, <2>1 DEF calls, IsView
    <3>2. cluster.service = None => cluster.paths = view.paths
      BY <2>1 DEF Creating
    <3>3. RowsKept(f.ports, <<>>)
      BY <1>2, <2>1 DEF FitView, f
    <3>4. Submittable(f, None, view.paths)
      BY <1>7, <3>1
    <3>5. Promised(CreateCalls(f, view.paths, fresh), cluster, f, sees, FALSE)
      BY <1>2, <1>6, <1>10, <1>11, <3>2, <3>3, <3>4, CreatePromised
    <3>6. Promised(CreateCalls(f, view.paths, fresh), cluster, f, sees, leaves)
      <4> DEFINE s == CreateCalls(f, view.paths, fresh)
      <4> HIDE DEF s, leaves
      <4>1. Promised(s, cluster, f, sees, FALSE)
        BY <3>5 DEF s
      <4>2. Promised(s, cluster, f, sees, leaves)
        BY <4>1, PromisedSame
      <4> QED BY <4>2 DEF s
    <3>7. FitCalls(CreateCalls(f, view.paths, fresh), CreateOps)
      BY <1>3, <1>5, <1>6, CreateFits
    <3> QED BY <3>1, <3>6, <3>7, NotComing DEF CreateOps
  <2>2. CASE view.mode = "edit"
    <3>1. calls = PatchCalls(view.saved, f, view.paths, fresh)
      BY <2>2 DEF calls
    <3>2. view.tries = 0
      BY <1>10, <2>2 DEF Untried, tries
    <3>3. /\ view.paths = cluster.paths /\ cluster.app # None
          /\ view.saved = ApplicationToFormValues(cluster.app, BoundService(cluster), cluster.paths, BoundScaler(cluster), rwx)
      BY <1>2, <1>10, <2>2, <3>2 DEF Untried, AsRead
    <3>4. EditForm(f) /\ RowsKept(f.ports, view.saved.ports)
      BY <1>2, <2>2 DEF FitView, f
    <3>5. FitApp(cluster.app)
      BY <1>2, <3>3 DEF FitCluster
    <3>6. /\ Submittable(f, view.saved, cluster.paths)
          /\ IsInjective(cluster.paths) => RowsSound(f.ports, cluster.paths)
      BY <1>7, <1>11, <3>3
    <3>7. Promised(PatchCalls(view.saved, f, cluster.paths, fresh), cluster, f, SeesService(cluster),
                   view.saved.publishing = "ingress" /\ f.publishing # "ingress")
      BY <1>2, <1>6, <1>10, <3>3, <3>4, <3>5, <3>6, EditPromised
    <3>8. Promised(calls, cluster, f, sees, leaves)
      <4> DEFINE left == view.saved.publishing = "ingress" /\ f.publishing # "ingress"
                 s    == PatchCalls(view.saved, f, cluster.paths, fresh)
      <4>1. left => leaves
        BY <2>2
      <4>2. s = calls
        BY <3>1, <3>3
      <4> HIDE DEF s, left, leaves
      <4>3. Promised(s, cluster, f, sees, left)
        BY <3>7 DEF s, left, sees
      <4>4. Promised(s, cluster, f, sees, leaves)
        BY <4>1, <4>3, PromisedSame
      <4> QED BY <4>2, <4>4
    <3>9. ~ToCome(calls, "ingress.get")
      <4>1. PICK a : FitApp(a) /\ SavedAs(view.saved, a)
        BY <1>2, <2>2 DEF FitView, WasRead
      <4>2. f.deployment = "global" => ~f.scaler
        BY <3>4 DEF EditForm
      <4>3. FitCalls(PatchCalls(view.saved, f, view.paths, fresh), UpdateOps)
        BY <1>3, <1>5, <1>6, <4>1, <4>2, PatchFits
      <4>4. "ingress.get" \notin UpdateOps
        BY DEF UpdateOps, CreateOps, ServiceOps, ScalerOps
      <4> QED BY <3>1, <4>3, <4>4, NotComing
    <3> QED BY <3>8, <3>9
  <2> QED BY <1>2, <2>1, <2>2
<1> HIDE DEF leaves, sees, f
<1>14. Promised(calls, cluster, form, SeesService(view.before)', LeavesIngress')
  <2>1. form = Converted(f)
    BY DEF form
  <2> QED BY <1>3, <1>12, <1>13, <2>1, PromisedConverted
<1>15. Promised(view.calls, cluster, view.form, SeesService(view.before), LeavesIngress)'
  BY <1>2, <1>9, <1>14
<1>16. KindOf(view.form)' \in Kinds /\ ~ToCome(view'.calls, "ingress.get") /\ view'.status = "calling"
  BY <1>5, <1>8, <1>9, <1>13
<1> QED BY <1>15, <1>16 DEF Submitted

LEMMA NextCallSubmitted == Shape /\ Submitted /\ NextCall => Submitted'
<1> SUFFICES ASSUME Shape, Submitted, NextCall, Trying' PROVE Submitted'
  BY DEF Submitted
<1> DEFINE call == Head(view.calls)
           rest == Tail(view.calls)
<1>1. /\ IsView(view) /\ IsCluster(cluster) /\ view.calls # <<>> /\ IsSeq(view.calls) /\ view.status = "calling"
      /\ meddled' = meddled /\ headlessFirst' = headlessFirst
  BY NextCallCases, OpenViews DEF IsView, Shape
<1>2. ToSet(view.calls) = {call} \cup ToSet(rest) /\ IsCall(call)
  <2>1. Len(view.calls) \in Nat \ {0} /\ call = view.calls[1]
    BY <1>1, TailFacts
  <2> QED BY <1>1, <2>1, HeadAndTail DEF IsView
<1>3. CallDone(call) \/ CallFailed(call)
  BY NextCallCases
<1>4. CASE CallFailed(call)
  <2>1. view'.mode = view.mode /\ view'.status = IF view.mode = "delete" THEN "failed" ELSE "form"
    BY <1>1, <1>4 DEF IsView, ViewFields, CallFailed
  <2> QED BY <2>1 DEF Trying
<1>5. CASE CallDone(call)
  <2> HIDE DEF call, rest
  <2> DEFINE calls == IF call.op = "ingress.get" THEN RoutesCalls(call) \o rest ELSE rest
  <2>1. view' = [view EXCEPT !.calls = calls] /\ Applies(call) /\ cluster' = Effect(call)
    BY <1>5 DEF CallDone, rest
  <2> HIDE DEF calls
  <2>2. /\ view'.calls = calls /\ view'.mode = view.mode /\ view'.saved = view.saved /\ view'.form = view.form
        /\ view'.before = view.before /\ view'.tries = view.tries /\ view'.status = "calling"
    BY <1>1, <2>1 DEF IsView, ViewFields
  <2>3. Trying
    BY <1>1, <2>2 DEF Trying
  <2>4. /\ KindOf(view.form) \in Kinds /\ ~ToCome(view.calls, "ingress.get")
        /\ Promised(view.calls, cluster, view.form, SeesService(view.before), LeavesIngress)
    BY <2>3 DEF Submitted
  <2>5. call.op # "ingress.get" /\ ~ToCome(rest, "ingress.get")
    BY <1>2, <2>4 DEF ToCome
  <2>6. calls = rest
    BY <2>5 DEF calls
  <2>7. Promised(rest, Effect(call), view.form, SeesService(view.before), LeavesIngress)
    <3>1. call = Head(view.calls) /\ rest = Tail(view.calls)
      BY DEF call, rest
    <3> QED BY <1>1, <1>2, <2>1, <2>4, <3>1, PromisedNext
  <2>8. (SeesService(view.before)' => SeesService(view.before)) /\ (LeavesIngress => LeavesIngress')
    BY <1>1, <2>2 DEF SeesService, BoundService, LeavesIngress
  <2>9. Promised(rest, Effect(call), view.form, SeesService(view.before)', LeavesIngress')
    BY <2>7, <2>8, PromisedSame
  <2>10. Promised(view.calls, cluster, view.form, SeesService(view.before), LeavesIngress)'
    BY <2>1, <2>2, <2>6, <2>9
  <2>11. KindOf(view.form)' \in Kinds /\ ~ToCome(view'.calls, "ingress.get")
    BY <2>2, <2>4, <2>5, <2>6
  <2> QED BY <2>2, <2>10, <2>11 DEF Submitted
<1> QED BY <1>3, <1>4, <1>5

LEMMA OthersSubmitted ==
  Shape /\ Submitted /\ (OpenCreate \/ OpenEdit \/ Change \/ OpenList \/ ConfirmDelete \/ Finish \/ Leave \/ Meddle)
    => Submitted'
<1> SUFFICES ASSUME Shape, Submitted,
                    OpenCreate \/ OpenEdit \/ Change \/ OpenList \/ ConfirmDelete \/ Finish \/ Leave \/ Meddle
             PROVE  Submitted'
  OBVIOUS
<1>1. CASE OpenCreate \/ OpenEdit \/ OpenList \/ Leave
  <2>1. OpenCreate => view'.status = "form"
    BY DEF OpenCreate
  <2>2. OpenEdit => view'.status = "form"
    BY DEF OpenEdit
  <2>3. OpenList => view'.status = "form"
    BY DEF OpenList
  <2>4. Leave => view'.status = "closed"
    BY DEF Leave, Closed
  <2> QED BY <1>1, <2>1, <2>2, <2>3, <2>4 DEF Submitted, Trying
<1>2. CASE Change
  <2>1. IsView(view) /\ view.status = "form"
    BY <1>2, OpenViews DEF Change
  <2>2. view'.status = "form"
    BY <1>2, <2>1 DEF Change, IsView, ViewFields
  <2> QED BY <2>2 DEF Submitted, Trying
<1>3. CASE ConfirmDelete
  <2>1. IsView(view) /\ view.mode = "delete"
    BY <1>3, OpenViews DEF ConfirmDelete
  <2>2. view'.mode = "delete"
    BY <1>3, <2>1 DEF ConfirmDelete, IsView, ViewFields
  <2> QED BY <2>2 DEF Submitted, Trying
<1>4. CASE Finish
  <2>1. /\ IsView(view) /\ view.status = "calling" /\ view.calls = <<>> /\ cluster' = cluster /\ meddled' = meddled
        /\ headlessFirst' = headlessFirst
    BY <1>4, OpenViews DEF Finish
  <2>2. \A x \in ViewFields \ {"status"} : view'[x] = view[x]
    BY <1>4, <2>1 DEF Finish, IsView, ViewFields
  <2>3. /\ view'.before = view.before /\ view'.form = view.form /\ view'.saved = view.saved
        /\ view'.calls = view.calls /\ view'.mode = view.mode /\ view'.tries = view.tries
    BY <2>2 DEF ViewFields
  <2> SUFFICES ASSUME Trying' PROVE Submitted'
    BY DEF Submitted
  <2>4. Trying
    BY <2>1, <2>3 DEF Trying
  <2>5. /\ KindOf(view.form) \in Kinds /\ ~ToCome(view.calls, "ingress.get")
        /\ Promised(view.calls, cluster, view.form, SeesService(view.before), LeavesIngress)
    BY <2>4 DEF Submitted
  <2>6. (SeesService(view.before)' => SeesService(view.before)) /\ (LeavesIngress => LeavesIngress')
    BY <2>1, <2>3 DEF SeesService, BoundService, LeavesIngress
  <2>7. Promised(view.calls, cluster, view.form, SeesService(view.before)', LeavesIngress')
    BY <2>5, <2>6, PromisedSame
  <2>8. Promised(view.calls, cluster, view.form, SeesService(view.before), LeavesIngress)'
    BY <2>1, <2>3, <2>7
  <2>9. KindOf(view.form)' \in Kinds /\ ~ToCome(view'.calls, "ingress.get") /\ view'.calls = <<>>
    BY <2>1, <2>3, <2>5
  <2> QED BY <2>8, <2>9 DEF Submitted
<1>5. CASE Meddle
  BY <1>5 DEF Meddle, Submitted, Trying
<1> QED BY <1>1, <1>2, <1>3, <1>4, <1>5

\* Once nothing is left to call, the promise is kept.
LEMMA PromiseKept ==
  ASSUME NEW c, NEW f, NEW sees, NEW leaves, Promised(<<>>, c, f, sees, leaves)
  PROVE  Right(Held(c), f, sees, leaves)
<1>1. ~StuckOn(<<>>, c)
  BY NothingToCome DEF StuckOn
<1>2. PICK x : Makes(<<>>, Held(c), x) /\ Right(x, f, sees, leaves)
  BY <1>1 DEF Promised
<1>3. x = Held(c)
  BY <1>2, MadeNothing
<1> QED BY <1>2, <1>3

LEMMA SubmittedIsMet == Shape /\ Fit /\ Submitted => AsSubmitted
<1> SUFFICES ASSUME Shape, Fit, Submitted, AtFirst, ~Leftovers(view.before), Unambiguous(view.before)
             PROVE  /\ FacetsAsSubmitted /\ RoutesAsSubmitted
                    /\ AppUnambiguous(cluster) /\ (RoutesUnambiguous(cluster) \/ LeavesIngress)
  BY DEF AsSubmitted
<1> DEFINE f    == view.form
           x    == Held(cluster)
           sees == SeesService(view.before)
<1>1. FitView(view) /\ IsView(view) /\ IsCluster(cluster) /\ view.mode \in {"create", "edit"}
  BY FitViews DEF AtFirst, Done
<1>2. FitForm(f) /\ IsForm(f)
  BY <1>1 DEF FitView, IsView, EditForm
<1>3. Trying /\ view.status = "done"
  BY DEF Trying, AtFirst, Done
<1>4. KindOf(f) \in Kinds /\ Promised(<<>>, cluster, f, sees, LeavesIngress)
  <2>1. view.calls = <<>> /\ KindOf(f) \in Kinds /\ Promised(view.calls, cluster, f, sees, LeavesIngress)
    BY <1>3 DEF Submitted
  <2> QED BY <2>1
<1>5. x.app = cluster.app /\ x.service = cluster.service /\ x.scaler = cluster.scaler /\ x.paths = cluster.paths
  BY HeldFields
<1> HIDE DEF f, sees
<1>6. Right(x, f, sees, LeavesIngress)
  BY <1>4, PromiseKept
<1> HIDE DEF x
<1>7. PICK fresh \in Nat : Alike(x.app, ToApplication(f, fresh))
  BY <1>6 DEF Right
<1>8. /\ FitApp(cluster.app) /\ Alike(cluster.app, ToApplication(f, fresh))
      /\ IsInjective(cluster.app.env) /\ Mountable(cluster.app.mounts)
      /\ sees => ServiceFits(cluster.service, f)
      /\ (cluster.scaler # None /\ cluster.scaler.kind = KindOf(f)) <=> (f.scaler /\ f.deployment # "global")
      /\ f.publishing = "ingress" => Own(cluster.paths) = KeptRoutes(f.ports)
      /\ RoutesOnce(cluster.paths) \/ LeavesIngress
  BY <1>5, <1>6, <1>7 DEF Right
<1>9. cluster.app # None
  BY <1>8, NoneFacts DEF FitApp
<1>10. cluster.app.kind = KindOf(f)
  BY <1>2, <1>8, ApplicationOf DEF Alike
<1>11. BoundScaler(cluster) # None <=> (f.scaler /\ f.deployment # "global")
  BY <1>8, <1>10 DEF BoundScaler
<1>12. ASSUME sees
       PROVE  Facets(ApplicationToFormValues(cluster.app, cluster.service, cluster.paths, BoundScaler(cluster), rwx)) = Facets(f)
  <2>1. cluster.paths \in Seq(Paths) /\ ServiceFits(cluster.service, f)
    BY <1>1, <1>8, <1>12 DEF IsCluster
  <2> QED BY <1>2, <1>4, <1>8, <2>1, FacetsRead
<1>13. FacetsAsSubmitted
  BY <1>9, <1>11, <1>12 DEF FacetsAsSubmitted, f, sees
<1>14. RoutesAsSubmitted
  BY <1>8 DEF RoutesAsSubmitted, KeptRoutes, f
<1>15. AppUnambiguous(cluster)
  BY <1>8 DEF AppUnambiguous
<1>16. RoutesUnambiguous(cluster) \/ LeavesIngress
  <2>1. IsSeq(cluster.paths)
    BY <1>1, SeqIsSeq DEF IsCluster
  <2> QED BY <1>8, <2>1, RoutesOnceIs
<1> QED BY <1>13, <1>14, <1>15, <1>16

\* What forms can be read from, and what the views know
Reading == Fit /\ Creating /\ Untried

\* Each step keeps it.
LEMMA ReadingInit == ApplicationsInit => Reading
BY FitInit, CreatingInit, UntriedInit DEF Reading

LEMMA ReadingNext == Shape /\ Reading /\ ApplicationsNext => Reading'
<1>1. Shape /\ Fit /\ ApplicationsNext => Fit'
  BY OpenCreateFit, OpenEditFit, ChangeFit, SubmitFit, OpenListFit, NextCallFit, StatusFit, MeddleFit DEF ApplicationsNext
<1>2. Shape /\ Fit /\ Creating /\ ApplicationsNext => Creating'
  BY OpenCreateCreating, SubmitCreating, NextCallCreating, OthersCreating DEF ApplicationsNext
<1>3. Shape /\ Untried /\ ApplicationsNext => Untried'
  BY OpenEditUntried, OthersUntried DEF ApplicationsNext
<1> QED BY <1>1, <1>2, <1>3 DEF Reading

\* An application that was deployed or updated with success, at the first try and where nothing
\* was left over or twice before, is the one of the form: opened again it has its kind, variables,
\* folders, ports, replicas, placements and scaling, behind the ingress its routes are those of the
\* rows that were kept, and no variable, path or route is there twice (applicationService.js,
\* createAsync and patchAsync, with the converters there and back).
THEOREM ApplicationsAreAsSubmitted == KubeSpec => []AsSubmitted
<1> DEFINE Inv == Reading /\ Submitted
<1>1. ApplicationsInit => Inv
  <2>1. ApplicationsInit => Submitted
    BY DEF ApplicationsInit, Submitted, Trying, Closed
  <2> QED BY <2>1, ReadingInit
<1>2. Shape /\ Routing /\ Inv /\ [ApplicationsNext]_kubeVars => Inv'
  <2> SUFFICES ASSUME Shape, Routing, Inv, [ApplicationsNext]_kubeVars PROVE Inv'
    OBVIOUS
  <2>1. CASE ApplicationsNext
    <3>1. Fit /\ Creating /\ Untried
      BY DEF Reading
    <3>2. Reading'
      BY <2>1, ReadingNext
    <3>3. Submitted'
      BY <2>1, <3>1, SubmitSubmitted, NextCallSubmitted, OthersSubmitted DEF ApplicationsNext
    <3> QED BY <3>2, <3>3
  <2>2. CASE UNCHANGED kubeVars
    <3>1. UNCHANGED <<cluster, view, meddled, rwx, headlessFirst>>
      BY <2>2 DEF kubeVars
    <3>2. Fit' /\ Creating'
      BY <3>1 DEF Reading, Fit, Creating
    <3>3. Untried'
      BY <3>1 DEF Reading, Untried, AsRead, BoundService, BoundScaler
    <3>4. Submitted'
      BY <3>1 DEF Submitted, Trying, SeesService, BoundService, LeavesIngress
    <3> QED BY <3>2, <3>3, <3>4 DEF Reading
  <2> QED BY <2>1, <2>2
<1>3. Shape /\ Inv => AsSubmitted
  BY SubmittedIsMet DEF Reading
<1>4. KubeSpec => [](Shape /\ Routing)
  BY RoutingInvariance, PTL
<1> HIDE DEF Inv
<1> QED BY <1>1, <1>2, <1>3, <1>4, PTL DEF KubeSpec

===============================================================================
