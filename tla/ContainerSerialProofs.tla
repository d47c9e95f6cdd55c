------------------------ MODULE ContainerSerialProofs ------------------------
(***************************************************************************)
(* Proofs about ContainerViews when chains come one at a time, whichever   *)
(* of their calls fail and whichever answers are lost: the old container   *)
(* or the new one remains, what the user agreed to lose is all that is     *)
(* removed, what is undone leaves no trace, and no network is lost.        *)
(***************************************************************************)
EXTENDS ContainerViewsProofs

OneChain == \A c, d \in Chains : c = d

Was(c, id) == chains[c].before[id] \notin {None, Gone}

\* A container is as it was, but for its networks.
AsBefore(c, id) ==
  /\ Exists(id)
  /\ engine[id].name = chains[c].before[id].name
  /\ engine[id].control = chains[c].before[id].control
  /\ engine[id].status = chains[c].before[id].status

\* The old container, or one that may have been stopped and renamed
OldInv(c) ==
  LET q == chains[c] IN
  q.old # 0 =>
    /\ Was(c, q.old) /\ q.before[q.old].name = q.name
    /\ q.step # "done" => /\ Exists(q.old)
                          /\ engine[q.old].control = q.before[q.old].control
                          /\ engine[q.old].status \in {q.before[q.old].status, "exited"}
    /\ q.step # "confirm" => q.old \in agreed

\* While nobody interferes, the containers there were are as they were, but for the
\* old one, whose name no other had; and a container that there was not has that name.
SoleInv(c) ==
  LET q == chains[c] IN
  /\ q.step = "find" => q.old = 0
  /\ q.step \in {"find", "confirm"} => \A id \in Ids : Exists(id) => Was(c, id)
  /\ \A id \in Ids \ {q.old} : Was(c, id) => AsBefore(c, id)
  /\ \A id \in Ids : Exists(id) /\ ~Was(c, id) => engine[id].name = q.name
  /\ q.step # "find" =>
       \A id \in Ids \ {q.old} : Was(c, id) => q.before[id].name # q.name
  /\ OldInv(c)
  /\ q.step \in {"start", "control", "connect", "remove", "done"} => Exists(q.new)
  /\ q.step = "restored" => /\ \A id \in Ids : Exists(id) => Was(c, id)
                            /\ q.old # 0 /\ engine[q.old].name = q.name

SerialInv == \A c \in Chains : chains[c] # Idle /\ mishaps = {} /\ ~meddled => SoleInv(c)

-----------------------------------------------------------------------------
(* What the calls of the only chain do to the containers.                  *)

Unharmed(id) ==
  Exists(id) /\ Exists(id)' /\ SameName(id) /\ SameControl(id) /\ SameStatus(id)

\* The containers there were are not harmed, and those there were not have its name.
Gentle(c) ==
  /\ \A id \in Ids \ {chains[c].old} : Was(c, id) => Unharmed(id)
  /\ \A id \in Ids : Exists(id)' /\ ~Was(c, id) => engine'[id].name = chains[c].name

\* The old container may have been stopped and renamed.
OldKept(c) ==
  \A id \in Ids : id = chains[c].old /\ Exists(id) =>
    Exists(id)' /\ SameControl(id) /\ engine'[id].status \in {engine[id].status, "exited"}

LEMMA GentleCalls ==
  ASSUME IInv, NEW c \in Chains, chains[c] # Idle, SoleInv(c),
         \/ UNCHANGED engine
         \/ \E id \in Ids : /\ id = chains[c].old /\ Told(id) /\ SameControl(id)
                            /\ SameStatus(id) \/ engine'[id].status = "exited"
         \/ \E id \in Ids : id = chains[c].new /\ Told(id) /\ SameName(id)
         \/ \E id \in Ids : Made(c, id)
  PROVE  Gentle(c) /\ OldKept(c)
<1>1. /\ \A id \in Ids \ {chains[c].old} : Was(c, id) => AsBefore(c, id)
      /\ \A id \in Ids : Exists(id) /\ ~Was(c, id) => engine[id].name = chains[c].name
  BY DEF SoleInv
<1>2. chains[c].old # 0 => Was(c, chains[c].old)
  BY DEF SoleInv, OldInv
<1>3. CASE UNCHANGED engine
  BY <1>1, <1>3 DEF Gentle, OldKept, Unharmed, AsBefore, Exists, SameName, SameControl, SameStatus
<1>4. ASSUME NEW k \in Ids, k = chains[c].old, Told(k), SameControl(k),
             SameStatus(k) \/ engine'[k].status = "exited"
      PROVE  Gentle(c) /\ OldKept(c)
  <2>1. \A id \in Ids \ {k} : engine'[id] = engine[id] /\ (Exists(id)' <=> Exists(id))
    BY <1>4 DEF Told, Only, Exists
  <2>2. Was(c, k)
    BY <1>2, <1>4 DEF Ids
  <2> QED BY <1>1, <1>4, <2>1, <2>2
          DEF Gentle, OldKept, Unharmed, AsBefore, SameName, SameControl, SameStatus, Told
<1>5. ASSUME NEW k \in Ids, Only(k), ~Was(c, k), Exists(k)' => engine'[k].name = chains[c].name
      PROVE  Gentle(c) /\ OldKept(c)
  <2>1. \A id \in Ids \ {k} : engine'[id] = engine[id] /\ (Exists(id)' <=> Exists(id))
    BY <1>5 DEF Only, Exists
  <2>2. k # chains[c].old
    BY <1>2, <1>5 DEF Ids
  <2> QED BY <1>1, <1>5, <2>1, <2>2
          DEF Gentle, OldKept, Unharmed, AsBefore, SameName, SameControl, SameStatus
<1>6. ASSUME NEW k \in Ids, k = chains[c].new, Told(k), SameName(k)
      PROVE  Gentle(c) /\ OldKept(c)
  <2>1. ~Was(c, k)
    BY <1>6 DEF IInv, ChainInv, Was, Ids
  <2> QED BY <1>1, <1>5, <1>6, <2>1 DEF Told, SameName
<1>7. ASSUME NEW k \in Ids, Made(c, k)
      PROVE  Gentle(c) /\ OldKept(c)
  <2>1. ~Was(c, k)
    BY <1>7 DEF IInv, ChainInv, Was, Made
  <2> QED BY <1>5, <1>7, <2>1 DEF Made
<1> QED BY <1>3, <1>4, <1>6, <1>7

\* Once the name has been looked for, what is gentle keeps the invariant.
LEMMA SoleKept ==
  ASSUME NEW c \in Chains, SoleInv(c), Carries(c), Gentle(c), chains'[c].old = chains[c].old,
         chains[c].step \notin {"find", "done"},
         chains'[c].step \notin {"find", "confirm", "restored"},
         chains'[c].step # "done" => OldKept(c),
         chains[c].old \in 0 .. MaxContainers,
         chains[c].old # 0 => chains[c].old \in agreed',
         chains'[c].step \in {"start", "control", "connect", "remove", "done"} =>
           \E id \in Ids : id = chains'[c].new /\ Exists(id)'
  PROVE  SoleInv(c)'
<1>1. \A id \in Ids : Was(c, id)' <=> Was(c, id)
  BY DEF Was, Carries
<1>2. \A id \in Ids \ {chains[c].old} : Was(c, id) => AsBefore(c, id)'
  BY DEF SoleInv, Gentle, Unharmed, AsBefore, SameName, SameControl, SameStatus, Carries
<1>3. \A id \in Ids : Exists(id)' /\ ~Was(c, id) => engine'[id].name = chains'[c].name
  BY DEF Gentle, Carries
<1>4. \A id \in Ids \ {chains[c].old} : Was(c, id) => chains'[c].before[id].name # chains'[c].name
  BY DEF SoleInv, Carries
<1>5. OldInv(c)'
  <2> SUFFICES ASSUME chains[c].old # 0
               PROVE  OldInv(c)'
    BY DEF OldInv
  <2>1. PICK id \in Ids : id = chains[c].old
    BY ContainerAssumption DEF Ids
  <2>2. /\ Was(c, id) /\ chains[c].before[id].name = chains[c].name /\ Exists(id)
        /\ engine[id].control = chains[c].before[id].control
        /\ engine[id].status \in {chains[c].before[id].status, "exited"}
    BY <2>1 DEF SoleInv, OldInv
  <2>3. chains'[c].step # "done" => /\ Exists(id)' /\ engine'[id].control = engine[id].control
                                    /\ engine'[id].status \in {engine[id].status, "exited"}
    BY <2>1, <2>2 DEF OldKept, SameControl
  <2> QED BY <1>1, <2>1, <2>2, <2>3 DEF OldInv, Carries
<1>6. chains'[c].step \in {"start", "control", "connect", "remove", "done"} => Exists(chains[c].new)'
  OBVIOUS
<1> QED BY <1>1, <1>2, <1>3, <1>4, <1>5, <1>6 DEF SoleInv, Ids

LEMMA SoleGoto ==
  ASSUME IInv, NEW c \in Chains, chains[c] # Idle, SoleInv(c), Gentle(c),
         chains[c].step \notin {"find", "done"},
         NEW step \in Steps \ {"find", "confirm", "restored"}, Goto(c, step),
         step # "done" => OldKept(c),
         chains[c].step = "confirm" => chains[c].old \in agreed',
         agreed \subseteq agreed',
         step \in {"start", "control", "connect", "remove", "done"} =>
           \E id \in Ids : id = chains[c].new /\ Exists(id)'
  PROVE  SoleInv(c)'
<1>1. /\ Carries(c) /\ chains'[c].step = step
      /\ chains'[c].old = chains[c].old /\ chains'[c].new = chains[c].new
  BY GotoStep
<1>2. chains[c].old \in 0 .. MaxContainers
  BY DEF IInv, ChainInv, IsChain
<1>3. chains[c].old # 0 => chains[c].old \in agreed'
  BY DEF SoleInv, OldInv
<1> QED BY <1>1, <1>2, <1>3, SoleKept

-----------------------------------------------------------------------------
(* The steps of the only chain.                                            *)

\* The new container is there from its creation on.
LEMMA NewThere ==
  ASSUME IInv, NEW c \in Chains, chains[c] # Idle, SoleInv(c),
         chains[c].step \in {"start", "control", "connect", "remove"}
  PROVE  \E id \in Ids : id = chains[c].new /\ Exists(id) /\ ~Was(c, id) /\ id # chains[c].old
<1>1. PICK id \in Ids : id = chains[c].new /\ Exists(id)
  BY DEF SoleInv, Exists
<1>2. ~Was(c, id)
  BY <1>1 DEF IInv, ChainInv, Was, Ids
<1>3. id # chains[c].old
  BY <1>1, <1>2 DEF SoleInv, OldInv, Ids
<1> QED BY <1>1, <1>2, <1>3

\* The calls before the removal
LEMMA SoleCalls ==
  ASSUME IInv, NEW c \in Chains, SoleInv(c),
         \/ StopContainerIfNeeded(c) \/ RecreateStop(c) \/ RenameContainer(c) \/ RecreateRename(c)
         \/ StartContainer(c) \/ RecreateStart(c) \/ ApplyResourceControl(c) \/ RecreateControl(c)
         \/ ConnectToExtraNetworks(c) \/ RecreateConnect(c)
  PROVE  SoleInv(c)'
<1>1. CASE StopContainerIfNeeded(c) \/ RecreateStop(c) \/ RenameContainer(c) \/ RecreateRename(c)
  <2>1. /\ chains[c] # Idle /\ chains[c].step \in {"stop", "rename"} /\ UNCHANGED agreed
        /\ \/ UNCHANGED engine
           \/ \E id \in Ids : /\ id = chains[c].old /\ Told(id) /\ SameControl(id)
                              /\ SameStatus(id) \/ engine'[id].status = "exited"
        /\ \E step \in {"rename", "create", "findnew", "failed"} : Goto(c, step)
    BY <1>1, StopCalls, RenameCalls
  <2>2. Gentle(c) /\ OldKept(c)
    BY <2>1, GentleCalls
  <2> QED BY <2>1, <2>2, SoleGoto DEF Steps
<1>2. CASE \/ StartContainer(c) \/ RecreateStart(c) \/ ApplyResourceControl(c) \/ RecreateControl(c)
           \/ ConnectToExtraNetworks(c) \/ RecreateConnect(c)
  <2>1. /\ chains[c] # Idle /\ chains[c].step \in {"start", "control", "connect"} /\ UNCHANGED agreed
        /\ UNCHANGED engine \/ \E id \in Ids : id = chains[c].new /\ Told(id) /\ SameName(id)
        /\ \E step \in {"start", "control", "connect", "remove", "done", "findnew", "failed"} : Goto(c, step)
    BY <1>2, StartCalls, ControlCalls, ConnectCalls
  <2>2. Gentle(c) /\ OldKept(c)
    BY <2>1, GentleCalls
  <2>3. \E id \in Ids : id = chains[c].new /\ Exists(id)'
    BY <2>1, NewThere DEF Told, Exists
  <2> QED BY <2>1, <2>2, <2>3, SoleGoto DEF Steps
<1> QED BY <1>1, <1>2

LEMMA SoleCreate ==
  ASSUME IInv, NEW c \in Chains, SoleInv(c), CreateNewContainer(c) \/ RecreateCreate(c)
  PROVE  SoleInv(c)'
<1>1. chains[c] # Idle /\ chains[c].step = "create" /\ UNCHANGED agreed
  BY CreateCalls
<1>2. Gentle(c) /\ OldKept(c)
  BY <1>1, CreateCalls, GentleCalls
<1>3. ASSUME NEW step \in {"findnew", "failed"}, Goto(c, step)
      PROVE  SoleInv(c)'
  BY <1>1, <1>2, <1>3, SoleGoto DEF Steps
<1>4. ASSUME NEW id \in Ids, Made(c, id), NEW step \in {"start", "connect"},
             chains' = [chains EXCEPT ![c].step = step, ![c].new = id]
      PROVE  SoleInv(c)'
  <2>1. /\ Carries(c) /\ chains'[c].step = step
        /\ chains'[c].old = chains[c].old /\ chains'[c].new = id
    BY <1>1, <1>4, NewStep DEF Steps
  <2>2. chains[c].old \in 0 .. MaxContainers
    BY <1>1 DEF IInv, ChainInv, IsChain
  <2>3. chains[c].old # 0 => chains[c].old \in agreed'
    BY <1>1 DEF SoleInv, OldInv
  <2>4. Exists(id)'
    BY <1>4 DEF Made
  <2> QED BY <1>1, <1>2, <2>1, <2>2, <2>3, <2>4, SoleKept
<1> QED BY <1>3, <1>4, CreateCalls

\* The removals: of the old container by then, and of the new one
LEMMA SoleRemovals ==
  ASSUME IInv, NEW c \in Chains, SoleInv(c), mishaps' = {},
         RemoveOldContainer(c) \/ RecreateRemove(c) \/ RemoveNewContainer(c)
  PROVE  SoleInv(c)'
<1>1. chains[c] # Idle /\ chains[c].step \in {"remove", "findnew"} /\ UNCHANGED agreed
  BY RemovalCalls, RemoveNewCalls
<1>2. ASSUME UNCHANGED engine, NEW step \in {"restore", "findnew", "failed"}, Goto(c, step)
      PROVE  SoleInv(c)'
  <2>1. Gentle(c) /\ OldKept(c)
    BY <1>1, <1>2, GentleCalls
  <2> QED BY <1>1, <1>2, <2>1, SoleGoto DEF Steps
<1>3. ASSUME NEW k \in Ids, Taken(k)
      PROVE  /\ ~Exists(k)'
             /\ \A id \in Ids \ {k} : engine'[id] = engine[id] /\ (Exists(id)' <=> Exists(id))
  BY <1>3 DEF Taken, Only, Exists
<1>4. ASSUME NEW k \in Ids, k = chains[c].old, Taken(k), chains[c].step = "remove", Goto(c, "done")
      PROVE  SoleInv(c)'
  <2>1. Gentle(c)
    BY <1>3, <1>4 DEF SoleInv, Gentle, AsBefore, Unharmed, SameName, SameControl, SameStatus
  <2>2. \E id \in Ids : id = chains[c].new /\ Exists(id)'
    BY <1>1, <1>3, <1>4, NewThere
  <2> QED BY <1>1, <1>4, <2>1, <2>2, SoleGoto DEF Steps
<1>5. ASSUME NEW k \in Ids, k # chains[c].old, engine[k].name = chains[c].name, Taken(k),
             chains[c].step = "findnew", NEW step \in {"restore", "failed"}, Goto(c, step)
      PROVE  SoleInv(c)'
  <2>1. ~Was(c, k)
    BY <1>5 DEF SoleInv, AsBefore
  <2>2. Gentle(c) /\ OldKept(c)
    BY <1>3, <1>5, <2>1
       DEF SoleInv, Gentle, OldKept, AsBefore, Unharmed, SameName, SameControl, SameStatus
  <2> QED BY <1>1, <1>5, <2>2, SoleGoto DEF Steps
<1>6. CASE RemoveOldContainer(c) \/ RecreateRemove(c)
  BY <1>2, <1>4, <1>6, RemovalCalls
<1>7. CASE RemoveNewContainer(c)
  <2>1. PICK step \in {"restore", "failed"} : Goto(c, step)
    BY <1>7, RemoveNewCalls
  <2> QED BY <1>2, <1>5, <1>7, <2>1, RemoveNewCalls
<1> QED BY <1>6, <1>7

\* The old container can have its name back only where nobody has it: those that were
\* made have it, so there are none.
LEMMA SoleRestore ==
  ASSUME IInv, NEW c \in Chains, SoleInv(c), RestoreOldContainerName(c)
  PROVE  SoleInv(c)'
<1>1. chains[c] # Idle /\ chains[c].step = "restore" /\ UNCHANGED agreed
  BY RestoreCalls
<1>2. Gentle(c) /\ OldKept(c)
  BY <1>1, RestoreCalls, GentleCalls
<1>3. CASE Goto(c, "failed")
  BY <1>1, <1>2, <1>3, SoleGoto DEF Steps
<1>4. ASSUME NEW k \in Ids, k = chains[c].old, Named(chains[c].name) = {}, Told(k),
             engine'[k].name = chains[c].name, Goto(c, "restored")
      PROVE  SoleInv(c)'
  <2>1. /\ Carries(c) /\ chains'[c].step = "restored" /\ chains'[c].old = k
    BY <1>1, <1>4, GotoStep DEF Steps
  <2>2. \A id \in Ids : Was(c, id)' <=> Was(c, id)
    BY <2>1 DEF Was, Carries
  <2>3. \A id \in Ids : Exists(id)' <=> Exists(id)
    BY <1>4 DEF Told, Only, Exists
  <2>4. \A id \in Ids : Exists(id) => Was(c, id)
    BY <1>4 DEF SoleInv, Named
  <2>5. \A id \in Ids \ {k} : Was(c, id) => AsBefore(c, id)'
    BY <1>2, <1>4, <2>1
       DEF SoleInv, Gentle, Unharmed, AsBefore, SameName, SameControl, SameStatus, Carries
  <2>6. \A id \in Ids \ {k} : Was(c, id) => chains'[c].before[id].name # chains'[c].name
    BY <1>1, <1>4, <2>1 DEF SoleInv, Carries
  <2>7. OldInv(c)'
    BY <1>1, <1>2, <1>4, <2>1, <2>2 DEF SoleInv, OldInv, OldKept, SameControl, Carries, Ids
  <2>8. \A id \in Ids : Exists(id)' => Was(c, id)'
    BY <2>2, <2>3, <2>4
  <2>9. k # 0 /\ engine'[k].name = chains'[c].name
    BY <1>4, <2>1 DEF Carries, Ids
  <2>10. \A id \in Ids \ {k} : Was(c, id)' => AsBefore(c, id)' /\ chains'[c].before[id].name # chains'[c].name
    BY <2>2, <2>5, <2>6
  <2> QED BY <2>1, <2>7, <2>8, <2>9, <2>10 DEF SoleInv
<1> QED BY <1>1, <1>3, <1>4, RestoreCalls

\* The user opens a form, or confirms that a container is to be created anew.
LEMMA SoleOpen ==
  ASSUME IInv, NEW c \in Chains, OpenCreate(c) \/ OpenRecreate(c)
  PROVE  SoleInv(c)'
<1>1. ASSUME NEW q, Opened(c, q)
      PROVE  /\ chains'[c] = q /\ q.before = engine /\ UNCHANGED engine
             /\ \A id \in Ids : Exists(id)' <=> Was(c, id)'
             /\ \A id \in Ids : Was(c, id)' => AsBefore(c, id)'
  BY <1>1, OpenStep DEF Opened, Was, AsBefore, Exists
<1>2. CASE OpenCreate(c)
  <2>1. PICK q : Opened(c, q) /\ q.step = "find" /\ q.old = 0
    BY <1>2, CreateOpens
  <2>2. /\ chains'[c] = q
        /\ \A id \in Ids : Exists(id)' <=> Was(c, id)'
        /\ \A id \in Ids : Was(c, id)' => AsBefore(c, id)'
    BY <1>1, <2>1
  <2> QED BY <2>1, <2>2 DEF SoleInv, OldInv
<1>3. CASE OpenRecreate(c)
  <2>1. PICK k, q : /\ k \in Ids /\ Exists(k) /\ Opened(c, q) /\ q.step \in {"stop", "rename"}
                            /\ q.old = k /\ q.name = engine[k].name /\ agreed' = agreed \cup {k}
    BY <1>3, RecreateOpens
  <2>2. /\ chains'[c] = q /\ q.before = engine /\ UNCHANGED engine
        /\ \A id \in Ids : Exists(id)' <=> Was(c, id)'
        /\ \A id \in Ids : Was(c, id)' => AsBefore(c, id)'
    BY <1>1, <2>1
  <2>3. \A id \in Ids : Exists(id)' <=> Exists(id)
    BY <2>2 DEF Exists
  <2>4. OldInv(c)'
    BY <2>1, <2>2, <2>3 DEF OldInv, AsBefore
  <2>5. \A id \in Ids \ {k} : Was(c, id)' => q.before[id].name # q.name
    BY <2>1, <2>2, <2>3 DEF IInv, EngineInv
  <2> QED BY <2>1, <2>2, <2>4, <2>5 DEF SoleInv
<1> QED BY <1>2, <1>3

\* The name is looked for; a query that fails is a mishap.
LEMMA SoleFind ==
  ASSUME IInv, NEW c \in Chains, SoleInv(c), mishaps' = {}, FindCurrentContainer(c)
  PROVE  SoleInv(c)'
<1>1. /\ chains[c] # Idle /\ chains[c].step = "find" /\ Carries(c) /\ UNCHANGED engine
  BY FindCalls
<1>2. /\ \A id \in Ids : (Was(c, id)' <=> Was(c, id)) /\ (Exists(id)' <=> Exists(id))
      /\ \A id \in Ids : (Exists(id) <=> Was(c, id)) /\ (Was(c, id) => AsBefore(c, id))
  <2>1. \A id \in Ids : Was(c, id) => AsBefore(c, id)
    BY <1>1 DEF SoleInv, Ids
  <2> QED BY <1>1, <2>1 DEF SoleInv, Was, Carries, Exists, AsBefore
<1>3. \A id \in Ids : Was(c, id)' => AsBefore(c, id)'
  BY <1>1, <1>2 DEF AsBefore, Carries
<1>4. ASSUME chains'[c].step = "confirm", NEW k \in Named(chains[c].name), chains'[c].old = k
      PROVE  SoleInv(c)'
  <2>1. k \in Ids /\ Exists(k) /\ engine[k].name = chains[c].name
    BY <1>4 DEF Named
  <2>2. \A id \in Ids \ {k} : Was(c, id) => chains'[c].before[id].name # chains'[c].name
    BY <1>1, <1>2, <2>1 DEF IInv, EngineInv, AsBefore, Carries
  <2>3. OldInv(c)'
    BY <1>1, <1>2, <1>3, <1>4, <2>1 DEF OldInv, AsBefore, Carries
  <2> QED BY <1>1, <1>2, <1>3, <1>4, <2>2, <2>3 DEF SoleInv
<1>5. ASSUME chains'[c].step = "create", chains'[c].old = chains[c].old, Named(chains[c].name) = {}
      PROVE  SoleInv(c)'
  <2>1. chains'[c].old = 0
    BY <1>1, <1>5 DEF SoleInv
  <2>2. \A id \in Ids : Was(c, id) => chains'[c].before[id].name # chains'[c].name
    BY <1>1, <1>2, <1>5 DEF AsBefore, Named, Carries
  <2> QED BY <1>2, <1>3, <1>5, <2>1, <2>2 DEF SoleInv, OldInv
<1> QED BY <1>4, <1>5, FindCalls

\* Nobody is asked twice.
LEMMA SoleConfirm ==
  ASSUME IInv, NEW c \in Chains, SoleInv(c), ConfirmCreateContainer(c), chains'[c] # Idle
  PROVE  SoleInv(c)'
<1>1. /\ chains[c] # Idle /\ chains[c].step = "confirm" /\ UNCHANGED engine
      /\ agreed' = agreed \cup {chains[c].old}
      /\ \E step \in {"stop", "rename"} : Goto(c, step)
  BY ConfirmCalls
<1>2. Gentle(c) /\ OldKept(c)
  BY <1>1, GentleCalls
<1> QED BY <1>1, <1>2, SoleGoto DEF Steps

\* A network that is connected leaves all this as it is.
LEMMA SoleJoins ==
  ASSUME IInv, NEW c \in Chains, chains[c] # Idle, SoleInv(c), Connect
  PROVE  SoleInv(c)'
<1>1. UNCHANGED <<chains, agreed>>
  BY ConnectStep
<1>2. \A id \in Ids : /\ Exists(id)' <=> Exists(id)
                      /\ Exists(id) => SameName(id) /\ SameControl(id) /\ SameStatus(id)
  <2>1. CASE UNCHANGED engine
    BY <2>1 DEF Exists, SameName, SameControl, SameStatus
  <2>2. ASSUME NEW k \in Ids, Only(k), Exists(k), Exists(k)',
               SameName(k), SameControl(k), SameStatus(k)
        PROVE  \A id \in Ids : /\ Exists(id)' <=> Exists(id)
                               /\ Exists(id) => SameName(id) /\ SameControl(id) /\ SameStatus(id)
    BY <2>2 DEF Only, Exists, SameName, SameControl, SameStatus
  <2> QED BY <2>1, <2>2, ConnectStep
<1>3. \A id \in Ids : Was(c, id)' <=> Was(c, id)
  BY <1>1 DEF Was
<1>4. \A id \in Ids : AsBefore(c, id) => AsBefore(c, id)'
  BY <1>1, <1>2 DEF AsBefore, SameName, SameControl, SameStatus
<1>5. chains[c].old # 0 => \E id \in Ids : id = chains[c].old
  BY ContainerAssumption DEF IInv, ChainInv, IsChain, Ids
<1>6. ASSUME NEW id \in Ids, id = chains[c].old
      PROVE  /\ Was(c, id)' /\ chains'[c].before[id].name = chains'[c].name
             /\ chains'[c].step # "done" => /\ Exists(id)'
                                            /\ engine'[id].control = chains'[c].before[id].control
                                            /\ engine'[id].status \in {chains'[c].before[id].status, "exited"}
             /\ chains'[c].step # "confirm" => id \in agreed'
             /\ chains[c].step = "restored" => engine'[id].name = chains'[c].name
  <2>1. /\ Was(c, id) /\ chains[c].before[id].name = chains[c].name
        /\ chains[c].step # "done" => /\ Exists(id)
                                      /\ engine[id].control = chains[c].before[id].control
                                      /\ engine[id].status \in {chains[c].before[id].status, "exited"}
        /\ chains[c].step # "confirm" => id \in agreed
        /\ chains[c].step = "restored" => engine[id].name = chains[c].name
    BY <1>6 DEF SoleInv, OldInv, Ids
  <2> QED BY <1>1, <1>2, <1>3, <2>1 DEF SameName, SameControl, SameStatus
<1>7. OldInv(c)'
  BY <1>1, <1>5, <1>6 DEF OldInv
<1>8. chains[c].step \in {"start", "control", "connect", "remove", "done"} => Exists(chains[c].new)'
  <2>1. Exists(chains[c].new) => chains[c].new \in Ids
    BY DEF Exists
  <2> QED BY <1>1, <1>2, <2>1 DEF SoleInv
<1>9. chains[c].step = "restored" => engine'[chains[c].old].name = chains[c].name
  BY <1>1, <1>5, <1>6 DEF SoleInv
<1> QED BY <1>1, <1>2, <1>3, <1>4, <1>7, <1>8, <1>9 DEF SoleInv, SameName

-----------------------------------------------------------------------------
(* What holds of chains that come one at a time.                           *)

LEMMA SerialInvKept ==
  ASSUME OneChain, IInv, SerialInv, [Next]_vars
  PROVE  SerialInv'
<1> SUFFICES ASSUME NEW c \in Chains, chains'[c] # Idle, mishaps' = {}, ~meddled'
             PROVE  SoleInv(c)'
  BY DEF SerialInv
<1>1. ASSUME chains[c] # Idle, mishaps = {}, ~meddled
      PROVE  SoleInv(c)
  BY <1>1 DEF SerialInv
<1>2. CASE OpenCreate(c) \/ OpenRecreate(c)
  BY <1>2, SoleOpen
<1>3. CASE FindCurrentContainer(c)
  <2>1. chains[c] # Idle /\ UNCHANGED meddled /\ mishaps \subseteq mishaps'
    BY <1>3, FindCalls
  <2> QED BY <1>1, <1>3, <2>1, SoleFind
<1>4. CASE ConfirmCreateContainer(c)
  <2>1. chains[c] # Idle /\ UNCHANGED <<mishaps, meddled>>
    BY <1>4, ConfirmCalls
  <2> QED BY <1>1, <1>4, <2>1, SoleConfirm
<1>5. CASE \/ StopContainerIfNeeded(c) \/ RecreateStop(c) \/ RenameContainer(c) \/ RecreateRename(c)
           \/ StartContainer(c) \/ RecreateStart(c) \/ ApplyResourceControl(c) \/ RecreateControl(c)
           \/ ConnectToExtraNetworks(c) \/ RecreateConnect(c)
  <2>1. chains[c] # Idle /\ UNCHANGED <<mishaps, meddled>>
    BY <1>5, StopCalls, RenameCalls, StartCalls, ControlCalls, ConnectCalls
  <2> QED BY <1>1, <1>5, <2>1, SoleCalls
<1>6. CASE CreateNewContainer(c) \/ RecreateCreate(c)
  <2>1. chains[c] # Idle /\ UNCHANGED <<mishaps, meddled>>
    BY <1>6, CreateCalls
  <2> QED BY <1>1, <1>6, <2>1, SoleCreate
<1>7. CASE RemoveOldContainer(c) \/ RecreateRemove(c) \/ RemoveNewContainer(c)
  <2>1. chains[c] # Idle /\ UNCHANGED meddled /\ mishaps \subseteq mishaps'
    BY <1>7, RemovalCalls, RemoveNewCalls
  <2> QED BY <1>1, <1>7, <2>1, SoleRemovals
<1>8. CASE RestoreOldContainerName(c)
  <2>1. chains[c] # Idle /\ UNCHANGED <<mishaps, meddled>>
    BY <1>8, RestoreCalls
  <2> QED BY <1>1, <1>8, <2>1, SoleRestore
<1>9. CASE Leave(c)
  BY <1>9, LeaveStep
<1>10. CASE Connect
  <2>1. UNCHANGED <<chains, mishaps, meddled>>
    BY <1>10, ConnectStep
  <2> QED BY <1>1, <1>10, <2>1, SoleJoins
<1>11. ASSUME NEW id \in Ids, ContainerAction(id) \/ UserRenames(id) \/ UserRemoves(id)
       PROVE  SoleInv(c)'
  BY <1>11, UserSteps
<1>12. CASE UNCHANGED vars
  BY <1>1, <1>12 DEF vars, SoleInv, OldInv, AsBefore, Was, Exists, Ids
<1> QED BY <1>2, <1>3, <1>4, <1>5, <1>6, <1>7, <1>8, <1>9, <1>10, <1>11, <1>12 DEF Next, OneChain

LEMMA SerialInvariance == ASSUME OneChain PROVE Spec => []SerialInv
<1>1. Init => SerialInv
  BY DEF Init, SerialInv
<1>2. IInv /\ SerialInv /\ [Next]_vars => SerialInv'
  BY SerialInvKept
<1> QED BY <1>1, <1>2, Invariance, PTL DEF Spec

\* While a container is replaced or re-created the old one or the new one is there,
\* whichever calls fail and whichever answers are lost, but those two that are left out.
THEOREM OldOrNewRemains == ASSUME OneChain PROVE Spec => []SomethingRemains
<1>1. SerialInv => SomethingRemains
  BY DEF SerialInv, SoleInv, OldInv, SomethingRemains
<1> QED BY <1>1, SerialInvariance, PTL

\* A chain of the form that was undone has left no container behind and taken none, and
\* each has its name and its users again.
THEOREM UndoneIsUndone == ASSUME OneChain PROVE Spec => []UndoneLeavesNoTrace
<1>1. ASSUME IInv, SerialInv
      PROVE  UndoneLeavesNoTrace
  <2> SUFFICES ASSUME NEW c \in Chains, chains[c] # Idle, chains[c].step = "restored",
                      mishaps = {}, ~meddled, NEW id \in Ids
               PROVE  \/ ~Exists(id) /\ chains[c].before[id] \in {None, Gone}
                      \/ /\ Exists(id) /\ chains[c].before[id] \notin {None, Gone}
                         /\ engine[id].name = chains[c].before[id].name
                         /\ engine[id].control = chains[c].before[id].control
                         /\ engine[id].status \in {chains[c].before[id].status, "exited"}
    BY DEF UndoneLeavesNoTrace
  <2>1. SoleInv(c)
    BY <1>1 DEF SerialInv
  <2>2. Exists(id) => Was(c, id)
    BY <2>1 DEF SoleInv
  <2>3. CASE id = chains[c].old
    BY <2>1, <2>3 DEF SoleInv, OldInv, Was
  <2>4. CASE id # chains[c].old
    BY <2>1, <2>2, <2>4 DEF SoleInv, Was, AsBefore
  <2> QED BY <2>3, <2>4
<1> QED BY <1>1, SerialInvariance, Invariance, PTL

\* What a step removes, if no query for a name failed before, the user agreed to lose or
\* the chain made itself: the container that has the name is not looked for in vain.
THEOREM NothingLostUnasked == ASSUME OneChain PROVE Spec => RemovalConfirmedIfFound
<1>1. ASSUME IInv, SerialInv, [Next]_vars, mishaps = {}, RemovedUnasked
      PROVE  FALSE
  <2>1. PICK id \in Ids : /\ Exists(id) /\ ~Exists(id)' /\ ~meddled' /\ id \notin agreed
                          /\ \A c \in Chains : chains[c] # Idle => chains[c].before[id] # None
    BY <1>1 DEF RemovedUnasked
  <2>2. ASSUME UNCHANGED engine \/ \E k \in Ids : Only(k) /\ Exists(k)'
        PROVE  FALSE
    BY <2>1, <2>2 DEF Exists, Only
  <2>3. ASSUME NEW c \in Chains, chains[c] # Idle, UNCHANGED meddled,
               \E k \in Ids : /\ Only(k)
                              /\ \/ k = chains[c].old /\ chains[c].step = "remove"
                                 \/ k # chains[c].old /\ engine[k].name = chains[c].name
                                    /\ chains[c].step = "findnew"
        PROVE  FALSE
    <3>1. PICK k \in Ids : /\ Only(k)
                           /\ \/ k = chains[c].old /\ chains[c].step = "remove"
                              \/ k # chains[c].old /\ engine[k].name = chains[c].name
                                 /\ chains[c].step = "findnew"
      BY <2>1, <2>3 DEF Only, Exists
    <3>2. k = id
      BY <2>1, <3>1 DEF Only, Exists
    <3>3. SoleInv(c) /\ ChainInv(c)
      BY <1>1, <2>1, <2>3 DEF SerialInv, IInv
    <3>4. ~Was(c, id)
      BY <2>1, <3>1, <3>2, <3>3 DEF SoleInv, OldInv, AsBefore, Ids
    <3>5. chains[c].before[id] # Gone
      BY <2>1, <3>3 DEF ChainInv, Exists
    <3> QED BY <2>1, <2>3, <3>4, <3>5 DEF Was
  <2>4. ASSUME NEW c \in Chains,
               \/ OpenCreate(c) \/ OpenRecreate(c) \/ FindCurrentContainer(c)
               \/ ConfirmCreateContainer(c) \/ Leave(c)
        PROVE  FALSE
    <3>1. UNCHANGED engine
      BY <1>1, <2>4, CreateOpens, RecreateOpens, FindCalls, ConfirmCalls, LeaveStep DEF Opened
    <3> QED BY <2>2, <3>1
  <2>5. ASSUME NEW c \in Chains,
               \/ StopContainerIfNeeded(c) \/ RecreateStop(c) \/ RenameContainer(c) \/ RecreateRename(c)
               \/ StartContainer(c) \/ RecreateStart(c) \/ ApplyResourceControl(c) \/ RecreateControl(c)
               \/ ConnectToExtraNetworks(c) \/ RecreateConnect(c)
               \/ CreateNewContainer(c) \/ RecreateCreate(c) \/ RestoreOldContainerName(c)
        PROVE  FALSE
    <3>1. UNCHANGED engine \/ \E k \in Ids : Told(k) \/ Made(c, k)
      BY <1>1, <2>5, StopCalls, RenameCalls, StartCalls, ControlCalls, ConnectCalls, CreateCalls,
         RestoreCalls
    <3> QED BY <2>2, <3>1 DEF Told, Made
  <2>6. ASSUME NEW c \in Chains, RemoveOldContainer(c) \/ RecreateRemove(c) \/ RemoveNewContainer(c)
        PROVE  FALSE
    <3>1. CASE UNCHANGED engine
      BY <2>2, <3>1
    <3>2. CASE ~UNCHANGED engine
      BY <1>1, <2>3, <2>6, <3>2, RemovalCalls, RemoveNewCalls DEF Taken
    <3> QED BY <3>1, <3>2
  <2>7. CASE Connect
    BY <1>1, <2>2, <2>7, ConnectStep
  <2>8. ASSUME NEW k \in Ids, ContainerAction(k) \/ UserRenames(k) \/ UserRemoves(k)
        PROVE  FALSE
    BY <1>1, <2>1, <2>8, UserSteps
  <2>9. CASE UNCHANGED vars
    BY <2>2, <2>9 DEF vars
  <2> QED BY <1>1, <2>4, <2>5, <2>6, <2>7, <2>8, <2>9 DEF Next
<1>2. IInv /\ SerialInv /\ [Next]_vars => [mishaps = {} => ~RemovedUnasked]_vars
  BY <1>1
<1> QED BY <1>2, SerialInvariance, Invariance, PTL DEF Spec, RemovalConfirmedIfFound

-----------------------------------------------------------------------------
(* The networks of the container that takes another's place.               *)

\* Those a container has, and those it has been promised
Promised(id) == engine[id].spec.nets \cup {p[2] : p \in {p \in joining : p[1] = id}}

\* Those the new container is due: of its mode until the others are asked for, which
\* the form does last and the container's page first
Wanted(q) ==
  {q.from.spec.mode} \cup
    (IF q.kind = "create" THEN LoadNetworks(q.from.spec).extraNetworks ELSE q.from.spec.nets)

Due(q) ==
  IF q.step = "connect" \/ (q.kind = "create" /\ q.step \in {"start", "control"})
  THEN {q.from.spec.mode} ELSE Wanted(q)

WithNew(q) == q.step \in {"start", "control", "connect", "remove", "done"}

\* While no call fails, the new container has or is promised the networks it is due.
NetworksInv ==
  \A c \in Chains :
    chains[c] # Idle /\ ~faults /\ ~meddled /\ WithNew(chains[c])
      => Promised(chains[c].new) = Due(chains[c])

LEMMA Wants ==
  ASSUME NEW q, IsChain(q), q.kind = "create" => q.from.spec.mode = Min(q.from.spec.nets)
  PROVE  Wanted(q) = q.from.spec.nets
<1>1. IsConfiguration(q.from.spec)
  BY DEF IsChain, IsContainer
<1> DEFINE nets == q.from.spec.nets
           mode == q.from.spec.mode
<1>2. IsFiniteSet(nets) /\ mode \in nets
  BY <1>1 DEF IsConfiguration
<1>3. CASE q.kind # "create"
  BY <1>2, <1>3 DEF Wanted
<1>4. CASE q.kind = "create" /\ Cardinality(nets) > 1
  BY <1>2, <1>4 DEF Wanted, LoadNetworks
<1>5. CASE q.kind = "create" /\ ~(Cardinality(nets) > 1)
  <2>1. Cardinality(nets) \in Nat /\ Cardinality(nets) # 0
    BY <1>2, FS_CardinalityType, FS_EmptySet
  <2>2. Cardinality(nets) = 1
    BY <1>5, <2>1
  <2>3. nets = {mode}
    <3> HIDE DEF nets, mode
    <3> QED BY <1>2, <2>2, FS_Singleton
  <2> QED BY <1>5, <2>3 DEF Wanted, LoadNetworks
<1> QED BY <1>3, <1>4, <1>5

\* A step of the chain that promises nothing
LEMMA DueKept ==
  ASSUME NEW c \in Chains, Carries(c), NEW id \in Ids, id = chains[c].new, chains'[c].new = id,
         Promised(id) = Due(chains[c]), engine'[id].spec.nets = engine[id].spec.nets,
         UNCHANGED joining,
         \/ chains[c].step = "start" /\ chains'[c].step = "control"
         \/ chains[c].step = "control" /\ chains'[c].step = "connect" /\ chains[c].kind = "create"
         \/ chains[c].step = "control" /\ chains'[c].step = "remove" /\ chains[c].kind = "recreate"
         \/ chains[c].step = "remove" /\ chains'[c].step = "done"
  PROVE  (Promised(chains[c].new) = Due(chains[c]))'
<1>1. Promised(id)' = Promised(id)
  BY DEF Promised
<1>2. Wanted(chains'[c]) = Wanted(chains[c])
  BY DEF Wanted, Carries
<1>3. Due(chains'[c]) = Due(chains[c])
  BY <1>2 DEF Due, Carries
<1> QED BY <1>1, <1>3 DEF Promised

LEMMA NetworksInvKept ==
  ASSUME OneChain, IInv, SerialInv, NetworksInv, [Next]_vars
  PROVE  NetworksInv'
<1> SUFFICES ASSUME NEW c \in Chains, chains'[c] # Idle, ~faults', ~meddled', WithNew(chains'[c])
             PROVE  (Promised(chains[c].new) = Due(chains[c]))'
  BY DEF NetworksInv
<1>1. ASSUME chains[c] # Idle, UNCHANGED <<faults, meddled>>
      PROVE  /\ SoleInv(c) /\ ChainInv(c) /\ IsChain(chains[c])
             /\ WithNew(chains[c]) =>
                  \E id \in Ids : /\ id = chains[c].new /\ Exists(id)
                                  /\ Promised(id) = Due(chains[c])
  <2>1. SoleInv(c) /\ ChainInv(c) /\ IsChain(chains[c])
    BY <1>1 DEF IInv, HistoryInv, SerialInv, ChainInv
  <2>2. WithNew(chains[c]) => Exists(chains[c].new) /\ Promised(chains[c].new) = Due(chains[c])
    BY <1>1, <2>1 DEF SoleInv, WithNew, NetworksInv
  <2> QED BY <2>1, <2>2 DEF Exists
<1>2. CASE OpenCreate(c) \/ OpenRecreate(c)
  <2>1. \E q : Opened(c, q) /\ q.step \in {"find", "stop", "rename"}
    BY <1>2, CreateOpens, RecreateOpens
  <2> QED BY <2>1, OpenStep DEF WithNew
<1>3. CASE FindCurrentContainer(c)
  BY <1>3, FindCalls DEF WithNew
<1>4. ASSUME chains[c] # Idle, NEW step \in Steps, Goto(c, step)
      PROVE  WithNew(chains'[c]) => step \in {"start", "control", "connect", "remove", "done"}
  BY <1>4, GotoStep DEF WithNew
<1>5. CASE ConfirmCreateContainer(c)
  BY <1>4, <1>5, ConfirmCalls DEF Steps
<1>6. CASE StopContainerIfNeeded(c) \/ RecreateStop(c) \/ RenameContainer(c) \/ RecreateRename(c)
  <2>1. chains[c] # Idle /\ \E step \in {"rename", "create", "findnew", "failed"} : Goto(c, step)
    BY <1>6, StopCalls, RenameCalls
  <2> QED BY <1>4, <2>1 DEF Steps
<1>7. CASE RemoveNewContainer(c) \/ RestoreOldContainerName(c)
  <2>1. chains[c] # Idle /\ \E step \in {"restore", "restored", "failed"} : Goto(c, step)
    BY <1>7, RemoveNewCalls, RestoreCalls
  <2> QED BY <1>4, <2>1 DEF Steps
<1>8. CASE StartContainer(c) \/ RecreateStart(c) \/ ApplyResourceControl(c) \/ RecreateControl(c)
  <2>1. /\ chains[c] # Idle /\ chains[c].step \in {"start", "control"}
        /\ UNCHANGED <<joining, faults, meddled>>
        /\ UNCHANGED engine \/ \E id \in Ids : id = chains[c].new /\ Told(id)
    BY <1>8, StartCalls, ControlCalls
  <2>2. \E step \in {"control", "connect", "remove", "findnew", "failed"} :
          /\ Goto(c, step)
          /\ \/ step \in {"findnew", "failed"}
             \/ step = "control" /\ chains[c].step = "start"
             \/ step = "connect" /\ chains[c].step = "control" /\ chains[c].kind = "create"
             \/ step = "remove" /\ chains[c].step = "control" /\ chains[c].kind = "recreate"
    BY <1>8, StartCalls, ControlCalls
  <2>3. PICK id \in Ids : id = chains[c].new /\ Exists(id) /\ Promised(id) = Due(chains[c])
    BY <1>1, <2>1 DEF WithNew
  <2>4. engine'[id].spec.nets = engine[id].spec.nets
    BY <2>1, <2>3 DEF Told, SameSpec
  <2>5. PICK step \in {"control", "connect", "remove", "findnew", "failed"} :
          /\ Goto(c, step)
          /\ \/ step \in {"findnew", "failed"}
             \/ step = "control" /\ chains[c].step = "start"
             \/ step = "connect" /\ chains[c].step = "control" /\ chains[c].kind = "create"
             \/ step = "remove" /\ chains[c].step = "control" /\ chains[c].kind = "recreate"
    BY <2>2
  <2>6. Carries(c) /\ chains'[c].step = step /\ chains'[c].new = chains[c].new
    BY <2>1, <2>5, GotoStep DEF Steps
  <2> QED BY <2>1, <2>3, <2>4, <2>5, <2>6, DueKept DEF WithNew
<1>9. CASE RemoveOldContainer(c) \/ RecreateRemove(c)
  <2>1. chains[c] # Idle /\ chains[c].step = "remove" /\ UNCHANGED <<joining, faults, meddled>>
    BY <1>9, RemovalCalls
  <2>2. PICK id \in Ids : /\ id = chains[c].new /\ Exists(id) /\ id # chains[c].old
                          /\ Promised(id) = Due(chains[c])
    BY <1>1, <2>1, NewThere DEF WithNew
  <2>3. ASSUME NEW step \in {"findnew", "failed"}, Goto(c, step)
        PROVE  FALSE
    BY <1>4, <2>1, <2>3 DEF Steps
  <2>4. Goto(c, "done") /\ \E k \in Ids : k = chains[c].old /\ Taken(k)
    BY <1>9, <2>3, RemovalCalls
  <2>5. engine'[id] = engine[id]
    BY <2>2, <2>4 DEF Taken, Only
  <2>6. Carries(c) /\ chains'[c].step = "done" /\ chains'[c].new = chains[c].new
    BY <2>1, <2>4, GotoStep DEF Steps
  <2> QED BY <2>1, <2>2, <2>5, <2>6, DueKept
<1>10. CASE CreateNewContainer(c) \/ RecreateCreate(c)
  <2>1. chains[c] # Idle /\ UNCHANGED joining
    BY <1>10, CreateCalls
  <2>2. ASSUME NEW step \in {"findnew", "failed"}, Goto(c, step)
        PROVE  FALSE
    BY <1>4, <2>1, <2>2 DEF Steps
  <2>3. PICK id \in Ids :
          /\ Made(c, id)
          /\ \/ /\ chains[c].kind = "create"
                /\ chains' = [chains EXCEPT ![c].step = "start", ![c].new = id]
             \/ /\ chains[c].kind = "recreate"
                /\ chains' = [chains EXCEPT ![c].step = "connect", ![c].new = id]
    BY <1>10, <2>2, CreateCalls
  <2>4. /\ Carries(c) /\ chains'[c].new = id
        /\ chains'[c].step = (IF chains[c].kind = "create" THEN "start" ELSE "connect")
    BY <2>1, <2>3, NewStep DEF Steps
  <2>5. {p \in joining : p[1] = id} = {}
    BY <2>3 DEF IInv, JoiningInv, Made
  <2>6. Due(chains'[c]) = {chains[c].from.spec.mode}
    BY <2>3, <2>4 DEF Due, Carries
  <2>7. Promised(id)' = {chains[c].from.spec.mode}
    BY <2>1, <2>3, <2>5 DEF Promised, Made
  <2> QED BY <2>4, <2>6, <2>7 DEF Promised
<1>11. CASE ConnectToExtraNetworks(c) \/ RecreateConnect(c)
  <2>1. chains[c] # Idle /\ chains[c].step = "connect" /\ UNCHANGED <<engine, faults, meddled>>
    BY <1>11, ConnectCalls
  <2>2. PICK id \in Ids : id = chains[c].new /\ Promised(id) = Due(chains[c])
    BY <1>1, <2>1 DEF WithNew
  <2>3. PICK nets \in SUBSET Int :
          /\ joining' = joining \cup {<<chains[c].new, n>> : n \in nets}
          /\ \/ /\ chains[c].kind = "create"
                /\ nets = LoadNetworks(chains[c].from.spec).extraNetworks
                /\ Goto(c, IF chains[c].old = 0 THEN "done" ELSE "remove")
             \/ /\ chains[c].kind = "recreate"
                /\ nets = chains[c].from.spec.nets
                /\ Goto(c, IF chains[c].stop THEN "start" ELSE "control")
    BY <1>11, ConnectCalls
  <2>4. PICK step \in {"done", "remove", "start", "control"} :
          /\ Goto(c, step)
          /\ \/ chains[c].kind = "create" /\ step \in {"done", "remove"}
             \/ chains[c].kind = "recreate" /\ step \in {"start", "control"}
    BY <2>3
  <2>5. Carries(c) /\ chains'[c].step = step /\ chains'[c].new = chains[c].new
    BY <2>1, <2>4, GotoStep DEF Steps
  <2>6. \A n : (\E p \in joining' : p[1] = id /\ p[2] = n) <=>
                 (\E p \in joining : p[1] = id /\ p[2] = n) \/ n \in nets
    <3>1. joining \subseteq joining'
      BY <2>3
    <3>2. \A n \in nets : \E p \in joining' : p[1] = id /\ p[2] = n
      <4> TAKE n \in nets
      <4>1. <<id, n>> \in joining'
        BY <2>2, <2>3
      <4> QED BY <4>1
    <3>3. \A p \in joining' : p \in joining \/ p[2] \in nets
      BY <2>3
    <3> QED BY <3>1, <3>2, <3>3
  <2>7. Promised(id)' = {chains[c].from.spec.mode} \cup nets
    BY <2>1, <2>2, <2>6 DEF Promised, Due
  <2>8. Due(chains'[c]) = {chains[c].from.spec.mode} \cup nets
    BY <2>3, <2>5, <2>4 DEF Due, Wanted, Carries
  <2> QED BY <2>2, <2>5, <2>7, <2>8 DEF Promised
<1>12. CASE Leave(c)
  BY <1>12, LeaveStep
<1>13. CASE Connect
  <2>1. UNCHANGED <<chains, faults, meddled>>
    BY <1>13, ConnectStep
  <2>2. PICK id \in Ids : id = chains[c].new /\ Exists(id) /\ Promised(id) = Due(chains[c])
    BY <1>1, <2>1
  <2>3. PICK p \in joining :
          /\ joining' = joining \ {p}
          /\ \/ UNCHANGED engine /\ ~Exists(p[1])
             \/ /\ Only(p[1])
                /\ engine'[p[1]].spec.nets = engine[p[1]].spec.nets \cup {p[2]}
    BY <1>13, <2>1, ConnectStep
  <2>4. joining \subseteq Ids \X Int
    BY DEF IInv, JoiningInv
  <2>5. Promised(id)' = Promised(id)
    <3>1. CASE p[1] # id
      BY <2>3, <3>1 DEF Promised, Only
    <3>2. CASE p[1] = id
      <4>1. engine'[id].spec.nets = engine[id].spec.nets \cup {p[2]}
        BY <2>2, <2>3, <3>2
      <4>2. \A r \in joining : r[1] = id /\ r # p => r \in joining'
        BY <2>3
      <4> QED BY <2>3, <3>2, <4>1, <4>2 DEF Promised
    <3> QED BY <3>1, <3>2
  <2> QED BY <2>1, <2>2, <2>5 DEF Promised
<1>14. ASSUME NEW id \in Ids, ContainerAction(id) \/ UserRenames(id) \/ UserRemoves(id)
       PROVE  FALSE
  BY <1>14, UserSteps
<1>15. CASE UNCHANGED vars
  BY <1>1, <1>15 DEF vars, Promised
<1> QED BY <1>2, <1>3, <1>5, <1>6, <1>7, <1>8, <1>9, <1>10, <1>11, <1>12, <1>13, <1>14, <1>15
        DEF Next, OneChain

\* A container that has taken another's place has that one's networks, once every call
\* to connect one has ended and none failed; from the form, if the first network by name
\* is the one it was created in.
THEOREM NetworksAreKept == ASSUME OneChain PROVE Spec => []NetworksKept
<1>1. Init => NetworksInv
  BY DEF Init, NetworksInv
<1>2. IInv /\ SerialInv /\ NetworksInv /\ [Next]_vars => NetworksInv'
  BY NetworksInvKept
<1>3. ASSUME IInv, NetworksInv
      PROVE  NetworksKept
  <2> SUFFICES ASSUME NEW c \in Chains, chains[c] # Idle, chains[c].step = "done", joining = {},
                      ~faults, ~meddled,
                      chains[c].kind = "create" => chains[c].from.spec.mode = Min(chains[c].from.spec.nets)
               PROVE  engine[chains[c].new].spec.nets = chains[c].from.spec.nets
    BY DEF NetworksKept
  <2>1. Promised(chains[c].new) = Wanted(chains[c])
    BY <1>3 DEF NetworksInv, WithNew, Due
  <2>2. Promised(chains[c].new) = engine[chains[c].new].spec.nets
    BY DEF Promised
  <2>3. Wanted(chains[c]) = chains[c].from.spec.nets
    BY <1>3, Wants DEF IInv, ChainInv
  <2> QED BY <2>1, <2>2, <2>3
<1> QED BY <1>1, <1>2, <1>3, SerialInvariance, Invariance, PTL DEF Spec
=============================================================================
