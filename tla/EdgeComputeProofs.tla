-------------------------- MODULE EdgeComputeProofs --------------------------
(***************************************************************************)
(* Proofs about EdgeCompute: the records of every database the handlers    *)
(* reach refer only to records that exist, tags list their users, no       *)
(* relation names a stack outside its groups, requests that delete no tag  *)
(* keep relations complete, and the two ways to find a group's members     *)
(* agree.                                                                  *)
(***************************************************************************)
EXTENDS EdgeCompute, TLAPS, FiniteSetTheorems

TagsTyped ==
  DOMAIN tags \subseteq Tags /\ tags \in [DOMAIN tags -> TagRecord]
EndpointsTyped ==
  DOMAIN endpoints \subseteq Endpoints /\ endpoints \in [DOMAIN endpoints -> EndpointRecord]
EndpointGroupsTyped ==
  /\ DOMAIN endpointGroups \subseteq EndpointGroups
  /\ endpointGroups \in [DOMAIN endpointGroups -> EndpointGroupRecord]
EdgeGroupsTyped ==
  /\ DOMAIN edgeGroups \subseteq EdgeGroups
  /\ edgeGroups \in [DOMAIN edgeGroups -> EdgeGroupRecord]
EdgeStacksTyped ==
  DOMAIN edgeStacks \subseteq EdgeStacks /\ edgeStacks \in [DOMAIN edgeStacks -> EdgeStackRecord]

RecordsTyped ==
  TagsTyped /\ EndpointsTyped /\ EndpointGroupsTyped /\ EdgeGroupsTyped /\ EdgeStacksTyped

\* An identifier in use was issued, so that a new one is in no bucket.
IdsIssued ==
  DOMAIN tags \cup DOMAIN endpoints \cup DOMAIN endpointGroups
    \cup DOMAIN edgeGroups \cup DOMAIN edgeStacks \subseteq issued

RecordsResolve ==
  /\ Unassigned \in DOMAIN endpointGroups
  /\ \A e \in DOMAIN endpoints : endpoints[e].GroupID \in DOMAIN endpointGroups
  /\ \A e \in DOMAIN endpoints : endpoints[e].TagIDs \subseteq DOMAIN tags
  /\ \A g \in DOMAIN endpointGroups : endpointGroups[g].TagIDs \subseteq DOMAIN tags
  /\ \A g \in DOMAIN edgeGroups : edgeGroups[g].TagIDs \subseteq DOMAIN tags
  /\ \A g \in DOMAIN edgeGroups :
       edgeGroups[g].Endpoints \subseteq DOMAIN endpoints \cap EdgeEndpoints
  /\ \A s \in DOMAIN edgeStacks : edgeStacks[s].EdgeGroups \subseteq DOMAIN edgeGroups
  /\ \A s \in DOMAIN edgeStacks : edgeStacks[s].Status \subseteq DOMAIN endpoints

\* The part of the invariant that is about the records alone.
RecordsInv == RecordsTyped /\ IdsIssued /\ RecordsResolve /\ TagsListTheirUsers

-----------------------------------------------------------------------------
(* The records.                                                            *)

\* Updating one field of a record leaves the others.
LEMMA TagFields ==
  ASSUME NEW r \in TagRecord, NEW E \in SUBSET Endpoints, NEW G \in SUBSET EndpointGroups
  PROVE  /\ [r EXCEPT !.Endpoints = E] \in TagRecord
         /\ [r EXCEPT !.Endpoints = E].Endpoints = E
         /\ [r EXCEPT !.Endpoints = E].EndpointGroups = r.EndpointGroups
         /\ [r EXCEPT !.EndpointGroups = G] \in TagRecord
         /\ [r EXCEPT !.EndpointGroups = G].EndpointGroups = G
         /\ [r EXCEPT !.EndpointGroups = G].Endpoints = r.Endpoints
BY DEF TagRecord

\* The same for an endpoint.
LEMMA EndpointFields ==
  ASSUME NEW r \in EndpointRecord, NEW g \in EndpointGroups, NEW T \in SUBSET Tags
  PROVE  /\ [r EXCEPT !.TagIDs = T] \in EndpointRecord
         /\ [r EXCEPT !.TagIDs = T].TagIDs = T
         /\ [r EXCEPT !.TagIDs = T].GroupID = r.GroupID
         /\ [r EXCEPT !.GroupID = g] \in EndpointRecord
         /\ [r EXCEPT !.GroupID = g].GroupID = g
         /\ [r EXCEPT !.GroupID = g].TagIDs = r.TagIDs
BY DEF EndpointRecord

\* The same for an endpoint group.
LEMMA EndpointGroupFields ==
  ASSUME NEW r \in EndpointGroupRecord, NEW T \in SUBSET Tags
  PROVE  /\ [r EXCEPT !.TagIDs = T] \in EndpointGroupRecord
         /\ [r EXCEPT !.TagIDs = T].TagIDs = T
BY DEF EndpointGroupRecord

\* The same for an Edge group.
LEMMA EdgeGroupFields ==
  ASSUME NEW r \in EdgeGroupRecord, NEW E \in SUBSET Endpoints, NEW T \in SUBSET Tags
  PROVE  /\ [r EXCEPT !.TagIDs = T] \in EdgeGroupRecord
         /\ [r EXCEPT !.TagIDs = T].TagIDs = T
         /\ [r EXCEPT !.TagIDs = T].Endpoints = r.Endpoints
         /\ [r EXCEPT !.TagIDs = T].Dynamic = r.Dynamic
         /\ [r EXCEPT !.TagIDs = T].PartialMatch = r.PartialMatch
         /\ [r EXCEPT !.Endpoints = E] \in EdgeGroupRecord
         /\ [r EXCEPT !.Endpoints = E].Endpoints = E
         /\ [r EXCEPT !.Endpoints = E].TagIDs = r.TagIDs
         /\ [r EXCEPT !.Endpoints = E].Dynamic = r.Dynamic
         /\ [r EXCEPT !.Endpoints = E].PartialMatch = r.PartialMatch
BY DEF EdgeGroupRecord

\* The same for an Edge stack.
LEMMA EdgeStackFields ==
  ASSUME NEW r \in EdgeStackRecord, NEW E \in SUBSET Endpoints
  PROVE  /\ [r EXCEPT !.Status = E] \in EdgeStackRecord
         /\ [r EXCEPT !.Status = E].Status = E
         /\ [r EXCEPT !.Status = E].EdgeGroups = r.EdgeGroups
BY DEF EdgeStackRecord

\* The tags' lists L after an endpoint's tags were replaced, and after an endpoint
\* group's were
EndpointListed(L, e, old, new) ==
  /\ L \in [DOMAIN tags -> TagRecord]
  /\ \A t \in DOMAIN tags :
       /\ L[t].EndpointGroups = tags[t].EndpointGroups
       /\ L[t].Endpoints = IF t \in new THEN tags[t].Endpoints \cup {e}
                           ELSE IF t \in old THEN tags[t].Endpoints \ {e}
                           ELSE tags[t].Endpoints
EndpointGroupListed(L, g, old, new) ==
  /\ L \in [DOMAIN tags -> TagRecord]
  /\ \A t \in DOMAIN tags :
       /\ L[t].Endpoints = tags[t].Endpoints
       /\ L[t].EndpointGroups = IF t \in new THEN tags[t].EndpointGroups \cup {g}
                                ELSE IF t \in old THEN tags[t].EndpointGroups \ {g}
                                ELSE tags[t].EndpointGroups

\* ListEndpoint changes the tags' lists of endpoints alone.
LEMMA ListEndpointFields ==
  ASSUME TagsTyped, NEW e \in Endpoints, NEW old, NEW new
  PROVE  EndpointListed(ListEndpoint(e, old, new), e, old, new)
<1> SUFFICES ASSUME NEW t \in DOMAIN tags
             PROVE  /\ ListEndpoint(e, old, new)[t] \in TagRecord
                    /\ ListEndpoint(e, old, new)[t].EndpointGroups = tags[t].EndpointGroups
                    /\ ListEndpoint(e, old, new)[t].Endpoints =
                        IF t \in new THEN tags[t].Endpoints \cup {e}
                        ELSE IF t \in old THEN tags[t].Endpoints \ {e} ELSE tags[t].Endpoints
  BY DEF ListEndpoint, EndpointListed
<1>1. /\ tags[t] \in TagRecord
      /\ tags[t].Endpoints \cup {e} \in SUBSET Endpoints
      /\ tags[t].Endpoints \ {e} \in SUBSET Endpoints
  BY DEF TagsTyped, TagRecord
<1>2. \A E \in SUBSET Endpoints :
        LET r == [tags[t] EXCEPT !.Endpoints = E]
        IN  r \in TagRecord /\ r.Endpoints = E /\ r.EndpointGroups = tags[t].EndpointGroups
  BY <1>1, TagFields
<1>3. ListEndpoint(e, old, new)[t] =
        IF t \in new THEN [tags[t] EXCEPT !.Endpoints = tags[t].Endpoints \cup {e}]
        ELSE IF t \in old THEN [tags[t] EXCEPT !.Endpoints = tags[t].Endpoints \ {e}]
        ELSE tags[t]
  BY DEF ListEndpoint
<1>4. CASE t \in new
  BY <1>1, <1>2, <1>3, <1>4
<1>5. CASE t \notin new /\ t \in old
  BY <1>1, <1>2, <1>3, <1>5
<1>6. CASE t \notin new /\ t \notin old
  BY <1>1, <1>3, <1>6
<1> QED BY <1>4, <1>5, <1>6

\* ListEndpointGroup changes the tags' lists of endpoint groups alone.
LEMMA ListEndpointGroupFields ==
  ASSUME TagsTyped, NEW g \in EndpointGroups, NEW old, NEW new
  PROVE  EndpointGroupListed(ListEndpointGroup(g, old, new), g, old, new)
<1> SUFFICES ASSUME NEW t \in DOMAIN tags
             PROVE  /\ ListEndpointGroup(g, old, new)[t] \in TagRecord
                    /\ ListEndpointGroup(g, old, new)[t].Endpoints = tags[t].Endpoints
                    /\ ListEndpointGroup(g, old, new)[t].EndpointGroups =
                        IF t \in new THEN tags[t].EndpointGroups \cup {g}
                        ELSE IF t \in old THEN tags[t].EndpointGroups \ {g}
                        ELSE tags[t].EndpointGroups
  BY DEF ListEndpointGroup, EndpointGroupListed
<1>1. /\ tags[t] \in TagRecord
      /\ tags[t].EndpointGroups \cup {g} \in SUBSET EndpointGroups
      /\ tags[t].EndpointGroups \ {g} \in SUBSET EndpointGroups
  BY DEF TagsTyped, TagRecord
<1>2. \A G \in SUBSET EndpointGroups :
        LET r == [tags[t] EXCEPT !.EndpointGroups = G]
        IN  r \in TagRecord /\ r.EndpointGroups = G /\ r.Endpoints = tags[t].Endpoints
  BY <1>1, TagFields
<1>3. ListEndpointGroup(g, old, new)[t] =
        IF t \in new
        THEN [tags[t] EXCEPT !.EndpointGroups = tags[t].EndpointGroups \cup {g}]
        ELSE IF t \in old
        THEN [tags[t] EXCEPT !.EndpointGroups = tags[t].EndpointGroups \ {g}]
        ELSE tags[t]
  BY DEF ListEndpointGroup
<1>4. CASE t \in new
  BY <1>1, <1>2, <1>3, <1>4
<1>5. CASE t \notin new /\ t \in old
  BY <1>1, <1>2, <1>3, <1>5
<1>6. CASE t \notin new /\ t \notin old
  BY <1>1, <1>3, <1>6
<1> QED BY <1>4, <1>5, <1>6

\* The endpoints es after some of them moved to group g
Moved(es, moved, g) ==
  /\ es \in [DOMAIN endpoints -> EndpointRecord]
  /\ \A e \in DOMAIN endpoints :
       /\ es[e].TagIDs = endpoints[e].TagIDs
       /\ es[e].GroupID = IF e \in moved THEN g ELSE endpoints[e].GroupID

\* Endpoints that move change nothing but their group.
LEMMA MoveFields ==
  ASSUME EndpointsTyped, NEW moved, NEW g \in EndpointGroups
  PROVE  Moved(Move(moved, g), moved, g)
<1>1. \A e \in DOMAIN endpoints : endpoints[e] \in EndpointRecord /\ endpoints[e].TagIDs \in SUBSET Tags
  BY DEF EndpointsTyped, EndpointRecord
<1>2. \A e \in DOMAIN endpoints :
        LET r == [endpoints[e] EXCEPT !.GroupID = g]
        IN  r \in EndpointRecord /\ r.GroupID = g /\ r.TagIDs = endpoints[e].TagIDs
  BY <1>1, EndpointFields
<1>3. Move(moved, g) = [e \in DOMAIN endpoints |->
        IF e \in moved THEN [endpoints[e] EXCEPT !.GroupID = g] ELSE endpoints[e]]
  BY DEF Move
<1>4. ASSUME NEW e \in DOMAIN endpoints
      PROVE  /\ Move(moved, g)[e] \in EndpointRecord
             /\ Move(moved, g)[e].TagIDs = endpoints[e].TagIDs
             /\ Move(moved, g)[e].GroupID = IF e \in moved THEN g ELSE endpoints[e].GroupID
  <2>1. CASE e \in moved
    BY <1>2, <1>3, <2>1
  <2>2. CASE e \notin moved
    BY <1>1, <1>3, <2>2
  <2> QED BY <2>1, <2>2
<1> QED BY <1>3, <1>4 DEF Moved

-----------------------------------------------------------------------------
(* The handlers of tags.                                                   *)

\* The records as tagDelete leaves them.
LEMMA TagDeleteFields ==
  ASSUME RecordsInv, NEW t \in Tags, TagDelete(t)
  PROVE  /\ endpoints' \in [DOMAIN endpoints -> EndpointRecord]
         /\ \A e \in DOMAIN endpoints :
              /\ endpoints'[e].GroupID = endpoints[e].GroupID
              /\ endpoints'[e].TagIDs = endpoints[e].TagIDs \ {t}
         /\ endpointGroups' \in [DOMAIN endpointGroups -> EndpointGroupRecord]
         /\ \A g \in DOMAIN endpointGroups :
              endpointGroups'[g].TagIDs = endpointGroups[g].TagIDs \ {t}
         /\ edgeGroups' \in [DOMAIN edgeGroups -> EdgeGroupRecord]
         /\ \A g \in DOMAIN edgeGroups :
              /\ edgeGroups'[g].TagIDs = edgeGroups[g].TagIDs \ {t}
              /\ edgeGroups'[g].Endpoints = edgeGroups[g].Endpoints
              /\ edgeGroups'[g].Dynamic = edgeGroups[g].Dynamic
              /\ edgeGroups'[g].PartialMatch = edgeGroups[g].PartialMatch
<1>1. \A e \in DOMAIN endpoints :
        endpoints[e] \in EndpointRecord /\ endpoints[e].TagIDs \ {t} \in SUBSET Tags
  BY DEF RecordsInv, RecordsTyped, EndpointsTyped, EndpointRecord
<1>2. \A g \in DOMAIN endpointGroups :
        endpointGroups[g] \in EndpointGroupRecord
          /\ endpointGroups[g].TagIDs \ {t} \in SUBSET Tags
  BY DEF RecordsInv, RecordsTyped, EndpointGroupsTyped, EndpointGroupRecord
<1>3. \A g \in DOMAIN edgeGroups :
        edgeGroups[g] \in EdgeGroupRecord /\ edgeGroups[g].TagIDs \ {t} \in SUBSET Tags
  BY DEF RecordsInv, RecordsTyped, EdgeGroupsTyped, EdgeGroupRecord
<1>4. \A e \in DOMAIN endpoints \ tags[t].Endpoints : t \notin endpoints[e].TagIDs
  BY DEF RecordsInv, TagsListTheirUsers, TagDelete
<1>5. \A g \in DOMAIN endpointGroups \ tags[t].EndpointGroups : t \notin endpointGroups[g].TagIDs
  BY DEF RecordsInv, TagsListTheirUsers, TagDelete
<1>6. /\ endpoints' \in [DOMAIN endpoints -> EndpointRecord]
      /\ \A e \in DOMAIN endpoints :
           /\ endpoints'[e].GroupID = endpoints[e].GroupID
           /\ endpoints'[e].TagIDs = endpoints[e].TagIDs \ {t}
  <2>1. \A e \in DOMAIN endpoints :
          LET r == [endpoints[e] EXCEPT !.TagIDs = endpoints[e].TagIDs \ {t}]
          IN  /\ r \in EndpointRecord
              /\ r.TagIDs = endpoints[e].TagIDs \ {t}
              /\ r.GroupID = endpoints[e].GroupID
    BY <1>1, EndpointFields DEF RecordsInv, RecordsTyped, EndpointsTyped, EndpointRecord
  <2>2. endpoints' = [e \in DOMAIN endpoints |->
          IF e \in tags[t].Endpoints
          THEN [endpoints[e] EXCEPT !.TagIDs = endpoints[e].TagIDs \ {t}] ELSE endpoints[e]]
    BY DEF TagDelete
  <2>3. ASSUME NEW e \in DOMAIN endpoints
        PROVE  /\ endpoints'[e] \in EndpointRecord
               /\ endpoints'[e].TagIDs = endpoints[e].TagIDs \ {t}
               /\ endpoints'[e].GroupID = endpoints[e].GroupID
    <3>1. CASE e \in tags[t].Endpoints
      BY <2>1, <2>2, <3>1
    <3>2. CASE e \notin tags[t].Endpoints
      BY <1>1, <1>4, <2>2, <3>2
    <3> QED BY <3>1, <3>2
  <2> QED BY <2>2, <2>3
<1>7. /\ endpointGroups' \in [DOMAIN endpointGroups -> EndpointGroupRecord]
      /\ \A g \in DOMAIN endpointGroups :
           endpointGroups'[g].TagIDs = endpointGroups[g].TagIDs \ {t}
  <2>1. \A g \in DOMAIN endpointGroups :
          LET r == [endpointGroups[g] EXCEPT !.TagIDs = endpointGroups[g].TagIDs \ {t}]
          IN  r \in EndpointGroupRecord /\ r.TagIDs = endpointGroups[g].TagIDs \ {t}
    BY <1>2, EndpointGroupFields
  <2>2. endpointGroups' = [g \in DOMAIN endpointGroups |->
          IF g \in tags[t].EndpointGroups
          THEN [endpointGroups[g] EXCEPT !.TagIDs = endpointGroups[g].TagIDs \ {t}]
          ELSE endpointGroups[g]]
    BY DEF TagDelete
  <2>3. ASSUME NEW g \in DOMAIN endpointGroups
        PROVE  /\ endpointGroups'[g] \in EndpointGroupRecord
               /\ endpointGroups'[g].TagIDs = endpointGroups[g].TagIDs \ {t}
    <3>1. CASE g \in tags[t].EndpointGroups
      BY <2>1, <2>2, <3>1
    <3>2. CASE g \notin tags[t].EndpointGroups
      BY <1>2, <1>5, <2>2, <3>2
    <3> QED BY <3>1, <3>2
  <2> QED BY <2>2, <2>3
<1>8. /\ edgeGroups' \in [DOMAIN edgeGroups -> EdgeGroupRecord]
      /\ \A g \in DOMAIN edgeGroups :
           /\ edgeGroups'[g].TagIDs = edgeGroups[g].TagIDs \ {t}
           /\ edgeGroups'[g].Endpoints = edgeGroups[g].Endpoints
           /\ edgeGroups'[g].Dynamic = edgeGroups[g].Dynamic
           /\ edgeGroups'[g].PartialMatch = edgeGroups[g].PartialMatch
  BY <1>3, EdgeGroupFields DEF TagDelete, EdgeGroupRecord
<1> QED BY <1>6, <1>7, <1>8

\* tagCreate and tagDelete keep the invariant of the records.
LEMMA TagStepRecords ==
  ASSUME RecordsInv, TagStep
  PROVE  RecordsInv'
<1> PICK t \in Tags : TagCreate(t) \/ TagDelete(t)
  BY DEF TagStep
<1>1. CASE TagCreate(t)
  <2>6. [Endpoints |-> {}, EndpointGroups |-> {}] \in TagRecord
    BY DEF TagRecord
  <2>7. TagsTyped'
    <3>1. Put(tags, t, [Endpoints |-> {}, EndpointGroups |-> {}])
            \in [DOMAIN tags \cup {t} -> TagRecord]
      BY <2>6 DEF Put, RecordsInv, RecordsTyped, TagsTyped
    <3> QED BY <1>1, <3>1 DEF TagCreate, RecordsInv, RecordsTyped, TagsTyped
  <2>1. RecordsTyped'
    BY <1>1, <2>7 DEF RecordsInv, RecordsTyped, TagCreate,
         EndpointsTyped, EndpointGroupsTyped, EdgeGroupsTyped, EdgeStacksTyped
  <2>5. IdsIssued'
    BY <1>1 DEF RecordsInv, IdsIssued, TagCreate, Put, Issue
  <2>2. RecordsResolve'
    BY <1>1 DEF RecordsInv, RecordsResolve, TagCreate, Put
  <2>3. t \notin DOMAIN tags
    BY <1>1 DEF RecordsInv, IdsIssued, TagCreate, Issue
  <2>4. TagsListTheirUsers'
    BY <1>1, <2>3 DEF RecordsInv, RecordsResolve, TagsListTheirUsers, TagCreate, Put
  <2> QED BY <2>1, <2>2, <2>4, <2>5 DEF RecordsInv
<1>2. CASE TagDelete(t)
  <2>1. RecordsTyped'
    <3>1. TagsTyped'
      BY <1>2 DEF RecordsInv, RecordsTyped, TagsTyped, TagDelete, Delete
    <3>2. EndpointsTyped' /\ EndpointGroupsTyped' /\ EdgeGroupsTyped'
      BY <1>2, TagDeleteFields DEF RecordsInv, RecordsTyped,
           EndpointsTyped, EndpointGroupsTyped, EdgeGroupsTyped
    <3>3. EdgeStacksTyped'
      BY <1>2 DEF RecordsInv, RecordsTyped, EdgeStacksTyped, TagDelete
    <3> QED BY <3>1, <3>2, <3>3 DEF RecordsTyped
  <2>4. IdsIssued'
    BY <1>2, TagDeleteFields DEF RecordsInv, IdsIssued, TagDelete, Delete
  <2>2. RecordsResolve'
    <3>1. DOMAIN tags' = DOMAIN tags \ {t} /\ edgeStacks' = edgeStacks
      BY <1>2 DEF TagDelete, Delete
    <3>2. /\ DOMAIN endpoints' = DOMAIN endpoints
          /\ DOMAIN endpointGroups' = DOMAIN endpointGroups
          /\ DOMAIN edgeGroups' = DOMAIN edgeGroups
      BY <1>2, TagDeleteFields
    <3> QED BY <1>2, <3>1, <3>2, TagDeleteFields DEF RecordsInv, RecordsResolve
  <2>3. TagsListTheirUsers'
    BY <1>2, TagDeleteFields DEF RecordsInv, TagsListTheirUsers, TagDelete, Delete
  <2> QED BY <2>1, <2>2, <2>3, <2>4 DEF RecordsInv
<1> QED BY <1>1, <1>2

-----------------------------------------------------------------------------
(* The handlers of endpoints.                                              *)

\* An endpoint record written along with its tags' lists keeps the invariant.
LEMMA PutEndpoint ==
  ASSUME RecordsInv, NEW e \in Endpoints, NEW group \in DOMAIN endpointGroups,
         NEW tagIDs \in SUBSET DOMAIN tags, NEW old \in SUBSET Tags,
         e \in DOMAIN endpoints => old = endpoints[e].TagIDs,
         endpoints' = Put(endpoints, e, [GroupID |-> group, TagIDs |-> tagIDs]),
         tags' = ListEndpoint(e, old, tagIDs),
         UNCHANGED <<endpointGroups, edgeGroups, edgeStacks>>,
         issued \cup {e} \subseteq issued'
  PROVE  RecordsInv'
<1> USE DEF RecordsInv, RecordsTyped
<1>1. [GroupID |-> group, TagIDs |-> tagIDs] \in EndpointRecord
  BY DEF EndpointRecord, EndpointGroupsTyped, TagsTyped
<1>2. /\ DOMAIN endpoints' = DOMAIN endpoints \cup {e}
      /\ endpoints'[e].GroupID = group
      /\ endpoints'[e].TagIDs = tagIDs
      /\ \A f \in DOMAIN endpoints \ {e} : endpoints'[f] = endpoints[f]
  BY DEF Put
<1>3. /\ TagsTyped'
      /\ DOMAIN tags' = DOMAIN tags
      /\ \A t \in DOMAIN tags :
           /\ tags'[t].EndpointGroups = tags[t].EndpointGroups
           /\ tags'[t].Endpoints =
                IF t \in tagIDs THEN tags[t].Endpoints \cup {e}
                ELSE IF t \in old THEN tags[t].Endpoints \ {e} ELSE tags[t].Endpoints
  <2>1. EndpointListed(tags', e, old, tagIDs)
    BY ListEndpointFields
  <2> QED BY <2>1 DEF EndpointListed, TagsTyped
<1>4. RecordsTyped'
  <2>1. EndpointsTyped'
    BY <1>1 DEF EndpointsTyped, Put
  <2>2. EndpointGroupsTyped' /\ EdgeGroupsTyped' /\ EdgeStacksTyped'
    BY DEF EndpointGroupsTyped, EdgeGroupsTyped, EdgeStacksTyped
  <2> QED BY <1>3, <2>1, <2>2
<1>5. IdsIssued'
  BY <1>2, <1>3 DEF IdsIssued
<1>6. RecordsResolve'
  BY <1>2, <1>3 DEF RecordsResolve
<1>7. ASSUME NEW t \in DOMAIN tags
      PROVE  tags'[t].Endpoints = {f \in DOMAIN endpoints' : t \in endpoints'[f].TagIDs}
  <2>1. tags[t].Endpoints = {f \in DOMAIN endpoints : t \in endpoints[f].TagIDs}
    BY DEF TagsListTheirUsers
  <2>2. e \in DOMAIN endpoints' /\ endpoints'[e].TagIDs = tagIDs
    BY <1>2
  <2>3. e \in tags'[t].Endpoints <=> t \in tagIDs
    BY <1>3, <2>1
  <2>4. \A f : f # e => (f \in tags'[t].Endpoints <=> f \in tags[t].Endpoints)
    BY <1>3
  <2>5. \A f : f # e => (f \in DOMAIN endpoints' <=> f \in DOMAIN endpoints)
    BY <1>2
  <2>6. \A f : f \in tags'[t].Endpoints <=> f \in DOMAIN endpoints' /\ t \in endpoints'[f].TagIDs
    BY <1>2, <2>1, <2>2, <2>3, <2>4, <2>5
  <2> QED BY <2>6
<1>8. ASSUME NEW t \in DOMAIN tags
      PROVE  tags'[t].EndpointGroups
               = {g \in DOMAIN endpointGroups' : t \in endpointGroups'[g].TagIDs}
  BY <1>3 DEF TagsListTheirUsers
<1>9. TagsListTheirUsers'
  BY <1>3, <1>7, <1>8 DEF TagsListTheirUsers
<1> QED BY <1>4, <1>5, <1>6, <1>9

\* Listing an endpoint under the tags it has changes nothing.
LEMMA ListAgain ==
  ASSUME RecordsInv, NEW e \in DOMAIN endpoints
  PROVE  ListEndpoint(e, endpoints[e].TagIDs, endpoints[e].TagIDs) = tags
<1> DEFINE T == endpoints[e].TagIDs
<1>1. ASSUME NEW t \in DOMAIN tags, t \in T
      PROVE  [tags[t] EXCEPT !.Endpoints = @ \cup {e}] = tags[t]
  <2>1. tags[t].Endpoints \cup {e} = tags[t].Endpoints
    BY <1>1 DEF RecordsInv, TagsListTheirUsers
  <2>2. tags[t] \in TagRecord
    BY DEF RecordsInv, RecordsTyped, TagsTyped
  <2> QED BY <2>1, <2>2 DEF TagRecord
<1>2. \A t \in DOMAIN tags : ListEndpoint(e, T, T)[t] = tags[t]
  BY <1>1 DEF ListEndpoint
<1> QED BY <1>2 DEF ListEndpoint, RecordsInv, RecordsTyped, TagsTyped

\* The records as endpointDelete leaves them.
LEMMA EndpointDeleteFields ==
  ASSUME RecordsInv, NEW e \in Endpoints, EndpointDelete(e)
  PROVE  /\ endpoints' \in [DOMAIN endpoints \ {e} -> EndpointRecord]
         /\ \A f \in DOMAIN endpoints \ {e} : endpoints'[f] = endpoints[f]
         /\ edgeGroups' \in [DOMAIN edgeGroups -> EdgeGroupRecord]
         /\ \A g \in DOMAIN edgeGroups :
              /\ edgeGroups'[g].TagIDs = edgeGroups[g].TagIDs
              /\ edgeGroups'[g].Endpoints = edgeGroups[g].Endpoints \ {e}
              /\ edgeGroups'[g].Dynamic = edgeGroups[g].Dynamic
              /\ edgeGroups'[g].PartialMatch = edgeGroups[g].PartialMatch
         /\ edgeStacks' \in [DOMAIN edgeStacks -> EdgeStackRecord]
         /\ \A s \in DOMAIN edgeStacks :
              /\ edgeStacks'[s].EdgeGroups = edgeStacks[s].EdgeGroups
              /\ edgeStacks'[s].Status = edgeStacks[s].Status \ {e}
<1> USE DEF RecordsInv, RecordsTyped
<1>1. \A g \in DOMAIN edgeGroups :
        edgeGroups[g] \in EdgeGroupRecord /\ edgeGroups[g].Endpoints \ {e} \in SUBSET Endpoints
  BY DEF EdgeGroupsTyped, EdgeGroupRecord
<1>2. \A s \in DOMAIN edgeStacks :
        edgeStacks[s] \in EdgeStackRecord /\ edgeStacks[s].Status \ {e} \in SUBSET Endpoints
  BY DEF EdgeStacksTyped, EdgeStackRecord
<1>3. /\ endpoints' \in [DOMAIN endpoints \ {e} -> EndpointRecord]
      /\ \A f \in DOMAIN endpoints \ {e} : endpoints'[f] = endpoints[f]
  BY DEF EndpointDelete, Delete, EndpointsTyped
<1>4. /\ edgeGroups' \in [DOMAIN edgeGroups -> EdgeGroupRecord]
      /\ \A g \in DOMAIN edgeGroups :
           /\ edgeGroups'[g].TagIDs = edgeGroups[g].TagIDs
           /\ edgeGroups'[g].Endpoints = edgeGroups[g].Endpoints \ {e}
           /\ edgeGroups'[g].Dynamic = edgeGroups[g].Dynamic
           /\ edgeGroups'[g].PartialMatch = edgeGroups[g].PartialMatch
  BY <1>1, EdgeGroupFields DEF EndpointDelete, EdgeGroupRecord
<1>5. /\ edgeStacks' \in [DOMAIN edgeStacks -> EdgeStackRecord]
      /\ \A s \in DOMAIN edgeStacks :
           /\ edgeStacks'[s].EdgeGroups = edgeStacks[s].EdgeGroups
           /\ edgeStacks'[s].Status = edgeStacks[s].Status \ {e}
  BY <1>2, EdgeStackFields DEF EndpointDelete, EdgeStackRecord
<1> QED BY <1>3, <1>4, <1>5

\* endpointDelete keeps the invariant of the records.
LEMMA EndpointDeleteRecords ==
  ASSUME RecordsInv, NEW e \in Endpoints, EndpointDelete(e)
  PROVE  RecordsInv'
<1> USE DEF RecordsInv, RecordsTyped
<1>1. /\ TagsTyped'
      /\ DOMAIN tags' = DOMAIN tags
      /\ \A t \in DOMAIN tags :
           /\ tags'[t].EndpointGroups = tags[t].EndpointGroups
           /\ tags'[t].Endpoints =
                IF t \in endpoints[e].TagIDs THEN tags[t].Endpoints \ {e} ELSE tags[t].Endpoints
  <2>1. tags' = ListEndpoint(e, endpoints[e].TagIDs, {})
    BY DEF EndpointDelete
  <2>2. EndpointListed(tags', e, endpoints[e].TagIDs, {})
    BY <2>1, ListEndpointFields
  <2> QED BY <2>2 DEF EndpointListed, TagsTyped
<1>2. endpointGroups' = endpointGroups /\ issued' = issued
  BY DEF EndpointDelete
<1>3. /\ DOMAIN endpoints' = DOMAIN endpoints \ {e}
      /\ DOMAIN edgeGroups' = DOMAIN edgeGroups
      /\ DOMAIN edgeStacks' = DOMAIN edgeStacks
  BY EndpointDeleteFields
<1>4. RecordsTyped'
  <2>1. EndpointsTyped' /\ EdgeGroupsTyped' /\ EdgeStacksTyped'
    BY EndpointDeleteFields DEF EndpointsTyped, EdgeGroupsTyped, EdgeStacksTyped
  <2>2. EndpointGroupsTyped'
    BY <1>2 DEF EndpointGroupsTyped
  <2> QED BY <1>1, <2>1, <2>2
<1>5. IdsIssued'
  BY <1>1, <1>2, <1>3 DEF IdsIssued
<1>6. RecordsResolve'
  BY <1>1, <1>2, <1>3, EndpointDeleteFields DEF RecordsResolve
<1>7. ASSUME NEW t \in DOMAIN tags
      PROVE  /\ tags'[t].Endpoints = {f \in DOMAIN endpoints' : t \in endpoints'[f].TagIDs}
             /\ tags'[t].EndpointGroups
                  = {g \in DOMAIN endpointGroups' : t \in endpointGroups'[g].TagIDs}
  <2>1. tags[t].Endpoints = {f \in DOMAIN endpoints : t \in endpoints[f].TagIDs}
    BY DEF TagsListTheirUsers
  <2>2. tags'[t].Endpoints = tags[t].Endpoints \ {e}
    BY <1>1, <2>1
  <2>3. tags'[t].Endpoints = {f \in DOMAIN endpoints' : t \in endpoints'[f].TagIDs}
    BY <1>3, <2>1, <2>2, EndpointDeleteFields
  <2>4. tags'[t].EndpointGroups
          = {g \in DOMAIN endpointGroups' : t \in endpointGroups'[g].TagIDs}
    BY <1>1, <1>2 DEF TagsListTheirUsers
  <2> QED BY <2>3, <2>4
<1>8. TagsListTheirUsers'
  BY <1>1, <1>7 DEF TagsListTheirUsers
<1> QED BY <1>4, <1>5, <1>6, <1>8

\* The handlers of endpoints keep the invariant of the records.
LEMMA EndpointStepRecords ==
  ASSUME RecordsInv, EndpointStep
  PROVE  RecordsInv'
<1> PICK e \in Endpoints :
      \/ EndpointDelete(e)
      \/ \E group \in EndpointGroups, tagIDs \in SUBSET Tags :
           EndpointCreate(e, group, tagIDs) \/ EndpointUpdate(e, group, tagIDs)
  BY DEF EndpointStep
<1>1. CASE EndpointDelete(e)
  BY <1>1, EndpointDeleteRecords
<1>2. ASSUME NEW group \in EndpointGroups, NEW tagIDs \in SUBSET Tags,
             EndpointCreate(e, group, tagIDs)
      PROVE  RecordsInv'
  <2>1. e \notin DOMAIN endpoints
    BY <1>2 DEF EndpointCreate, Issue, RecordsInv, IdsIssued
  <2> QED BY <1>2, <2>1, PutEndpoint DEF EndpointCreate, Issue
<1>3. ASSUME NEW group \in EndpointGroups, NEW tagIDs \in SUBSET Tags,
             EndpointUpdate(e, group, tagIDs)
      PROVE  RecordsInv'
  <2>1. e \in DOMAIN endpoints /\ endpoints[e].TagIDs \in SUBSET Tags
    BY <1>3 DEF EndpointUpdate, RecordsInv, RecordsTyped, TagsTyped
  <2>2. tags' = ListEndpoint(e, endpoints[e].TagIDs, tagIDs)
    BY <1>3, <2>1, ListAgain DEF EndpointUpdate
  <2>3. e \in issued
    BY <2>1 DEF RecordsInv, IdsIssued
  <2> QED BY <1>3, <2>1, <2>2, <2>3, PutEndpoint DEF EndpointUpdate
<1> QED BY <1>1, <1>2, <1>3

-----------------------------------------------------------------------------
(* The handlers of endpoint groups.                                        *)

\* An endpoint group written along with its tags' lists, some endpoints joining
\* it, keeps the invariant.
LEMMA PutEndpointGroup ==
  ASSUME RecordsInv, NEW g \in EndpointGroups, NEW tagIDs \in SUBSET DOMAIN tags,
         NEW old, NEW moved,
         g \in DOMAIN endpointGroups => old = endpointGroups[g].TagIDs,
         endpointGroups' = Put(endpointGroups, g, [TagIDs |-> tagIDs]),
         tags' = ListEndpointGroup(g, old, tagIDs),
         endpoints' = Move(moved, g),
         UNCHANGED <<edgeGroups, edgeStacks>>,
         issued \cup {g} \subseteq issued'
  PROVE  RecordsInv'
<1> USE DEF RecordsInv, RecordsTyped
<1>1. [TagIDs |-> tagIDs] \in EndpointGroupRecord
  BY DEF EndpointGroupRecord, TagsTyped
<1>2. /\ DOMAIN endpointGroups' = DOMAIN endpointGroups \cup {g}
      /\ endpointGroups'[g].TagIDs = tagIDs
      /\ \A h \in DOMAIN endpointGroups \ {g} : endpointGroups'[h] = endpointGroups[h]
  BY DEF Put
<1>3. /\ TagsTyped'
      /\ DOMAIN tags' = DOMAIN tags
      /\ \A t \in DOMAIN tags :
           /\ tags'[t].Endpoints = tags[t].Endpoints
           /\ tags'[t].EndpointGroups =
                IF t \in tagIDs THEN tags[t].EndpointGroups \cup {g}
                ELSE IF t \in old THEN tags[t].EndpointGroups \ {g}
                ELSE tags[t].EndpointGroups
  <2>1. EndpointGroupListed(tags', g, old, tagIDs)
    BY ListEndpointGroupFields
  <2> QED BY <2>1 DEF EndpointGroupListed, TagsTyped
<1>4. /\ EndpointsTyped'
      /\ DOMAIN endpoints' = DOMAIN endpoints
      /\ \A e \in DOMAIN endpoints :
           /\ endpoints'[e].TagIDs = endpoints[e].TagIDs
           /\ endpoints'[e].GroupID = IF e \in moved THEN g ELSE endpoints[e].GroupID
  <2>1. Moved(endpoints', moved, g)
    BY MoveFields
  <2> QED BY <2>1 DEF Moved, EndpointsTyped
<1>5. RecordsTyped'
  <2>1. EndpointGroupsTyped'
    BY <1>1 DEF EndpointGroupsTyped, Put
  <2>2. EdgeGroupsTyped' /\ EdgeStacksTyped'
    BY DEF EdgeGroupsTyped, EdgeStacksTyped
  <2> QED BY <1>3, <1>4, <2>1, <2>2
<1>6. IdsIssued'
  BY <1>2, <1>3, <1>4 DEF IdsIssued
<1>7. RecordsResolve'
  BY <1>2, <1>3, <1>4 DEF RecordsResolve
<1>8. ASSUME NEW t \in DOMAIN tags
      PROVE  tags'[t].EndpointGroups
               = {h \in DOMAIN endpointGroups' : t \in endpointGroups'[h].TagIDs}
  <2>1. tags[t].EndpointGroups = {h \in DOMAIN endpointGroups : t \in endpointGroups[h].TagIDs}
    BY DEF TagsListTheirUsers
  <2>2. g \in tags'[t].EndpointGroups <=> t \in tagIDs
    BY <1>3, <2>1
  <2>3. \A h : h # g => (h \in tags'[t].EndpointGroups <=> h \in tags[t].EndpointGroups)
    BY <1>3
  <2>4. \A h : h # g => (h \in DOMAIN endpointGroups' <=> h \in DOMAIN endpointGroups)
    BY <1>2
  <2>5. \A h : h \in tags'[t].EndpointGroups
                 <=> h \in DOMAIN endpointGroups' /\ t \in endpointGroups'[h].TagIDs
    BY <1>2, <2>1, <2>2, <2>3, <2>4
  <2> QED BY <2>5
<1>9. ASSUME NEW t \in DOMAIN tags
      PROVE  tags'[t].Endpoints = {e \in DOMAIN endpoints' : t \in endpoints'[e].TagIDs}
  BY <1>3, <1>4 DEF TagsListTheirUsers
<1>10. TagsListTheirUsers'
  BY <1>3, <1>8, <1>9 DEF TagsListTheirUsers
<1> QED BY <1>5, <1>6, <1>7, <1>10

\* A group that loses its members to Unassigned and is deleted leaves nothing.
LEMMA EndpointGroupDeleteRecords ==
  ASSUME RecordsInv, NEW g \in EndpointGroups, EndpointGroupDelete(g)
  PROVE  RecordsInv'
<1> USE DEF RecordsInv, RecordsTyped
<1>1. /\ g \in DOMAIN endpointGroups /\ g # Unassigned
      /\ UNCHANGED <<edgeGroups, edgeStacks, issued>>
  BY DEF EndpointGroupDelete
<1>2. /\ EndpointGroupsTyped'
      /\ DOMAIN endpointGroups' = DOMAIN endpointGroups \ {g}
      /\ \A h \in DOMAIN endpointGroups \ {g} : endpointGroups'[h] = endpointGroups[h]
  BY DEF EndpointGroupDelete, Delete, EndpointGroupsTyped
<1>3. /\ TagsTyped'
      /\ DOMAIN tags' = DOMAIN tags
      /\ \A t \in DOMAIN tags :
           /\ tags'[t].Endpoints = tags[t].Endpoints
           /\ tags'[t].EndpointGroups =
                IF t \in endpointGroups[g].TagIDs THEN tags[t].EndpointGroups \ {g}
                ELSE tags[t].EndpointGroups
  <2>1. tags' = ListEndpointGroup(g, endpointGroups[g].TagIDs, {})
    BY DEF EndpointGroupDelete
  <2>2. EndpointGroupListed(tags', g, endpointGroups[g].TagIDs, {})
    BY <2>1, ListEndpointGroupFields
  <2> QED BY <2>2 DEF EndpointGroupListed, TagsTyped
<1>4. /\ EndpointsTyped'
      /\ DOMAIN endpoints' = DOMAIN endpoints
      /\ \A e \in DOMAIN endpoints :
           /\ endpoints'[e].TagIDs = endpoints[e].TagIDs
           /\ endpoints'[e].GroupID =
                IF endpoints[e].GroupID = g THEN Unassigned ELSE endpoints[e].GroupID
  <2>1. endpoints' = Move(Members(g, endpoints), Unassigned)
    BY DEF EndpointGroupDelete
  <2>2. Moved(endpoints', Members(g, endpoints), Unassigned)
    BY <2>1, MoveFields, EdgeComputeAssumption
  <2> QED BY <2>2 DEF Moved, Members, EndpointsTyped
<1>5. RecordsTyped'
  <2>1. EdgeGroupsTyped' /\ EdgeStacksTyped'
    BY <1>1 DEF EdgeGroupsTyped, EdgeStacksTyped
  <2> QED BY <1>2, <1>3, <1>4, <2>1
<1>6. IdsIssued'
  BY <1>1, <1>2, <1>3, <1>4 DEF IdsIssued
<1>7. RecordsResolve'
  BY <1>1, <1>2, <1>3, <1>4 DEF RecordsResolve
<1>8. ASSUME NEW t \in DOMAIN tags
      PROVE  /\ tags'[t].Endpoints = {e \in DOMAIN endpoints' : t \in endpoints'[e].TagIDs}
             /\ tags'[t].EndpointGroups
                  = {h \in DOMAIN endpointGroups' : t \in endpointGroups'[h].TagIDs}
  <2>1. tags[t].EndpointGroups = {h \in DOMAIN endpointGroups : t \in endpointGroups[h].TagIDs}
    BY DEF TagsListTheirUsers
  <2>2. tags'[t].EndpointGroups = tags[t].EndpointGroups \ {g}
    BY <1>3, <2>1
  <2>3. tags'[t].EndpointGroups
          = {h \in DOMAIN endpointGroups' : t \in endpointGroups'[h].TagIDs}
    BY <1>2, <2>1, <2>2
  <2>4. tags'[t].Endpoints = {e \in DOMAIN endpoints' : t \in endpoints'[e].TagIDs}
    BY <1>3, <1>4 DEF TagsListTheirUsers
  <2> QED BY <2>3, <2>4
<1>9. TagsListTheirUsers'
  BY <1>3, <1>8 DEF TagsListTheirUsers
<1> QED BY <1>5, <1>6, <1>7, <1>9

\* Endpoints that move to a group that is there keep the invariant.
LEMMA MoveRecords ==
  ASSUME RecordsInv, NEW moved, NEW g \in DOMAIN endpointGroups,
         endpoints' = Move(moved, g),
         UNCHANGED <<tags, endpointGroups, edgeGroups, edgeStacks, issued>>
  PROVE  RecordsInv'
<1> USE DEF RecordsInv, RecordsTyped
<1>1. /\ EndpointsTyped'
      /\ DOMAIN endpoints' = DOMAIN endpoints
      /\ \A e \in DOMAIN endpoints :
           /\ endpoints'[e].TagIDs = endpoints[e].TagIDs
           /\ endpoints'[e].GroupID = IF e \in moved THEN g ELSE endpoints[e].GroupID
  <2>1. g \in EndpointGroups
    BY DEF EndpointGroupsTyped
  <2>2. Moved(endpoints', moved, g)
    BY <2>1, MoveFields
  <2> QED BY <2>2 DEF Moved, EndpointsTyped
<1>2. RecordsTyped'
  BY <1>1 DEF TagsTyped, EndpointGroupsTyped, EdgeGroupsTyped, EdgeStacksTyped
<1>3. IdsIssued' /\ RecordsResolve'
  BY <1>1 DEF IdsIssued, RecordsResolve
<1>4. TagsListTheirUsers'
  BY <1>1 DEF TagsListTheirUsers
<1> QED BY <1>2, <1>3, <1>4

\* Moving no endpoint changes nothing.
LEMMA MoveNone ==
  ASSUME EndpointsTyped, NEW g
  PROVE  Move({}, g) = endpoints
BY DEF Move, EndpointsTyped

\* The handlers of endpoint groups keep the invariant of the records.
LEMMA EndpointGroupStepRecords ==
  ASSUME RecordsInv, EndpointGroupStep
  PROVE  RecordsInv'
<1>0. Unassigned \in DOMAIN endpointGroups /\ EndpointsTyped
  BY DEF RecordsInv, RecordsResolve, RecordsTyped
<1>1. ASSUME NEW g \in EndpointGroups, EndpointGroupDelete(g)
      PROVE  RecordsInv'
  BY <1>1, EndpointGroupDeleteRecords
<1>2. ASSUME NEW g \in EndpointGroups, NEW e \in Endpoints, EndpointGroupAddEndpoint(g, e)
      PROVE  RecordsInv'
  BY <1>2, MoveRecords DEF EndpointGroupAddEndpoint
<1>3. ASSUME NEW e \in Endpoints, EndpointGroupDeleteEndpoint(e)
      PROVE  RecordsInv'
  BY <1>0, <1>3, MoveRecords DEF EndpointGroupDeleteEndpoint
<1>4. ASSUME NEW g \in EndpointGroups, NEW tagIDs \in SUBSET Tags, EndpointGroupUpdate(g, tagIDs)
      PROVE  RecordsInv'
  <2>1. /\ tagIDs \in SUBSET DOMAIN tags
        /\ endpointGroups' = Put(endpointGroups, g, [TagIDs |-> tagIDs])
        /\ tags' = ListEndpointGroup(g, endpointGroups[g].TagIDs, tagIDs)
        /\ UNCHANGED <<edgeGroups, edgeStacks>>
        /\ issued \cup {g} \subseteq issued'
    BY <1>4 DEF EndpointGroupUpdate, RecordsInv, IdsIssued
  <2>2. endpoints' = Move({}, g)
    BY <1>0, <1>4, MoveNone DEF EndpointGroupUpdate
  <2> QED BY <2>1, <2>2, PutEndpointGroup
<1>5. ASSUME NEW g \in EndpointGroups, NEW tagIDs \in SUBSET Tags, NEW ids \in SUBSET Endpoints,
             EndpointGroupCreate(g, tagIDs, ids)
      PROVE  RecordsInv'
  <2>1. g \notin DOMAIN endpointGroups
    BY <1>5 DEF EndpointGroupCreate, Issue, RecordsInv, IdsIssued
  <2> QED BY <1>5, <2>1, PutEndpointGroup DEF EndpointGroupCreate, Issue
<1> QED BY <1>1, <1>2, <1>3, <1>4, <1>5 DEF EndpointGroupStep

-----------------------------------------------------------------------------
(* The handlers of Edge groups and Edge stacks.                            *)

\* An Edge group made from a payload refers to records that are there.
LEMMA PutEdgeGroup ==
  ASSUME RecordsInv, NEW g \in EdgeGroups, NEW payload \in EdgeGroupPayloads,
         NEW TagIDs \in SUBSET DOMAIN tags,
         NEW ids \in SUBSET (DOMAIN endpoints \cap EdgeEndpoints),
         edgeGroups' = Put(edgeGroups, g, EdgeGroupFrom(payload, TagIDs, ids)),
         UNCHANGED <<tags, endpoints, endpointGroups, edgeStacks>>,
         issued \cup {g} \subseteq issued'
  PROVE  RecordsInv'
<1> USE DEF RecordsInv, RecordsTyped
<1> DEFINE r == EdgeGroupFrom(payload, TagIDs, ids)
<1>1. DOMAIN tags \subseteq Tags /\ DOMAIN endpoints \subseteq Endpoints
  BY DEF TagsTyped, EndpointsTyped
<1>2. /\ payload.Dynamic \in BOOLEAN
      /\ payload.PartialMatch \in BOOLEAN
      /\ payload.TagIDs \subseteq DOMAIN tags
      /\ payload.Endpoints \subseteq DOMAIN endpoints
  BY DEF EdgeGroupPayloads
<1>3. /\ r \in EdgeGroupRecord
      /\ r.TagIDs \subseteq DOMAIN tags
      /\ r.Endpoints \subseteq DOMAIN endpoints \cap EdgeEndpoints
  BY <1>1, <1>2 DEF EdgeGroupFrom, EdgeGroupRecord
<1> HIDE DEF r
<1>4. /\ DOMAIN edgeGroups' = DOMAIN edgeGroups \cup {g}
      /\ edgeGroups'[g] = r
      /\ \A h \in DOMAIN edgeGroups \ {g} : edgeGroups'[h] = edgeGroups[h]
  BY DEF Put, r
<1>5. EdgeGroupsTyped'
  <2>1. edgeGroups' = Put(edgeGroups, g, r)
    BY DEF r
  <2> QED BY <1>3, <2>1 DEF EdgeGroupsTyped, Put
<1>6. RecordsTyped'
  BY <1>5 DEF TagsTyped, EndpointsTyped, EndpointGroupsTyped, EdgeStacksTyped
<1>7. IdsIssued'
  BY <1>4 DEF IdsIssued
<1>8. RecordsResolve'
  BY <1>3, <1>4 DEF RecordsResolve
<1>9. TagsListTheirUsers'
  BY DEF TagsListTheirUsers
<1> QED BY <1>6, <1>7, <1>8, <1>9

\* The handlers of Edge groups keep the invariant of the records.
LEMMA EdgeGroupStepRecords ==
  ASSUME RecordsInv, EdgeGroupStep
  PROVE  RecordsInv'
<1> PICK g \in EdgeGroups :
      \/ EdgeGroupDelete(g)
      \/ \E payload \in EdgeGroupPayloads :
           EdgeGroupCreate(g, payload) \/ EdgeGroupUpdate(g, payload)
  BY DEF EdgeGroupStep
<1>1. CASE EdgeGroupDelete(g)
  <2>1. /\ DOMAIN edgeGroups' = DOMAIN edgeGroups \ {g}
        /\ \A h \in DOMAIN edgeGroups \ {g} : edgeGroups'[h] = edgeGroups[h]
        /\ \A s \in DOMAIN edgeStacks : g \notin edgeStacks[s].EdgeGroups
        /\ UNCHANGED <<tags, endpoints, endpointGroups, edgeStacks, issued>>
    BY <1>1 DEF EdgeGroupDelete, Delete
  <2>2. EdgeGroupsTyped'
    BY <1>1 DEF EdgeGroupDelete, Delete, RecordsInv, RecordsTyped, EdgeGroupsTyped
  <2>3. RecordsTyped'
    BY <2>1, <2>2 DEF RecordsInv, RecordsTyped, TagsTyped, EndpointsTyped,
         EndpointGroupsTyped, EdgeStacksTyped
  <2>4. IdsIssued' /\ RecordsResolve' /\ TagsListTheirUsers'
    BY <2>1 DEF RecordsInv, IdsIssued, RecordsResolve, TagsListTheirUsers
  <2> QED BY <2>3, <2>4 DEF RecordsInv
<1>2. ASSUME NEW payload \in EdgeGroupPayloads, EdgeGroupCreate(g, payload)
      PROVE  RecordsInv'
  BY <1>2, PutEdgeGroup DEF EdgeGroupCreate, Issue
<1>3. ASSUME NEW payload \in EdgeGroupPayloads, EdgeGroupUpdate(g, payload)
      PROVE  RecordsInv'
  <2>1. /\ g \in issued
        /\ edgeGroups[g].TagIDs \in SUBSET DOMAIN tags
        /\ edgeGroups[g].Endpoints \in SUBSET (DOMAIN endpoints \cap EdgeEndpoints)
    BY <1>3 DEF EdgeGroupUpdate, RecordsInv, IdsIssued, RecordsResolve
  <2>2. /\ edgeGroups' = Put(edgeGroups, g,
             EdgeGroupFrom(payload, edgeGroups[g].TagIDs, edgeGroups[g].Endpoints))
        /\ UNCHANGED <<tags, endpoints, endpointGroups, edgeStacks, issued>>
    BY <1>3 DEF EdgeGroupUpdate
  <2> QED BY <2>1, <2>2, PutEdgeGroup
<1> QED BY <1>1, <1>2, <1>3

\* A change of the Edge stacks alone that keeps their type and references keeps
\* the invariant.
LEMMA StacksRecords ==
  ASSUME RecordsInv, EdgeStacksTyped',
         UNCHANGED <<tags, endpoints, endpointGroups, edgeGroups>>,
         issued \cup DOMAIN edgeStacks' \subseteq issued',
         \A s \in DOMAIN edgeStacks' : edgeStacks'[s].EdgeGroups \subseteq DOMAIN edgeGroups,
         \A s \in DOMAIN edgeStacks' : edgeStacks'[s].Status \subseteq DOMAIN endpoints
  PROVE  RecordsInv'
<1>1. RecordsTyped'
  BY DEF RecordsInv, RecordsTyped, TagsTyped, EndpointsTyped, EndpointGroupsTyped, EdgeGroupsTyped
<1>2. IdsIssued' /\ RecordsResolve' /\ TagsListTheirUsers'
  BY DEF RecordsInv, IdsIssued, RecordsResolve, TagsListTheirUsers
<1> QED BY <1>1, <1>2 DEF RecordsInv

\* The handlers of Edge stacks keep the invariant of the records.
LEMMA EdgeStackStepRecords ==
  ASSUME RecordsInv, EdgeStackStep
  PROVE  RecordsInv'
<1> USE DEF RecordsInv, RecordsTyped
<1>0. /\ DOMAIN edgeStacks \subseteq issued
      /\ \A s \in DOMAIN edgeStacks : edgeStacks[s] \in EdgeStackRecord
      /\ \A s \in DOMAIN edgeStacks : edgeStacks[s].EdgeGroups \subseteq DOMAIN edgeGroups
      /\ \A s \in DOMAIN edgeStacks : edgeStacks[s].Status \subseteq DOMAIN endpoints
      /\ DOMAIN edgeGroups \subseteq EdgeGroups
      /\ DOMAIN endpoints \subseteq Endpoints
  BY DEF IdsIssued, RecordsResolve, EdgeStacksTyped, EdgeGroupsTyped, EndpointsTyped
<1>1. ASSUME NEW s \in EdgeStacks, EdgeStackDelete(s)
      PROVE  RecordsInv'
  <2>1. EdgeStacksTyped'
    BY <1>1 DEF EdgeStackDelete, Delete, EdgeStacksTyped
  <2> QED BY <1>0, <1>1, <2>1, StacksRecords DEF EdgeStackDelete, Delete
<1>2. ASSUME NEW s \in EdgeStacks, NEW e \in Endpoints, EdgeStackStatusUpdate(s, e)
      PROVE  RecordsInv'
  <2>1. edgeStacks[s].Status \cup {e} \in SUBSET Endpoints /\ edgeStacks[s] \in EdgeStackRecord
    BY <1>0, <1>2 DEF EdgeStackStatusUpdate
  <2>2. /\ edgeStacks' \in [DOMAIN edgeStacks -> EdgeStackRecord]
        /\ edgeStacks'[s].EdgeGroups = edgeStacks[s].EdgeGroups
        /\ edgeStacks'[s].Status = edgeStacks[s].Status \cup {e}
        /\ \A r \in DOMAIN edgeStacks \ {s} : edgeStacks'[r] = edgeStacks[r]
    BY <1>0, <1>2, <2>1, EdgeStackFields DEF EdgeStackStatusUpdate, EdgeStackRecord
  <2>3. EdgeStacksTyped'
    BY <2>2 DEF EdgeStacksTyped
  <2> QED BY <1>0, <1>2, <2>2, <2>3, StacksRecords DEF EdgeStackStatusUpdate
<1>3. ASSUME NEW s \in EdgeStacks, NEW groups \in SUBSET EdgeGroups, EdgeStackCreate(s, groups)
      PROVE  RecordsInv'
  <2>1. [EdgeGroups |-> groups, Status |-> {}] \in EdgeStackRecord
    BY DEF EdgeStackRecord
  <2>2. /\ edgeStacks' = Put(edgeStacks, s, [EdgeGroups |-> groups, Status |-> {}])
        /\ groups \subseteq DOMAIN edgeGroups
        /\ UNCHANGED <<tags, endpoints, endpointGroups, edgeGroups>>
        /\ issued' = issued \cup {s}
    BY <1>3 DEF EdgeStackCreate, Issue
  <2>3. EdgeStacksTyped'
    BY <2>1, <2>2 DEF EdgeStacksTyped, Put
  <2>4. /\ DOMAIN edgeStacks' = DOMAIN edgeStacks \cup {s}
        /\ edgeStacks'[s].EdgeGroups = groups /\ edgeStacks'[s].Status = {}
        /\ \A r \in DOMAIN edgeStacks \ {s} : edgeStacks'[r] = edgeStacks[r]
    BY <2>2 DEF Put
  <2> QED BY <1>0, <2>2, <2>3, <2>4, StacksRecords
<1>4. ASSUME NEW s \in EdgeStacks, NEW groups \in SUBSET EdgeGroups, NEW b \in BOOLEAN,
             EdgeStackUpdate(s, groups, b)
      PROVE  RecordsInv'
  <2>1. /\ s \in DOMAIN edgeStacks
        /\ groups \subseteq DOMAIN edgeGroups
        /\ edgeStacks' = [edgeStacks EXCEPT
             ![s].EdgeGroups = groups, ![s].Status = IF b THEN {} ELSE @]
        /\ UNCHANGED <<tags, endpoints, endpointGroups, edgeGroups, issued>>
    BY <1>4 DEF EdgeStackUpdate
  <2>2. /\ DOMAIN edgeStacks' = DOMAIN edgeStacks
        /\ edgeStacks'[s] \in EdgeStackRecord
        /\ edgeStacks'[s].EdgeGroups = groups
        /\ edgeStacks'[s].Status \subseteq edgeStacks[s].Status
        /\ \A r \in DOMAIN edgeStacks \ {s} : edgeStacks'[r] = edgeStacks[r]
    BY <1>0, <2>1 DEF EdgeStackRecord, EdgeStacksTyped
  <2>3. EdgeStacksTyped'
    BY <2>1, <2>2 DEF EdgeStacksTyped
  <2> QED BY <1>0, <2>1, <2>2, <2>3, StacksRecords
<1> QED BY <1>1, <1>2, <1>3, <1>4 DEF EdgeStackStep

\* Every step keeps the invariant of the records.
LEMMA NextRecords ==
  ASSUME RecordsInv, [Next]_vars
  PROVE  RecordsInv'
<1>1. CASE UNCHANGED vars
  BY <1>1 DEF vars, RecordsInv, RecordsTyped, TagsTyped, EndpointsTyped, EndpointGroupsTyped,
       EdgeGroupsTyped, EdgeStacksTyped, IdsIssued, RecordsResolve, TagsListTheirUsers
<1>2. CASE Next
  BY <1>2, TagStepRecords, EndpointStepRecords, EndpointGroupStepRecords,
     EdgeGroupStepRecords, EdgeStackStepRecords DEF Next
<1> QED BY <1>1, <1>2

-----------------------------------------------------------------------------
(* Which endpoints an Edge group covers.                                   *)

\* Counting is the code's way to say that the first set is part of the second.
LEMMA ContainsIsSubset ==
  ASSUME NEW A \in SUBSET Tags, NEW B
  PROVE  Contains(A, B) <=> A \subseteq B
<1>1. IsFiniteSet(A) /\ A \cap B \subseteq A
  BY EdgeComputeAssumption, FS_Subset
<1>2. ASSUME A \subseteq B PROVE Contains(A, B)
  <2>1. A \cap B = A
    BY <1>2
  <2> QED BY <2>1 DEF Contains
<1>3. ASSUME Contains(A, B) PROVE A \subseteq B
  <2>1. A \cap B = A
    BY <1>1, <1>3, FS_Subset DEF Contains
  <2> QED BY <2>1
<1> QED BY <1>2, <1>3

\* The two directions of the search agree: a group finds an Edge endpoint exactly
\* when it is related to the endpoint.
LEMMA RelatedFound ==
  ASSUME NEW r, NEW e \in DOMAIN endpoints \cap EdgeEndpoints
  PROVE  e \in EdgeGroupRelatedEndpoints(r, endpoints, endpointGroups)
           <=> EdgeGroupRelatedToEndpoint(r, e, EndpointTags(e, endpoints, endpointGroups))
BY DEF EdgeGroupRelatedEndpoints, EdgeGroupRelatedToEndpoint

\* A group without a tag that the endpoint does not have covers it still.
LEMMA CoversWithoutTag ==
  ASSUME NEW r, NEW q, NEW e, NEW T, NEW t, t \notin T,
         r.TagIDs \in SUBSET Tags,
         q.Dynamic = r.Dynamic, q.PartialMatch = r.PartialMatch,
         q.Endpoints = r.Endpoints, q.TagIDs = r.TagIDs \ {t},
         EdgeGroupRelatedToEndpoint(r, e, T)
  PROVE  EdgeGroupRelatedToEndpoint(q, e, T)
<1>1. r.TagIDs \ {t} \in SUBSET Tags
  OBVIOUS
<1>2. Contains(r.TagIDs, T) => Contains(q.TagIDs, T)
  <2>1. Contains(r.TagIDs, T) <=> r.TagIDs \subseteq T
    BY ContainsIsSubset
  <2>2. Contains(q.TagIDs, T) <=> q.TagIDs \subseteq T
    BY <1>1, ContainsIsSubset
  <2> QED BY <2>1, <2>2
<1> QED BY <1>2 DEF EdgeGroupRelatedToEndpoint

-----------------------------------------------------------------------------
(* The relations.                                                          *)

RelationsShaped ==
  /\ DOMAIN endpointRelations \subseteq DOMAIN endpoints
  /\ endpointRelations \in [DOMAIN endpointRelations -> SUBSET EdgeStacks]
  /\ DOMAIN endpoints \cap EdgeEndpoints \subseteq DOMAIN endpointRelations
  /\ \A e \in DOMAIN endpointRelations \ EdgeEndpoints : endpointRelations[e] = {}

\* A step gives endpoint e no stack outside its groups, nor lets it miss one.
Sound(e)    == (e \in DOMAIN endpointRelations => endpointRelations[e] \subseteq Covering(e))
                 => endpointRelations'[e] \subseteq Covering(e)'
Complete(e) == (e \in DOMAIN endpoints => Covering(e) \subseteq endpointRelations[e])
                 => Covering(e)' \subseteq endpointRelations'[e]

\* What an endpoint runs is a set of the stacks there are.
LEMMA RelatedType ==
  \A e, es, groups, egs, stacks :
    EndpointRelatedEdgeStacks(e, es, groups, egs, stacks) \subseteq DOMAIN stacks
BY DEF EndpointRelatedEdgeStacks

\* The loops that update relations keep their shape.
LEMMA UpdateShaped ==
  ASSUME RecordsInv, RelationsShaped, NEW ids \in SUBSET EdgeEndpoints,
         NEW es, NEW groups, NEW egs, UpdateEndpointRelations(ids, es, groups, egs),
         DOMAIN endpoints' = DOMAIN endpoints
  PROVE  RelationsShaped'
<1>1. DOMAIN edgeStacks \subseteq EdgeStacks
  BY DEF RecordsInv, RecordsTyped, EdgeStacksTyped
<1>2. /\ DOMAIN endpointRelations' = DOMAIN endpointRelations
      /\ endpointRelations' = [e \in DOMAIN endpointRelations |->
           IF e \in ids THEN EndpointRelatedEdgeStacks(e, es, groups, egs, edgeStacks)
           ELSE endpointRelations[e]]
  BY DEF UpdateEndpointRelations
<1>3. \A e : EndpointRelatedEdgeStacks(e, es, groups, egs, edgeStacks) \in SUBSET EdgeStacks
  BY <1>1, RelatedType
<1> QED BY <1>2, <1>3 DEF RelationsShaped

\* An endpoint whose tags, Edge groups and stacks stay is covered by the same stacks.
LEMMA CoveringSame ==
  ASSUME NEW e,
         EndpointTags(e, endpoints', endpointGroups') = EndpointTags(e, endpoints, endpointGroups),
         edgeGroups' = edgeGroups, edgeStacks' = edgeStacks
  PROVE  Covering(e)' = Covering(e)
BY DEF Covering, EndpointRelatedEdgeStacks

\* The tags of an endpoint stay if its own, its group and its group's stay.
LEMMA TagsSame ==
  ASSUME RecordsInv, NEW e \in DOMAIN endpoints,
         endpoints'[e].TagIDs = endpoints[e].TagIDs,
         endpoints'[e].GroupID = endpoints[e].GroupID,
         endpoints[e].GroupID \in DOMAIN endpointGroups',
         endpointGroups'[endpoints[e].GroupID].TagIDs
           = endpointGroups[endpoints[e].GroupID].TagIDs
  PROVE  EndpointTags(e, endpoints', endpointGroups') = EndpointTags(e, endpoints, endpointGroups)
<1>1. endpoints[e].GroupID \in DOMAIN endpointGroups
  BY DEF RecordsInv, RecordsResolve
<1> QED BY <1>1 DEF EndpointTags

\* A step that computes anew the relations of some endpoints from what it writes,
\* and leaves the coverage of the others, is sound and complete.
LEMMA UpdateKeeps ==
  ASSUME RelationsShaped, NEW ids,
         UpdateEndpointRelations(ids, endpoints', endpointGroups', edgeGroups'),
         edgeStacks' = edgeStacks,
         NEW e \in DOMAIN endpoints \cap EdgeEndpoints,
         e \notin ids => Covering(e)' = Covering(e)
  PROVE  Sound(e) /\ Complete(e)
<1>1. e \in DOMAIN endpointRelations
  BY DEF RelationsShaped
<1>2. endpointRelations'[e] =
        IF e \in ids
        THEN EndpointRelatedEdgeStacks(e, endpoints', endpointGroups', edgeGroups', edgeStacks)
        ELSE endpointRelations[e]
  BY <1>1 DEF UpdateEndpointRelations
<1>3. CASE e \in ids
  BY <1>2, <1>3 DEF Sound, Complete, Covering
<1>4. CASE e \notin ids
  BY <1>1, <1>2, <1>4 DEF Sound, Complete
<1> QED BY <1>3, <1>4

\* A step keeps the relations' shape, gives no Edge endpoint a stack outside its
\* groups and, unless it deletes a tag, lets none miss a stack.
RelationsKept ==
  /\ RelationsShaped'
  /\ \A e \in DOMAIN endpoints' \cap EdgeEndpoints :
       Sound(e) /\ (DOMAIN tags \subseteq DOMAIN tags' => Complete(e))

\* The handlers that compute relations anew with all that they write keep them.
LEMMA UpdateRelations ==
  ASSUME RecordsInv, RelationsShaped, NEW ids \in SUBSET EdgeEndpoints,
         UpdateEndpointRelations(ids, endpoints', endpointGroups', edgeGroups'),
         DOMAIN endpoints' = DOMAIN endpoints, edgeStacks' = edgeStacks,
         \A e \in (DOMAIN endpoints \cap EdgeEndpoints) \ ids : Covering(e)' = Covering(e)
  PROVE  RelationsKept
<1>1. RelationsShaped'
  BY UpdateShaped
<1>2. ASSUME NEW e \in DOMAIN endpoints \cap EdgeEndpoints
      PROVE  Sound(e) /\ Complete(e)
  BY UpdateKeeps
<1> QED BY <1>1, <1>2 DEF RelationsKept

\* So do those that touch neither a relation nor what an endpoint is covered by.
LEMMA SameRelations ==
  ASSUME RelationsShaped, endpointRelations' = endpointRelations,
         DOMAIN endpoints' = DOMAIN endpoints,
         \A e \in DOMAIN endpoints \cap EdgeEndpoints : Covering(e)' = Covering(e)
  PROVE  RelationsKept
<1>1. RelationsShaped'
  BY DEF RelationsShaped
<1>2. ASSUME NEW e \in DOMAIN endpoints \cap EdgeEndpoints
      PROVE  Sound(e) /\ Complete(e)
  BY DEF Sound, Complete, RelationsShaped
<1> QED BY <1>1, <1>2 DEF RelationsKept

\* The relations after a tag was deleted: each Edge endpoint that had the tag runs
\* what the Edge groups with the tag gave it, a part of what they give it without.
LEMMA TagDeleteRelations ==
  ASSUME RecordsInv, RelationsShaped, NEW t \in Tags, TagDelete(t)
  PROVE  RelationsKept
<1> DEFINE ids == TaggedEndpoints(t) \cap EdgeEndpoints
<1>1. /\ t \in DOMAIN tags /\ t \notin DOMAIN tags'
      /\ UpdateEndpointRelations(ids, endpoints', endpointGroups', edgeGroups)
      /\ edgeStacks' = edgeStacks
  BY DEF TagDelete, Delete
<1>2. /\ DOMAIN endpoints' = DOMAIN endpoints
      /\ DOMAIN endpointGroups' = DOMAIN endpointGroups
      /\ DOMAIN edgeGroups' = DOMAIN edgeGroups
      /\ \A e \in DOMAIN endpoints :
           /\ endpoints'[e].GroupID = endpoints[e].GroupID
           /\ endpoints'[e].TagIDs = endpoints[e].TagIDs \ {t}
      /\ \A g \in DOMAIN endpointGroups :
           endpointGroups'[g].TagIDs = endpointGroups[g].TagIDs \ {t}
      /\ \A g \in DOMAIN edgeGroups :
           /\ edgeGroups'[g].TagIDs = edgeGroups[g].TagIDs \ {t}
           /\ edgeGroups'[g].Endpoints = edgeGroups[g].Endpoints
           /\ edgeGroups'[g].Dynamic = edgeGroups[g].Dynamic
           /\ edgeGroups'[g].PartialMatch = edgeGroups[g].PartialMatch
           /\ edgeGroups[g].TagIDs \in SUBSET Tags
  BY TagDeleteFields DEF RecordsInv, RecordsTyped, EdgeGroupsTyped, EdgeGroupRecord
<1>3. \A e \in DOMAIN endpoints :
        EndpointTags(e, endpoints', endpointGroups')
          = EndpointTags(e, endpoints, endpointGroups) \ {t}
  BY <1>2 DEF EndpointTags
<1>4. \A e \in (DOMAIN endpoints \cap EdgeEndpoints) \ ids :
        t \notin EndpointTags(e, endpoints, endpointGroups)
  BY <1>1 DEF RecordsInv, TagsListTheirUsers, TaggedEndpoints, EndpointTags
<1> HIDE DEF TagDelete, ids
<1>5. \A e \in DOMAIN endpoints :
        EndpointRelatedEdgeStacks(e, endpoints', endpointGroups', edgeGroups, edgeStacks)
          \subseteq Covering(e)'
  <2> SUFFICES ASSUME NEW e \in DOMAIN endpoints, NEW g \in DOMAIN edgeGroups,
                      EdgeGroupRelatedToEndpoint(edgeGroups[g], e,
                        EndpointTags(e, endpoints', endpointGroups'))
               PROVE  EdgeGroupRelatedToEndpoint(edgeGroups'[g], e,
                        EndpointTags(e, endpoints', endpointGroups'))
    BY <1>1, <1>2 DEF EndpointRelatedEdgeStacks, Covering
  <2>1. t \notin EndpointTags(e, endpoints', endpointGroups')
    BY <1>3
  <2> QED BY <1>2, <2>1, CoversWithoutTag
<1>6. \A e \in (DOMAIN endpoints \cap EdgeEndpoints) \ ids :
        Covering(e) \subseteq Covering(e)'
  <2> SUFFICES ASSUME NEW e \in (DOMAIN endpoints \cap EdgeEndpoints) \ ids
               PROVE  Covering(e) \subseteq Covering(e)'
    OBVIOUS
  <2>1. EndpointTags(e, endpoints', endpointGroups') = EndpointTags(e, endpoints, endpointGroups)
    BY <1>3, <1>4
  <2>2. EndpointRelatedEdgeStacks(e, endpoints', endpointGroups', edgeGroups, edgeStacks)
          = Covering(e)
    BY <2>1 DEF Covering, EndpointRelatedEdgeStacks
  <2> QED BY <1>5, <2>2
<1>7. ASSUME NEW e \in DOMAIN endpoints \cap EdgeEndpoints
      PROVE  Sound(e)
  <2>1. e \in DOMAIN endpointRelations
    BY DEF RelationsShaped
  <2>2. CASE e \in ids
    BY <1>1, <1>5, <2>1, <2>2 DEF Sound, UpdateEndpointRelations
  <2>3. CASE e \notin ids
    BY <1>1, <1>6, <2>1, <2>3 DEF Sound, UpdateEndpointRelations
  <2> QED BY <2>2, <2>3
<1>8. RelationsShaped'
  <2>1. ids \in SUBSET EdgeEndpoints
    BY DEF ids
  <2> QED BY <1>1, <1>2, <2>1, UpdateShaped
<1> QED BY <1>1, <1>2, <1>7, <1>8 DEF RelationsKept

\* The handlers of tags keep the relations.
LEMMA TagStepRelations ==
  ASSUME RecordsInv, RelationsShaped, TagStep
  PROVE  RelationsKept
<1>1. ASSUME NEW t \in Tags, TagCreate(t)
      PROVE  RelationsKept
  <2>1. UNCHANGED <<endpoints, endpointGroups, edgeGroups, edgeStacks, endpointRelations>>
    BY <1>1 DEF TagCreate
  <2>2. \A e : Covering(e)' = Covering(e)
    BY <2>1 DEF Covering, EndpointRelatedEdgeStacks
  <2> QED BY <2>1, <2>2, SameRelations
<1> QED BY <1>1, TagDeleteRelations DEF TagStep

\* An endpoint whose record stays keeps its tags, if the endpoint groups stay.
LEMMA TagsKept ==
  ASSUME NEW e, endpoints'[e] = endpoints[e], endpointGroups' = endpointGroups
  PROVE  EndpointTags(e, endpoints', endpointGroups') = EndpointTags(e, endpoints, endpointGroups)
BY DEF EndpointTags

\* A new endpoint gets what covers it; the others are left alone.
LEMMA EndpointCreateRelations ==
  ASSUME RecordsInv, RelationsShaped, NEW e \in Endpoints, NEW group, NEW tagIDs,
         EndpointCreate(e, group, tagIDs)
  PROVE  RelationsKept
<1>1. /\ e \notin DOMAIN endpoints
      /\ endpoints' = Put(endpoints, e, [GroupID |-> group, TagIDs |-> tagIDs])
      /\ endpointRelations' = Put(endpointRelations, e,
           IF e \in EdgeEndpoints
           THEN EndpointRelatedEdgeStacks(e, endpoints', endpointGroups, edgeGroups, edgeStacks)
           ELSE {})
      /\ UNCHANGED <<endpointGroups, edgeGroups, edgeStacks>>
  BY DEF EndpointCreate, Issue, RecordsInv, IdsIssued
<1>2. /\ DOMAIN endpoints' = DOMAIN endpoints \cup {e}
      /\ \A f \in DOMAIN endpoints : endpoints'[f] = endpoints[f]
  BY <1>1 DEF Put
<1>3. /\ e \notin DOMAIN endpointRelations
      /\ DOMAIN endpointRelations' = DOMAIN endpointRelations \cup {e}
      /\ \A f \in DOMAIN endpointRelations : endpointRelations'[f] = endpointRelations[f]
  BY <1>1 DEF Put, RelationsShaped
<1>4. endpointRelations'[e] = IF e \in EdgeEndpoints THEN Covering(e)' ELSE {}
  BY <1>1 DEF Put, Covering
<1>5. endpointRelations' \in [DOMAIN endpointRelations' -> SUBSET EdgeStacks]
  <2>1. Covering(e)' \subseteq EdgeStacks
    BY <1>1, RelatedType DEF Covering, RecordsInv, RecordsTyped, EdgeStacksTyped
  <2>2. endpointRelations'[e] \in SUBSET EdgeStacks
    BY <1>4, <2>1
  <2>3. \A f \in DOMAIN endpointRelations : endpointRelations'[f] \in SUBSET EdgeStacks
    BY <1>3 DEF RelationsShaped
  <2>4. endpointRelations' = [f \in DOMAIN endpointRelations' |-> endpointRelations'[f]]
    BY <1>1 DEF Put
  <2> QED BY <1>3, <2>2, <2>3, <2>4
<1>6. RelationsShaped'
  BY <1>2, <1>3, <1>4, <1>5 DEF RelationsShaped
<1>7. ASSUME NEW f \in DOMAIN endpoints' \cap EdgeEndpoints
      PROVE  Sound(f) /\ Complete(f)
  <2>1. CASE f = e
    BY <1>4, <2>1 DEF Sound, Complete
  <2>2. CASE f # e
    <3>1. f \in DOMAIN endpoints /\ f \in DOMAIN endpointRelations
      BY <1>2, <2>2 DEF RelationsShaped
    <3>2. Covering(f)' = Covering(f)
      BY <1>1, <1>2, <3>1, TagsKept, CoveringSame
    <3> QED BY <1>3, <3>1, <3>2 DEF Sound, Complete
  <2> QED BY <2>1, <2>2
<1> QED BY <1>6, <1>7 DEF RelationsKept

\* Only the endpoint that is updated is covered by other groups.
LEMMA EndpointUpdateRelations ==
  ASSUME RecordsInv, RelationsShaped, NEW e \in Endpoints, NEW group, NEW tagIDs,
         EndpointUpdate(e, group, tagIDs)
  PROVE  RelationsKept
<1>1. /\ e \in DOMAIN endpoints
      /\ endpoints' = Put(endpoints, e, [GroupID |-> group, TagIDs |-> tagIDs])
      /\ UNCHANGED <<endpointGroups, edgeGroups, edgeStacks>>
      /\ IF e \in EdgeEndpoints
         THEN UpdateEndpointRelations({e}, endpoints', endpointGroups, edgeGroups)
         ELSE UNCHANGED endpointRelations
  BY DEF EndpointUpdate
<1>2. /\ DOMAIN endpoints' = DOMAIN endpoints
      /\ \A f \in DOMAIN endpoints \ {e} : endpoints'[f] = endpoints[f]
  BY <1>1 DEF Put
<1>3. \A f \in DOMAIN endpoints \ {e} : Covering(f)' = Covering(f)
  BY <1>1, <1>2, TagsKept, CoveringSame
<1>4. CASE e \in EdgeEndpoints
  BY <1>1, <1>2, <1>3, <1>4, UpdateRelations
<1>5. CASE e \notin EdgeEndpoints
  BY <1>1, <1>2, <1>3, <1>5, SameRelations
<1> QED BY <1>4, <1>5

\* Deleting an endpoint leaves what covers the others.
LEMMA EndpointDeleteRelations ==
  ASSUME RecordsInv, RelationsShaped, NEW e \in Endpoints, EndpointDelete(e)
  PROVE  RelationsKept
<1>1. /\ endpointRelations' = Delete(endpointRelations, e)
      /\ UNCHANGED endpointGroups
  BY DEF EndpointDelete
<1>2. /\ DOMAIN endpoints' = DOMAIN endpoints \ {e}
      /\ \A f \in DOMAIN endpoints \ {e} : endpoints'[f] = endpoints[f]
      /\ DOMAIN edgeGroups' = DOMAIN edgeGroups
      /\ \A g \in DOMAIN edgeGroups :
           /\ edgeGroups'[g].TagIDs = edgeGroups[g].TagIDs
           /\ edgeGroups'[g].Endpoints = edgeGroups[g].Endpoints \ {e}
           /\ edgeGroups'[g].Dynamic = edgeGroups[g].Dynamic
           /\ edgeGroups'[g].PartialMatch = edgeGroups[g].PartialMatch
      /\ DOMAIN edgeStacks' = DOMAIN edgeStacks
      /\ \A s \in DOMAIN edgeStacks : edgeStacks'[s].EdgeGroups = edgeStacks[s].EdgeGroups
  BY EndpointDeleteFields
<1> HIDE DEF EndpointDelete
<1>3. /\ DOMAIN endpointRelations' = DOMAIN endpointRelations \ {e}
      /\ \A f \in DOMAIN endpointRelations \ {e} : endpointRelations'[f] = endpointRelations[f]
  BY <1>1 DEF Delete
<1>4. RelationsShaped'
  BY <1>1, <1>2, <1>3 DEF RelationsShaped, Delete
<1>5. ASSUME NEW f \in DOMAIN endpoints \ {e}
      PROVE  Covering(f)' = Covering(f)
  <2>1. EndpointTags(f, endpoints', endpointGroups') = EndpointTags(f, endpoints, endpointGroups)
    BY <1>1, <1>2, TagsKept
  <2>2. \A g \in DOMAIN edgeGroups : \A T :
          EdgeGroupRelatedToEndpoint(edgeGroups'[g], f, T)
            <=> EdgeGroupRelatedToEndpoint(edgeGroups[g], f, T)
    BY <1>2 DEF EdgeGroupRelatedToEndpoint
  <2>3. \A s \in DOMAIN edgeStacks : s \in Covering(f)' <=> s \in Covering(f)
    BY <1>2, <2>1, <2>2 DEF Covering, EndpointRelatedEdgeStacks
  <2> QED BY <1>2, <2>3 DEF Covering, EndpointRelatedEdgeStacks
<1>6. ASSUME NEW f \in DOMAIN endpoints' \cap EdgeEndpoints
      PROVE  Sound(f) /\ Complete(f)
  BY <1>2, <1>3, <1>5 DEF Sound, Complete, RelationsShaped
<1> QED BY <1>4, <1>6 DEF RelationsKept

\* The handlers of endpoints keep the relations.
LEMMA EndpointStepRelations ==
  ASSUME RecordsInv, RelationsShaped, EndpointStep
  PROVE  RelationsKept
BY EndpointCreateRelations, EndpointUpdateRelations, EndpointDeleteRelations DEF EndpointStep

\* A step that moves some endpoints, or changes the tags of their group, and
\* computes their relations anew keeps the relations.
LEMMA GroupRelations ==
  ASSUME RecordsInv, RelationsShaped, NEW moved,
         DOMAIN endpoints' = DOMAIN endpoints,
         UpdateEndpointRelations(moved \cap EdgeEndpoints,
                                 endpoints', endpointGroups', edgeGroups'),
         UNCHANGED <<edgeGroups, edgeStacks>>,
         \A e \in DOMAIN endpoints \ moved :
           /\ endpoints'[e] = endpoints[e]
           /\ endpoints[e].GroupID \in DOMAIN endpointGroups'
           /\ endpointGroups'[endpoints[e].GroupID] = endpointGroups[endpoints[e].GroupID]
  PROVE  RelationsKept
<1>1. \A e \in DOMAIN endpoints \ moved : Covering(e)' = Covering(e)
  BY TagsSame, CoveringSame
<1> QED BY <1>1, UpdateRelations

\* Move leaves the endpoints that it does not move.
LEMMA MoveLeaves ==
  ASSUME NEW moved, NEW g
  PROVE  /\ DOMAIN Move(moved, g) = DOMAIN endpoints
         /\ \A e \in DOMAIN endpoints \ moved : Move(moved, g)[e] = endpoints[e]
BY DEF Move

\* The handlers of endpoint groups keep the relations.
LEMMA EndpointGroupStepRelations ==
  ASSUME RecordsInv, RelationsShaped, EndpointGroupStep
  PROVE  RelationsKept
<1>0. \A e \in DOMAIN endpoints : endpoints[e].GroupID \in DOMAIN endpointGroups
  BY DEF RecordsInv, RecordsResolve
<1>1. ASSUME NEW g \in EndpointGroups, EndpointGroupDelete(g)
      PROVE  RelationsKept
  <2>1. /\ endpointGroups' = Delete(endpointGroups, g)
        /\ endpoints' = Move(Members(g, endpoints), Unassigned)
        /\ UpdateEndpointRelations(Members(g, endpoints) \cap EdgeEndpoints,
                                   endpoints', endpointGroups', edgeGroups)
        /\ UNCHANGED <<edgeGroups, edgeStacks>>
    BY <1>1 DEF EndpointGroupDelete
  <2>2. \A e \in DOMAIN endpoints \ Members(g, endpoints) : endpoints[e].GroupID # g
    BY DEF Members
  <2>3. /\ DOMAIN endpointGroups' = DOMAIN endpointGroups \ {g}
        /\ \A h \in DOMAIN endpointGroups \ {g} : endpointGroups'[h] = endpointGroups[h]
    BY <2>1 DEF Delete
  <2> QED BY <1>0, <2>1, <2>2, <2>3, MoveLeaves, GroupRelations
<1>2. ASSUME NEW g \in EndpointGroups, NEW e \in Endpoints, EndpointGroupAddEndpoint(g, e)
      PROVE  RelationsKept
  <2>1. /\ endpoints' = Move({e}, g)
        /\ UpdateEndpointRelations({e} \cap EdgeEndpoints,
                                   endpoints', endpointGroups', edgeGroups')
        /\ UNCHANGED <<endpointGroups, edgeGroups, edgeStacks>>
    BY <1>2 DEF EndpointGroupAddEndpoint
  <2>2. /\ DOMAIN endpoints' = DOMAIN endpoints
        /\ \A f \in DOMAIN endpoints \ {e} : endpoints'[f] = endpoints[f]
    BY <2>1, MoveLeaves
  <2> QED BY <1>0, <2>1, <2>2, GroupRelations
<1>3. ASSUME NEW e \in Endpoints, EndpointGroupDeleteEndpoint(e)
      PROVE  RelationsKept
  <2>1. /\ endpoints' = Move({e}, Unassigned)
        /\ UpdateEndpointRelations({e} \cap EdgeEndpoints,
                                   endpoints', endpointGroups', edgeGroups')
        /\ UNCHANGED <<endpointGroups, edgeGroups, edgeStacks>>
    BY <1>3 DEF EndpointGroupDeleteEndpoint
  <2>2. /\ DOMAIN endpoints' = DOMAIN endpoints
        /\ \A f \in DOMAIN endpoints \ {e} : endpoints'[f] = endpoints[f]
    BY <2>1, MoveLeaves
  <2> QED BY <1>0, <2>1, <2>2, GroupRelations
<1>4. ASSUME NEW g \in EndpointGroups, NEW tagIDs, EndpointGroupUpdate(g, tagIDs)
      PROVE  RelationsKept
  <2>1. /\ endpointGroups' = Put(endpointGroups, g, [TagIDs |-> tagIDs])
        /\ UpdateEndpointRelations(Members(g, endpoints) \cap EdgeEndpoints,
                                   endpoints', endpointGroups', edgeGroups')
        /\ UNCHANGED <<endpoints, edgeGroups, edgeStacks>>
    BY <1>4 DEF EndpointGroupUpdate
  <2>2. \A e \in DOMAIN endpoints \ Members(g, endpoints) : endpoints[e].GroupID # g
    BY DEF Members
  <2>3. /\ DOMAIN endpointGroups' = DOMAIN endpointGroups \cup {g}
        /\ \A h \in DOMAIN endpointGroups \ {g} : endpointGroups'[h] = endpointGroups[h]
    BY <2>1 DEF Put
  <2> QED BY <1>0, <2>1, <2>2, <2>3, GroupRelations
<1>5. ASSUME NEW g \in EndpointGroups, NEW tagIDs, NEW ids, EndpointGroupCreate(g, tagIDs, ids)
      PROVE  RelationsKept
  <2>1. /\ g \notin DOMAIN endpointGroups
        /\ endpointGroups' = Put(endpointGroups, g, [TagIDs |-> tagIDs])
        /\ endpoints' = Move(ids, g)
        /\ UpdateEndpointRelations(ids \cap EdgeEndpoints,
                                   endpoints', endpointGroups', edgeGroups)
        /\ UNCHANGED <<edgeGroups, edgeStacks>>
    BY <1>5 DEF EndpointGroupCreate, Issue, RecordsInv, IdsIssued
  <2>2. /\ DOMAIN endpointGroups' = DOMAIN endpointGroups \cup {g}
        /\ \A h \in DOMAIN endpointGroups : endpointGroups'[h] = endpointGroups[h]
    BY <2>1 DEF Put
  <2>3. /\ DOMAIN endpoints' = DOMAIN endpoints
        /\ \A e \in DOMAIN endpoints \ ids : endpoints'[e] = endpoints[e]
    BY <2>1, MoveLeaves
  <2>4. UpdateEndpointRelations(ids \cap EdgeEndpoints,
                                endpoints', endpointGroups', edgeGroups')
    BY <2>1
  <2> QED BY <1>0, <2>1, <2>2, <2>3, <2>4, GroupRelations
<1> QED BY <1>1, <1>2, <1>3, <1>4, <1>5 DEF EndpointGroupStep

\* The handlers of Edge groups keep the relations: the endpoints that the former
\* or the new group covers are those whose coverage may change.
LEMMA EdgeGroupStepRelations ==
  ASSUME RecordsInv, RelationsShaped, EdgeGroupStep
  PROVE  RelationsKept
<1>0. /\ \A s \in DOMAIN edgeStacks : edgeStacks[s].EdgeGroups \subseteq DOMAIN edgeGroups
      /\ \A g \in DOMAIN edgeGroups : edgeGroups[g].Endpoints \subseteq EdgeEndpoints
  BY DEF RecordsInv, RecordsResolve
<1>1. ASSUME NEW g \in EdgeGroups, EdgeGroupDelete(g)
      PROVE  RelationsKept
  <2>1. /\ edgeGroups' = Delete(edgeGroups, g)
        /\ \A s \in DOMAIN edgeStacks : g \notin edgeStacks[s].EdgeGroups
        /\ UNCHANGED <<endpoints, endpointGroups, edgeStacks, endpointRelations>>
    BY <1>1 DEF EdgeGroupDelete
  <2>2. /\ DOMAIN edgeGroups' = DOMAIN edgeGroups \ {g}
        /\ \A h \in DOMAIN edgeGroups \ {g} : edgeGroups'[h] = edgeGroups[h]
    BY <2>1 DEF Delete
  <2>3. \A e : Covering(e)' = Covering(e)
    BY <1>0, <2>1, <2>2 DEF Covering, EndpointRelatedEdgeStacks
  <2> QED BY <2>1, <2>3, SameRelations
<1>2. ASSUME NEW g \in EdgeGroups, NEW payload \in EdgeGroupPayloads, EdgeGroupCreate(g, payload)
      PROVE  RelationsKept
  <2>1. /\ g \notin DOMAIN edgeGroups
        /\ edgeGroups' = Put(edgeGroups, g, EdgeGroupFrom(payload, {}, {}))
        /\ UNCHANGED <<endpoints, endpointGroups, edgeStacks, endpointRelations>>
    BY <1>2 DEF EdgeGroupCreate, Issue, RecordsInv, IdsIssued
  <2>2. /\ DOMAIN edgeGroups' = DOMAIN edgeGroups \cup {g}
        /\ \A h \in DOMAIN edgeGroups : edgeGroups'[h] = edgeGroups[h]
    BY <2>1 DEF Put
  <2>3. \A e : Covering(e)' = Covering(e)
    BY <1>0, <2>1, <2>2 DEF Covering, EndpointRelatedEdgeStacks
  <2> QED BY <2>1, <2>3, SameRelations
<1>3. ASSUME NEW g \in EdgeGroups, NEW payload \in EdgeGroupPayloads, EdgeGroupUpdate(g, payload)
      PROVE  RelationsKept
  <2> DEFINE edgeGroup == EdgeGroupFrom(payload, edgeGroups[g].TagIDs, edgeGroups[g].Endpoints)
             ids == EdgeGroupRelatedEndpoints(edgeGroup, endpoints, endpointGroups)
                      \cup EdgeGroupRelatedEndpoints(edgeGroups[g], endpoints, endpointGroups)
  <2>1. /\ g \in DOMAIN edgeGroups
        /\ edgeGroups' = Put(edgeGroups, g, edgeGroup)
        /\ UpdateEndpointRelations(ids, endpoints, endpointGroups, edgeGroups')
        /\ UNCHANGED <<endpoints, endpointGroups, edgeStacks>>
    BY <1>3 DEF EdgeGroupUpdate
  <2>2. edgeGroup.Endpoints \subseteq EdgeEndpoints
    BY <1>0, <2>1 DEF EdgeGroupFrom
  <2> HIDE DEF edgeGroup
  <2>3. ids \subseteq EdgeEndpoints
    BY <1>0, <2>1, <2>2 DEF EdgeGroupRelatedEndpoints
  <2>4. /\ DOMAIN edgeGroups' = DOMAIN edgeGroups
        /\ edgeGroups'[g] = edgeGroup
        /\ \A h \in DOMAIN edgeGroups \ {g} : edgeGroups'[h] = edgeGroups[h]
    BY <2>1 DEF Put
  <2>5. ASSUME NEW e \in (DOMAIN endpoints \cap EdgeEndpoints) \ ids
        PROVE  Covering(e)' = Covering(e)
    <3> DEFINE T == EndpointTags(e, endpoints, endpointGroups)
    <3>1. /\ ~ EdgeGroupRelatedToEndpoint(edgeGroup, e, T)
          /\ ~ EdgeGroupRelatedToEndpoint(edgeGroups[g], e, T)
      BY RelatedFound
    <3>2. EndpointTags(e, endpoints', endpointGroups') = T
      BY <2>1
    <3> HIDE DEF T
    <3>3. \A h \in DOMAIN edgeGroups :
            EdgeGroupRelatedToEndpoint(edgeGroups'[h], e, T)
              <=> EdgeGroupRelatedToEndpoint(edgeGroups[h], e, T)
      BY <2>4, <3>1
    <3> QED BY <2>1, <2>4, <3>2, <3>3 DEF Covering, EndpointRelatedEdgeStacks, T
  <2> HIDE DEF ids
  <2> QED BY <2>1, <2>3, <2>5, UpdateRelations
<1> QED BY <1>1, <1>2, <1>3 DEF EdgeGroupStep

\* An Edge endpoint is covered by one of the groups exactly when the stacks
\* deployed to them run on it.
LEMMA RunsOn ==
  ASSUME NEW e \in DOMAIN endpoints \cap EdgeEndpoints, NEW groups \in SUBSET DOMAIN edgeGroups
  PROVE  (\E g \in groups \cap DOMAIN edgeGroups :
            EdgeGroupRelatedToEndpoint(edgeGroups[g], e,
              EndpointTags(e, endpoints, endpointGroups)))
           <=> e \in EdgeStackRelatedEndpoints(groups)
BY RelatedFound DEF EdgeStackRelatedEndpoints

\* The same, of the stacks there are.
LEMMA CoveringRuns ==
  ASSUME RecordsInv, NEW e \in DOMAIN endpoints \cap EdgeEndpoints, NEW s \in DOMAIN edgeStacks
  PROVE  s \in Covering(e) <=> e \in EdgeStackRelatedEndpoints(edgeStacks[s].EdgeGroups)
<1>1. edgeStacks[s].EdgeGroups \in SUBSET DOMAIN edgeGroups
  BY DEF RecordsInv, RecordsResolve
<1> QED BY <1>1, RunsOn DEF Covering, EndpointRelatedEdgeStacks

\* Only Edge endpoints run Edge stacks.
LEMMA RunOnEdgeEndpoints ==
  ASSUME RecordsInv, NEW groups \in SUBSET DOMAIN edgeGroups
  PROVE  EdgeStackRelatedEndpoints(groups) \subseteq EdgeEndpoints
<1>1. \A g \in groups :
        EdgeGroupRelatedEndpoints(edgeGroups[g], endpoints, endpointGroups) \subseteq EdgeEndpoints
  BY DEF RecordsInv, RecordsResolve, EdgeGroupRelatedEndpoints
<1> QED BY <1>1 DEF EdgeStackRelatedEndpoints

\* A step that writes one stack, and redeploys it from the endpoints that it no
\* longer covers to those that it newly covers, keeps the relations.
LEMMA RedeployRelations ==
  ASSUME RecordsInv, RelationsShaped, NEW s \in EdgeStacks, NEW removed,
         NEW added \in SUBSET EdgeEndpoints, Redeploy(s, removed, added),
         UNCHANGED <<endpoints, endpointGroups, edgeGroups>>,
         DOMAIN edgeStacks' \ {s} = DOMAIN edgeStacks \ {s},
         \A r \in DOMAIN edgeStacks \ {s} : edgeStacks'[r] = edgeStacks[r],
         \A e \in DOMAIN endpoints \cap EdgeEndpoints :
           s \in Covering(e)' <=> e \in added \/ (s \in Covering(e) /\ e \notin removed)
  PROVE  RelationsKept
<1>1. /\ DOMAIN endpointRelations' = DOMAIN endpointRelations
      /\ endpointRelations' = [e \in DOMAIN endpointRelations |->
           (endpointRelations[e] \ (IF e \in removed THEN {s} ELSE {}))
             \cup (IF e \in added THEN {s} ELSE {})]
      /\ removed \cup added \subseteq DOMAIN endpointRelations
  BY DEF Redeploy
<1>2. \A e \in DOMAIN endpointRelations :
        /\ endpointRelations[e] \in SUBSET EdgeStacks
        /\ \A r : r \in endpointRelations'[e] <=>
             IF r = s THEN e \in added \/ (s \in endpointRelations[e] /\ e \notin removed)
             ELSE r \in endpointRelations[e]
  BY <1>1 DEF RelationsShaped
<1>3. RelationsShaped'
  <2>1. \A e \in DOMAIN endpointRelations : endpointRelations'[e] \in SUBSET EdgeStacks
    BY <1>2
  <2>2. \A e \in DOMAIN endpointRelations \ EdgeEndpoints : endpointRelations'[e] = {}
    BY <1>1 DEF RelationsShaped
  <2> QED BY <1>1, <2>1, <2>2 DEF RelationsShaped
<1>4. \A e \in DOMAIN endpoints : \A r : r # s => (r \in Covering(e)' <=> r \in Covering(e))
  BY DEF Covering, EndpointRelatedEdgeStacks
<1>5. ASSUME NEW e \in DOMAIN endpoints \cap EdgeEndpoints
      PROVE  Sound(e) /\ Complete(e)
  <2>1. e \in DOMAIN endpointRelations
    BY DEF RelationsShaped
  <2>2. Sound(e)
    BY <1>2, <1>4, <2>1 DEF Sound
  <2>3. Complete(e)
    BY <1>2, <1>4, <2>1 DEF Complete
  <2> QED BY <2>2, <2>3
<1> QED BY <1>3, <1>5 DEF RelationsKept

\* The handlers of Edge stacks keep the relations.
LEMMA EdgeStackStepRelations ==
  ASSUME RecordsInv, RelationsShaped, EdgeStackStep
  PROVE  RelationsKept
<1>0. \A e, s : s \in Covering(e) => s \in DOMAIN edgeStacks
  BY RelatedType DEF Covering
<1>1. ASSUME NEW s \in EdgeStacks, NEW e \in Endpoints, EdgeStackStatusUpdate(s, e)
      PROVE  RelationsKept
  <2>1. /\ edgeStacks' = [edgeStacks EXCEPT ![s].Status = @ \cup {e}]
        /\ s \in DOMAIN edgeStacks
        /\ UNCHANGED <<endpoints, endpointGroups, edgeGroups, endpointRelations>>
    BY <1>1 DEF EdgeStackStatusUpdate
  <2>2. /\ DOMAIN edgeStacks' = DOMAIN edgeStacks
        /\ \A r \in DOMAIN edgeStacks : edgeStacks'[r].EdgeGroups = edgeStacks[r].EdgeGroups
    BY <2>1 DEF RecordsInv, RecordsTyped, EdgeStacksTyped, EdgeStackRecord
  <2>3. \A f : Covering(f)' = Covering(f)
    BY <2>1, <2>2 DEF Covering, EndpointRelatedEdgeStacks
  <2> QED BY <2>1, <2>3, SameRelations
<1>2. ASSUME NEW s \in EdgeStacks, NEW groups \in SUBSET EdgeGroups, EdgeStackCreate(s, groups)
      PROVE  RelationsKept
  <2> DEFINE added == EdgeStackRelatedEndpoints(groups)
  <2>1. /\ s \notin DOMAIN edgeStacks
        /\ groups \in SUBSET DOMAIN edgeGroups
        /\ edgeStacks' = Put(edgeStacks, s, [EdgeGroups |-> groups, Status |-> {}])
        /\ Redeploy(s, {}, added)
        /\ UNCHANGED <<endpoints, endpointGroups, edgeGroups>>
    BY <1>2 DEF EdgeStackCreate, Issue, RecordsInv, IdsIssued
  <2>2. /\ DOMAIN edgeStacks' = DOMAIN edgeStacks \cup {s}
        /\ edgeStacks'[s].EdgeGroups = groups
        /\ \A r \in DOMAIN edgeStacks \ {s} : edgeStacks'[r] = edgeStacks[r]
    BY <2>1 DEF Put
  <2>3. added \in SUBSET EdgeEndpoints
    BY <2>1, RunOnEdgeEndpoints
  <2>4. \A e \in DOMAIN endpoints \cap EdgeEndpoints : s \in Covering(e)' <=> e \in added
    BY <2>1, <2>2, RunsOn DEF Covering, EndpointRelatedEdgeStacks
  <2> HIDE DEF added
  <2> QED BY <1>0, <2>1, <2>2, <2>3, <2>4, RedeployRelations
<1>3. ASSUME NEW s \in EdgeStacks, NEW groups \in SUBSET EdgeGroups, NEW b \in BOOLEAN,
             EdgeStackUpdate(s, groups, b)
      PROVE  RelationsKept
  <2> DEFINE old == EdgeStackRelatedEndpoints(edgeStacks[s].EdgeGroups)
             new == EdgeStackRelatedEndpoints(groups)
  <2>1. /\ s \in DOMAIN edgeStacks
        /\ groups \in SUBSET DOMAIN edgeGroups
        /\ Redeploy(s, old \ new, new \ old)
        /\ edgeStacks' = [edgeStacks EXCEPT
             ![s].EdgeGroups = groups, ![s].Status = IF b THEN {} ELSE @]
        /\ UNCHANGED <<endpoints, endpointGroups, edgeGroups>>
    BY <1>3 DEF EdgeStackUpdate
  <2>2. /\ DOMAIN edgeStacks' = DOMAIN edgeStacks
        /\ edgeStacks'[s].EdgeGroups = groups
        /\ \A r \in DOMAIN edgeStacks \ {s} : edgeStacks'[r] = edgeStacks[r]
    BY <2>1 DEF RecordsInv, RecordsTyped, EdgeStacksTyped, EdgeStackRecord
  <2>3. new \in SUBSET EdgeEndpoints
    BY <2>1, RunOnEdgeEndpoints
  <2>4. \A e \in DOMAIN endpoints \cap EdgeEndpoints : s \in Covering(e)' <=> e \in new
    BY <2>1, <2>2, RunsOn DEF Covering, EndpointRelatedEdgeStacks
  <2>5. \A e \in DOMAIN endpoints \cap EdgeEndpoints : s \in Covering(e) <=> e \in old
    BY <2>1, CoveringRuns
  <2> HIDE DEF old, new
  <2>6. new \ old \in SUBSET EdgeEndpoints
    BY <2>3
  <2>7. \A e \in DOMAIN endpoints \cap EdgeEndpoints :
          s \in Covering(e)' <=> e \in new \ old \/ (s \in Covering(e) /\ e \notin old \ new)
    BY <2>4, <2>5
  <2> QED BY <2>1, <2>2, <2>6, <2>7, RedeployRelations
<1>4. ASSUME NEW s \in EdgeStacks, EdgeStackDelete(s)
      PROVE  RelationsKept
  <2> DEFINE old == EdgeStackRelatedEndpoints(edgeStacks[s].EdgeGroups)
  <2>1. /\ s \in DOMAIN edgeStacks
        /\ edgeStacks' = Delete(edgeStacks, s)
        /\ Redeploy(s, old, {})
        /\ UNCHANGED <<endpoints, endpointGroups, edgeGroups>>
    BY <1>4 DEF EdgeStackDelete
  <2>2. /\ DOMAIN edgeStacks' = DOMAIN edgeStacks \ {s}
        /\ \A r \in DOMAIN edgeStacks \ {s} : edgeStacks'[r] = edgeStacks[r]
    BY <2>1 DEF Delete
  <2>3. \A e : s \notin Covering(e)'
    BY <2>2 DEF Covering, EndpointRelatedEdgeStacks
  <2>4. \A e \in DOMAIN endpoints \cap EdgeEndpoints : s \in Covering(e) <=> e \in old
    BY <2>1, CoveringRuns
  <2> HIDE DEF old
  <2> QED BY <2>1, <2>2, <2>3, <2>4, RedeployRelations
<1> QED BY <1>1, <1>2, <1>3, <1>4 DEF EdgeStackStep

-----------------------------------------------------------------------------
(* The theorems.                                                           *)

\* The inductive invariant.
IInv == RecordsInv /\ RelationsShaped /\ NoStackOutsideItsGroups

\* A new database satisfies it.
LEMMA InitInv == Init => IInv
<1> SUFFICES ASSUME Init PROVE IInv
  OBVIOUS
<1>1. PICK local \in SUBSET (Endpoints \ EdgeEndpoints) :
        /\ endpoints = [e \in local |-> [GroupID |-> Unassigned, TagIDs |-> {}]]
        /\ issued = local \cup {Unassigned}
  BY DEF Init
<1>2. /\ tags = [t \in {} |-> {}]
      /\ endpointGroups = [g \in {Unassigned} |-> [TagIDs |-> {}]]
      /\ edgeGroups = [g \in {} |-> {}]
      /\ edgeStacks = [s \in {} |-> {}]
      /\ endpointRelations = [e \in {} |-> {}]
  BY DEF Init
<1>3. /\ DOMAIN tags = {} /\ DOMAIN edgeGroups = {} /\ DOMAIN edgeStacks = {}
      /\ DOMAIN endpointRelations = {}
      /\ DOMAIN endpoints = local /\ DOMAIN endpointGroups = {Unassigned}
      /\ \A e \in local : endpoints[e].GroupID = Unassigned /\ endpoints[e].TagIDs = {}
      /\ endpointGroups[Unassigned].TagIDs = {}
  BY <1>1, <1>2
<1>4. RecordsTyped
  <2>1. TagsTyped /\ EdgeGroupsTyped /\ EdgeStacksTyped
    BY <1>2 DEF TagsTyped, EdgeGroupsTyped, EdgeStacksTyped
  <2>2. EndpointsTyped
    BY <1>1, EdgeComputeAssumption DEF EndpointsTyped, EndpointRecord
  <2>3. EndpointGroupsTyped
    BY <1>2, EdgeComputeAssumption DEF EndpointGroupsTyped, EndpointGroupRecord
  <2> QED BY <2>1, <2>2, <2>3 DEF RecordsTyped
<1>5. IdsIssued
  BY <1>1, <1>3 DEF IdsIssued
<1>6. RecordsResolve
  BY <1>3 DEF RecordsResolve
<1>7. TagsListTheirUsers /\ NoStackOutsideItsGroups
  BY <1>3 DEF TagsListTheirUsers, NoStackOutsideItsGroups
<1>8. RelationsShaped
  <2>1. DOMAIN endpoints \cap EdgeEndpoints = {}
    BY <1>3
  <2> QED BY <1>2, <1>3, <2>1 DEF RelationsShaped
<1> QED BY <1>4, <1>5, <1>6, <1>7, <1>8 DEF IInv, RecordsInv

\* Every request keeps the relations.
LEMMA NextRelations ==
  ASSUME RecordsInv, RelationsShaped, Next
  PROVE  RelationsKept
BY TagStepRelations, EndpointStepRelations, EndpointGroupStepRelations,
   EdgeGroupStepRelations, EdgeStackStepRelations DEF Next

\* Every step keeps the invariant.
LEMMA NextInv == IInv /\ [Next]_vars => IInv'
<1> SUFFICES ASSUME IInv, [Next]_vars PROVE IInv'
  OBVIOUS
<1>1. RecordsInv'
  BY NextRecords DEF IInv
<1>2. CASE UNCHANGED vars
  BY <1>1, <1>2 DEF vars, IInv, RelationsShaped, NoStackOutsideItsGroups, Covering
<1>3. CASE Next
  <2>1. RelationsKept
    BY <1>3, NextRelations DEF IInv
  <2>2. NoStackOutsideItsGroups'
    <3> SUFFICES ASSUME NEW e \in DOMAIN endpointRelations'
                 PROVE  endpointRelations'[e] \subseteq Covering(e)'
      BY DEF NoStackOutsideItsGroups
    <3>1. CASE e \in EdgeEndpoints
      BY <2>1, <3>1 DEF RelationsKept, RelationsShaped, Sound, IInv, NoStackOutsideItsGroups
    <3>2. CASE e \notin EdgeEndpoints
      BY <2>1, <3>2 DEF RelationsKept, RelationsShaped
    <3> QED BY <3>1, <3>2
  <2> QED BY <1>1, <2>1, <2>2 DEF IInv, RelationsKept
<1> QED BY <1>2, <1>3

\* The invariant holds in every state.
THEOREM Invariance == Spec => []IInv
BY InitInv, NextInv, PTL DEF Spec

\* Every bucket of every reachable database holds records of its type, and a
\* relation only for an endpoint that is there.
THEOREM TypeCorrect == Spec => []TypeOK
<1>1. IInv => TypeOK
  BY DEF IInv, RecordsInv, RecordsTyped, TagsTyped, EndpointsTyped, EndpointGroupsTyped,
     EdgeGroupsTyped, EdgeStacksTyped, RelationsShaped, TypeOK
<1> QED BY <1>1, Invariance, PTL

\* The lookups of the handlers and of the agents' polls find their records: no
\* request that names existing records stops half way.
THEOREM LookupsSucceed == Spec => []ReferencesResolve
<1>1. IInv => ReferencesResolve
  <2> SUFFICES ASSUME IInv PROVE ReferencesResolve
    OBVIOUS
  <2>1. \A e \in DOMAIN endpointRelations : endpointRelations[e] \subseteq DOMAIN edgeStacks
    BY RelatedType DEF IInv, NoStackOutsideItsGroups, Covering
  <2>2. \A t \in DOMAIN tags :
          /\ tags[t].Endpoints \subseteq DOMAIN endpoints
          /\ tags[t].EndpointGroups \subseteq DOMAIN endpointGroups
    BY DEF IInv, RecordsInv, TagsListTheirUsers
  <2> QED BY <2>1, <2>2 DEF IInv, RecordsInv, RecordsResolve, RelationsShaped, ReferencesResolve
<1> QED BY <1>1, Invariance, PTL

\* A tag's lists and the tags of endpoints and endpoint groups always agree.
THEOREM TagsAgree == Spec => []TagsListTheirUsers
<1>1. IInv => TagsListTheirUsers
  BY DEF IInv, RecordsInv
<1> QED BY <1>1, Invariance, PTL

\* No endpoint is told to run a stack none of whose Edge groups covers it.
THEOREM RelationsAreSound == Spec => []NoStackOutsideItsGroups
<1>1. IInv => NoStackOutsideItsGroups
  BY DEF IInv
<1> QED BY <1>1, Invariance, PTL

\* A request that deletes no tag makes no endpoint miss a stack that covers it.
THEOREM RelationsStayComplete == Spec => StacksReachTheirEndpoints
<1> DEFINE Reaches(e) == e \in DOMAIN endpoints => Covering(e) \subseteq endpointRelations[e]
           Kept == DOMAIN tags \subseteq DOMAIN tags' =>
                     \A e \in EdgeEndpoints \cap DOMAIN endpoints' :
                       Reaches(e) => Covering(e)' \subseteq endpointRelations'[e]
<1>1. IInv /\ [Next]_vars => [Kept]_vars
  BY NextRelations DEF IInv, RelationsKept, Complete
<1> QED BY <1>1, Invariance, PTL DEF Spec, StacksReachTheirEndpoints

\* The members of a dynamic group that the API shows, found through the tags, are
\* the endpoints that its stacks are deployed to, found through the endpoints.
THEOREM MembersAgree == Spec => []ShownMembersAreDeployedTo
<1>1. IInv => ShownMembersAreDeployedTo
  <2> SUFFICES ASSUME IInv, NEW g \in DOMAIN edgeGroups,
                      edgeGroups[g].Dynamic, edgeGroups[g].TagIDs # {}
               PROVE  GetEndpointsByTags(edgeGroups[g].TagIDs, edgeGroups[g].PartialMatch)
                        = EdgeGroupRelatedEndpoints(edgeGroups[g], endpoints, endpointGroups)
    BY DEF ShownMembersAreDeployedTo
  <2>1. /\ edgeGroups[g].TagIDs \subseteq DOMAIN tags
        /\ edgeGroups[g].TagIDs \in SUBSET Tags
    BY DEF IInv, RecordsInv, RecordsTyped, RecordsResolve, EdgeGroupsTyped, EdgeGroupRecord
  <2>2. \A e \in DOMAIN endpoints, t \in DOMAIN tags :
          e \in TaggedEndpoints(t) <=> t \in EndpointTags(e, endpoints, endpointGroups)
    BY DEF IInv, RecordsInv, RecordsResolve, TagsListTheirUsers, TaggedEndpoints, EndpointTags
  <2>3. ASSUME NEW e \in DOMAIN endpoints \cap EdgeEndpoints
        PROVE  EdgeGroupRelatedToEndpoint(edgeGroups[g], e,
                   EndpointTags(e, endpoints, endpointGroups))
                 <=> IF edgeGroups[g].PartialMatch
                     THEN \E t \in edgeGroups[g].TagIDs : e \in TaggedEndpoints(t)
                     ELSE \A t \in edgeGroups[g].TagIDs : e \in TaggedEndpoints(t)
    BY <2>1, <2>2, ContainsIsSubset DEF EdgeGroupRelatedToEndpoint
  <2> QED BY <2>3 DEF GetEndpointsByTags, EdgeGroupRelatedEndpoints
<1> QED BY <1>1, Invariance, PTL

=============================================================================
