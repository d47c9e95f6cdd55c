----------------------------- MODULE EdgeCompute -----------------------------
(***************************************************************************)
(* Which Edge stacks each Edge endpoint runs: the records of tags,         *)
(* endpoints, endpoint groups, Edge groups and Edge stacks, the relation   *)
(* kept for each endpoint, and the handlers that change them               *)
(* (api/http/handler/{tags,endpoints,endpointgroups,edgegroups,edgestacks},*)
(* api/internal/{edge,tag}).                                               *)
(*                                                                         *)
(* A request is one step: requests are served one at a time, and each      *)
(* names only records that exist when it is served.                        *)
(***************************************************************************)
EXTENDS FiniteSets

CONSTANTS Tags, Endpoints, EndpointGroups, EdgeGroups, EdgeStacks, \* identifiers
          EdgeEndpoints,    \* the endpoints whose Type is an Edge agent's
          Unassigned        \* 1, the endpoint group that is always there

ASSUME EdgeComputeAssumption ==
  /\ EdgeEndpoints \subseteq Endpoints
  /\ Unassigned \in EndpointGroups
  /\ IsFiniteSet(Tags)

\* Each bucket maps the identifiers in use to their records.
VARIABLES tags, endpoints, endpointGroups, edgeGroups, edgeStacks,
          endpointRelations,   \* the Edge stacks of each endpoint
          issued               \* the identifiers the buckets' sequences gave out

vars == <<tags, endpoints, endpointGroups, edgeGroups, edgeStacks,
          endpointRelations, issued>>

-----------------------------------------------------------------------------
(* The buckets.                                                            *)

TagRecord           == [Endpoints : SUBSET Endpoints,
                        EndpointGroups : SUBSET EndpointGroups]
EndpointRecord      == [GroupID : EndpointGroups, TagIDs : SUBSET Tags]
EndpointGroupRecord == [TagIDs : SUBSET Tags]
EdgeGroupRecord     == [Dynamic : BOOLEAN, PartialMatch : BOOLEAN,
                        TagIDs : SUBSET Tags, Endpoints : SUBSET Endpoints]
EdgeStackRecord     == [EdgeGroups : SUBSET EdgeGroups, Status : SUBSET Endpoints]

\* UpdateObject overwrites or creates; DeleteObject removes.
Put(bucket, id, record) ==
  [i \in DOMAIN bucket \cup {id} |-> IF i = id THEN record ELSE bucket[i]]
Delete(bucket, id) == [i \in DOMAIN bucket \ {id} |-> bucket[i]]

\* NextSequence never gives out an identifier twice.
Issue(id) == id \notin issued /\ issued' = issued \cup {id}

-----------------------------------------------------------------------------
(* Which endpoints an Edge group covers.                                   *)

Contains(setA, setB) == Cardinality(setA \cap setB) = Cardinality(setA)

\* Mutant: the arguments of Contains in the order its comment suggests.
ContainsSwapped(edgeGroup, e, endpointTags) ==
  IF ~edgeGroup.Dynamic THEN e \in edgeGroup.Endpoints
  ELSE IF edgeGroup.PartialMatch
       THEN endpointTags \cap edgeGroup.TagIDs # {}
       ELSE Contains(endpointTags, edgeGroup.TagIDs)

\* Whether an Edge group covers endpoint e, whose tags and whose group's tags are
\* endpointTags
EdgeGroupRelatedToEndpoint(edgeGroup, e, endpointTags) ==
  IF ~edgeGroup.Dynamic THEN e \in edgeGroup.Endpoints
  ELSE IF edgeGroup.PartialMatch
       THEN endpointTags \cap edgeGroup.TagIDs # {}
       ELSE Contains(edgeGroup.TagIDs, endpointTags)

\* A group that is not there has no tags.
EndpointTags(e, es, groups) ==
  es[e].TagIDs \cup UNION {groups[g].TagIDs : g \in {es[e].GroupID} \cap DOMAIN groups}

EdgeGroupRelatedEndpoints(edgeGroup, es, groups) ==
  IF ~edgeGroup.Dynamic THEN edgeGroup.Endpoints
  ELSE {e \in DOMAIN es \cap EdgeEndpoints :
          EdgeGroupRelatedToEndpoint(edgeGroup, e, EndpointTags(e, es, groups))}

\* The endpoints an Edge stack deployed to these Edge groups runs on
EdgeStackRelatedEndpoints(ids) ==
  UNION {EdgeGroupRelatedEndpoints(edgeGroups[g], endpoints, endpointGroups) : g \in ids}

EndpointRelatedEdgeStacks(e, es, groups, egs, stacks) ==
  {s \in DOMAIN stacks :
     \E g \in stacks[s].EdgeGroups \cap DOMAIN egs :
       EdgeGroupRelatedToEndpoint(egs[g], e, EndpointTags(e, es, groups))}

\* The second algorithm, which the API shows the members of a group with: from
\* the tags' own lists of endpoints and endpoint groups.
TaggedEndpoints(t) ==
  tags[t].Endpoints \cup
    {e \in DOMAIN endpoints : endpoints[e].GroupID \in tags[t].EndpointGroups}

GetEndpointsByTags(tagIDs, partialMatch) ==
  IF tagIDs = {} THEN {}
  ELSE {e \in DOMAIN endpoints \cap EdgeEndpoints :
          IF partialMatch THEN \E t \in tagIDs : e \in TaggedEndpoints(t)
          ELSE \A t \in tagIDs : e \in TaggedEndpoints(t)}

\* The loops over endpoints that compute their relations anew, from the records
\* they read; a relation or a group that is missing stops them.
UpdateEndpointRelations(ids, es, groups, egs) ==
  /\ ids \subseteq DOMAIN endpointRelations \cap DOMAIN es
  /\ \A e \in ids : es[e].GroupID \in DOMAIN groups
  /\ endpointRelations' = [e \in DOMAIN endpointRelations |->
       IF e \in ids THEN EndpointRelatedEdgeStacks(e, es, groups, egs, edgeStacks)
       ELSE endpointRelations[e]]

Members(group, es) == {e \in DOMAIN es : es[e].GroupID = group}

-----------------------------------------------------------------------------
(* Tags.                                                                   *)

TagCreate(t) ==
  /\ Issue(t)
  /\ tags' = Put(tags, t, [Endpoints |-> {}, EndpointGroups |-> {}])
  /\ UNCHANGED <<endpoints, endpointGroups, edgeGroups, edgeStacks, endpointRelations>>

\* The relations are computed from the Edge groups as they were with the tag.
TagDelete(t) ==
  /\ t \in DOMAIN tags
  /\ tags[t].Endpoints \subseteq DOMAIN endpoints
  /\ tags[t].EndpointGroups \subseteq DOMAIN endpointGroups
  /\ endpoints' = [e \in DOMAIN endpoints |->
       IF e \in tags[t].Endpoints THEN [endpoints[e] EXCEPT !.TagIDs = @ \ {t}]
       ELSE endpoints[e]]
  /\ endpointGroups' = [g \in DOMAIN endpointGroups |->
       IF g \in tags[t].EndpointGroups THEN [endpointGroups[g] EXCEPT !.TagIDs = @ \ {t}]
       ELSE endpointGroups[g]]
  /\ UpdateEndpointRelations(TaggedEndpoints(t) \cap EdgeEndpoints,
                             endpoints', endpointGroups', edgeGroups)
  /\ edgeGroups' = [g \in DOMAIN edgeGroups |->
                      [edgeGroups[g] EXCEPT !.TagIDs = @ \ {t}]]
  /\ tags' = Delete(tags, t)
  /\ UNCHANGED <<edgeStacks, issued>>

\* The tags' lists after the tags of an endpoint, or of an endpoint group, were
\* replaced
ListEndpoint(e, old, new) ==
  [t \in DOMAIN tags |->
     IF t \in new THEN [tags[t] EXCEPT !.Endpoints = @ \cup {e}]
     ELSE IF t \in old THEN [tags[t] EXCEPT !.Endpoints = @ \ {e}] ELSE tags[t]]
\* Mutant: a tag that a group loses still lists it.
ListsOnly(g, old, new) ==
  [t \in DOMAIN tags |->
     IF t \in new THEN [tags[t] EXCEPT !.EndpointGroups = @ \cup {g}] ELSE tags[t]]

ListEndpointGroup(g, old, new) ==
  [t \in DOMAIN tags |->
     IF t \in new THEN [tags[t] EXCEPT !.EndpointGroups = @ \cup {g}]
     ELSE IF t \in old THEN [tags[t] EXCEPT !.EndpointGroups = @ \ {g}] ELSE tags[t]]

-----------------------------------------------------------------------------
(* Endpoints.                                                              *)

EndpointCreate(e, group, tagIDs) ==
  /\ Issue(e)
  /\ group \in DOMAIN endpointGroups
  /\ tagIDs \subseteq DOMAIN tags
  /\ endpoints' = Put(endpoints, e, [GroupID |-> group, TagIDs |-> tagIDs])
  /\ tags' = ListEndpoint(e, {}, tagIDs)
  /\ endpointRelations' = Put(endpointRelations, e,
       IF e \in EdgeEndpoints
       THEN EndpointRelatedEdgeStacks(e, endpoints', endpointGroups, edgeGroups, edgeStacks)
       ELSE {})
  /\ UNCHANGED <<endpointGroups, edgeGroups, edgeStacks>>

\* endpointUpdate with the part of the payload that matters here; a field that is
\* not given keeps its value
EndpointUpdate(e, group, tagIDs) ==
  /\ e \in DOMAIN endpoints
  /\ group \in DOMAIN endpointGroups
  /\ tagIDs \cup endpoints[e].TagIDs \subseteq DOMAIN tags
  /\ LET groupIDChanged == group # endpoints[e].GroupID
         tagsChanged    == tagIDs # endpoints[e].TagIDs
     IN  /\ groupIDChanged \/ tagsChanged
         /\ tags' = IF tagsChanged THEN ListEndpoint(e, endpoints[e].TagIDs, tagIDs) ELSE tags
         /\ endpoints' = Put(endpoints, e, [GroupID |-> group, TagIDs |-> tagIDs])
         /\ IF e \in EdgeEndpoints
            THEN UpdateEndpointRelations({e}, endpoints', endpointGroups, edgeGroups)
            ELSE UNCHANGED endpointRelations
  /\ UNCHANGED <<endpointGroups, edgeGroups, edgeStacks, issued>>

\* Mutant: the static Edge groups keep the endpoint.
DeleteLeavesGroups(e) ==
  /\ e \in DOMAIN endpoints
  /\ endpoints[e].TagIDs \subseteq DOMAIN tags
  /\ endpoints' = Delete(endpoints, e)
  /\ endpointRelations' = Delete(endpointRelations, e)
  /\ tags' = ListEndpoint(e, endpoints[e].TagIDs, {})
  /\ edgeStacks' = [s \in DOMAIN edgeStacks |->
                      [edgeStacks[s] EXCEPT !.Status = @ \ {e}]]
  /\ UNCHANGED <<endpointGroups, edgeGroups, issued>>

\* Mutant: the endpoint's relation stays behind.
DeleteLeavesRelation(e) ==
  /\ e \in DOMAIN endpoints
  /\ endpoints[e].TagIDs \subseteq DOMAIN tags
  /\ endpoints' = Delete(endpoints, e)
  /\ tags' = ListEndpoint(e, endpoints[e].TagIDs, {})
  /\ edgeGroups' = [g \in DOMAIN edgeGroups |->
                      [edgeGroups[g] EXCEPT !.Endpoints = @ \ {e}]]
  /\ edgeStacks' = [s \in DOMAIN edgeStacks |->
                      [edgeStacks[s] EXCEPT !.Status = @ \ {e}]]
  /\ UNCHANGED <<endpointGroups, endpointRelations, issued>>

EndpointDelete(e) ==
  /\ e \in DOMAIN endpoints
  /\ endpoints[e].TagIDs \subseteq DOMAIN tags
  /\ endpoints' = Delete(endpoints, e)
  /\ endpointRelations' = Delete(endpointRelations, e)
  /\ tags' = ListEndpoint(e, endpoints[e].TagIDs, {})
  /\ edgeGroups' = [g \in DOMAIN edgeGroups |->
                      [edgeGroups[g] EXCEPT !.Endpoints = @ \ {e}]]
  /\ edgeStacks' = [s \in DOMAIN edgeStacks |->
                      [edgeStacks[s] EXCEPT !.Status = @ \ {e}]]
  /\ UNCHANGED <<endpointGroups, issued>>

-----------------------------------------------------------------------------
(* Endpoint groups.                                                        *)

\* The endpoints in moved join a group.
Move(moved, group) ==
  [e \in DOMAIN endpoints |->
     IF e \in moved THEN [endpoints[e] EXCEPT !.GroupID = group] ELSE endpoints[e]]

EndpointGroupCreate(g, tagIDs, associatedEndpoints) ==
  /\ Issue(g)
  /\ tagIDs \subseteq DOMAIN tags
  /\ associatedEndpoints \subseteq DOMAIN endpoints
  /\ endpointGroups' = Put(endpointGroups, g, [TagIDs |-> tagIDs])
  /\ endpoints' = Move(associatedEndpoints, g)
  /\ UpdateEndpointRelations(associatedEndpoints \cap EdgeEndpoints,
                             endpoints', endpointGroups', edgeGroups)
  /\ tags' = ListEndpointGroup(g, {}, tagIDs)
  /\ UNCHANGED <<edgeGroups, edgeStacks>>

EndpointGroupUpdate(g, tagIDs) ==
  /\ g \in DOMAIN endpointGroups
  /\ tagIDs \cup endpointGroups[g].TagIDs \subseteq DOMAIN tags
  /\ tagIDs # endpointGroups[g].TagIDs
  /\ tags' = ListEndpointGroup(g, endpointGroups[g].TagIDs, tagIDs)
  /\ endpointGroups' = Put(endpointGroups, g, [TagIDs |-> tagIDs])
  /\ UpdateEndpointRelations(Members(g, endpoints) \cap EdgeEndpoints,
                             endpoints, endpointGroups', edgeGroups)
  /\ UNCHANGED <<endpoints, edgeGroups, edgeStacks, issued>>

EndpointGroupDelete(g) ==
  /\ g \in DOMAIN endpointGroups \ {Unassigned}
  /\ endpointGroups[g].TagIDs \subseteq DOMAIN tags
  /\ endpointGroups' = Delete(endpointGroups, g)
  /\ endpoints' = Move(Members(g, endpoints), Unassigned)
  /\ UpdateEndpointRelations(Members(g, endpoints) \cap EdgeEndpoints,
                             endpoints', endpointGroups', edgeGroups)
  /\ tags' = ListEndpointGroup(g, endpointGroups[g].TagIDs, {})
  /\ UNCHANGED <<edgeGroups, edgeStacks, issued>>

EndpointGroupAddEndpoint(g, e) ==
  /\ g \in DOMAIN endpointGroups
  /\ e \in DOMAIN endpoints
  /\ endpoints' = Move({e}, g)
  /\ UpdateEndpointRelations({e} \cap EdgeEndpoints, endpoints', endpointGroups, edgeGroups)
  /\ UNCHANGED <<tags, endpointGroups, edgeGroups, edgeStacks, issued>>

\* Mutant: an endpoint leaves its group and keeps the group's stacks.
LeavesWithStacks(e) ==
  /\ e \in DOMAIN endpoints
  /\ endpoints' = Move({e}, Unassigned)
  /\ UNCHANGED <<tags, endpointGroups, edgeGroups, edgeStacks, endpointRelations, issued>>

\* The endpoint need not be in the group that the request names.
EndpointGroupDeleteEndpoint(e) ==
  /\ e \in DOMAIN endpoints
  /\ endpoints' = Move({e}, Unassigned)
  /\ UpdateEndpointRelations({e} \cap EdgeEndpoints, endpoints', endpointGroups, edgeGroups)
  /\ UNCHANGED <<tags, endpointGroups, edgeGroups, edgeStacks, issued>>

-----------------------------------------------------------------------------
(* Edge groups.                                                            *)

\* A payload gives a dynamic group its tags, a static one its endpoints, of which
\* it keeps those that are Edge endpoints.  A group that changes its kind keeps
\* the fields of the other kind.
EdgeGroupPayloads ==
  [Dynamic : {TRUE}, PartialMatch : BOOLEAN,
   TagIDs : (SUBSET DOMAIN tags) \ {{}}, Endpoints : {{}}]
  \cup
  [Dynamic : {FALSE}, PartialMatch : BOOLEAN,
   TagIDs : {{}}, Endpoints : (SUBSET DOMAIN endpoints) \ {{}}]

EdgeGroupFrom(payload, TagIDs, ids) ==
  [Dynamic      |-> payload.Dynamic,
   PartialMatch |-> payload.PartialMatch,
   TagIDs       |-> IF payload.Dynamic THEN payload.TagIDs ELSE TagIDs,
   Endpoints    |-> IF payload.Dynamic THEN ids ELSE payload.Endpoints \cap EdgeEndpoints]

EdgeGroupCreate(g, payload) ==
  /\ Issue(g)
  /\ edgeGroups' = Put(edgeGroups, g, EdgeGroupFrom(payload, {}, {}))
  /\ UNCHANGED <<tags, endpoints, endpointGroups, edgeStacks, endpointRelations>>

\* Mutant: only the endpoints that the group covered before are updated.
UpdatesOldRelated(g, payload) ==
  /\ g \in DOMAIN edgeGroups
  /\ edgeGroups' = Put(edgeGroups, g,
       EdgeGroupFrom(payload, edgeGroups[g].TagIDs, edgeGroups[g].Endpoints))
  /\ UpdateEndpointRelations(
       EdgeGroupRelatedEndpoints(edgeGroups[g], endpoints, endpointGroups),
       endpoints, endpointGroups, edgeGroups')
  /\ UNCHANGED <<tags, endpoints, endpointGroups, edgeStacks, issued>>

EdgeGroupUpdate(g, payload) ==
  /\ g \in DOMAIN edgeGroups
  /\ LET edgeGroup == EdgeGroupFrom(payload, edgeGroups[g].TagIDs, edgeGroups[g].Endpoints)
         oldRelated == EdgeGroupRelatedEndpoints(edgeGroups[g], endpoints, endpointGroups)
         newRelated == EdgeGroupRelatedEndpoints(edgeGroup, endpoints, endpointGroups)
     IN  /\ edgeGroups' = Put(edgeGroups, g, edgeGroup)
         /\ UpdateEndpointRelations(newRelated \cup oldRelated,
                                    endpoints, endpointGroups, edgeGroups')
  /\ UNCHANGED <<tags, endpoints, endpointGroups, edgeStacks, issued>>

EdgeGroupDelete(g) ==
  /\ g \in DOMAIN edgeGroups
  /\ \A s \in DOMAIN edgeStacks : g \notin edgeStacks[s].EdgeGroups
  /\ edgeGroups' = Delete(edgeGroups, g)
  /\ UNCHANGED <<tags, endpoints, endpointGroups, edgeStacks, endpointRelations, issued>>

-----------------------------------------------------------------------------
(* Edge stacks.                                                            *)

\* The relations once stack s no longer runs on removed and runs on added
Redeploy(s, removed, added) ==
  /\ removed \cup added \subseteq DOMAIN endpointRelations
  /\ endpointRelations' = [e \in DOMAIN endpointRelations |->
       (endpointRelations[e] \ (IF e \in removed THEN {s} ELSE {}))
         \cup (IF e \in added THEN {s} ELSE {})]

EdgeStackCreate(s, groups) ==
  /\ Issue(s)
  /\ groups # {} /\ groups \subseteq DOMAIN edgeGroups
  /\ edgeStacks' = Put(edgeStacks, s, [EdgeGroups |-> groups, Status |-> {}])
  /\ Redeploy(s, {}, EdgeStackRelatedEndpoints(groups))
  /\ UNCHANGED <<tags, endpoints, endpointGroups, edgeGroups>>

\* A new version forgets the status that the endpoints reported.
EdgeStackUpdate(s, groups, versionChanged) ==
  /\ s \in DOMAIN edgeStacks
  /\ groups # {}
  /\ groups \cup edgeStacks[s].EdgeGroups \subseteq DOMAIN edgeGroups
  /\ LET oldRelated == EdgeStackRelatedEndpoints(edgeStacks[s].EdgeGroups)
         newRelated == EdgeStackRelatedEndpoints(groups)
     IN  Redeploy(s, oldRelated \ newRelated, newRelated \ oldRelated)
  /\ edgeStacks' = [edgeStacks EXCEPT
       ![s].EdgeGroups = groups, ![s].Status = IF versionChanged THEN {} ELSE @]
  /\ UNCHANGED <<tags, endpoints, endpointGroups, edgeGroups, issued>>

EdgeStackDelete(s) ==
  /\ s \in DOMAIN edgeStacks
  /\ edgeStacks[s].EdgeGroups \subseteq DOMAIN edgeGroups
  /\ edgeStacks' = Delete(edgeStacks, s)
  /\ Redeploy(s, EdgeStackRelatedEndpoints(edgeStacks[s].EdgeGroups), {})
  /\ UNCHANGED <<tags, endpoints, endpointGroups, edgeGroups, issued>>

\* An Edge agent reports on any stack, whether it runs there or not.
EdgeStackStatusUpdate(s, e) ==
  /\ s \in DOMAIN edgeStacks
  /\ e \in DOMAIN endpoints \cap EdgeEndpoints
  /\ edgeStacks' = [edgeStacks EXCEPT ![s].Status = @ \cup {e}]
  /\ UNCHANGED <<tags, endpoints, endpointGroups, edgeGroups, endpointRelations, issued>>

-----------------------------------------------------------------------------
\* A new database has the group Unassigned; a local endpoint, which is no Edge
\* endpoint, may be there from the command line, without a relation.
Init ==
  /\ \E local \in SUBSET (Endpoints \ EdgeEndpoints) :
       /\ endpoints = [e \in local |-> [GroupID |-> Unassigned, TagIDs |-> {}]]
       /\ issued = local \cup {Unassigned}
  /\ tags = [t \in {} |-> {}]
  /\ endpointGroups = [g \in {Unassigned} |-> [TagIDs |-> {}]]
  /\ edgeGroups = [g \in {} |-> {}]
  /\ edgeStacks = [s \in {} |-> {}]
  /\ endpointRelations = [e \in {} |-> {}]

TagStep == \E t \in Tags : TagCreate(t) \/ TagDelete(t)

EndpointStep == \E e \in Endpoints :
  \/ EndpointDelete(e)
  \/ \E group \in EndpointGroups, tagIDs \in SUBSET Tags :
       EndpointCreate(e, group, tagIDs) \/ EndpointUpdate(e, group, tagIDs)

EndpointGroupStep ==
  \/ \E g \in EndpointGroups :
       \/ EndpointGroupDelete(g)
       \/ \E e \in Endpoints : EndpointGroupAddEndpoint(g, e)
       \/ \E tagIDs \in SUBSET Tags :
            \/ EndpointGroupUpdate(g, tagIDs)
            \/ \E members \in SUBSET Endpoints : EndpointGroupCreate(g, tagIDs, members)
  \/ \E e \in Endpoints : EndpointGroupDeleteEndpoint(e)

EdgeGroupStep == \E g \in EdgeGroups :
  \/ EdgeGroupDelete(g)
  \/ \E payload \in EdgeGroupPayloads : EdgeGroupCreate(g, payload) \/ EdgeGroupUpdate(g, payload)

EdgeStackStep == \E s \in EdgeStacks :
  \/ EdgeStackDelete(s)
  \/ \E e \in Endpoints : EdgeStackStatusUpdate(s, e)
  \/ \E groups \in SUBSET EdgeGroups :
       \/ EdgeStackCreate(s, groups)
       \/ \E versionChanged \in BOOLEAN : EdgeStackUpdate(s, groups, versionChanged)

Next == TagStep \/ EndpointStep \/ EndpointGroupStep \/ EdgeGroupStep \/ EdgeStackStep

Spec == Init /\ [][Next]_vars

-----------------------------------------------------------------------------
(* Properties.                                                             *)

\* Every bucket holds records of its type.
TypeOK ==
  /\ DOMAIN tags \subseteq Tags
  /\ tags \in [DOMAIN tags -> TagRecord]
  /\ DOMAIN endpoints \subseteq Endpoints
  /\ endpoints \in [DOMAIN endpoints -> EndpointRecord]
  /\ DOMAIN endpointGroups \subseteq EndpointGroups
  /\ endpointGroups \in [DOMAIN endpointGroups -> EndpointGroupRecord]
  /\ DOMAIN edgeGroups \subseteq EdgeGroups
  /\ edgeGroups \in [DOMAIN edgeGroups -> EdgeGroupRecord]
  /\ DOMAIN edgeStacks \subseteq EdgeStacks
  /\ edgeStacks \in [DOMAIN edgeStacks -> EdgeStackRecord]
  /\ DOMAIN endpointRelations \subseteq DOMAIN endpoints
  /\ endpointRelations \in [DOMAIN endpointRelations -> SUBSET EdgeStacks]

\* Every record that a handler or an agent's poll looks up is there: no request
\* fails half way with its first writes kept (tagDelete, endpointDelete, the loops
\* that update relations), and no poll is refused for a stack that is gone.
ReferencesResolve ==
  /\ Unassigned \in DOMAIN endpointGroups
  /\ \A e \in DOMAIN endpoints :
       /\ endpoints[e].GroupID \in DOMAIN endpointGroups
       /\ endpoints[e].TagIDs \subseteq DOMAIN tags
       /\ e \in EdgeEndpoints => e \in DOMAIN endpointRelations
  /\ \A e \in DOMAIN endpointRelations : endpointRelations[e] \subseteq DOMAIN edgeStacks
  /\ \A g \in DOMAIN endpointGroups : endpointGroups[g].TagIDs \subseteq DOMAIN tags
  /\ \A t \in DOMAIN tags :
       /\ tags[t].Endpoints \subseteq DOMAIN endpoints
       /\ tags[t].EndpointGroups \subseteq DOMAIN endpointGroups
  /\ \A g \in DOMAIN edgeGroups :
       /\ edgeGroups[g].TagIDs \subseteq DOMAIN tags
       /\ edgeGroups[g].Endpoints \subseteq DOMAIN endpoints \cap EdgeEndpoints
  /\ \A s \in DOMAIN edgeStacks :
       /\ edgeStacks[s].EdgeGroups \subseteq DOMAIN edgeGroups
       /\ edgeStacks[s].Status \subseteq DOMAIN endpoints

\* A tag lists an endpoint, or an endpoint group, exactly when that record has the
\* tag: five handlers keep the two sides in step.
TagsListTheirUsers ==
  \A t \in DOMAIN tags :
    /\ tags[t].Endpoints = {e \in DOMAIN endpoints : t \in endpoints[e].TagIDs}
    /\ tags[t].EndpointGroups =
         {g \in DOMAIN endpointGroups : t \in endpointGroups[g].TagIDs}

\* The stacks that an endpoint should run: its Edge groups' now
Covering(e) ==
  EndpointRelatedEdgeStacks(e, endpoints, endpointGroups, edgeGroups, edgeStacks)

\* No endpoint is told to run a stack none of whose Edge groups covers it,
\* whichever of the dozen handlers that move tags, groups and stacks ran before.
NoStackOutsideItsGroups ==
  \A e \in DOMAIN endpointRelations : endpointRelations[e] \subseteq Covering(e)

\* An endpoint that is told of every stack covering it still is after any request
\* that deletes no tag, and so is a new one.  (tagDelete computes the relations
\* from the Edge groups as they were with the tag.)
StacksReachTheirEndpoints ==
  [][DOMAIN tags \subseteq DOMAIN tags' =>
       \A e \in EdgeEndpoints \cap DOMAIN endpoints' :
         (e \in DOMAIN endpoints => Covering(e) \subseteq endpointRelations[e])
           => Covering(e)' \subseteq endpointRelations'[e]]_vars

\* The members that the API shows for a dynamic Edge group, found through the tags'
\* lists, are those its stacks are deployed to, found through the endpoints.
ShownMembersAreDeployedTo ==
  \A g \in DOMAIN edgeGroups :
    edgeGroups[g].Dynamic /\ edgeGroups[g].TagIDs # {} =>
      GetEndpointsByTags(edgeGroups[g].TagIDs, edgeGroups[g].PartialMatch)
        = EdgeGroupRelatedEndpoints(edgeGroups[g], endpoints, endpointGroups)

\* "TagIDs is mandatory for a dynamic Edge group": refuted by tagDelete, after which
\* the group shows no member and its stacks go to every Edge endpoint.
DynamicGroupsHaveTags ==
  \A g \in DOMAIN edgeGroups : edgeGroups[g].Dynamic => edgeGroups[g].TagIDs # {}

=============================================================================
