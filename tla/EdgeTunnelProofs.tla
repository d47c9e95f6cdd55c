--------------------------- MODULE EdgeTunnelProofs ---------------------------
(***************************************************************************)
(* Proofs about EdgeTunnel.  Its invariants about tunnels depend on the    *)
(* tunnel service alone, whose state changes through its few methods: a    *)
(* lemma per method shows that it preserves them, and the theorems follow  *)
(* by finding the method each action calls.                                *)
(***************************************************************************)
EXTENDS EdgeTunnel, TLAPS

ServiceTypeOK ==
  /\ tunnelDetailsMap \in [Endpoints -> Tunnels \cup {NoTunnel}]
  /\ chiselUsers \subseteq {UserName(e, p) : e \in Endpoints, p \in Ports}

\* The inductive invariant of the service.
ServiceInv ==
  /\ ServiceTypeOK
  /\ IdleReopenable
  /\ RequiredConnectable
  /\ PortsUnique

USE DEF ServiceTypeOK

-----------------------------------------------------------------------------
(* The type of the data.                                                   *)

\* What stands for an unregistered tunnel is no tunnel, and an unregistered
\* endpoint is shown an idle one: what GetTunnelDetails returns is a tunnel.
LEMMA NoTunnelDiffers == NoTunnel \notin Tunnels /\ EmptyTunnel \in Tunnels
BY TunnelAssumption DEF NoTunnel, EmptyTunnel, Tunnels, Credentials, NoCredentials, Ages, ZeroTime, MaxAge

\* The status tells an unregistered tunnel.
LEMMA NoTunnelStatus ==
  \A t \in Tunnels \cup {NoTunnel} : t = NoTunnel <=> t.status = "NONE"
<1>1. NoTunnel.status = "NONE"
  BY DEF NoTunnel, EmptyTunnel
<1>2. \A t \in Tunnels : t.status # "NONE"
  BY DEF Tunnels
<1> QED BY <1>1, <1>2

\* GetTunnelDetails always returns a tunnel.
LEMMA DetailsType ==
  ASSUME ServiceTypeOK, NEW e \in Endpoints
  PROVE  GetTunnelDetails(e) \in Tunnels
BY NoTunnelDiffers DEF GetTunnelDetails, Registered

\* A tunnel is recorded as it is set, and the others stay as they are.
LEMMA SetTunnelType ==
  ASSUME ServiceTypeOK, NEW e \in Endpoints, NEW t \in Tunnels \cup {NoTunnel},
         SetTunnel(e, t)
  PROVE  /\ tunnelDetailsMap' \in [Endpoints -> Tunnels \cup {NoTunnel}]
         /\ tunnelDetailsMap'[e] = t
         /\ \A f \in Endpoints \ {e} : tunnelDetailsMap'[f] = tunnelDetailsMap[f]
BY DEF SetTunnel

\* Names and ciphers are never confused.
LEMMA NameIsNoCipher ==
  ASSUME NEW e, NEW p, NEW c \in Credentials
  PROVE  UserName(e, p) # c
BY DEF UserName, Credentials, NoCredentials

-----------------------------------------------------------------------------
(* One lemma per method of the service.                                    *)

\* An update of one tunnel preserves the invariant when the tunnel it writes
\* satisfies it, keeps the port or drops it, and no user is removed.
LEMMA SetTunnelInv ==
  ASSUME ServiceInv, NEW e \in Endpoints, NEW t \in Tunnels \cup {NoTunnel},
         SetTunnel(e, t),
         chiselUsers \subseteq chiselUsers',
         chiselUsers' \subseteq {UserName(f, p) : f \in Endpoints, p \in Ports},
         t.status \in {"IDLE", "NONE"} => t.port = NoPort,
         IF t.status = "REQUIRED"
         THEN /\ t.port \in Ports
              /\ UserName(e, t.port) \in chiselUsers'
              /\ t.credentials = Encrypt(UserName(e, t.port))
         ELSE t.credentials = NoCredentials,
         t.port # NoPort => \A f \in Endpoints \ {e} : tunnelDetailsMap[f].port # t.port
  PROVE  ServiceInv'
<1>1. ServiceTypeOK'
  BY SetTunnelType DEF ServiceInv
<1>2. IdleReopenable'
  BY SetTunnelType DEF ServiceInv, IdleReopenable, GetTunnelDetails, Registered, EmptyTunnel
<1>3. RequiredConnectable'
  <2> SUFFICES ASSUME NEW f \in Endpoints
               PROVE  LET u == GetTunnelDetails(f)' IN
                      IF u.status = "REQUIRED"
                      THEN /\ u.port \in Ports
                           /\ UserName(f, u.port) \in chiselUsers'
                           /\ u.credentials = Encrypt(UserName(f, u.port))
                      ELSE u.credentials = NoCredentials
    BY DEF RequiredConnectable
  <2>1. CASE f = e
    BY <2>1, SetTunnelType DEF ServiceInv, GetTunnelDetails, Registered, EmptyTunnel
  <2>2. CASE f # e
    BY <2>2, SetTunnelType DEF ServiceInv, RequiredConnectable, GetTunnelDetails, Registered
  <2> QED BY <2>1, <2>2
<1>4. PortsUnique'
  BY SetTunnelType DEF ServiceInv, PortsUnique
<1> QED BY <1>1, <1>2, <1>3, <1>4 DEF ServiceInv

\* What GetTunnelDetails returns satisfies the invariant and owns its port.
LEMMA DetailsInv ==
  ASSUME ServiceInv, NEW e \in Endpoints
  PROVE  LET t == GetTunnelDetails(e) IN
         /\ t.status = "IDLE" => t.port = NoPort
         /\ t.status # "REQUIRED" => t.credentials = NoCredentials
         /\ t.port # NoPort => \A f \in Endpoints \ {e} : tunnelDetailsMap[f].port # t.port
BY DEF ServiceInv, IdleReopenable, RequiredConnectable, PortsUnique, GetTunnelDetails,
       Registered, EmptyTunnel

\* SetTunnelStatusToActive keeps the invariant.
LEMMA ActiveInv ==
  ASSUME ServiceInv, NEW e \in Endpoints, SetTunnelStatusToActive(e)
  PROVE  ServiceInv'
<1> DEFINE t == [GetTunnelDetails(e) EXCEPT !.status = "ACTIVE",
                                            !.credentials = NoCredentials,
                                            !.age = 0]
<1>1. /\ t \in Tunnels
      /\ t.status = "ACTIVE"
      /\ t.credentials = NoCredentials
      /\ t.port = GetTunnelDetails(e).port
  <2>1. GetTunnelDetails(e) \in Tunnels
    BY DetailsType DEF ServiceInv
  <2>2. 0 \in Ages /\ NoCredentials \in Credentials
    BY TunnelAssumption DEF Ages, ZeroTime, MaxAge, Credentials
  <2> QED BY <2>1, <2>2 DEF Tunnels
<1>2. SetTunnel(e, t) /\ chiselUsers' = chiselUsers
  BY DEF SetTunnelStatusToActive
<1> HIDE DEF t
<1> QED BY <1>1, <1>2, SetTunnelInv, DetailsInv DEF ServiceInv

\* SetTunnelStatusToIdle keeps the invariant.
LEMMA IdleInv ==
  ASSUME ServiceInv, NEW e \in Endpoints, SetTunnelStatusToIdle(e)
  PROVE  ServiceInv'
<1> DEFINE t == [GetTunnelDetails(e) EXCEPT !.status = "IDLE", !.port = NoPort,
                                            !.credentials = NoCredentials, !.age = 0]
<1>1. GetTunnelDetails(e) \in Tunnels
  BY DetailsType DEF ServiceInv
<1>2. /\ t \in Tunnels
      /\ t.status = "IDLE"
      /\ t.credentials = NoCredentials
      /\ t.port = NoPort
  <2>1. 0 \in Ages /\ NoCredentials \in Credentials
    BY TunnelAssumption DEF Ages, ZeroTime, MaxAge, Credentials
  <2> QED BY <1>1, <2>1 DEF Tunnels
<1>3. SetTunnel(e, t)
  BY DEF SetTunnelStatusToIdle
<1>4. chiselUsers' = chiselUsers
  <2>1. GetTunnelDetails(e).credentials \in Credentials
    BY <1>1 DEF Tunnels
  <2>2. GetTunnelDetails(e).credentials \notin chiselUsers
    BY <2>1, NameIsNoCipher DEF ServiceInv
  <2> QED BY <2>2 DEF SetTunnelStatusToIdle
<1> HIDE DEF t
<1> QED BY <1>2, <1>3, <1>4, SetTunnelInv DEF ServiceInv

\* SetTunnelStatusToRequired keeps the invariant.
LEMMA RequiredInv ==
  ASSUME ServiceInv, NEW e \in Endpoints, SetTunnelStatusToRequired(e)
  PROVE  ServiceInv'
<1>1. CASE UNCHANGED service
  BY <1>1 DEF service, ServiceInv, IdleReopenable, RequiredConnectable, PortsUnique,
              GetTunnelDetails, Registered
<1>2. CASE ~UNCHANGED service
  <2>1. PICK p \in Ports :
          /\ GetUnusedPort(p)
          /\ chiselUsers' = chiselUsers \cup {UserName(e, p)}
          /\ SetTunnel(e, [GetTunnelDetails(e) EXCEPT
                             !.status = "REQUIRED", !.port = p, !.age = 0,
                             !.credentials = Encrypt(UserName(e, p))])
    BY <1>2 DEF SetTunnelStatusToRequired
  <2> DEFINE t == [GetTunnelDetails(e) EXCEPT
                     !.status = "REQUIRED", !.port = p, !.age = 0,
                     !.credentials = Encrypt(UserName(e, p))]
  <2>2. GetTunnelDetails(e) \in Tunnels
    BY DetailsType DEF ServiceInv
  <2>3. /\ t \in Tunnels
        /\ t.status = "REQUIRED"
        /\ t.port = p
        /\ t.credentials = Encrypt(UserName(e, p))
    <3>1. 0 \in Ages /\ Encrypt(UserName(e, p)) \in Credentials
      BY TunnelAssumption DEF Ages, ZeroTime, MaxAge, Credentials, Encrypt, UserName
    <3> QED BY <2>2, <3>1 DEF Tunnels
  <2>4. \A f \in Endpoints \ {e} : tunnelDetailsMap[f].port # p
    BY <2>1, TunnelAssumption DEF GetUnusedPort, UsedPorts, Registered, NoTunnel, EmptyTunnel
  <2>5. SetTunnel(e, t)
    BY <2>1
  <2> HIDE DEF t
  <2> QED BY <2>1, <2>3, <2>4, <2>5, SetTunnelInv DEF ServiceInv
<1> QED BY <1>1, <1>2

\* Giving an endpoint an Edge job keeps the invariant.
LEMMA AddEdgeJobInv ==
  ASSUME ServiceInv, NEW e \in Endpoints, NEW j \in Jobs, AddEdgeJob(e, j)
  PROVE  ServiceInv'
<1> DEFINE d == GetTunnelDetails(e)
           t == [d EXCEPT !.jobs = @ \cup {j}]
<1>1. d \in Tunnels
  BY DetailsType DEF ServiceInv
<1>2. /\ t \in Tunnels
      /\ t.status = d.status
      /\ t.port = d.port
      /\ t.credentials = d.credentials
  BY <1>1 DEF Tunnels
<1>3. SetTunnel(e, t) /\ chiselUsers' = chiselUsers
  BY DEF AddEdgeJob
<1>4. IF d.status = "REQUIRED"
      THEN /\ d.port \in Ports
           /\ UserName(e, d.port) \in chiselUsers
           /\ d.credentials = Encrypt(UserName(e, d.port))
      ELSE d.credentials = NoCredentials
  BY DEF ServiceInv, RequiredConnectable
<1>5. d.status \in {"IDLE", "NONE"} => d.port = NoPort
  BY <1>1, DetailsInv DEF Tunnels
<1>6. d.port # NoPort => \A f \in Endpoints \ {e} : tunnelDetailsMap[f].port # d.port
  BY DetailsInv
<1> HIDE DEF d, t
<1> QED BY <1>2, <1>3, <1>4, <1>5, <1>6, SetTunnelInv DEF ServiceInv

\* The loop forgets a tunnel.
LEMMA ForgetInv ==
  ASSUME ServiceInv, NEW e \in Endpoints, SetTunnel(e, NoTunnel), UNCHANGED chiselUsers
  PROVE  ServiceInv'
<1>1. NoTunnel.status = "NONE" /\ NoTunnel.port = NoPort /\ NoTunnel.credentials = NoCredentials
  BY DEF NoTunnel, EmptyTunnel
<1> QED BY <1>1, SetTunnelInv DEF ServiceInv

\* A step that changes jobs and ages only.
LEMMA SameTunnelsInv ==
  ASSUME ServiceInv, ServiceTypeOK', UNCHANGED chiselUsers,
         \A e \in Endpoints :
           /\ tunnelDetailsMap'[e].status = tunnelDetailsMap[e].status
           /\ tunnelDetailsMap'[e].port = tunnelDetailsMap[e].port
           /\ tunnelDetailsMap'[e].credentials = tunnelDetailsMap[e].credentials
  PROVE  ServiceInv'
<1>1. \A e \in Endpoints : /\ Registered(e)' <=> Registered(e)
                           /\ GetTunnelDetails(e)'.status = GetTunnelDetails(e).status
                           /\ GetTunnelDetails(e)'.port = GetTunnelDetails(e).port
                           /\ GetTunnelDetails(e)'.credentials = GetTunnelDetails(e).credentials
  <2> TAKE e \in Endpoints
  <2>1. /\ tunnelDetailsMap[e] = NoTunnel <=> tunnelDetailsMap[e].status = "NONE"
        /\ tunnelDetailsMap'[e] = NoTunnel <=> tunnelDetailsMap'[e].status = "NONE"
    BY NoTunnelStatus DEF ServiceInv
  <2> QED BY <2>1 DEF GetTunnelDetails, Registered
<1>2. IdleReopenable'
  BY <1>1 DEF ServiceInv, IdleReopenable
<1>3. RequiredConnectable'
  BY <1>1 DEF ServiceInv, RequiredConnectable
<1>4. PortsUnique'
  BY DEF ServiceInv, PortsUnique
<1> QED BY <1>2, <1>3, <1>4 DEF ServiceInv

\* Taking an Edge job away keeps the invariant.
LEMMA RemoveEdgeJobInv ==
  ASSUME ServiceInv, NEW j \in Jobs, RemoveEdgeJob(j)
  PROVE  ServiceInv'
<1>1. \A e \in Endpoints :
        /\ tunnelDetailsMap'[e] \in Tunnels \cup {NoTunnel}
        /\ tunnelDetailsMap'[e].status = tunnelDetailsMap[e].status
        /\ tunnelDetailsMap'[e].port = tunnelDetailsMap[e].port
        /\ tunnelDetailsMap'[e].credentials = tunnelDetailsMap[e].credentials
  BY DEF RemoveEdgeJob, ServiceInv, Registered, Tunnels
<1>2. ServiceTypeOK'
  BY <1>1 DEF RemoveEdgeJob, ServiceInv
<1>3. UNCHANGED chiselUsers
  BY DEF RemoveEdgeJob
<1> QED BY <1>1, <1>2, <1>3, SameTunnelsInv

\* The passing of time keeps the invariant.
LEMMA TickInv ==
  ASSUME ServiceInv, Tick
  PROVE  ServiceInv'
<1>1. \A e \in Endpoints :
        /\ tunnelDetailsMap'[e] \in Tunnels \cup {NoTunnel}
        /\ tunnelDetailsMap'[e].status = tunnelDetailsMap[e].status
        /\ tunnelDetailsMap'[e].port = tunnelDetailsMap[e].port
        /\ tunnelDetailsMap'[e].credentials = tunnelDetailsMap[e].credentials
  <2> TAKE e \in Endpoints
  <2>1. CASE ~Aging(e)
    BY <2>1 DEF Tick, ServiceInv
  <2>2. CASE Aging(e)
    <3>1. tunnelDetailsMap[e] \in Tunnels
      BY <2>2 DEF ServiceInv, Aging, Open, NoTunnel, EmptyTunnel
    <3>2. tunnelDetailsMap[e].age + 1 \in Ages
      BY <2>2, <3>1, TunnelAssumption DEF Aging, Tunnels, Ages, MaxAge, ZeroTime
    <3>3. tunnelDetailsMap'[e] = [tunnelDetailsMap[e] EXCEPT !.age = @ + 1]
      BY <2>2 DEF Tick
    <3> QED BY <3>1, <3>2, <3>3 DEF Tunnels
  <2> QED BY <2>1, <2>2
<1>2. ServiceTypeOK'
  BY <1>1 DEF Tick, ServiceInv
<1> QED BY <1>1, <1>2, SameTunnelsInv DEF Tick

\* The tunnels the program starts with.
LEMMA StartTunnels ==
  ASSUME NEW stored \in [Endpoints -> SUBSET Jobs]
  PROVE  /\ TunnelsAtStart(stored) \in [Endpoints -> Tunnels \cup {NoTunnel}]
         /\ \A e \in Endpoints : LET t == TunnelsAtStart(stored)[e] IN
              /\ t.status # "REQUIRED"
              /\ t.port = NoPort
              /\ t.credentials = NoCredentials
BY NoTunnelDiffers DEF TunnelsAtStart, NoTunnel, EmptyTunnel, Tunnels

\* Starting the server, with what the database holds, keeps the invariant.
LEMMA StartInv ==
  ASSUME NEW stored \in [Endpoints -> SUBSET Jobs],
         tunnelDetailsMap = TunnelsAtStart(stored), chiselUsers = {}
  PROVE  ServiceInv
BY StartTunnels DEF ServiceInv, IdleReopenable, RequiredConnectable, PortsUnique,
                    GetTunnelDetails, Registered, EmptyTunnel

\* A crash and a restart keep the invariant.
LEMMA RestartInv ==
  ASSUME NEW stored \in [Endpoints -> SUBSET Jobs], Restart(stored)
  PROVE  ServiceInv'
<1>1. /\ tunnelDetailsMap' = TunnelsAtStart(stored)
      /\ chiselUsers' = {}
  BY DEF Restart
<1> QED BY <1>1, StartTunnels DEF ServiceInv, IdleReopenable, RequiredConnectable, PortsUnique,
                                  GetTunnelDetails, Registered, EmptyTunnel

-----------------------------------------------------------------------------
(* The inductive invariant of the specification.                           *)

HandlersTypeOK ==
  /\ endpoints \subseteq Endpoints
  /\ endpointProxies \in [Endpoints -> Ports \cup {NoPort, NoProxy}]
  /\ requests \in [Requests -> RequestSet]
  /\ checking \in Endpoints \cup {NoEndpoint}
  /\ polls \in [Endpoints -> Offers \cup {NoOffer}]
  /\ offers \in [Endpoints -> Offers \cup {NoOffer}]
  /\ listening \in [Ports -> Endpoints \cup {NoEndpoint}]

\* A request in progress is for an endpoint, so the methods it calls are too.
RequestsHaveEndpoint ==
  \A r \in Requests : requests[r].pc # "none" => requests[r].endpoint \in Endpoints

HandlersInv == HandlersTypeOK /\ RequestsHaveEndpoint

Inv == ServiceInv /\ HandlersInv

\* A step that leaves the tunnels and the records keeps the invariant.
LEMMA UnchangedServiceInv ==
  ASSUME ServiceInv, UNCHANGED service
  PROVE  ServiceInv'
BY DEF service, ServiceInv, IdleReopenable, RequiredConnectable, PortsUnique,
       GetTunnelDetails, Registered

\* The teardown of a tunnel by the verification loop keeps the invariant.
LEMMA TearDownInv ==
  ASSUME ServiceInv, NEW e \in Endpoints, TearDown(e)
  PROVE  ServiceInv'
BY IdleInv, ForgetInv DEF TearDown

\* Each action preserves what the service guarantees: it calls one method.
LEMMA ServiceStep ==
  ASSUME Inv, Next
  PROVE  ServiceInv'
<1> USE DEF Inv, HandlersInv
<1>1. ASSUME NEW r \in Requests, NEW e \in Endpoints, RequestStart(r, e)
      PROVE  ServiceInv'
  BY <1>1, UnchangedServiceInv DEF RequestStart
<1>2. ASSUME NEW r \in Requests, RequestRequire(r)
      PROVE  ServiceInv'
  <2>1. requests[r].endpoint \in Endpoints
    BY <1>2 DEF RequestRequire, RequestsHaveEndpoint
  <2> QED BY <1>2, <2>1, RequiredInv, UnchangedServiceInv DEF RequestRequire
<1>3. ASSUME NEW r \in Requests, RequestDispatch(r)
      PROVE  ServiceInv'
  BY <1>3, UnchangedServiceInv DEF RequestDispatch
<1>4. ASSUME NEW r \in Requests, RequestSucceed(r) \/ RequestFail(r)
      PROVE  ServiceInv'
  <2>1. requests[r].endpoint \in Endpoints
    BY <1>4 DEF RequestSucceed, RequestFail, RequestsHaveEndpoint
  <2> QED BY <1>4, <2>1, ActiveInv, IdleInv DEF RequestSucceed, RequestFail
<1>5. ASSUME NEW e \in Endpoints, CheckTunnel(e) \/ CheckAfterSnapshot(e)
      PROVE  ServiceInv'
  BY <1>5, TearDownInv, UnchangedServiceInv DEF CheckTunnel, CheckAfterSnapshot
<1>6. ASSUME NEW e \in Endpoints, WebsocketRequest(e) \/ PollActivate(e)
      PROVE  ServiceInv'
  BY <1>6, ActiveInv DEF WebsocketRequest, PollActivate
<1>7. ASSUME NEW e \in Endpoints, OpenForKubernetes(e)
      PROVE  ServiceInv'
  BY <1>7, RequiredInv DEF OpenForKubernetes
<1>8. ASSUME NEW e \in Endpoints,
             EndpointUpdate(e) \/ EndpointDelete(e) \/ PollRead(e) \/ AgentConnect(e)
      PROVE  ServiceInv'
  BY <1>8, UnchangedServiceInv DEF EndpointUpdate, EndpointDelete, PollRead, AgentConnect
<1>9. ASSUME NEW e \in Endpoints, NEW j \in Jobs, AddEdgeJob(e, j)
      PROVE  ServiceInv'
  BY <1>9, AddEdgeJobInv
<1>10. ASSUME NEW j \in Jobs, RemoveEdgeJob(j)
       PROVE  ServiceInv'
  BY <1>10, RemoveEdgeJobInv
<1>11. ASSUME NEW p \in Ports, AgentDisconnect(p)
       PROVE  ServiceInv'
  BY <1>11, UnchangedServiceInv DEF AgentDisconnect
<1>12. CASE Tick
  BY <1>12, TickInv
<1>13. ASSUME NEW stored \in [Endpoints -> SUBSET Jobs], Restart(stored)
       PROVE  ServiceInv'
  BY <1>13, RestartInv
<1> QED BY <1>1, <1>2, <1>3, <1>4, <1>5, <1>6, <1>7, <1>8, <1>9, <1>10, <1>11, <1>12, <1>13
        DEF Next, RequestNext, EndpointNext

\* A request moves on with its own endpoint.
LEMMA RequestType ==
  ASSUME HandlersInv, NEW r \in Requests, NEW pc \in {"checked", "ready", "inflight"},
         NEW e \in Endpoints, NEW p \in Ports \cup {NoPort},
         Request(r, pc, e, p)
  PROVE  requests' \in [Requests -> RequestSet] /\ RequestsHaveEndpoint'
BY DEF HandlersInv, HandlersTypeOK, RequestsHaveEndpoint, Request, RequestSet

\* The end of a request keeps the type of the requests.
LEMMA EndRequestType ==
  ASSUME HandlersInv, NEW r \in Requests, EndRequest(r)
  PROVE  requests' \in [Requests -> RequestSet] /\ RequestsHaveEndpoint'
BY DEF HandlersInv, HandlersTypeOK, RequestsHaveEndpoint, EndRequest, RequestSet, NoRequest

\* A step that leaves the requests keeps their type.
LEMMA UnchangedRequests ==
  ASSUME RequestsHaveEndpoint, UNCHANGED requests
  PROVE  RequestsHaveEndpoint'
BY DEF RequestsHaveEndpoint

\* Each action preserves the types of what the handlers keep.
LEMMA HandlersStep ==
  ASSUME Inv, Next
  PROVE  HandlersInv'
<1> USE DEF Inv
<1>0. HandlersTypeOK /\ RequestsHaveEndpoint /\ NoPort \in Ports \cup {NoPort}
  BY DEF HandlersInv
<1>1. ASSUME NEW r \in Requests, NEW e \in Endpoints, RequestStart(r, e)
      PROVE  HandlersInv'
  <2>1. requests' \in [Requests -> RequestSet] /\ RequestsHaveEndpoint'
    BY <1>1, <1>0, RequestType DEF RequestStart
  <2> QED BY <1>1, <1>0, <2>1 DEF RequestStart, HandlersInv, HandlersTypeOK, agents
<1>2. ASSUME NEW r \in Requests, RequestRequire(r)
      PROVE  HandlersInv'
  <2>1. requests[r].endpoint \in Endpoints
    BY <1>0, <1>2 DEF RequestRequire, RequestsHaveEndpoint
  <2>2. requests' \in [Requests -> RequestSet] /\ RequestsHaveEndpoint'
    BY <1>2, <1>0, <2>1, RequestType, EndRequestType DEF RequestRequire
  <2> QED BY <1>2, <1>0, <2>2 DEF RequestRequire, HandlersInv, HandlersTypeOK, agents
<1>3. ASSUME NEW r \in Requests, RequestDispatch(r)
      PROVE  HandlersInv'
  <2> DEFINE e == requests[r].endpoint
             p == IF endpointProxies[e] = NoProxy THEN GetTunnelDetails(e).port
                                                  ELSE endpointProxies[e]
  <2>1. e \in Endpoints
    BY <1>0, <1>3 DEF RequestDispatch, RequestsHaveEndpoint
  <2>2. GetTunnelDetails(e) \in Tunnels
    BY <2>1, DetailsType DEF ServiceInv
  <2>3. p \in Ports \cup {NoPort}
    BY <1>0, <2>1, <2>2 DEF HandlersTypeOK, Tunnels
  <2>4. endpointProxies' = [endpointProxies EXCEPT ![e] = p] /\ Request(r, "inflight", e, p)
    BY <1>3 DEF RequestDispatch
  <2> HIDE DEF p, e
  <2>5. requests' \in [Requests -> RequestSet] /\ RequestsHaveEndpoint'
    BY <2>1, <2>3, <2>4, RequestType
  <2>6. UNCHANGED <<endpoints, checking, polls, offers, listening>>
    BY <1>3 DEF RequestDispatch, agents
  <2>7. endpointProxies' \in [Endpoints -> Ports \cup {NoPort, NoProxy}]
    BY <1>0, <2>3, <2>4 DEF HandlersTypeOK
  <2> QED BY <1>0, <2>5, <2>6, <2>7 DEF HandlersInv, HandlersTypeOK
<1>4. ASSUME NEW r \in Requests, RequestSucceed(r) \/ RequestFail(r)
      PROVE  HandlersInv'
  <2>1. requests' \in [Requests -> RequestSet] /\ RequestsHaveEndpoint'
    BY <1>4, EndRequestType DEF RequestSucceed, RequestFail
  <2> QED BY <1>4, <1>0, <2>1 DEF RequestSucceed, RequestFail, HandlersInv, HandlersTypeOK, agents
<1>5. ASSUME NEW e \in Endpoints, CheckTunnel(e) \/ CheckAfterSnapshot(e)
      PROVE  HandlersInv'
  BY <1>5, <1>0, UnchangedRequests
     DEF CheckTunnel, CheckAfterSnapshot, HandlersInv, HandlersTypeOK, agents
<1>6. ASSUME NEW e \in Endpoints, PollRead(e) \/ PollActivate(e)
      PROVE  HandlersInv'
  <2>1. RequestsHaveEndpoint'
    BY <1>6, <1>0, UnchangedRequests DEF PollRead, PollActivate
  <2>2. CASE PollActivate(e)
    <3>1. /\ polls' = [polls EXCEPT ![e] = NoOffer]
          /\ offers' = [offers EXCEPT ![e] = polls[e]] \/ offers' = offers
          /\ UNCHANGED <<endpoints, endpointProxies, requests, checking, listening>>
      BY <2>2 DEF PollActivate
    <3>2. polls' \in [Endpoints -> Offers \cup {NoOffer}] /\ offers' \in [Endpoints -> Offers \cup {NoOffer}]
      BY <1>0, <3>1 DEF HandlersTypeOK
    <3> QED BY <2>1, <3>1, <3>2, <1>0 DEF HandlersInv, HandlersTypeOK
  <2>3. CASE PollRead(e)
    <3>1. GetTunnelDetails(e) \in Tunnels
      BY DetailsType DEF ServiceInv
    <3>2. GetTunnelDetails(e).port \in Ports
      BY <2>3 DEF PollRead, ServiceInv, RequiredConnectable
    <3>3. polls' \in [Endpoints -> Offers \cup {NoOffer}]
      BY <2>3, <3>1, <3>2, <1>0 DEF PollRead, HandlersTypeOK, Offers, Tunnels
    <3> QED BY <2>1, <2>3, <3>3, <1>0 DEF PollRead, HandlersInv, HandlersTypeOK
  <2> QED BY <1>6, <2>2, <2>3
<1>7. ASSUME NEW e \in Endpoints,
             WebsocketRequest(e) \/ OpenForKubernetes(e) \/ EndpointDelete(e) \/ AgentConnect(e)
      PROVE  HandlersInv'
  BY <1>7, <1>0, UnchangedRequests
     DEF WebsocketRequest, OpenForKubernetes, EndpointDelete, AgentConnect,
         HandlersInv, HandlersTypeOK, agents
<1>8. ASSUME NEW e \in Endpoints, EndpointUpdate(e)
      PROVE  HandlersInv'
  <2>1. GetTunnelDetails(e).port \in Ports \cup {NoPort}
    BY DetailsType DEF ServiceInv, Tunnels
  <2> QED BY <1>8, <1>0, <2>1, UnchangedRequests
          DEF EndpointUpdate, HandlersInv, HandlersTypeOK, agents
<1>9. ASSUME NEW j \in Jobs, RemoveEdgeJob(j) \/ \E e \in Endpoints : AddEdgeJob(e, j)
      PROVE  HandlersInv'
  BY <1>9, <1>0, UnchangedRequests DEF AddEdgeJob, RemoveEdgeJob, HandlersInv, HandlersTypeOK, agents
<1>10. ASSUME NEW p \in Ports, AgentDisconnect(p)
       PROVE  HandlersInv'
  BY <1>10, <1>0, UnchangedRequests DEF AgentDisconnect, HandlersInv, HandlersTypeOK, agents
<1>11. CASE Tick
  BY <1>11, <1>0, UnchangedRequests DEF Tick, HandlersInv, HandlersTypeOK, agents
<1>12. ASSUME NEW stored \in [Endpoints -> SUBSET Jobs], Restart(stored)
       PROVE  HandlersInv'
  BY <1>12, <1>0 DEF Restart, HandlersInv, HandlersTypeOK, RequestsHaveEndpoint, RequestSet, NoRequest
<1> QED BY <1>1, <1>2, <1>3, <1>4, <1>5, <1>6, <1>7, <1>8, <1>9, <1>10, <1>11, <1>12
        DEF Next, RequestNext, EndpointNext

-----------------------------------------------------------------------------
(* The theorems.                                                           *)

\* The initial states satisfy the invariant.
LEMMA InitInv == Init => Inv
<1> SUFFICES ASSUME Init PROVE Inv
  OBVIOUS
<1>1. ServiceInv
  <2>1. PICK stored \in [Endpoints -> SUBSET Jobs] : tunnelDetailsMap = TunnelsAtStart(stored)
    BY DEF Init
  <2> QED BY <2>1, StartInv DEF Init
<1>2. HandlersInv
  BY DEF Init, HandlersInv, HandlersTypeOK, RequestsHaveEndpoint, RequestSet, NoRequest
<1> QED BY <1>1, <1>2 DEF Inv

\* Every step keeps the invariant.
LEMMA NextInv == Inv /\ [Next]_vars => Inv'
<1> SUFFICES ASSUME Inv, [Next]_vars PROVE Inv'
  OBVIOUS
<1>1. CASE Next
  BY <1>1, ServiceStep, HandlersStep DEF Inv
<1>2. CASE UNCHANGED vars
  <2>1. ServiceInv'
    BY <1>2, UnchangedServiceInv DEF Inv, vars, service
  <2>2. HandlersInv'
    BY <1>2 DEF Inv, vars, HandlersInv, HandlersTypeOK, RequestsHaveEndpoint
  <2> QED BY <2>1, <2>2 DEF Inv
<1> QED BY <1>1, <1>2

\* The strengthening is an invariant of every behaviour.
THEOREM Invariance == Spec => []Inv
BY InitInv, NextInv, PTL DEF Spec

\* Every variable keeps its type, for any numbers of endpoints, requests, jobs
\* and ports and any timeouts.
THEOREM TypeCorrect == Spec => []TypeOK
<1>1. Inv => TypeOK
  BY DEF Inv, ServiceInv, HandlersInv, HandlersTypeOK, TypeOK
<1> QED BY <1>1, Invariance, PTL

\* SetTunnelStatusToRequired always finds an idle tunnel without a port.
THEOREM IdleTunnelsReopen == Spec => []IdleReopenable
<1>1. Inv => IdleReopenable
  BY DEF Inv, ServiceInv
<1> QED BY <1>1, Invariance, PTL

\* The credentials an agent reads of a REQUIRED tunnel open the tunnel's port.
THEOREM RequiredTunnelsConnect == Spec => []RequiredConnectable
<1>1. Inv => RequiredConnectable
  BY DEF Inv, ServiceInv
<1> QED BY <1>1, Invariance, PTL

\* No two tunnels share a port, however many endpoints draw one.
THEOREM PortsAreUnique == Spec => []PortsUnique
<1>1. Inv => PortsUnique
  BY DEF Inv, ServiceInv
<1> QED BY <1>1, Invariance, PTL

-----------------------------------------------------------------------------
(* What a step does to the ports, and the implementation of PortLease.     *)

\* The tunnel of e keeps its port or loses it, and with a port it is not
\* REQUIRED again.
Keeps(e) ==
  /\ tunnelDetailsMap'[e].port \in {tunnelDetailsMap[e].port, NoPort}
  /\ tunnelDetailsMap[e].port # NoPort /\ tunnelDetailsMap[e].status = "ACTIVE"
       => tunnelDetailsMap'[e].status # "REQUIRED"

\* The tunnel of e gets a port no tunnel has, and the others are as they were.
Acquires(e, p) ==
  /\ tunnelDetailsMap[e].port = NoPort
  /\ \A f \in Endpoints : tunnelDetailsMap[f].port # p
  /\ tunnelDetailsMap'[e].port = p
  /\ \A f \in Endpoints \ {e} : tunnelDetailsMap'[f] = tunnelDetailsMap[f]

PortStep == \/ \A e \in Endpoints : Keeps(e)
            \/ \E e \in Endpoints, p \in Ports : Acquires(e, p)

\* An unregistered endpoint's tunnel has the port it is shown with.
LEMMA DetailsPort ==
  ASSUME NEW e \in Endpoints
  PROVE  /\ GetTunnelDetails(e).port = tunnelDetailsMap[e].port
         /\ tunnelDetailsMap[e].status = "ACTIVE" => GetTunnelDetails(e).status = "ACTIVE"
BY DEF GetTunnelDetails, Registered, NoTunnel, EmptyTunnel

\* A step that leaves the tunnels is a stutter of PortLease.
LEMMA UnchangedPortStep ==
  ASSUME UNCHANGED tunnelDetailsMap
  PROVE  PortStep
BY DEF PortStep, Keeps

\* One tunnel is written, with its port or none, and not as REQUIRED anew.
LEMMA SetTunnelPortStep ==
  ASSUME ServiceInv, NEW e \in Endpoints, NEW t \in Tunnels \cup {NoTunnel}, SetTunnel(e, t),
         t.port \in {tunnelDetailsMap[e].port, NoPort},
         t.status = "REQUIRED" => tunnelDetailsMap[e].status # "ACTIVE"
  PROVE  PortStep
BY SetTunnelType DEF ServiceInv, PortStep, Keeps

\* SetTunnelStatusToActive is a step of PortLease, or a stutter.
LEMMA ActivePortStep ==
  ASSUME ServiceInv, NEW e \in Endpoints, SetTunnelStatusToActive(e)
  PROVE  PortStep
<1> DEFINE t == [GetTunnelDetails(e) EXCEPT !.status = "ACTIVE",
                                            !.credentials = NoCredentials,
                                            !.age = 0]
<1>1. GetTunnelDetails(e) \in Tunnels
  BY DetailsType DEF ServiceInv
<1>2. /\ t \in Tunnels
      /\ t.status = "ACTIVE"
      /\ t.port = GetTunnelDetails(e).port
  <2>1. 0 \in Ages /\ NoCredentials \in Credentials
    BY TunnelAssumption DEF Ages, ZeroTime, MaxAge, Credentials
  <2> QED BY <1>1, <2>1 DEF Tunnels
<1>3. SetTunnel(e, t)
  BY DEF SetTunnelStatusToActive
<1> HIDE DEF t
<1> QED BY <1>2, <1>3, DetailsPort, SetTunnelPortStep

\* SetTunnelStatusToIdle is a step of PortLease, or a stutter.
LEMMA IdlePortStep ==
  ASSUME ServiceInv, NEW e \in Endpoints, SetTunnelStatusToIdle(e)
  PROVE  PortStep
<1> DEFINE t == [GetTunnelDetails(e) EXCEPT !.status = "IDLE", !.port = NoPort,
                                            !.credentials = NoCredentials, !.age = 0]
<1>1. GetTunnelDetails(e) \in Tunnels
  BY DetailsType DEF ServiceInv
<1>2. t \in Tunnels /\ t.status = "IDLE" /\ t.port = NoPort
  <2>1. 0 \in Ages /\ NoCredentials \in Credentials
    BY TunnelAssumption DEF Ages, ZeroTime, MaxAge, Credentials
  <2> QED BY <1>1, <2>1 DEF Tunnels
<1>3. SetTunnel(e, t)
  BY DEF SetTunnelStatusToIdle
<1> HIDE DEF t
<1> QED BY <1>2, <1>3, SetTunnelPortStep

\* SetTunnelStatusToRequired is a step of PortLease, or a stutter.
LEMMA RequiredPortStep ==
  ASSUME ServiceInv, NEW e \in Endpoints, SetTunnelStatusToRequired(e)
  PROVE  PortStep
<1>1. CASE UNCHANGED service
  BY <1>1, UnchangedPortStep DEF service
<1>2. CASE ~UNCHANGED service
  <2>1. PICK p \in Ports :
          /\ GetTunnelDetails(e).port = NoPort
          /\ GetUnusedPort(p)
          /\ SetTunnel(e, [GetTunnelDetails(e) EXCEPT
                             !.status = "REQUIRED", !.port = p, !.age = 0,
                             !.credentials = Encrypt(UserName(e, p))])
    BY <1>2 DEF SetTunnelStatusToRequired
  <2>2. GetTunnelDetails(e) \in Tunnels
    BY DetailsType DEF ServiceInv
  <2>3. /\ tunnelDetailsMap'[e].port = p
        /\ \A f \in Endpoints \ {e} : tunnelDetailsMap'[f] = tunnelDetailsMap[f]
    BY <2>1, <2>2 DEF SetTunnel, ServiceInv, Tunnels
  <2>4. \A f \in Endpoints : tunnelDetailsMap[f].port # p
    BY <2>1, TunnelAssumption DEF GetUnusedPort, UsedPorts, Registered, NoTunnel, EmptyTunnel
  <2>5. Acquires(e, p)
    BY <2>1, <2>3, <2>4, DetailsPort DEF Acquires
  <2> QED BY <2>5 DEF PortStep
<1> QED BY <1>1, <1>2

\* Every step keeps, drops or properly acquires ports.
LEMMA NextPortStep ==
  ASSUME Inv, [Next]_vars
  PROVE  PortStep
<1> USE DEF Inv, HandlersInv
<1>1. ASSUME NEW r \in Requests, RequestNext(r)
      PROVE  PortStep
  <2>1. CASE RequestDispatch(r) \/ \E e \in Endpoints : RequestStart(r, e)
    BY <2>1, UnchangedPortStep DEF RequestDispatch, RequestStart, service
  <2>2. CASE RequestRequire(r) \/ RequestSucceed(r) \/ RequestFail(r)
    <3>1. requests[r].endpoint \in Endpoints
      BY <2>2 DEF RequestRequire, RequestSucceed, RequestFail, RequestsHaveEndpoint
    <3> QED BY <2>2, <3>1, UnchangedPortStep, RequiredPortStep, ActivePortStep, IdlePortStep
            DEF RequestRequire, RequestSucceed, RequestFail, service
  <2> QED BY <1>1, <2>1, <2>2 DEF RequestNext
<1>2. ASSUME NEW e \in Endpoints, EndpointNext(e)
      PROVE  PortStep
  <2>1. CASE CheckTunnel(e) \/ CheckAfterSnapshot(e)
    <3>1. ASSUME SetTunnel(e, NoTunnel)
          PROVE  PortStep
      <4>1. NoTunnel.port = NoPort /\ NoTunnel.status = "NONE"
        BY DEF NoTunnel, EmptyTunnel
      <4> QED BY <3>1, <4>1, SetTunnelPortStep
    <3> QED BY <2>1, <3>1, IdlePortStep, UnchangedPortStep
            DEF CheckTunnel, CheckAfterSnapshot, TearDown, service
  <2>2. CASE WebsocketRequest(e) \/ PollActivate(e)
    BY <2>2, ActivePortStep DEF WebsocketRequest, PollActivate
  <2>3. CASE OpenForKubernetes(e)
    BY <2>3, RequiredPortStep DEF OpenForKubernetes
  <2>4. CASE EndpointUpdate(e) \/ EndpointDelete(e) \/ PollRead(e) \/ AgentConnect(e)
    BY <2>4, UnchangedPortStep
       DEF EndpointUpdate, EndpointDelete, PollRead, AgentConnect, service
  <2>5. ASSUME NEW j \in Jobs, AddEdgeJob(e, j)
        PROVE  PortStep
    <3> DEFINE d == GetTunnelDetails(e)
               t == [d EXCEPT !.jobs = @ \cup {j}]
    <3>1. d \in Tunnels
      BY DetailsType DEF ServiceInv
    <3>2. t \in Tunnels /\ t.status = d.status /\ t.port = d.port
      BY <3>1 DEF Tunnels
    <3>3. SetTunnel(e, t)
      BY <2>5 DEF AddEdgeJob
    <3>4. d.port = tunnelDetailsMap[e].port
          /\ (tunnelDetailsMap[e].status = "ACTIVE" => d.status = "ACTIVE")
      BY DetailsPort
    <3> HIDE DEF d, t
    <3> QED BY <3>2, <3>3, <3>4, SetTunnelPortStep
  <2> QED BY <1>2, <2>1, <2>2, <2>3, <2>4, <2>5 DEF EndpointNext
<1>3. ASSUME NEW j \in Jobs, RemoveEdgeJob(j)
      PROVE  PortStep
  BY <1>3 DEF RemoveEdgeJob, Registered, ServiceInv, Tunnels, PortStep, Keeps
<1>4. ASSUME NEW p \in Ports, AgentDisconnect(p)
      PROVE  PortStep
  BY <1>4, UnchangedPortStep DEF AgentDisconnect, service
<1>5. CASE Tick
  <2>1. ASSUME NEW e \in Endpoints PROVE Keeps(e)
    BY <1>5 DEF Tick, Aging, Open, ServiceInv, Tunnels, Keeps
  <2> QED BY <2>1 DEF PortStep
<1>6. ASSUME NEW stored \in [Endpoints -> SUBSET Jobs], Restart(stored)
      PROVE  PortStep
  <2>1. tunnelDetailsMap' = TunnelsAtStart(stored)
    BY <1>6 DEF Restart
  <2> QED BY <2>1, StartTunnels DEF PortStep, Keeps
<1>7. CASE UNCHANGED vars
  BY <1>7, UnchangedPortStep DEF vars
<1> QED BY <1>1, <1>2, <1>3, <1>4, <1>5, <1>6, <1>7 DEF Next

\* An open tunnel keeps its port, and one with a port is not REQUIRED again.
THEOREM PortsAreStable == Spec => PortStable
<1> DEFINE Stable ==
      \A e \in Endpoints :
        LET t == tunnelDetailsMap[e]
            u == tunnelDetailsMap'[e]
        IN t.port # NoPort =>
             /\ u.port \in {t.port, NoPort}
             /\ t.status = "ACTIVE" => u.status # "REQUIRED"
<1>1. ASSUME Inv, [Next]_vars PROVE Stable
  <2>1. CASE \A e \in Endpoints : Keeps(e)
    BY <2>1 DEF Keeps
  <2>2. CASE \E e \in Endpoints, p \in Ports : Acquires(e, p)
    <3>1. PICK f \in Endpoints, p \in Ports : Acquires(f, p)
      BY <2>2
    <3>2. \A e \in Endpoints : tunnelDetailsMap[e].port # NoPort => tunnelDetailsMap'[e] = tunnelDetailsMap[e]
      BY <3>1 DEF Acquires
    <3> QED BY <3>2
  <2> QED BY <1>1, <2>1, <2>2, NextPortStep DEF PortStep
<1>2. Inv /\ [Next]_vars => [Stable]_vars
  BY <1>1
<1> QED BY <1>2, Invariance, PTL DEF Spec, PortStable

\* The ports held by the tunnels.
Held == [e \in Endpoints |-> tunnelDetailsMap[e].port]

\* The tunnel service implements PortLease: whatever the handlers, the loop
\* and the agents do, every step on tunnels is a step on leases or none.
THEOREM ImplementsPortLease == Spec => LeaseSpec
<1>1. Init => Leases!Init
  <2> SUFFICES ASSUME Init PROVE Held = [e \in Endpoints |-> NoPort]
    BY DEF Leases!Init, Held
  <2>1. PICK stored \in [Endpoints -> SUBSET Jobs] : tunnelDetailsMap = TunnelsAtStart(stored)
    BY DEF Init
  <2> QED BY <2>1, StartTunnels DEF Held
<1>2. ASSUME Inv, [Next]_vars
      PROVE  Leases!Next
  <2>1. CASE \A e \in Endpoints : Keeps(e)
    <3>1. PICK closed \in SUBSET Endpoints :
            closed = {e \in Endpoints : tunnelDetailsMap'[e].port = NoPort}
      OBVIOUS
    <3>2. \A e \in Endpoints : tunnelDetailsMap'[e].port = IF e \in closed THEN NoPort ELSE Held[e]
      BY <2>1, <3>1 DEF Keeps, Held
    <3>3. Held' = [e \in Endpoints |-> IF e \in closed THEN NoPort ELSE Held[e]]
      BY <3>2 DEF Held
    <3>4. Leases!Release(closed)
      BY <3>3 DEF Leases!Release, Held
    <3> QED BY <3>4 DEF Leases!Next
  <2>2. CASE \E e \in Endpoints, p \in Ports : Acquires(e, p)
    <3>1. PICK e \in Endpoints, p \in Ports : Acquires(e, p)
      BY <2>2
    <3>2. Held' = [Held EXCEPT ![e] = p]
      <4>1. \A f \in Endpoints : tunnelDetailsMap'[f].port = IF f = e THEN p ELSE Held[f]
        BY <3>1 DEF Held, Acquires
      <4>2. Held' = [f \in Endpoints |-> IF f = e THEN p ELSE Held[f]]
        BY <4>1 DEF Held
      <4> QED BY <4>2 DEF Held
    <3>3. Leases!Acquire(e, p)
      BY <3>1, <3>2 DEF Leases!Acquire, Held, Acquires
    <3> QED BY <3>1, <3>3 DEF Leases!Next
  <2> QED BY <1>2, <2>1, <2>2, NextPortStep DEF PortStep
<1>3. Inv /\ [Next]_vars => [Leases!Next]_Held
  BY <1>2
<1> QED BY <1>1, <1>3, Invariance, PTL DEF Spec, LeaseSpec, Leases!Spec, Held

-----------------------------------------------------------------------------
(* The Edge jobs of the tunnels.                                           *)

\* No tunnel loses a job.
JobsStay == \A e \in Endpoints : tunnelDetailsMap[e].jobs \subseteq tunnelDetailsMap'[e].jobs

\* An unregistered endpoint is shown a tunnel with the jobs it has: none.
LEMMA DetailsJobs ==
  ASSUME NEW e \in Endpoints
  PROVE  GetTunnelDetails(e).jobs = tunnelDetailsMap[e].jobs
BY DEF GetTunnelDetails, Registered, NoTunnel, EmptyTunnel

\* One tunnel is written, with no fewer jobs.
LEMMA SetTunnelJobs ==
  ASSUME ServiceInv, NEW e \in Endpoints, NEW t, SetTunnel(e, t),
         GetTunnelDetails(e).jobs \subseteq t.jobs
  PROVE  JobsStay
BY DetailsJobs DEF ServiceInv, SetTunnel, JobsStay

\* The methods that change a tunnel's status leave its jobs.
LEMMA StatusKeepsJobs ==
  ASSUME ServiceInv, NEW e \in Endpoints,
         \/ SetTunnelStatusToActive(e)
         \/ SetTunnelStatusToIdle(e)
         \/ SetTunnelStatusToRequired(e)
  PROVE  JobsStay
<1>1. GetTunnelDetails(e) \in Tunnels
  BY DetailsType DEF ServiceInv
<1>2. CASE SetTunnelStatusToActive(e)
  BY <1>1, <1>2, SetTunnelJobs DEF SetTunnelStatusToActive, Tunnels
<1>3. CASE SetTunnelStatusToIdle(e)
  BY <1>1, <1>3, SetTunnelJobs DEF SetTunnelStatusToIdle, Tunnels
<1>4. CASE SetTunnelStatusToRequired(e)
  <2>1. CASE UNCHANGED service
    BY <2>1 DEF service, JobsStay
  <2>2. CASE ~UNCHANGED service
    <3>1. PICK p \in Ports : SetTunnel(e, [GetTunnelDetails(e) EXCEPT
                               !.status = "REQUIRED", !.port = p, !.age = 0,
                               !.credentials = Encrypt(UserName(e, p))])
      BY <1>4, <2>2 DEF SetTunnelStatusToRequired
    <3> QED BY <1>1, <3>1, SetTunnelJobs DEF Tunnels
  <2> QED BY <2>1, <2>2
<1> QED BY <1>2, <1>3, <1>4

\* A tunnel that is torn down without jobs is forgotten, and kept with them.
LEMMA TearDownKeepsJobs ==
  ASSUME ServiceInv, NEW e \in Endpoints, TearDown(e)
  PROVE  JobsStay
<1>1. CASE tunnelDetailsMap[e].jobs # {}
  BY <1>1, StatusKeepsJobs DEF TearDown
<1>2. CASE tunnelDetailsMap[e].jobs = {}
  BY <1>2, SetTunnelJobs, DetailsJobs DEF TearDown
<1> QED BY <1>1, <1>2

\* Every step keeps all jobs, but the removal of one and a restart.
LEMMA NextJobsStep ==
  ASSUME Inv, [Next]_vars
  PROVE  \/ JobsStay
         \/ \E j \in Jobs : RemoveEdgeJob(j)
         \/ \E stored \in [Endpoints -> SUBSET Jobs] : Restart(stored)
<1> USE DEF Inv, HandlersInv
<1>1. ASSUME UNCHANGED tunnelDetailsMap PROVE JobsStay
  BY <1>1 DEF JobsStay
<1>2. ASSUME NEW r \in Requests, RequestNext(r) PROVE JobsStay
  <2>1. CASE RequestDispatch(r) \/ \E e \in Endpoints : RequestStart(r, e)
    BY <1>1, <2>1 DEF RequestDispatch, RequestStart, service
  <2>2. CASE RequestRequire(r) \/ RequestSucceed(r) \/ RequestFail(r)
    <3>1. requests[r].endpoint \in Endpoints
      BY <2>2 DEF RequestRequire, RequestSucceed, RequestFail, RequestsHaveEndpoint
    <3> QED BY <1>1, <2>2, <3>1, StatusKeepsJobs
            DEF RequestRequire, RequestSucceed, RequestFail, service
  <2> QED BY <1>2, <2>1, <2>2 DEF RequestNext
<1>3. ASSUME NEW e \in Endpoints, EndpointNext(e) PROVE JobsStay
  <2>1. CASE CheckTunnel(e) \/ CheckAfterSnapshot(e)
    BY <1>1, <2>1, TearDownKeepsJobs DEF CheckTunnel, CheckAfterSnapshot, service
  <2>2. CASE WebsocketRequest(e) \/ PollActivate(e) \/ OpenForKubernetes(e)
    BY <2>2, StatusKeepsJobs DEF WebsocketRequest, PollActivate, OpenForKubernetes
  <2>3. CASE EndpointUpdate(e) \/ EndpointDelete(e) \/ PollRead(e) \/ AgentConnect(e)
    BY <1>1, <2>3 DEF EndpointUpdate, EndpointDelete, PollRead, AgentConnect, service
  <2>4. ASSUME NEW j \in Jobs, AddEdgeJob(e, j) PROVE JobsStay
    <3>1. GetTunnelDetails(e) \in Tunnels
      BY DetailsType DEF ServiceInv
    <3>2. SetTunnel(e, [GetTunnelDetails(e) EXCEPT !.jobs = @ \cup {j}])
      BY <2>4 DEF AddEdgeJob
    <3> QED BY <3>1, <3>2, SetTunnelJobs DEF Tunnels
  <2> QED BY <1>3, <2>1, <2>2, <2>3, <2>4 DEF EndpointNext
<1>4. ASSUME NEW p \in Ports, AgentDisconnect(p) PROVE JobsStay
  BY <1>1, <1>4 DEF AgentDisconnect, service
<1>5. CASE Tick
  BY <1>5 DEF Tick, Aging, Open, ServiceInv, Tunnels, JobsStay
<1>6. CASE UNCHANGED vars
  BY <1>1, <1>6 DEF vars
<1> QED BY <1>2, <1>3, <1>4, <1>5, <1>6 DEF Next

\* A job leaves a tunnel when it is removed from every tunnel, or at a restart.
THEOREM JobsAreKept == Spec => JobsKept
<1> DEFINE Kept ==
      \A e \in Endpoints, j \in Jobs :
        j \in tunnelDetailsMap[e].jobs /\ j \notin tunnelDetailsMap'[e].jobs =>
          \/ RemoveEdgeJob(j)
          \/ \E stored \in [Endpoints -> SUBSET Jobs] : Restart(stored)
<1>1. ASSUME Inv, [Next]_vars PROVE Kept
  <2>1. CASE JobsStay
    BY <2>1 DEF JobsStay
  <2>2. ASSUME NEW i \in Jobs, RemoveEdgeJob(i) PROVE Kept
    <3>1. \A e \in Endpoints, j \in Jobs :
            j \in tunnelDetailsMap[e].jobs /\ j \notin tunnelDetailsMap'[e].jobs => j = i
      BY <2>2 DEF RemoveEdgeJob, Registered, NoTunnel, EmptyTunnel, Inv, ServiceInv, Tunnels
    <3> QED BY <2>2, <3>1
  <2>3. CASE \E stored \in [Endpoints -> SUBSET Jobs] : Restart(stored)
    BY <2>3
  <2> QED BY <1>1, <2>1, <2>2, <2>3, NextJobsStep
<1>2. Inv /\ [Next]_vars => [Kept]_vars
  BY <1>1
<1> QED BY <1>2, Invariance, PTL DEF Spec, JobsKept
=============================================================================
