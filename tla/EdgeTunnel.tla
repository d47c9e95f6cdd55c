------------------------------ MODULE EdgeTunnel ------------------------------
(***************************************************************************)
(* The reverse tunnels to Edge endpoints: api/chisel (the tunnel service   *)
(* with its verification loop), the handlers that drive it (the Edge       *)
(* agent's poll, the proxied requests of users, the websocket proxy, the   *)
(* Kubernetes client) and, as environment, the chisel server and the Edge  *)
(* agents.                                                                 *)
(*                                                                         *)
(* A call of a method of the tunnel service is one step; the goroutines    *)
(* interleave between calls, and wherever a handler sleeps or waits for    *)
(* the network.  The methods themselves, which share the tunnel map and    *)
(* lock only its single accesses, are not broken up here.                  *)
(***************************************************************************)
EXTENDS Integers

CONSTANTS Endpoints,        \* the Edge endpoints, each with an agent
          NoEndpoint,       \* none of them
          KubeEndpoints,    \* those whose agent runs on Kubernetes
          Requests,         \* the proxied user requests in progress at a time
          Jobs,             \* Edge jobs
          Ports,            \* [minAvailablePort, maxAvailablePort)
          NoPort,           \* 0, the port of a tunnel that is not open
          NoProxy,          \* the target of a proxy that is not registered
          RequiredTimeout,  \* requiredTimeout, in ticks of the clock
          ActiveTimeout     \* activeTimeout, in ticks of the clock

ASSUME TunnelAssumption ==
  /\ NoEndpoint \notin Endpoints
  /\ KubeEndpoints \subseteq Endpoints
  /\ NoPort \notin Ports
  /\ NoProxy \notin Ports \cup {NoPort}
  /\ RequiredTimeout \in Nat \ {0}
  /\ ActiveTimeout \in Nat
  /\ RequiredTimeout < ActiveTimeout

VARIABLES
  endpoints,         \* the endpoints in the database
  tunnelDetailsMap,  \* the tunnel registered for each endpoint, or NoTunnel
  chiselUsers,       \* the users the chisel server accepts
  endpointProxies,   \* the port each registered proxy targets, or NoProxy
  requests,          \* the progress of each proxied user request
  checking,          \* the endpoint the verification loop is snapshotting
  polls,             \* the poll response each agent is about to receive
  offers,            \* the last REQUIRED response each agent received
  listening          \* the agent holding each port of the chisel server

vars == <<endpoints, tunnelDetailsMap, chiselUsers, endpointProxies, requests,
          checking, polls, offers, listening>>

service == <<tunnelDetailsMap, chiselUsers>>
agents  == <<polls, offers, listening>>

-----------------------------------------------------------------------------
(* The data.                                                               *)

ZeroTime == -1                   \* time.Time{}: no activity was ever recorded
MaxAge   == ActiveTimeout + 1    \* ages past every timeout are one age
Ages     == ZeroTime .. MaxAge

\* A chisel user is named at random and may open one port.  Names are never
\* drawn twice; the endpoint and the port stand for all the names drawn for them.
UserName(e, p) == <<"name", e, p>>

\* encryptCredentials: what the agent can decrypt and chisel knows nothing of.
Encrypt(name)  == <<"cipher", name[2], name[3]>>
NoCredentials  == <<"none", NoEndpoint, NoPort>>
Credentials    == ({"cipher"} \X Endpoints \X Ports) \cup {NoCredentials}

Tunnels == [status      : {"IDLE", "REQUIRED", "ACTIVE"},
            port        : Ports \cup {NoPort},
            credentials : Credentials,
            age         : Ages,          \* time since LastActivity, of an open tunnel
            jobs        : SUBSET Jobs]

EmptyTunnel == [status |-> "IDLE", port |-> NoPort, credentials |-> NoCredentials,
                age |-> ZeroTime, jobs |-> {}]
NoTunnel    == [EmptyTunnel EXCEPT !.status = "NONE"]

\* What a poll tells an agent of a REQUIRED tunnel.
Offers  == [port : Ports, credentials : Credentials]
NoOffer == [port |-> NoPort, credentials |-> NoCredentials]

NoRequest  == [pc |-> "none", endpoint |-> NoEndpoint, port |-> NoPort]
RequestSet == [pc       : {"none", "checked", "ready", "inflight"},
               endpoint : Endpoints \cup {NoEndpoint},
               port     : Ports \cup {NoPort}]

-----------------------------------------------------------------------------
(* The methods of the tunnel service.                                      *)

Registered(e) == tunnelDetailsMap[e] # NoTunnel

Open(e) == tunnelDetailsMap[e].status \in {"REQUIRED", "ACTIVE"}

GetTunnelDetails(e) == IF Registered(e) THEN tunnelDetailsMap[e] ELSE EmptyTunnel

SetTunnel(e, t) == tunnelDetailsMap' = [tunnelDetailsMap EXCEPT ![e] = t]

\* Mutant: the credentials stay with the tunnel the agent is told about.
ActiveKeepsCredentials(e) ==
  /\ SetTunnel(e, [GetTunnelDetails(e) EXCEPT !.status = "ACTIVE", !.age = 0])
  /\ UNCHANGED chiselUsers

SetTunnelStatusToActive(e) ==
  /\ SetTunnel(e, [GetTunnelDetails(e) EXCEPT !.status = "ACTIVE",
                                              !.credentials = NoCredentials,
                                              !.age = 0])
  /\ UNCHANGED chiselUsers

\* Mutant: the port is not given back.
IdleKeepsPort(e) ==
  /\ SetTunnel(e, [GetTunnelDetails(e) EXCEPT !.status = "IDLE",
                                              !.credentials = NoCredentials, !.age = 0])
  /\ UNCHANGED chiselUsers

\* The user to delete is sought under the encrypted credentials.
SetTunnelStatusToIdle(e) ==
  LET t == GetTunnelDetails(e) IN
  /\ SetTunnel(e, [t EXCEPT !.status = "IDLE", !.port = NoPort,
                            !.credentials = NoCredentials, !.age = 0])
  /\ chiselUsers' = chiselUsers \ {t.credentials}

UsedPorts == {tunnelDetailsMap[e].port : e \in {f \in Endpoints : Registered(f)}}

\* Mutant: the first draw is taken.
GetAnyPort(p) == p \in Ports

\* The draw is repeated until it is unused; with no unused port it never ends.
GetUnusedPort(p) == p \in Ports \ UsedPorts

\* Mutant: the tunnel's port is used again, and new credentials made for it.
RequiredAnew(e) ==
  /\ e \in endpoints
  /\ \E p \in Ports :
       /\ GetUnusedPort(p) \/ p = GetTunnelDetails(e).port
       /\ chiselUsers' = chiselUsers \cup {UserName(e, p)}
       /\ SetTunnel(e, [GetTunnelDetails(e) EXCEPT
                          !.status = "REQUIRED", !.port = p, !.age = 0,
                          !.credentials = Encrypt(UserName(e, p))])

\* Returns without effect when the tunnel has a port.
SetTunnelStatusToRequired(e) ==
  \/ /\ GetTunnelDetails(e).port # NoPort
     /\ UNCHANGED service
  \/ /\ GetTunnelDetails(e).port = NoPort
     /\ e \in endpoints
     /\ \E p \in Ports :
          /\ GetUnusedPort(p)
          /\ chiselUsers' = chiselUsers \cup {UserName(e, p)}
          /\ SetTunnel(e, [GetTunnelDetails(e) EXCEPT
                             !.status = "REQUIRED", !.port = p, !.age = 0,
                             !.credentials = Encrypt(UserName(e, p))])

\* It fails when the endpoint is no longer in the database.
RequiredFails(e) == GetTunnelDetails(e).port = NoPort /\ e \notin endpoints

AddEdgeJob(e, j) ==
  /\ SetTunnel(e, [GetTunnelDetails(e) EXCEPT !.jobs = @ \cup {j}])
  /\ UNCHANGED <<endpoints, chiselUsers, endpointProxies, requests, checking, agents>>

RemoveEdgeJob(j) ==
  /\ tunnelDetailsMap' = [e \in Endpoints |->
       IF Registered(e) THEN [tunnelDetailsMap[e] EXCEPT !.jobs = @ \ {j}] ELSE NoTunnel]
  /\ UNCHANGED <<endpoints, chiselUsers, endpointProxies, requests, checking, agents>>

-----------------------------------------------------------------------------
(* The verification loop.  checkTunnels visits every registered tunnel,    *)
(* one at a time; while it snapshots one endpoint the others wait, and     *)
(* what it read of that tunnel ages.                                       *)

Expired(t) == \/ t.status = "REQUIRED" /\ t.age >= RequiredTimeout
              \/ t.status = "ACTIVE"   /\ t.age >= ActiveTimeout

\* Mutant: the tunnel is forgotten with its jobs.
Forget(e) == SetTunnel(e, NoTunnel) /\ UNCHANGED chiselUsers

\* A tunnel with no job is forgotten; the chisel server keeps its user.
TearDown(e) ==
  IF tunnelDetailsMap[e].jobs # {}
  THEN SetTunnelStatusToIdle(e)
  ELSE SetTunnel(e, NoTunnel) /\ UNCHANGED chiselUsers

CheckNeedsSnapshot(e) ==
  /\ tunnelDetailsMap[e].status = "ACTIVE"
  /\ tunnelDetailsMap[e].age > ActiveTimeout
  /\ e \in endpoints

CheckTunnel(e) ==
  /\ checking = NoEndpoint
  /\ Registered(e)
  /\ tunnelDetailsMap[e].age # ZeroTime
  /\ Expired(tunnelDetailsMap[e])
  /\ IF CheckNeedsSnapshot(e)
     THEN checking' = e /\ UNCHANGED service
     ELSE TearDown(e) /\ UNCHANGED checking
  /\ UNCHANGED <<endpoints, endpointProxies, requests, agents>>

\* Mutant: a failed snapshot leaves the tunnel to the next round.
CheckAfterSuccess(e) ==
  /\ checking = e
  /\ checking' = NoEndpoint
  /\ \/ endpoints' = endpoints \cup {e} /\ TearDown(e)
     \/ UNCHANGED <<endpoints, service>>
  /\ UNCHANGED <<endpointProxies, requests, agents>>

\* A successful snapshot writes back the endpoint read before it; a failed
\* one is logged.  Either way the tunnel is torn down, unexamined.
CheckAfterSnapshot(e) ==
  /\ checking = e
  /\ checking' = NoEndpoint
  /\ endpoints' \in {endpoints, endpoints \cup {e}}
  /\ TearDown(e)
  /\ UNCHANGED <<endpointProxies, requests, agents>>

-----------------------------------------------------------------------------
(* A user's request, proxied to the Docker or Kubernetes API of an Edge    *)
(* endpoint: the handler, the proxy manager, the transport.                *)

Request(r, pc, e, p) ==
  requests' = [requests EXCEPT ![r] = [pc |-> pc, endpoint |-> e, port |-> p]]

EndRequest(r) == requests' = [requests EXCEPT ![r] = NoRequest]

\* An idle tunnel is to be opened, and the proxy to its former port is dropped.
RequestStart(r, e) ==
  /\ requests[r].pc = "none"
  /\ e \in endpoints
  /\ IF GetTunnelDetails(e).status = "IDLE"
     THEN /\ endpointProxies' = [endpointProxies EXCEPT ![e] = NoProxy]
          /\ Request(r, "checked", e, NoPort)
     ELSE /\ Request(r, "ready", e, NoPort)
          /\ UNCHANGED endpointProxies
  /\ UNCHANGED <<endpoints, service, checking, agents>>

\* The handler then sleeps for two check-in intervals.
RequestRequire(r) ==
  /\ requests[r].pc = "checked"
  /\ LET e == requests[r].endpoint IN
       \/ /\ RequiredFails(e)
          /\ EndRequest(r)
          /\ UNCHANGED service
       \/ /\ SetTunnelStatusToRequired(e)
          /\ Request(r, "ready", e, NoPort)
  /\ UNCHANGED <<endpoints, endpointProxies, checking, agents>>

\* Mutant: the proxy is taken to be registered.
DispatchRegistered(r) ==
  /\ requests[r].pc = "ready"
  /\ Request(r, "inflight", requests[r].endpoint, endpointProxies[requests[r].endpoint])
  /\ UNCHANGED <<endpoints, endpointProxies, service, checking, agents>>

\* Without a registered proxy, one to the tunnel's current port is registered.
RequestDispatch(r) ==
  /\ requests[r].pc = "ready"
  /\ LET e == requests[r].endpoint
         p == IF endpointProxies[e] = NoProxy THEN GetTunnelDetails(e).port
                                              ELSE endpointProxies[e]
     IN /\ endpointProxies' = [endpointProxies EXCEPT ![e] = p]
        /\ Request(r, "inflight", e, p)
  /\ UNCHANGED <<endpoints, service, checking, agents>>

\* Whichever agent holds the port answers.
RequestSucceed(r) ==
  /\ requests[r].pc = "inflight"
  /\ requests[r].port # NoPort
  /\ listening[requests[r].port] # NoEndpoint
  /\ SetTunnelStatusToActive(requests[r].endpoint)
  /\ EndRequest(r)
  /\ UNCHANGED <<endpoints, endpointProxies, checking, agents>>

RequestFail(r) ==
  /\ requests[r].pc = "inflight"
  /\ SetTunnelStatusToIdle(requests[r].endpoint)
  /\ EndRequest(r)
  /\ UNCHANGED <<endpoints, endpointProxies, checking, agents>>

-----------------------------------------------------------------------------
(* The other handlers that drive the service.                              *)

\* proxyEdgeAgentWebsocketRequest: whatever the tunnel's status was.
WebsocketRequest(e) ==
  /\ e \in endpoints
  /\ SetTunnelStatusToActive(e)
  /\ UNCHANGED <<endpoints, endpointProxies, requests, checking, agents>>

\* buildEdgeClient and the Kubernetes deployer open an idle tunnel as a
\* proxied request does, but leave the registered proxy alone.
OpenForKubernetes(e) ==
  /\ e \in KubeEndpoints
  /\ GetTunnelDetails(e).status = "IDLE"
  /\ SetTunnelStatusToRequired(e)
  /\ UNCHANGED <<endpoints, endpointProxies, requests, checking, agents>>

\* endpointUpdate, given a URL or a TLS setting, registers a new proxy.
EndpointUpdate(e) ==
  /\ e \in endpoints
  /\ endpointProxies' = [endpointProxies EXCEPT ![e] = GetTunnelDetails(e).port]
  /\ UNCHANGED <<endpoints, service, requests, checking, agents>>

\* The tunnel and its jobs stay registered.
EndpointDelete(e) ==
  /\ e \in endpoints
  /\ endpoints' = endpoints \ {e}
  /\ endpointProxies' = [endpointProxies EXCEPT ![e] = NoProxy]
  /\ UNCHANGED <<service, requests, checking, agents>>

\* endpointStatusInspect, when the agent polls: the response is composed ...
PollRead(e) ==
  /\ polls[e] = NoOffer
  /\ e \in endpoints
  /\ GetTunnelDetails(e).status = "REQUIRED"
  /\ polls' = [polls EXCEPT ![e] = [port        |-> GetTunnelDetails(e).port,
                                   credentials |-> GetTunnelDetails(e).credentials]]
  /\ UNCHANGED <<endpoints, service, endpointProxies, requests, checking, offers, listening>>

\* ... the tunnel becomes ACTIVE, and then the response is sent, unless the
\* relation or one of its edge stacks cannot be read, or it is lost.
PollActivate(e) ==
  /\ polls[e] # NoOffer
  /\ SetTunnelStatusToActive(e)
  /\ polls' = [polls EXCEPT ![e] = NoOffer]
  /\ \/ offers' = [offers EXCEPT ![e] = polls[e]]
     \/ UNCHANGED offers
  /\ UNCHANGED <<endpoints, endpointProxies, requests, checking, listening>>

-----------------------------------------------------------------------------
(* The environment: the agents, the chisel server, time, and the restart   *)
(* of the program.                                                         *)

\* The agent connects with the credentials it was last sent: the chisel
\* server lets the user open its port when nobody holds it.
AgentConnect(e) ==
  LET o == offers[e] IN
  /\ o # NoOffer
  /\ \E u \in chiselUsers : Encrypt(u) = o.credentials
  /\ listening[o.port] = NoEndpoint
  /\ \A p \in Ports : listening[p] # e
  /\ listening' = [listening EXCEPT ![o.port] = e]
  /\ UNCHANGED <<endpoints, service, endpointProxies, requests, checking, polls, offers>>

AgentDisconnect(p) ==
  /\ listening[p] # NoEndpoint
  /\ listening' = [listening EXCEPT ![p] = NoEndpoint]
  /\ UNCHANGED <<endpoints, service, endpointProxies, requests, checking, polls, offers>>

\* Nobody reads how long ago an idle tunnel was last active.
Aging(e) == Open(e) /\ tunnelDetailsMap[e].age < MaxAge

Tick ==
  /\ \E e \in Endpoints : Aging(e)
  /\ tunnelDetailsMap' = [e \in Endpoints |->
       IF Aging(e) THEN [tunnelDetailsMap[e] EXCEPT !.age = @ + 1] ELSE tunnelDetailsMap[e]]
  /\ UNCHANGED <<endpoints, chiselUsers, endpointProxies, requests, checking, agents>>

\* LoadEdgeJobs: the endpoints with stored jobs get an idle tunnel.
TunnelsAtStart(stored) ==
  [e \in Endpoints |-> IF stored[e] = {} THEN NoTunnel
                                        ELSE [EmptyTunnel EXCEPT !.jobs = stored[e]]]

\* Everything but the database is lost; the jobs are those stored for each
\* endpoint.  No user named before exists again, so old offers are worthless.
Restart(stored) ==
  /\ tunnelDetailsMap' = TunnelsAtStart(stored)
  /\ chiselUsers' = {}
  /\ endpointProxies' = [e \in Endpoints |-> NoProxy]
  /\ requests' = [r \in Requests |-> NoRequest]
  /\ checking' = NoEndpoint
  /\ polls' = [e \in Endpoints |-> NoOffer]
  /\ offers' = [e \in Endpoints |-> NoOffer]
  /\ listening' = [p \in Ports |-> NoEndpoint]
  /\ UNCHANGED endpoints

Init ==
  /\ endpoints = Endpoints
  /\ tunnelDetailsMap \in {TunnelsAtStart(stored) : stored \in [Endpoints -> SUBSET Jobs]}
  /\ chiselUsers = {}
  /\ endpointProxies = [e \in Endpoints |-> NoProxy]
  /\ requests = [r \in Requests |-> NoRequest]
  /\ checking = NoEndpoint
  /\ polls = [e \in Endpoints |-> NoOffer]
  /\ offers = [e \in Endpoints |-> NoOffer]
  /\ listening = [p \in Ports |-> NoEndpoint]

RequestNext(r) ==
  \/ \E e \in Endpoints : RequestStart(r, e)
  \/ RequestRequire(r)
  \/ RequestDispatch(r)
  \/ RequestSucceed(r)
  \/ RequestFail(r)

EndpointNext(e) ==
  \/ CheckTunnel(e)
  \/ CheckAfterSnapshot(e)
  \/ WebsocketRequest(e)
  \/ OpenForKubernetes(e)
  \/ EndpointUpdate(e)
  \/ EndpointDelete(e)
  \/ PollRead(e)
  \/ PollActivate(e)
  \/ AgentConnect(e)
  \/ \E j \in Jobs : AddEdgeJob(e, j)

Next ==
  \/ \E r \in Requests : RequestNext(r)
  \/ \E e \in Endpoints : EndpointNext(e)
  \/ \E j \in Jobs : RemoveEdgeJob(j)
  \/ \E p \in Ports : AgentDisconnect(p)
  \/ Tick
  \/ \E stored \in [Endpoints -> SUBSET Jobs] : Restart(stored)

Spec == Init /\ [][Next]_vars

\* Time passes; every round of the loop visits every registered tunnel; and a
\* Docker snapshot ends, as its HTTP client has a timeout.  The Kubernetes
\* client has none.
Fairness ==
  /\ WF_vars(Tick)
  /\ \A e \in Endpoints : SF_vars(CheckTunnel(e))
  /\ \A e \in Endpoints \ KubeEndpoints : WF_vars(CheckAfterSnapshot(e))

FairSpec == Spec /\ Fairness

-----------------------------------------------------------------------------
(* Properties.                                                             *)

\* Every variable has its type: among others, no request is sent to a proxy
\* that was never registered, and no tunnel has a port outside the range.
TypeOK ==
  /\ endpoints \subseteq Endpoints
  /\ tunnelDetailsMap \in [Endpoints -> Tunnels \cup {NoTunnel}]
  /\ chiselUsers \subseteq {UserName(e, p) : e \in Endpoints, p \in Ports}
  /\ endpointProxies \in [Endpoints -> Ports \cup {NoPort, NoProxy}]
  /\ requests \in [Requests -> RequestSet]
  /\ checking \in Endpoints \cup {NoEndpoint}
  /\ polls \in [Endpoints -> Offers \cup {NoOffer}]
  /\ offers \in [Endpoints -> Offers \cup {NoOffer}]
  /\ listening \in [Ports -> Endpoints \cup {NoEndpoint}]

\* An idle tunnel has no port.  SetTunnelStatusToRequired does nothing for a
\* tunnel with a port, and users are made to wait for idle tunnels only: an
\* idle tunnel with a port would never be opened again.
IdleReopenable ==
  \A e \in Endpoints : GetTunnelDetails(e).status = "IDLE" => GetTunnelDetails(e).port = NoPort

\* A REQUIRED tunnel has a port and the credentials of a user that the chisel
\* server accepts on that port, so that whatever poll reads it gives the agent
\* the means to connect; no other tunnel has credentials to give.
RequiredConnectable ==
  \A e \in Endpoints :
    LET t == GetTunnelDetails(e) IN
    IF t.status = "REQUIRED"
    THEN /\ t.port \in Ports
         /\ UserName(e, t.port) \in chiselUsers
         /\ t.credentials = Encrypt(UserName(e, t.port))
    ELSE t.credentials = NoCredentials

\* Two tunnels never have the same port (getUnusedPort): the requests of one
\* endpoint's users would be answered by the other's agent.
PortsUnique ==
  \A e, f \in Endpoints :
    /\ tunnelDetailsMap[e].port = tunnelDetailsMap[f].port
    /\ tunnelDetailsMap[e].port # NoPort
    => e = f

\* While it stays open a tunnel keeps its port: the agent, the proxies and the
\* requests in flight hold copies of it.  And what has a port is never
\* REQUIRED again, which would have the agent connect a second time.
PortStable ==
  [][\A e \in Endpoints :
       LET t == tunnelDetailsMap[e]
           u == tunnelDetailsMap'[e]
       IN t.port # NoPort =>
            /\ u.port \in {t.port, NoPort}
            /\ t.status = "ACTIVE" => u.status # "REQUIRED"]_vars

\* No step on tunnels loses an Edge job: not the loop when it forgets a tunnel,
\* not the requests when they fail.  A job leaves a tunnel when RemoveEdgeJob
\* removes it from every tunnel, or when the tunnels are loaded anew at a start.
JobsKept ==
  [][\A e \in Endpoints, j \in Jobs :
       j \in tunnelDetailsMap[e].jobs /\ j \notin tunnelDetailsMap'[e].jobs =>
         \/ RemoveEdgeJob(j)
         \/ \E stored \in [Endpoints -> SUBSET Jobs] : Restart(stored)]_vars

\* The ports of the tunnels are leased as PortLease says.
Leases    == INSTANCE PortLease WITH Holders <- Endpoints,
                                     lease   <- [e \in Endpoints |-> tunnelDetailsMap[e].port]
LeaseSpec == Leases!Spec

\* An open tunnel that nobody uses is closed (checkTunnels), its port given
\* back: the tunnels of Docker endpoints cannot stay open for ever unused.
UnusedTunnelCloses ==
  \A e \in Endpoints : Open(e) /\ tunnelDetailsMap[e].age > 0
                         ~> ~Open(e) \/ tunnelDetailsMap[e].age = 0

-----------------------------------------------------------------------------
(* What the source says and the program does not do.                       *)

\* "Remove an endpoint" (endpointDelete): an endpoint removed from the database
\* stays removed; identifiers are not reused.
DeletedStaysDeleted == [][endpoints' \subseteq endpoints]_vars
=============================================================================
