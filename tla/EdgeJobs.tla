------------------------------- MODULE EdgeJobs -------------------------------
(***************************************************************************)
(* Edge jobs: scripts that Edge agents run on a schedule                   *)
(* (api/http/handler/{edgejobs,endpointedge}).  A job has a record in the  *)
(* database, files on disk, and a copy in the tunnel of each endpoint,     *)
(* where the endpoint's agent finds it when it polls; the handlers write   *)
(* one after the other.                                                    *)
(*                                                                         *)
(* A step is one such write; requests interleave between them, and the     *)
(* program may stop there.  The tunnel service's methods are single steps, *)
(* and its loop keeps the jobs of the tunnels it closes (EdgeTunnel).      *)
(***************************************************************************)
EXTENDS Naturals

CONSTANTS Endpoints,     \* the Edge endpoints
          EdgeJobIDs,    \* the identifiers of Edge jobs
          Requests,      \* the requests in progress at a time
          MaxVersion     \* bounds the versions of a job

ASSUME EdgeJobsAssumption == MaxVersion \in Nat \ {0}

VARIABLES edgeJobs,      \* the record of each job
          issued,        \* the identifiers the bucket gave out
          scripts,       \* the jobs whose script file exists
          logs,          \* the log files: a job and an endpoint
          tunnelJobs,    \* the jobs in each endpoint's tunnel
          requests,      \* the progress of each request
          unlinked       \* history: the jobs whose files a request has deleted

vars == <<edgeJobs, issued, scripts, logs, tunnelJobs, requests, unlinked>>

-----------------------------------------------------------------------------
(* The data.                                                               *)

\* LogsStatus and CollectLogs of an endpoint of a job; "idle" stands for a status
\* never set, too, and "absent" for an endpoint that is none of the job's
Metas == {"absent", "idle", "pending", "collected"}

Jobs  == [version : 1 .. MaxVersion, meta : [Endpoints -> Metas]]
NoJob == [version |-> 0, meta |-> [e \in Endpoints |-> "absent"]]

\* The job a request works on is read once; "todo" are the endpoints whose
\* tunnels are still to be told.
Steps == {"script", "add", "put", "clear", "log", "putlog", "addlog",
          "unlink", "remove", "delete"}
Idle  == [step |-> "idle"]
InProgress == [step : Steps, id : EdgeJobIDs, job : Jobs, todo : SUBSET Endpoints]

Begin(r, step, id, job, todo) ==
  /\ requests[r] = Idle
  /\ requests' = [requests EXCEPT ![r] =
                    [step |-> step, id |-> id, job |-> job, todo |-> todo]]

At(r, step) == requests[r].step = step

Goto(r, step) == requests' = [requests EXCEPT ![r].step = step]

End(r) == requests' = [requests EXCEPT ![r] = Idle]

-----------------------------------------------------------------------------
(* What each request reads and decides first.                              *)

\* The Edge endpoints among those named; none is an error.
EdgeJobCreate(r, id, ends) ==
  /\ id \notin issued
  /\ issued' = issued \cup {id}
  /\ ends # {}
  /\ Begin(r, "script", id,
           [version |-> 1, meta |-> [e \in Endpoints |-> IF e \in ends THEN "idle" ELSE "absent"]],
           ends)
  /\ UNCHANGED <<edgeJobs, scripts, logs, tunnelJobs, unlinked>>

\* The endpoints that stay keep their meta data; there may be none left.
UpdatedMeta(job, ends) ==
  [e \in Endpoints |-> IF e \notin ends THEN "absent"
                       ELSE IF job.meta[e] = "absent" THEN "idle" ELSE job.meta[e]]

\* Mutant: a new version is counted twice.
UpdatedTwice(job, ends, newVersion) ==
  [version |-> IF newVersion THEN job.version + 2 ELSE job.version,
   meta    |-> UpdatedMeta(job, ends)]

\* Mutant: a job updated without a new schedule or script starts over.
UpdatedAnew(job, ends, newVersion) ==
  [version |-> IF newVersion THEN job.version + 1 ELSE 1,
   meta    |-> UpdatedMeta(job, ends)]

\* A new schedule or script is a new version.
Updated(job, ends, newVersion) ==
  [version |-> IF newVersion THEN job.version + 1 ELSE job.version,
   meta    |-> UpdatedMeta(job, ends)]

EdgeJobUpdate(r, id, ends, newVersion, newScript) ==
  /\ edgeJobs[id] # NoJob
  /\ newScript => newVersion
  /\ newVersion => edgeJobs[id].version < MaxVersion
  /\ Begin(r, IF newScript THEN "script" ELSE IF ends = {} THEN "put" ELSE "add",
           id, Updated(edgeJobs[id], ends, newVersion), ends)
  /\ UNCHANGED <<edgeJobs, issued, scripts, logs, tunnelJobs, unlinked>>

\* Whether or not the endpoint is one of the job's
WithMeta(job, e, meta) == [job EXCEPT !.meta[e] = meta]

EdgeJobTasksCollect(r, id, e) ==
  /\ edgeJobs[id] # NoJob
  /\ Begin(r, "add", id, WithMeta(edgeJobs[id], e, "pending"), {e})
  /\ UNCHANGED <<edgeJobs, issued, scripts, logs, tunnelJobs, unlinked>>

EdgeJobTasksClear(r, id, e) ==
  /\ edgeJobs[id] # NoJob
  /\ Begin(r, "clear", id, WithMeta(edgeJobs[id], e, "idle"), {e})
  /\ UNCHANGED <<edgeJobs, issued, scripts, logs, tunnelJobs, unlinked>>

\* An agent sends logs.
EndpointEdgeJobsLogs(r, id, e) ==
  /\ edgeJobs[id] # NoJob
  /\ Begin(r, "log", id, WithMeta(edgeJobs[id], e, "collected"), {e})
  /\ UNCHANGED <<edgeJobs, issued, scripts, logs, tunnelJobs, unlinked>>

EdgeJobDelete(r, id) ==
  /\ edgeJobs[id] # NoJob
  /\ Begin(r, "unlink", id, edgeJobs[id], {})
  /\ UNCHANGED <<edgeJobs, issued, scripts, logs, tunnelJobs, unlinked>>

-----------------------------------------------------------------------------
(* The writes that follow.                                                 *)

\* Mutant: the tunnels are told whether or not the script is stored.
TellAnyway(r) ==
  /\ At(r, "script")
  /\ scripts' \in {scripts, scripts \cup {requests[r].id}}
  /\ Goto(r, IF requests[r].todo = {} THEN "put" ELSE "add")
  /\ UNCHANGED <<edgeJobs, issued, logs, tunnelJobs, unlinked>>

\* A file that cannot be stored ends the request.
StoreScript(r) ==
  /\ At(r, "script")
  /\ \/ /\ scripts' = scripts \cup {requests[r].id}
        /\ Goto(r, IF requests[r].todo = {} THEN "put" ELSE "add")
     \/ /\ End(r)
        /\ UNCHANGED scripts
  /\ UNCHANGED <<edgeJobs, issued, logs, tunnelJobs, unlinked>>

AddEdgeJob(e, id, job) == tunnelJobs' = [tunnelJobs EXCEPT ![e][id] = job]

AddToTunnels(r) ==
  /\ At(r, "add")
  /\ \E e \in requests[r].todo :
       /\ AddEdgeJob(e, requests[r].id, requests[r].job)
       /\ requests' = [requests EXCEPT
            ![r].todo = @ \ {e},
            ![r].step = IF requests[r].todo = {e} THEN "put" ELSE "add"]
  /\ UNCHANGED <<edgeJobs, issued, scripts, logs, unlinked>>

\* CreateEdgeJob and UpdateEdgeJob both write the record, whether or not there
\* is one.
PutRecord(r) ==
  /\ At(r, "put")
  /\ edgeJobs' = [edgeJobs EXCEPT ![requests[r].id] = requests[r].job]
  /\ End(r)
  /\ UNCHANGED <<issued, scripts, logs, tunnelJobs, unlinked>>

\* Without a log file clearing it is an error.
ClearLog(r) ==
  /\ At(r, "clear")
  /\ \E e \in requests[r].todo :
       \/ /\ <<requests[r].id, e>> \in logs
          /\ logs' = logs \ {<<requests[r].id, e>>}
          /\ Goto(r, "add")
       \/ /\ <<requests[r].id, e>> \notin logs
          /\ End(r)
          /\ UNCHANGED logs
  /\ UNCHANGED <<edgeJobs, issued, scripts, tunnelJobs, unlinked>>

StoreLog(r) ==
  /\ At(r, "log")
  /\ \/ /\ logs' = logs \cup {<<requests[r].id, e>> : e \in requests[r].todo}
        /\ Goto(r, "putlog")
     \/ /\ End(r)
        /\ UNCHANGED logs
  /\ UNCHANGED <<edgeJobs, issued, scripts, tunnelJobs, unlinked>>

PutLogStatus(r) ==
  /\ At(r, "putlog")
  /\ edgeJobs' = [edgeJobs EXCEPT ![requests[r].id] = requests[r].job]
  /\ Goto(r, "addlog")
  /\ UNCHANGED <<issued, scripts, logs, tunnelJobs, unlinked>>

\* Mutant: the agent goes on being asked for the logs it sent.
LogsForgotten(r) ==
  /\ At(r, "addlog")
  /\ End(r)
  /\ UNCHANGED <<edgeJobs, issued, scripts, logs, tunnelJobs, unlinked>>

AddLogStatus(r) ==
  /\ At(r, "addlog")
  /\ \E e \in requests[r].todo : AddEdgeJob(e, requests[r].id, requests[r].job)
  /\ End(r)
  /\ UNCHANGED <<edgeJobs, issued, scripts, logs, unlinked>>

\* The job's directory goes, with its script and its logs.
Unlink(r) ==
  /\ At(r, "unlink")
  /\ scripts' = scripts \ {requests[r].id}
  /\ logs' = {l \in logs : l[1] # requests[r].id}
  /\ unlinked' = unlinked \cup {requests[r].id}
  /\ Goto(r, "remove")
  /\ UNCHANGED <<edgeJobs, issued, tunnelJobs>>

RemoveEdgeJob(r) ==
  /\ At(r, "remove")
  /\ tunnelJobs' = [e \in Endpoints |-> [tunnelJobs[e] EXCEPT ![requests[r].id] = NoJob]]
  /\ Goto(r, "delete")
  /\ UNCHANGED <<edgeJobs, issued, scripts, logs, unlinked>>

DeleteRecord(r) ==
  /\ At(r, "delete")
  /\ edgeJobs' = [edgeJobs EXCEPT ![requests[r].id] = NoJob]
  /\ End(r)
  /\ UNCHANGED <<issued, scripts, logs, tunnelJobs, unlinked>>

-----------------------------------------------------------------------------
\* LoadEdgeJobs
LoadedJobs ==
  [e \in Endpoints |-> [id \in EdgeJobIDs |->
     IF edgeJobs[id].meta[e] # "absent" THEN edgeJobs[id] ELSE NoJob]]

\* The program stops, wherever its requests are, and starts again.
Restart ==
  /\ tunnelJobs' = LoadedJobs
  /\ requests' = [r \in Requests |-> Idle]
  /\ UNCHANGED <<edgeJobs, issued, scripts, logs, unlinked>>

Init ==
  /\ edgeJobs = [id \in EdgeJobIDs |-> NoJob]
  /\ issued = {}
  /\ scripts = {}
  /\ logs = {}
  /\ tunnelJobs = [e \in Endpoints |-> [id \in EdgeJobIDs |-> NoJob]]
  /\ requests = [r \in Requests |-> Idle]
  /\ unlinked = {}

BeginNext(r) == \E id \in EdgeJobIDs :
  \/ \E ends \in SUBSET Endpoints :
       \/ EdgeJobCreate(r, id, ends)
       \/ \E newVersion, newScript \in BOOLEAN :
            EdgeJobUpdate(r, id, ends, newVersion, newScript)
  \/ \E e \in Endpoints : \/ EdgeJobTasksCollect(r, id, e)
                          \/ EdgeJobTasksClear(r, id, e)
                          \/ EndpointEdgeJobsLogs(r, id, e)
  \/ EdgeJobDelete(r, id)

WriteNext(r) ==
  \/ StoreScript(r)
  \/ AddToTunnels(r)
  \/ PutRecord(r)
  \/ ClearLog(r)
  \/ StoreLog(r)
  \/ PutLogStatus(r)
  \/ AddLogStatus(r)
  \/ Unlink(r)
  \/ RemoveEdgeJob(r)
  \/ DeleteRecord(r)

Next == (\E r \in Requests : BeginNext(r) \/ WriteNext(r)) \/ Restart

Spec == Init /\ [][Next]_vars

-----------------------------------------------------------------------------
(* Properties.                                                             *)

\* Every variable has its type.
TypeOK ==
  /\ edgeJobs \in [EdgeJobIDs -> Jobs \cup {NoJob}]
  /\ issued \subseteq EdgeJobIDs
  /\ scripts \subseteq issued
  /\ logs \subseteq issued \X Endpoints
  /\ tunnelJobs \in [Endpoints -> [EdgeJobIDs -> Jobs \cup {NoJob}]]
  /\ requests \in [Requests -> InProgress \cup {Idle}]
  /\ unlinked \subseteq issued

\* A job that an agent's poll or the loading of jobs may come upon has its script,
\* unless someone asked for its deletion: endpointStatusInspect fails for want of
\* one script, and an endpoint whose polls fail gets no tunnel either.
PollsFindScripts ==
  \A id \in EdgeJobIDs :
    \/ id \in scripts \cup unlinked
    \/ /\ edgeJobs[id] = NoJob
       /\ \A e \in Endpoints : tunnelJobs[e][id] = NoJob

\* Requests one at a time: between them, and wherever the program was stopped, the
\* agent of every endpoint of a stored job finds it in its tunnel, in the stored
\* version, and is asked for its logs when the record says so.
StoredJobsReachAgents ==
  \A id \in EdgeJobIDs, e \in Endpoints :
    /\ \A r \in Requests : requests[r] = Idle
    /\ edgeJobs[id].meta[e] # "absent"
    => /\ tunnelJobs[e][id].version = edgeJobs[id].version
       /\ tunnelJobs[e][id].meta[e] = edgeJobs[id].meta[e]

\* Requests one at a time: a running program never shows an agent an older version
\* of a job than before, which it would not run.
VersionsAdvance ==
  [][\A e \in Endpoints, id \in EdgeJobIDs :
       \/ tunnelJobs'[e][id].version >= tunnelJobs[e][id].version
       \/ tunnelJobs'[e][id] = NoJob
       \/ Restart]_vars

-----------------------------------------------------------------------------
(* What the source says and the program does not do.                       *)

\* "Delete an EdgeJob" (edgeJobDelete): a deleted job is not stored again;
\* identifiers are not reused.
DeletedJobsStayDeleted ==
  [][\A id \in unlinked : edgeJobs[id] = NoJob => edgeJobs'[id] = NoJob]_vars
=============================================================================
