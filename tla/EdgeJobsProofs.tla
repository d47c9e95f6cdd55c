---------------------------- MODULE EdgeJobsProofs ----------------------------
(***************************************************************************)
(* Proofs about EdgeJobs: for any number of endpoints, jobs and requests,  *)
(* however these interleave and wherever the program stops, what a poll    *)
(* shows an agent has its script.  With requests that come one at a time,  *)
(* whatever they do and wherever the program stops, the agents find every  *)
(* stored job, and never an older version of it than before.               *)
(***************************************************************************)
EXTENDS EdgeJobs, TLAPS

\* A request that works on a job found its script, or has yet to store it.
RequestsHaveScripts ==
  \A r \in Requests :
    requests[r] # Idle /\ requests[r].step # "script"
      => requests[r].id \in scripts \cup unlinked

\* A request works on an identifier that was given out.
RequestsIssued ==
  \A r \in Requests : requests[r] # Idle => requests[r].id \in issued

\* Nor is there a record of any other.
RecordsIssued ==
  \A id \in EdgeJobIDs : edgeJobs[id] # NoJob => id \in issued

\* The inductive invariant.
IInv == TypeOK /\ RecordsIssued /\ RequestsIssued /\ RequestsHaveScripts /\ PollsFindScripts

-----------------------------------------------------------------------------
(* The data.                                                               *)

\* No job is what stands for a missing one, and no step is idleness.
LEMMA NoJobDiffers ==
  /\ NoJob \notin Jobs
  /\ NoJob.version = 0
  /\ \A e \in Endpoints : NoJob.meta[e] = "absent"
  /\ Idle \notin InProgress
<1>1. NoJob \notin Jobs
  BY DEF NoJob, Jobs
<1>2. Idle.step = "idle"
  BY DEF Idle
<1>3. \A q \in InProgress : q.step # "idle"
  BY DEF InProgress, Steps
<1> QED BY <1>1, <1>2, <1>3 DEF NoJob

\* What the handlers make of a job is a job.
LEMMA JobsMade ==
  ASSUME NEW job \in Jobs
  PROVE  /\ \A e \in Endpoints, m \in Metas : WithMeta(job, e, m) \in Jobs
         /\ \A ends \in SUBSET Endpoints, new \in BOOLEAN :
              (new => job.version < MaxVersion) => Updated(job, ends, new) \in Jobs
<1>1. \A e \in Endpoints, m \in Metas : WithMeta(job, e, m) \in Jobs
  BY DEF WithMeta, Jobs
<1>2. ASSUME NEW ends \in SUBSET Endpoints, NEW new \in BOOLEAN,
             new => job.version < MaxVersion
      PROVE  Updated(job, ends, new) \in Jobs
  <2>1. job.version \in 1 .. MaxVersion /\ job.meta \in [Endpoints -> Metas]
    BY DEF Jobs
  <2>2. (IF new THEN job.version + 1 ELSE job.version) \in 1 .. MaxVersion
    BY <1>2, <2>1, EdgeJobsAssumption
  <2>3. UpdatedMeta(job, ends) \in [Endpoints -> Metas]
    BY <2>1 DEF Metas, UpdatedMeta
  <2> QED BY <2>2, <2>3 DEF Updated, Jobs
<1> QED BY <1>1, <1>2

\* A request at a step is in progress.
LEMMA InStep ==
  ASSUME TypeOK, NEW r \in Requests, requests[r].step # "idle"
  PROVE  requests[r] \in InProgress /\ requests[r] # Idle
BY NoJobDiffers DEF TypeOK, Idle

-----------------------------------------------------------------------------
(* The requests.                                                           *)

\* What a request that begins changes of the others: nothing.
LEMMA BeginsOne ==
  ASSUME TypeOK, NEW r \in Requests, NEW step \in Steps, NEW id \in EdgeJobIDs,
         NEW job \in Jobs, NEW todo \in SUBSET Endpoints, Begin(r, step, id, job, todo)
  PROVE  /\ requests' \in [Requests -> InProgress \cup {Idle}]
         /\ requests'[r] # Idle /\ requests'[r].step = step /\ requests'[r].id = id
         /\ requests'[r].job = job /\ requests'[r].todo = todo
         /\ \A q \in Requests \ {r} : requests'[q] = requests[q]
<1>1. [step |-> step, id |-> id, job |-> job, todo |-> todo] \in InProgress
  BY DEF InProgress
<1> QED BY <1>1, NoJobDiffers DEF Begin, TypeOK

\* Nor does one that moves on.
LEMMA GoesOn ==
  ASSUME TypeOK, NEW r \in Requests, NEW step \in Steps, requests[r].step # "idle",
         Goto(r, step)
  PROVE  /\ requests' \in [Requests -> InProgress \cup {Idle}]
         /\ requests'[r] # Idle /\ requests'[r].step = step
         /\ requests'[r].id = requests[r].id
         /\ requests'[r].job = requests[r].job /\ requests'[r].todo = requests[r].todo
         /\ \A q \in Requests \ {r} : requests'[q] = requests[q]
<1>1. requests[r] \in InProgress
  BY InStep
<1>2. [requests[r] EXCEPT !.step = step] \in InProgress
  BY <1>1 DEF InProgress
<1>3. requests' = [requests EXCEPT ![r] = [requests[r] EXCEPT !.step = step]]
  BY DEF Goto
<1> QED BY <1>1, <1>2, <1>3, NoJobDiffers DEF TypeOK, InProgress

\* Nor one that ends.
LEMMA EndsOne ==
  ASSUME TypeOK, NEW r \in Requests, End(r)
  PROVE  /\ requests' \in [Requests -> InProgress \cup {Idle}]
         /\ requests'[r] = Idle
         /\ \A q \in Requests \ {r} : requests'[q] = requests[q]
BY DEF End, TypeOK

\* Once its own request and its own job are right, a step that takes no script away
\* keeps the invariant of the scripts.
LEMMA ScriptsKept ==
  ASSUME IInv, TypeOK',
         scripts \cup unlinked \subseteq scripts' \cup unlinked',
         issued \subseteq issued',
         NEW r \in Requests, NEW id \in EdgeJobIDs,
         \A q \in Requests \ {r} : requests'[q] = requests[q],
         requests'[r] # Idle => requests'[r].id = id,
         id \in issued',
         requests'[r] # Idle => requests'[r].step = "script" \/ id \in scripts' \cup unlinked',
         \A i \in EdgeJobIDs \ {id} :
           /\ edgeJobs'[i] = edgeJobs[i]
           /\ \A e \in Endpoints : tunnelJobs'[e][i] = tunnelJobs[e][i],
         \/ id \in scripts' \cup unlinked'
         \/ /\ edgeJobs'[id] = edgeJobs[id]
            /\ \A e \in Endpoints : tunnelJobs'[e][id] = tunnelJobs[e][id]
  PROVE  IInv'
<1>1. RequestsIssued'
  BY DEF IInv, RequestsIssued
<1>2. RequestsHaveScripts'
  BY DEF IInv, RequestsHaveScripts
<1>3. PollsFindScripts'
  BY DEF IInv, PollsFindScripts
<1>4. RecordsIssued'
  BY DEF IInv, RecordsIssued
<1> QED BY <1>1, <1>2, <1>3, <1>4 DEF IInv

-----------------------------------------------------------------------------
(* The requests begin.                                                     *)

\* A request that works on a stored job writes nothing at first.
LEMMA BeginStored ==
  ASSUME IInv, NEW r \in Requests, NEW step \in Steps, NEW id \in EdgeJobIDs,
         NEW job \in Jobs, NEW todo \in SUBSET Endpoints,
         Begin(r, step, id, job, todo), edgeJobs[id] # NoJob,
         UNCHANGED <<edgeJobs, issued, scripts, logs, tunnelJobs, unlinked>>
  PROVE  IInv'
<1>1. TypeOK
  BY DEF IInv
<1>2. /\ requests' \in [Requests -> InProgress \cup {Idle}]
      /\ requests'[r].id = id
      /\ \A q \in Requests \ {r} : requests'[q] = requests[q]
  BY <1>1, BeginsOne
<1>3. TypeOK'
  BY <1>1, <1>2 DEF TypeOK
<1>4. id \in issued /\ id \in scripts \cup unlinked
  BY DEF IInv, RecordsIssued, PollsFindScripts
<1> QED BY <1>2, <1>3, <1>4, ScriptsKept

\* A new job has no script yet.
LEMMA CreateKeeps ==
  ASSUME IInv, NEW r \in Requests, NEW id \in EdgeJobIDs, NEW ends \in SUBSET Endpoints,
         EdgeJobCreate(r, id, ends)
  PROVE  IInv'
<1> DEFINE job == [version |-> 1,
                   meta |-> [e \in Endpoints |-> IF e \in ends THEN "idle" ELSE "absent"]]
<1>1. TypeOK
  BY DEF IInv
<1>2. job \in Jobs
  BY EdgeJobsAssumption DEF Jobs, Metas
<1>3. Begin(r, "script", id, job, ends) /\ "script" \in Steps
  BY DEF EdgeJobCreate, Steps
<1> HIDE DEF job
<1>4. /\ requests' \in [Requests -> InProgress \cup {Idle}]
      /\ requests'[r].id = id /\ requests'[r].step = "script"
      /\ \A q \in Requests \ {r} : requests'[q] = requests[q]
  BY <1>1, <1>2, <1>3, BeginsOne
<1>5. /\ issued' = issued \cup {id}
      /\ UNCHANGED <<edgeJobs, scripts, logs, tunnelJobs, unlinked>>
  BY DEF EdgeJobCreate
<1>6. TypeOK'
  BY <1>1, <1>4, <1>5 DEF TypeOK
<1> QED BY <1>4, <1>5, <1>6, ScriptsKept

\* Every other request begins with a stored job.
LEMMA BeginKeeps ==
  ASSUME IInv, NEW r \in Requests, BeginNext(r)
  PROVE  IInv'
<1> PICK id \in EdgeJobIDs :
      \/ \E ends \in SUBSET Endpoints :
           \/ EdgeJobCreate(r, id, ends)
           \/ \E newVersion, newScript \in BOOLEAN :
                EdgeJobUpdate(r, id, ends, newVersion, newScript)
      \/ \E e \in Endpoints : \/ EdgeJobTasksCollect(r, id, e)
                              \/ EdgeJobTasksClear(r, id, e)
                              \/ EndpointEdgeJobsLogs(r, id, e)
      \/ EdgeJobDelete(r, id)
  BY DEF BeginNext
<1>1. ASSUME NEW ends \in SUBSET Endpoints, EdgeJobCreate(r, id, ends)
      PROVE  IInv'
  BY <1>1, CreateKeeps
<1>2. edgeJobs[id] # NoJob => edgeJobs[id] \in Jobs
  BY DEF IInv, TypeOK
<1>3. ASSUME NEW ends \in SUBSET Endpoints, NEW newVersion \in BOOLEAN,
             NEW newScript \in BOOLEAN, EdgeJobUpdate(r, id, ends, newVersion, newScript)
      PROVE  IInv'
  <2>1. Updated(edgeJobs[id], ends, newVersion) \in Jobs
    BY <1>2, <1>3, JobsMade DEF EdgeJobUpdate
  <2>2. {"script", "put", "add"} \subseteq Steps
    BY DEF Steps
  <2> QED BY <1>3, <2>1, <2>2, BeginStored DEF EdgeJobUpdate
<1>4. ASSUME NEW e \in Endpoints,
             \/ EdgeJobTasksCollect(r, id, e)
             \/ EdgeJobTasksClear(r, id, e)
             \/ EndpointEdgeJobsLogs(r, id, e)
      PROVE  IInv'
  <2>1. edgeJobs[id] # NoJob
    BY <1>4 DEF EdgeJobTasksCollect, EdgeJobTasksClear, EndpointEdgeJobsLogs
  <2>2. \A m \in {"idle", "pending", "collected"} : WithMeta(edgeJobs[id], e, m) \in Jobs
    BY <1>2, <2>1, JobsMade DEF Metas
  <2>3. {"add", "clear", "log"} \subseteq Steps /\ {e} \in SUBSET Endpoints
    BY DEF Steps
  <2>4. CASE EdgeJobTasksCollect(r, id, e)
    BY <2>1, <2>2, <2>3, <2>4, BeginStored DEF EdgeJobTasksCollect
  <2>5. CASE EdgeJobTasksClear(r, id, e)
    BY <2>1, <2>2, <2>3, <2>5, BeginStored DEF EdgeJobTasksClear
  <2>6. CASE EndpointEdgeJobsLogs(r, id, e)
    BY <2>1, <2>2, <2>3, <2>6, BeginStored DEF EndpointEdgeJobsLogs
  <2> QED BY <1>4, <2>4, <2>5, <2>6
<1>5. CASE EdgeJobDelete(r, id)
  <2>1. "unlink" \in Steps /\ {} \in SUBSET Endpoints
    BY DEF Steps
  <2> QED BY <1>2, <1>5, <2>1, BeginStored DEF EdgeJobDelete
<1> QED BY <1>1, <1>3, <1>4, <1>5

-----------------------------------------------------------------------------
(* The writes.                                                             *)

\* A job read from a tunnel, or put there, is a job or none.
LEMMA TunnelsTyped ==
  ASSUME TypeOK, NEW e \in Endpoints, NEW id \in EdgeJobIDs,
         NEW job \in Jobs \cup {NoJob}, AddEdgeJob(e, id, job)
  PROVE  /\ tunnelJobs' \in [Endpoints -> [EdgeJobIDs -> Jobs \cup {NoJob}]]
         /\ \A f \in Endpoints, i \in EdgeJobIDs \ {id} : tunnelJobs'[f][i] = tunnelJobs[f][i]
<1>1. tunnelJobs' = [tunnelJobs EXCEPT ![e] = [tunnelJobs[e] EXCEPT ![id] = job]]
  BY DEF AddEdgeJob
<1>2. [tunnelJobs[e] EXCEPT ![id] = job] \in [EdgeJobIDs -> Jobs \cup {NoJob}]
  BY DEF TypeOK
<1> QED BY <1>1, <1>2 DEF TypeOK

\* What a request in progress holds.
LEMMA Holding ==
  ASSUME IInv, NEW r \in Requests, requests[r].step # "idle"
  PROVE  /\ requests[r].id \in EdgeJobIDs /\ requests[r].id \in issued
         /\ requests[r].job \in Jobs /\ requests[r].todo \subseteq Endpoints
         /\ requests[r].step = "script" \/ requests[r].id \in scripts \cup unlinked
<1>1. requests[r] \in InProgress /\ requests[r] # Idle
  BY InStep DEF IInv
<1> QED BY <1>1 DEF IInv, InProgress, RequestsIssued, RequestsHaveScripts

\* The script is stored before anything shows the job.
LEMMA StoreScriptKeeps ==
  ASSUME IInv, NEW r \in Requests, StoreScript(r)
  PROVE  IInv'
<1> DEFINE id == requests[r].id
<1>1. TypeOK /\ requests[r].step # "idle"
  BY DEF IInv, StoreScript, At
<1>2. id \in EdgeJobIDs /\ id \in issued
  BY <1>1, Holding
<1>3. UNCHANGED <<edgeJobs, issued, logs, tunnelJobs, unlinked>>
  BY DEF StoreScript
<1>4. CASE scripts' = scripts \cup {id}
           /\ Goto(r, IF requests[r].todo = {} THEN "put" ELSE "add")
  <2>1. (IF requests[r].todo = {} THEN "put" ELSE "add") \in Steps
    BY DEF Steps
  <2>2. /\ requests' \in [Requests -> InProgress \cup {Idle}]
        /\ requests'[r].id = id
        /\ \A q \in Requests \ {r} : requests'[q] = requests[q]
    BY <1>1, <1>4, <2>1, GoesOn
  <2>3. TypeOK'
    BY <1>1, <1>2, <1>3, <1>4, <2>2 DEF TypeOK
  <2> QED BY <1>2, <1>3, <1>4, <2>2, <2>3, ScriptsKept
<1>5. CASE End(r) /\ UNCHANGED scripts
  <2>1. /\ requests' \in [Requests -> InProgress \cup {Idle}]
        /\ requests'[r] = Idle
        /\ \A q \in Requests \ {r} : requests'[q] = requests[q]
    BY <1>1, <1>5, EndsOne
  <2>2. TypeOK'
    BY <1>1, <1>3, <1>5, <2>1 DEF TypeOK
  <2> QED BY <1>2, <1>3, <1>5, <2>1, <2>2, ScriptsKept
<1> QED BY <1>4, <1>5 DEF StoreScript

\* A tunnel is told of a job that has its script.
LEMMA AddToTunnelsKeeps ==
  ASSUME IInv, NEW r \in Requests, AddToTunnels(r)
  PROVE  IInv'
<1> DEFINE id == requests[r].id
<1>1. TypeOK /\ requests[r].step = "add"
  BY DEF IInv, AddToTunnels, At
<1>2. /\ id \in EdgeJobIDs /\ id \in issued /\ id \in scripts \cup unlinked
      /\ requests[r].job \in Jobs /\ requests[r].todo \subseteq Endpoints
  BY <1>1, Holding
<1>3. PICK e \in requests[r].todo :
        /\ AddEdgeJob(e, id, requests[r].job)
        /\ requests' = [requests EXCEPT
             ![r].todo = @ \ {e},
             ![r].step = IF requests[r].todo = {e} THEN "put" ELSE "add"]
  BY DEF AddToTunnels
<1>4. UNCHANGED <<edgeJobs, issued, scripts, logs, unlinked>>
  BY DEF AddToTunnels
<1>5. /\ tunnelJobs' \in [Endpoints -> [EdgeJobIDs -> Jobs \cup {NoJob}]]
      /\ \A f \in Endpoints, i \in EdgeJobIDs \ {id} : tunnelJobs'[f][i] = tunnelJobs[f][i]
  BY <1>1, <1>2, <1>3, TunnelsTyped
<1>6. /\ requests'[r] \in InProgress
      /\ requests'[r].id = id
      /\ \A q \in Requests \ {r} : requests'[q] = requests[q]
      /\ requests' \in [Requests -> InProgress \cup {Idle}]
  <2>1. requests[r] \in InProgress
    BY <1>1, InStep
  <2>2. requests'[r] = [requests[r] EXCEPT !.todo = requests[r].todo \ {e},
                          !.step = IF requests[r].todo = {e} THEN "put" ELSE "add"]
    BY <1>1, <1>3 DEF TypeOK
  <2>3. requests'[r] \in InProgress /\ requests'[r].id = id
    BY <2>1, <2>2 DEF InProgress, Steps
  <2>4. \A q \in Requests \ {r} : requests'[q] = requests[q]
    BY <1>1, <1>3 DEF TypeOK
  <2>5. requests' \in [Requests -> InProgress \cup {Idle}]
    BY <1>1, <1>3, <2>3, <2>4 DEF TypeOK
  <2> QED BY <2>3, <2>4, <2>5
<1>7. TypeOK'
  BY <1>1, <1>4, <1>5, <1>6 DEF TypeOK
<1> QED BY <1>2, <1>4, <1>5, <1>6, <1>7, ScriptsKept

\* So is a record of it.
LEMMA PutKeeps ==
  ASSUME IInv, NEW r \in Requests, PutRecord(r) \/ PutLogStatus(r)
  PROVE  IInv'
<1> DEFINE id == requests[r].id
<1>1. TypeOK /\ requests[r].step \in {"put", "putlog"}
  BY DEF IInv, PutRecord, PutLogStatus, At
<1>2. /\ id \in EdgeJobIDs /\ id \in issued /\ id \in scripts \cup unlinked
      /\ requests[r].job \in Jobs
  BY <1>1, Holding
<1>3. /\ edgeJobs' = [edgeJobs EXCEPT ![id] = requests[r].job]
      /\ UNCHANGED <<issued, scripts, logs, tunnelJobs, unlinked>>
      /\ End(r) \/ Goto(r, "addlog")
  BY DEF PutRecord, PutLogStatus
<1>4. /\ requests' \in [Requests -> InProgress \cup {Idle}]
      /\ requests'[r] # Idle => requests'[r].id = id
      /\ \A q \in Requests \ {r} : requests'[q] = requests[q]
  <2>1. CASE End(r)
    BY <1>1, <2>1, EndsOne
  <2>2. CASE Goto(r, "addlog")
    <3>1. "addlog" \in Steps
      BY DEF Steps
    <3> QED BY <1>1, <2>2, <3>1, GoesOn
  <2> QED BY <1>3, <2>1, <2>2
<1>5. TypeOK'
  BY <1>1, <1>2, <1>3, <1>4 DEF TypeOK
<1>6. \A i \in EdgeJobIDs \ {id} : edgeJobs'[i] = edgeJobs[i]
  BY <1>1, <1>3 DEF TypeOK
<1> QED BY <1>2, <1>3, <1>4, <1>5, <1>6, ScriptsKept

\* Log files are no scripts.
LEMMA LogsKeep ==
  ASSUME IInv, NEW r \in Requests, ClearLog(r) \/ StoreLog(r)
  PROVE  IInv'
<1> DEFINE id == requests[r].id
<1>1. TypeOK /\ requests[r].step \in {"clear", "log"}
  BY DEF IInv, ClearLog, StoreLog, At
<1>2. /\ id \in EdgeJobIDs /\ id \in issued /\ id \in scripts \cup unlinked
      /\ requests[r].todo \subseteq Endpoints
  BY <1>1, Holding
<1>3. /\ UNCHANGED <<edgeJobs, issued, scripts, tunnelJobs, unlinked>>
      /\ End(r) \/ Goto(r, "add") \/ Goto(r, "putlog")
      /\ logs' \subseteq logs \cup {<<id, e>> : e \in requests[r].todo}
  BY DEF ClearLog, StoreLog
<1>4. /\ requests' \in [Requests -> InProgress \cup {Idle}]
      /\ requests'[r] # Idle => requests'[r].id = id
      /\ \A q \in Requests \ {r} : requests'[q] = requests[q]
  <2>1. CASE End(r)
    BY <1>1, <2>1, EndsOne
  <2>2. {"add", "putlog"} \subseteq Steps
    BY DEF Steps
  <2>3. CASE Goto(r, "add")
    BY <1>1, <2>2, <2>3, GoesOn
  <2>4. CASE Goto(r, "putlog")
    BY <1>1, <2>2, <2>4, GoesOn
  <2> QED BY <1>3, <2>1, <2>3, <2>4
<1>5. logs' \subseteq issued \X Endpoints
  BY <1>1, <1>2, <1>3 DEF TypeOK
<1>6. TypeOK'
  BY <1>1, <1>3, <1>4, <1>5 DEF TypeOK
<1> QED BY <1>2, <1>3, <1>4, <1>6, ScriptsKept

\* The last write of an agent's logs.
LEMMA AddLogStatusKeeps ==
  ASSUME IInv, NEW r \in Requests, AddLogStatus(r)
  PROVE  IInv'
<1> DEFINE id == requests[r].id
<1>1. TypeOK /\ requests[r].step = "addlog"
  BY DEF IInv, AddLogStatus, At
<1>2. /\ id \in EdgeJobIDs /\ id \in issued /\ id \in scripts \cup unlinked
      /\ requests[r].job \in Jobs /\ requests[r].todo \subseteq Endpoints
  BY <1>1, Holding
<1>3. PICK e \in requests[r].todo : AddEdgeJob(e, id, requests[r].job)
  BY DEF AddLogStatus
<1>4. End(r) /\ UNCHANGED <<edgeJobs, issued, scripts, logs, unlinked>>
  BY DEF AddLogStatus
<1>5. /\ tunnelJobs' \in [Endpoints -> [EdgeJobIDs -> Jobs \cup {NoJob}]]
      /\ \A f \in Endpoints, i \in EdgeJobIDs \ {id} : tunnelJobs'[f][i] = tunnelJobs[f][i]
  BY <1>1, <1>2, <1>3, TunnelsTyped
<1>6. /\ requests' \in [Requests -> InProgress \cup {Idle}]
      /\ requests'[r] = Idle
      /\ \A q \in Requests \ {r} : requests'[q] = requests[q]
  BY <1>1, <1>4, EndsOne
<1>7. TypeOK'
  BY <1>1, <1>4, <1>5, <1>6 DEF TypeOK
<1> QED BY <1>2, <1>4, <1>5, <1>6, <1>7, ScriptsKept

\* A deletion takes the script first, and is remembered.
LEMMA DeletionKeeps ==
  ASSUME IInv, NEW r \in Requests, Unlink(r) \/ RemoveEdgeJob(r) \/ DeleteRecord(r)
  PROVE  IInv'
<1> DEFINE id == requests[r].id
<1>1. TypeOK /\ requests[r].step \in {"unlink", "remove", "delete"}
  BY DEF IInv, Unlink, RemoveEdgeJob, DeleteRecord, At
<1>2. id \in EdgeJobIDs /\ id \in issued /\ id \in scripts \cup unlinked
  BY <1>1, Holding
<1>3. End(r) \/ Goto(r, "remove") \/ Goto(r, "delete")
  BY DEF Unlink, RemoveEdgeJob, DeleteRecord
<1>4. /\ requests' \in [Requests -> InProgress \cup {Idle}]
      /\ requests'[r] # Idle => requests'[r].id = id
      /\ \A q \in Requests \ {r} : requests'[q] = requests[q]
  <2>1. CASE End(r)
    BY <1>1, <2>1, EndsOne
  <2>2. {"remove", "delete"} \subseteq Steps
    BY DEF Steps
  <2>3. CASE Goto(r, "remove")
    BY <1>1, <2>2, <2>3, GoesOn
  <2>4. CASE Goto(r, "delete")
    BY <1>1, <2>2, <2>4, GoesOn
  <2> QED BY <1>3, <2>1, <2>3, <2>4
<1>5. CASE Unlink(r)
  <2>1. /\ UNCHANGED <<edgeJobs, issued, tunnelJobs>>
        /\ scripts' = scripts \ {id} /\ unlinked' = unlinked \cup {id}
        /\ logs' \subseteq logs
    BY <1>5 DEF Unlink
  <2>2. TypeOK'
    BY <1>1, <1>2, <1>4, <2>1 DEF TypeOK
  <2> QED BY <1>2, <1>4, <2>1, <2>2, ScriptsKept
<1>6. CASE RemoveEdgeJob(r)
  <2>1. /\ UNCHANGED <<edgeJobs, issued, scripts, logs, unlinked>>
        /\ tunnelJobs' = [e \in Endpoints |-> [tunnelJobs[e] EXCEPT ![id] = NoJob]]
    BY <1>6 DEF RemoveEdgeJob
  <2>2. \A e \in Endpoints : tunnelJobs[e] \in [EdgeJobIDs -> Jobs \cup {NoJob}]
    BY <1>1 DEF TypeOK
  <2>3. /\ tunnelJobs' \in [Endpoints -> [EdgeJobIDs -> Jobs \cup {NoJob}]]
        /\ \A f \in Endpoints, i \in EdgeJobIDs \ {id} : tunnelJobs'[f][i] = tunnelJobs[f][i]
    BY <2>1, <2>2
  <2>4. TypeOK'
    BY <1>1, <1>4, <2>1, <2>3 DEF TypeOK
  <2> QED BY <1>2, <1>4, <2>1, <2>3, <2>4, ScriptsKept
<1>7. CASE DeleteRecord(r)
  <2>1. /\ UNCHANGED <<issued, scripts, logs, tunnelJobs, unlinked>>
        /\ edgeJobs' = [edgeJobs EXCEPT ![id] = NoJob]
    BY <1>7 DEF DeleteRecord
  <2>2. TypeOK'
    BY <1>1, <1>2, <1>4, <2>1 DEF TypeOK
  <2>3. \A i \in EdgeJobIDs \ {id} : edgeJobs'[i] = edgeJobs[i]
    BY <1>1, <2>1 DEF TypeOK
  <2> QED BY <1>2, <1>4, <2>1, <2>2, <2>3, ScriptsKept
<1> QED BY <1>5, <1>6, <1>7

\* Only jobs with a record are loaded.
LEMMA RestartKeeps ==
  ASSUME IInv, Restart
  PROVE  IInv'
<1>1. /\ tunnelJobs' = LoadedJobs
      /\ requests' = [r \in Requests |-> Idle]
      /\ UNCHANGED <<edgeJobs, issued, scripts, logs, unlinked>>
  BY DEF Restart
<1>2. \A e \in Endpoints, id \in EdgeJobIDs :
        tunnelJobs'[e][id] \in {edgeJobs[id], NoJob}
  BY <1>1 DEF LoadedJobs
<1>3. TypeOK'
  BY <1>1 DEF IInv, TypeOK, LoadedJobs
<1>4. RecordsIssued' /\ RequestsIssued' /\ RequestsHaveScripts'
  BY <1>1 DEF IInv, RecordsIssued, RequestsIssued, RequestsHaveScripts
<1>5. PollsFindScripts'
  BY <1>1, <1>2 DEF IInv, PollsFindScripts
<1> QED BY <1>3, <1>4, <1>5 DEF IInv

-----------------------------------------------------------------------------
(* Requests one at a time.                                                 *)

\* Whatever there is, it is the same request.
OneRequest == \A q, r \in Requests : q = r

\* The tunnels have no newer version of id than job, and show its agents what job
\* says, but for the endpoints that are still to be told.
ReachesAgents(id, job, todo) ==
  \A e \in Endpoints :
    /\ tunnelJobs[e][id].version <= job.version
    /\ e \notin todo /\ job.meta[e] # "absent" =>
         /\ tunnelJobs[e][id].version = job.version
         /\ tunnelJobs[e][id].meta[e] = job.meta[e]

\* What a request knows of the tunnels at each of its steps
RequestInv(r) ==
  LET q == requests[r] IN
  /\ q.step = "put" => q.todo = {}
  /\ q.step \in {"clear", "log", "putlog", "addlog"} => \A e, f \in q.todo : e = f
  /\ q.step \notin {"unlink", "remove", "delete"} => ReachesAgents(q.id, q.job, q.todo)
  /\ q.step = "delete" => \A e \in Endpoints : tunnelJobs[e][q.id] = NoJob
  /\ q.step = "addlog" => edgeJobs[q.id] = q.job

\* A request has changed the tunnels, and the record not yet, or the other way round.
\* None of these steps may fail, so that only the end of the program interrupts them.
Unsettled(id) ==
  \E r \in Requests :
    /\ requests[r] # Idle /\ requests[r].id = id
    /\ requests[r].step \in {"add", "put", "addlog", "remove", "delete"}

\* The inductive invariant for requests that come one at a time.
SerialInv ==
  /\ \A r \in Requests : requests[r] # Idle => RequestInv(r)
  /\ \A id \in EdgeJobIDs : Unsettled(id) \/ ReachesAgents(id, edgeJobs[id], {})

\* A step of the only request concerns its job alone.
LEMMA SerialKept ==
  ASSUME OneRequest, SerialInv, NEW r \in Requests, NEW id \in EdgeJobIDs,
         requests[r] # Idle => requests[r].id = id,
         \A i \in EdgeJobIDs \ {id} :
           /\ edgeJobs'[i] = edgeJobs[i]
           /\ \A e \in Endpoints : tunnelJobs'[e][i] = tunnelJobs[e][i],
         requests'[r] # Idle => RequestInv(r)',
         Unsettled(id)' \/ ReachesAgents(id, edgeJobs[id], {})'
  PROVE  SerialInv'
<1>1. \A q \in Requests : requests'[q] # Idle => RequestInv(q)'
  BY DEF OneRequest
<1>2. ASSUME NEW i \in EdgeJobIDs \ {id}
      PROVE  ReachesAgents(i, edgeJobs[i], {})'
  <2>1. ~Unsettled(i)
    BY DEF OneRequest, Unsettled
  <2> QED BY <2>1 DEF SerialInv, ReachesAgents
<1> QED BY <1>1, <1>2 DEF SerialInv

\* A request that begins is the only one: the agents find what is stored, and with it
\* what the request makes of it, but for the endpoints it is going to tell.
LEMMA SerialBegin ==
  ASSUME OneRequest, IInv, SerialInv, NEW r \in Requests, NEW id \in EdgeJobIDs,
         NEW step \in {"script", "add", "put", "clear", "log", "unlink"},
         NEW job \in Jobs, NEW todo \in SUBSET Endpoints,
         Begin(r, step, id, job, todo),
         UNCHANGED <<edgeJobs, tunnelJobs>>,
         step = "put" => todo = {},
         step \in {"clear", "log"} => \A e, f \in todo : e = f,
         edgeJobs[id].version <= job.version,
         \A e \in Endpoints \ todo : job.meta[e] # "absent" =>
           job.version = edgeJobs[id].version /\ job.meta[e] = edgeJobs[id].meta[e]
  PROVE  SerialInv'
<1>1. TypeOK /\ requests[r] = Idle /\ step \in Steps
  BY DEF IInv, Begin, Steps
<1>2. /\ requests'[r] # Idle /\ requests'[r].step = step /\ requests'[r].id = id
      /\ requests'[r].job = job /\ requests'[r].todo = todo
  BY <1>1, BeginsOne
<1>3. ReachesAgents(id, edgeJobs[id], {})
  BY <1>1 DEF SerialInv, Unsettled, OneRequest
<1>4. ReachesAgents(id, job, todo)
  <2>1. \A e \in Endpoints : /\ tunnelJobs[e][id].version \in Nat
                             /\ edgeJobs[id].version \in Nat /\ job.version \in Nat
    BY <1>1, NoJobDiffers DEF TypeOK, Jobs
  <2>2. \A e \in Endpoints : tunnelJobs[e][id].version <= job.version
    BY <1>3, <2>1 DEF ReachesAgents
  <2> QED BY <1>3, <2>2 DEF ReachesAgents
<1>5. RequestInv(r)'
  BY <1>2, <1>4 DEF RequestInv, ReachesAgents
<1>6. ReachesAgents(id, edgeJobs[id], {})'
  BY <1>3 DEF ReachesAgents
<1> QED BY <1>1, <1>5, <1>6, SerialKept

\* Each request keeps the meta data of the endpoints it does not tell.
LEMMA SerialBegins ==
  ASSUME OneRequest, IInv, SerialInv, NEW r \in Requests, BeginNext(r)
  PROVE  SerialInv'
<1> PICK id \in EdgeJobIDs :
      \/ \E ends \in SUBSET Endpoints :
           \/ EdgeJobCreate(r, id, ends)
           \/ \E newVersion, newScript \in BOOLEAN :
                EdgeJobUpdate(r, id, ends, newVersion, newScript)
      \/ \E e \in Endpoints : \/ EdgeJobTasksCollect(r, id, e)
                              \/ EdgeJobTasksClear(r, id, e)
                              \/ EndpointEdgeJobsLogs(r, id, e)
      \/ EdgeJobDelete(r, id)
  BY DEF BeginNext
<1>1. edgeJobs[id] # NoJob => /\ edgeJobs[id] \in Jobs
                              /\ edgeJobs[id].version \in Nat
  BY DEF IInv, TypeOK, Jobs
<1>2. ASSUME NEW ends \in SUBSET Endpoints, EdgeJobCreate(r, id, ends)
      PROVE  SerialInv'
  <2> DEFINE job == [version |-> 1,
                     meta |-> [e \in Endpoints |-> IF e \in ends THEN "idle" ELSE "absent"]]
  <2>1. job \in Jobs /\ job.version = 1 /\ \A e \in Endpoints \ ends : job.meta[e] = "absent"
    BY EdgeJobsAssumption DEF Jobs, Metas
  <2>2. edgeJobs[id].version = 0
    BY <1>2, NoJobDiffers DEF EdgeJobCreate, IInv, RecordsIssued
  <2>3. Begin(r, "script", id, job, ends) /\ UNCHANGED <<edgeJobs, tunnelJobs>>
    BY <1>2 DEF EdgeJobCreate
  <2> HIDE DEF job
  <2> QED BY <2>1, <2>2, <2>3, SerialBegin
<1>3. ASSUME NEW ends \in SUBSET Endpoints, NEW newVersion \in BOOLEAN,
             NEW newScript \in BOOLEAN, EdgeJobUpdate(r, id, ends, newVersion, newScript)
      PROVE  SerialInv'
  <2> DEFINE job == Updated(edgeJobs[id], ends, newVersion)
             step == IF newScript THEN "script" ELSE IF ends = {} THEN "put" ELSE "add"
  <2>1. /\ Begin(r, step, id, job, ends)
        /\ UNCHANGED <<edgeJobs, tunnelJobs>>
        /\ edgeJobs[id] # NoJob
    BY <1>3 DEF EdgeJobUpdate
  <2>2. job \in Jobs
    BY <1>1, <1>3, JobsMade DEF EdgeJobUpdate
  <2>3. edgeJobs[id].version <= job.version
    BY <1>1, <2>1 DEF Updated
  <2>4. \A e \in Endpoints \ ends : job.meta[e] = "absent"
    BY DEF Updated, UpdatedMeta
  <2>5. step \in {"script", "add", "put"} /\ (step = "put" => ends = {})
    OBVIOUS
  <2> HIDE DEF job, step
  <2> QED BY <2>1, <2>2, <2>3, <2>4, <2>5, SerialBegin
<1>4. ASSUME NEW e \in Endpoints, NEW m \in Metas, NEW step \in {"add", "clear", "log"},
             edgeJobs[id] # NoJob, Begin(r, step, id, WithMeta(edgeJobs[id], e, m), {e}),
             UNCHANGED <<edgeJobs, tunnelJobs>>
      PROVE  SerialInv'
  <2> DEFINE job == WithMeta(edgeJobs[id], e, m)
  <2>1. job \in Jobs
    BY <1>1, <1>4, JobsMade
  <2>2. /\ job.version = edgeJobs[id].version
        /\ \A f \in Endpoints \ {e} : job.meta[f] = edgeJobs[id].meta[f]
    BY <1>1, <1>4 DEF WithMeta, Jobs
  <2>3. edgeJobs[id].version <= job.version
    BY <1>1, <1>4, <2>2
  <2>4. Begin(r, step, id, job, {e})
    BY <1>4
  <2> HIDE DEF job
  <2> QED BY <1>4, <2>1, <2>2, <2>3, <2>4, SerialBegin
<1>5. ASSUME NEW e \in Endpoints,
             \/ EdgeJobTasksCollect(r, id, e)
             \/ EdgeJobTasksClear(r, id, e)
             \/ EndpointEdgeJobsLogs(r, id, e)
      PROVE  SerialInv'
  <2>1. {"idle", "pending", "collected"} \subseteq Metas
    BY DEF Metas
  <2>2. CASE EdgeJobTasksCollect(r, id, e)
    BY <1>4, <2>1, <2>2 DEF EdgeJobTasksCollect
  <2>3. CASE EdgeJobTasksClear(r, id, e)
    BY <1>4, <2>1, <2>3 DEF EdgeJobTasksClear
  <2>4. CASE EndpointEdgeJobsLogs(r, id, e)
    BY <1>4, <2>1, <2>4 DEF EndpointEdgeJobsLogs
  <2> QED BY <1>5, <2>2, <2>3, <2>4
<1>6. CASE EdgeJobDelete(r, id)
  <2>1. /\ Begin(r, "unlink", id, edgeJobs[id], {})
        /\ edgeJobs[id] \in Jobs /\ edgeJobs[id].version \in Nat
        /\ UNCHANGED <<edgeJobs, tunnelJobs>>
    BY <1>1, <1>6 DEF EdgeJobDelete
  <2> QED BY <2>1, SerialBegin
<1> QED BY <1>2, <1>3, <1>5, <1>6

\* The script, the logs and the end of a request that fails are no news for the agents.
LEMMA SerialFiles ==
  ASSUME OneRequest, IInv, SerialInv, NEW r \in Requests,
         StoreScript(r) \/ ClearLog(r) \/ StoreLog(r) \/ Unlink(r)
  PROVE  SerialInv'
<1>1. /\ TypeOK /\ requests[r] # Idle
      /\ requests[r].step \in {"script", "clear", "log", "unlink"}
  BY InStep DEF IInv, StoreScript, ClearLog, StoreLog, Unlink, At
<1>2. PICK id \in EdgeJobIDs : id = requests[r].id
  BY <1>1, Holding
<1>3. UNCHANGED <<edgeJobs, tunnelJobs>>
  BY DEF StoreScript, ClearLog, StoreLog, Unlink
<1>4. RequestInv(r) /\ ReachesAgents(id, edgeJobs[id], {})
  <2>1. ~Unsettled(id)
    BY <1>1 DEF Unsettled, OneRequest
  <2> QED BY <1>1, <1>2, <2>1 DEF SerialInv
<1>5. ReachesAgents(id, edgeJobs[id], {})'
  BY <1>3, <1>4 DEF ReachesAgents
<1>6. CASE End(r)
  <2>1. requests'[r] = Idle
    BY <1>1, <1>6, EndsOne
  <2> QED BY <1>2, <1>3, <1>5, <2>1, SerialKept
<1>7. ASSUME NEW step \in {"add", "put", "putlog", "remove"}, Goto(r, step),
             step = "put" => requests[r].todo = {},
             step = "putlog" => requests[r].step = "log",
             requests[r].step = "unlink" => step = "remove"
      PROVE  SerialInv'
  <2>1. step \in Steps
    BY DEF Steps
  <2>2. /\ requests'[r].step = step /\ requests'[r].id = id
        /\ requests'[r].job = requests[r].job /\ requests'[r].todo = requests[r].todo
    BY <1>1, <1>2, <1>7, <2>1, GoesOn
  <2>3. RequestInv(r)'
    BY <1>1, <1>2, <1>3, <1>4, <1>7, <2>2 DEF RequestInv, ReachesAgents
  <2> QED BY <1>2, <1>3, <1>5, <2>2, <2>3, SerialKept
<1>8. CASE StoreScript(r)
  BY <1>6, <1>7, <1>8 DEF StoreScript, At
<1>9. CASE ClearLog(r)
  BY <1>6, <1>7, <1>9 DEF ClearLog, At
<1>10. CASE StoreLog(r)
  BY <1>6, <1>7, <1>10 DEF StoreLog, At
<1>11. CASE Unlink(r)
  BY <1>7, <1>11 DEF Unlink, At
<1> QED BY <1>8, <1>9, <1>10, <1>11

\* What a tunnel is told of a job is the version the request has made, and no older
\* than what it had.
LEMMA TunnelTold ==
  ASSUME TypeOK, NEW e \in Endpoints, NEW id \in EdgeJobIDs, NEW job \in Jobs,
         AddEdgeJob(e, id, job)
  PROVE  /\ tunnelJobs'[e][id] = job
         /\ \A f \in Endpoints \ {e} : tunnelJobs'[f] = tunnelJobs[f]
         /\ \A i \in EdgeJobIDs \ {id} : tunnelJobs'[e][i] = tunnelJobs[e][i]
<1>1. tunnelJobs' = [tunnelJobs EXCEPT ![e] = [tunnelJobs[e] EXCEPT ![id] = job]]
  BY DEF AddEdgeJob
<1> QED BY <1>1 DEF TypeOK

\* The agents are told one after the other.
LEMMA SerialAdd ==
  ASSUME OneRequest, IInv, SerialInv, NEW r \in Requests, AddToTunnels(r)
  PROVE  SerialInv'
<1>1. TypeOK /\ requests[r] # Idle /\ requests[r].step = "add"
  BY InStep DEF IInv, AddToTunnels, At
<1>2. PICK id \in EdgeJobIDs, job \in Jobs :
        /\ id = requests[r].id /\ job = requests[r].job
        /\ job.version \in Nat /\ requests[r].todo \subseteq Endpoints
  BY <1>1, Holding DEF Jobs
<1>3. PICK e \in requests[r].todo :
        /\ AddEdgeJob(e, id, job)
        /\ requests' = [requests EXCEPT
             ![r].todo = @ \ {e},
             ![r].step = IF requests[r].todo = {e} THEN "put" ELSE "add"]
  BY <1>2 DEF AddToTunnels
<1>4. ReachesAgents(id, job, requests[r].todo)
  BY <1>1, <1>2 DEF SerialInv, RequestInv
<1>5. /\ requests'[r].step = (IF requests[r].todo = {e} THEN "put" ELSE "add")
      /\ requests'[r].todo = requests[r].todo \ {e}
      /\ requests'[r].id = id /\ requests'[r].job = job
      /\ requests'[r] # Idle
  <2>1. requests[r] \in InProgress
    BY <1>1, InStep
  <2>2. requests'[r] = [requests[r] EXCEPT !.todo = requests[r].todo \ {e},
                          !.step = IF requests[r].todo = {e} THEN "put" ELSE "add"]
    BY <1>1, <1>3 DEF TypeOK
  <2>3. requests'[r].step # "idle"
    BY <2>1, <2>2 DEF InProgress
  <2> QED BY <1>2, <2>1, <2>2, <2>3 DEF InProgress, Idle
<1>6. /\ tunnelJobs'[e][id] = job
      /\ \A f \in Endpoints \ {e} : tunnelJobs'[f] = tunnelJobs[f]
      /\ \A i \in EdgeJobIDs \ {id} : tunnelJobs'[e][i] = tunnelJobs[e][i]
  BY <1>1, <1>2, <1>3, TunnelTold
<1>7. ReachesAgents(id, job, requests[r].todo \ {e})'
  BY <1>2, <1>4, <1>5, <1>6 DEF ReachesAgents
<1>8. RequestInv(r)'
  BY <1>5, <1>7 DEF RequestInv, ReachesAgents
<1>9. Unsettled(id)'
  BY <1>5 DEF Unsettled
<1>10. \A i \in EdgeJobIDs \ {id} :
         /\ edgeJobs'[i] = edgeJobs[i]
         /\ \A f \in Endpoints : tunnelJobs'[f][i] = tunnelJobs[f][i]
  BY <1>6 DEF AddToTunnels
<1> QED BY <1>1, <1>2, <1>5, <1>8, <1>9, <1>10, SerialKept

\* When the record is written the agents have been told, or it is an agent that told.
LEMMA SerialPut ==
  ASSUME OneRequest, IInv, SerialInv, NEW r \in Requests, PutRecord(r) \/ PutLogStatus(r)
  PROVE  SerialInv'
<1>1. TypeOK /\ requests[r] # Idle /\ requests[r].step \in {"put", "putlog"}
  BY InStep DEF IInv, PutRecord, PutLogStatus, At
<1>2. PICK id \in EdgeJobIDs, job \in Jobs : id = requests[r].id /\ job = requests[r].job
  BY <1>1, Holding
<1>3. /\ edgeJobs' = [edgeJobs EXCEPT ![id] = job]
      /\ UNCHANGED tunnelJobs
  BY <1>2 DEF PutRecord, PutLogStatus
<1>4. edgeJobs'[id] = job /\ \A i \in EdgeJobIDs \ {id} : edgeJobs'[i] = edgeJobs[i]
  BY <1>1, <1>2, <1>3 DEF TypeOK
<1>5. RequestInv(r)
  BY <1>1 DEF SerialInv
<1>6. CASE PutRecord(r)
  <2>1. requests'[r] = Idle
    BY <1>1, <1>6, EndsOne DEF PutRecord
  <2>2. ReachesAgents(id, job, {})
    BY <1>2, <1>5, <1>6 DEF RequestInv, PutRecord, At
  <2>3. ReachesAgents(id, edgeJobs[id], {})'
    BY <1>3, <1>4, <2>2 DEF ReachesAgents
  <2> QED BY <1>1, <1>2, <1>3, <1>4, <2>1, <2>3, SerialKept
<1>7. CASE PutLogStatus(r)
  <2>1. "addlog" \in Steps
    BY DEF Steps
  <2>2. /\ requests'[r] # Idle /\ requests'[r].step = "addlog" /\ requests'[r].id = id
        /\ requests'[r].job = job /\ requests'[r].todo = requests[r].todo
    BY <1>1, <1>2, <1>7, <2>1, GoesOn DEF PutLogStatus
  <2>3. RequestInv(r)'
    BY <1>2, <1>3, <1>4, <1>5, <1>7, <2>2 DEF RequestInv, ReachesAgents, PutLogStatus, At
  <2>4. Unsettled(id)'
    BY <2>2 DEF Unsettled
  <2> QED BY <1>1, <1>2, <1>3, <1>4, <2>2, <2>3, <2>4, SerialKept
<1> QED BY <1>6, <1>7

\* The agent whose logs came is the last to be told.
LEMMA SerialAddLog ==
  ASSUME OneRequest, IInv, SerialInv, NEW r \in Requests, AddLogStatus(r)
  PROVE  SerialInv'
<1>1. TypeOK /\ requests[r] # Idle /\ requests[r].step = "addlog"
  BY InStep DEF IInv, AddLogStatus, At
<1>2. PICK id \in EdgeJobIDs, job \in Jobs :
        /\ id = requests[r].id /\ job = requests[r].job
        /\ job.version \in Nat /\ requests[r].todo \subseteq Endpoints
  BY <1>1, Holding DEF Jobs
<1>3. PICK e \in requests[r].todo : AddEdgeJob(e, id, job)
  BY <1>2 DEF AddLogStatus
<1>4. End(r) /\ UNCHANGED edgeJobs
  BY DEF AddLogStatus
<1>5. /\ edgeJobs[id] = job
      /\ ReachesAgents(id, job, requests[r].todo)
      /\ requests[r].todo = {e}
  BY <1>1, <1>2 DEF SerialInv, RequestInv
<1>6. /\ tunnelJobs'[e][id] = job
      /\ \A f \in Endpoints \ {e} : tunnelJobs'[f] = tunnelJobs[f]
      /\ \A i \in EdgeJobIDs \ {id} : tunnelJobs'[e][i] = tunnelJobs[e][i]
  BY <1>1, <1>2, <1>3, TunnelTold
<1>7. ReachesAgents(id, edgeJobs[id], {})'
  BY <1>2, <1>4, <1>5, <1>6 DEF ReachesAgents
<1>8. requests'[r] = Idle
  BY <1>1, <1>4, EndsOne
<1> QED BY <1>1, <1>2, <1>4, <1>6, <1>7, <1>8, SerialKept

\* A deletion leaves neither tunnels nor record with the job.
LEMMA SerialDeletion ==
  ASSUME OneRequest, IInv, SerialInv, NEW r \in Requests, RemoveEdgeJob(r) \/ DeleteRecord(r)
  PROVE  SerialInv'
<1>1. TypeOK /\ requests[r] # Idle /\ requests[r].step \in {"remove", "delete"}
  BY InStep DEF IInv, RemoveEdgeJob, DeleteRecord, At
<1>2. PICK id \in EdgeJobIDs : id = requests[r].id
  BY <1>1, Holding
<1>3. CASE RemoveEdgeJob(r)
  <2>1. "delete" \in Steps
    BY DEF Steps
  <2>2. requests'[r] # Idle /\ requests'[r].step = "delete" /\ requests'[r].id = id
    BY <1>1, <1>2, <1>3, <2>1, GoesOn DEF RemoveEdgeJob
  <2>3. /\ \A e \in Endpoints : tunnelJobs'[e] = [tunnelJobs[e] EXCEPT ![id] = NoJob]
        /\ UNCHANGED edgeJobs
    BY <1>2, <1>3 DEF RemoveEdgeJob
  <2>4. \A e \in Endpoints : /\ tunnelJobs'[e][id] = NoJob
                             /\ \A i \in EdgeJobIDs \ {id} : tunnelJobs'[e][i] = tunnelJobs[e][i]
    <3> SUFFICES ASSUME NEW e \in Endpoints
                 PROVE  /\ tunnelJobs'[e][id] = NoJob
                        /\ \A i \in EdgeJobIDs \ {id} : tunnelJobs'[e][i] = tunnelJobs[e][i]
      OBVIOUS
    <3>1. tunnelJobs[e] \in [EdgeJobIDs -> Jobs \cup {NoJob}]
      BY <1>1 DEF TypeOK
    <3> QED BY <2>3, <3>1
  <2>5. RequestInv(r)'
    BY <2>2, <2>4 DEF RequestInv
  <2>6. Unsettled(id)'
    BY <2>2 DEF Unsettled
  <2> QED BY <1>1, <1>2, <2>2, <2>3, <2>4, <2>5, <2>6, SerialKept
<1>4. CASE DeleteRecord(r)
  <2>1. requests'[r] = Idle
    BY <1>1, <1>4, EndsOne DEF DeleteRecord
  <2>2. /\ edgeJobs' = [edgeJobs EXCEPT ![id] = NoJob]
        /\ UNCHANGED tunnelJobs
    BY <1>2, <1>4 DEF DeleteRecord
  <2>3. edgeJobs'[id] = NoJob /\ \A i \in EdgeJobIDs \ {id} : edgeJobs'[i] = edgeJobs[i]
    BY <1>1, <1>2, <2>2 DEF TypeOK
  <2>4. \A e \in Endpoints : tunnelJobs[e][id] = NoJob
    BY <1>1, <1>2, <1>4 DEF SerialInv, RequestInv, DeleteRecord, At
  <2>5. ReachesAgents(id, edgeJobs[id], {})'
    BY <2>2, <2>3, <2>4, NoJobDiffers DEF ReachesAgents
  <2> QED BY <1>1, <1>2, <2>1, <2>2, <2>3, <2>5, SerialKept
<1> QED BY <1>3, <1>4

\* At a start the tunnels are what the records say.
LEMMA SerialRestart ==
  ASSUME IInv, Restart
  PROVE  SerialInv'
<1>1. /\ tunnelJobs' = LoadedJobs
      /\ requests' = [r \in Requests |-> Idle]
      /\ UNCHANGED edgeJobs
  BY DEF Restart
<1>2. ASSUME NEW id \in EdgeJobIDs
      PROVE  ReachesAgents(id, edgeJobs[id], {})'
  <2>1. edgeJobs[id].version \in Nat
    BY NoJobDiffers DEF IInv, TypeOK, Jobs
  <2>2. \A e \in Endpoints : tunnelJobs'[e][id] =
          IF edgeJobs[id].meta[e] # "absent" THEN edgeJobs[id] ELSE NoJob
    BY <1>1 DEF LoadedJobs
  <2> QED BY <1>1, <2>1, <2>2, NoJobDiffers DEF ReachesAgents
<1> QED BY <1>1, <1>2 DEF SerialInv

-----------------------------------------------------------------------------
(* The theorems.                                                           *)

\* The invariant holds in every reachable state.
THEOREM Invariance == Spec => []IInv
<1>1. Init => IInv
  BY DEF Init, IInv, TypeOK, RecordsIssued, RequestsIssued, RequestsHaveScripts, PollsFindScripts
<1>2. IInv /\ [Next]_vars => IInv'
  <2> SUFFICES ASSUME IInv, [Next]_vars PROVE IInv'
    OBVIOUS
  <2>1. ASSUME NEW r \in Requests, BeginNext(r) PROVE IInv'
    BY <2>1, BeginKeeps
  <2>2. ASSUME NEW r \in Requests, WriteNext(r) PROVE IInv'
    BY <2>2, StoreScriptKeeps, AddToTunnelsKeeps, PutKeeps, LogsKeep, AddLogStatusKeeps,
       DeletionKeeps DEF WriteNext
  <2>3. CASE Restart
    BY <2>3, RestartKeeps
  <2>4. CASE UNCHANGED vars
    BY <2>4 DEF vars, IInv, TypeOK, RecordsIssued, RequestsIssued, RequestsHaveScripts,
       PollsFindScripts
  <2> QED BY <2>1, <2>2, <2>3, <2>4 DEF Next
<1> QED BY <1>1, <1>2, PTL DEF Spec

\* Every variable keeps its type, log and script files belong to jobs whose
\* identifier was given out.
THEOREM TypeCorrect == Spec => []TypeOK
BY Invariance, PTL DEF IInv

\* No poll fails for want of the script of a job that nobody asked to delete,
\* however requests interleave and wherever the program stops.
THEOREM ScriptsAreFound == Spec => []PollsFindScripts
BY Invariance, PTL DEF IInv

\* What holds when requests come one at a time
LEMMA SerialInvariance ==
  ASSUME OneRequest
  PROVE  Spec => []SerialInv
<1>1. Init => SerialInv
  BY NoJobDiffers DEF Init, SerialInv, ReachesAgents
<1>2. IInv /\ SerialInv /\ [Next]_vars => SerialInv'
  <2> SUFFICES ASSUME IInv, SerialInv, [Next]_vars PROVE SerialInv'
    OBVIOUS
  <2>1. ASSUME NEW r \in Requests, BeginNext(r) PROVE SerialInv'
    BY <2>1, SerialBegins
  <2>2. ASSUME NEW r \in Requests, WriteNext(r) PROVE SerialInv'
    BY <2>2, SerialFiles, SerialAdd, SerialPut, SerialAddLog, SerialDeletion DEF WriteNext
  <2>3. CASE Restart
    BY <2>3, SerialRestart
  <2>4. CASE UNCHANGED vars
    BY <2>4 DEF vars, SerialInv, RequestInv, ReachesAgents, Unsettled
  <2> QED BY <2>1, <2>2, <2>3, <2>4 DEF Next
<1> QED BY <1>1, <1>2, Invariance, PTL DEF Spec

\* When nothing is under way, the agents of a stored job have it in its version: every
\* interruption leaves the record, or the tunnels loaded from it, with the last word.
THEOREM StoredJobsReach ==
  ASSUME OneRequest
  PROVE  Spec => []StoredJobsReachAgents
<1>1. SerialInv => StoredJobsReachAgents
  BY DEF SerialInv, Unsettled, ReachesAgents, StoredJobsReachAgents
<1> QED BY <1>1, SerialInvariance, PTL

\* An agent is never shown an older version of a job than before, unless the program
\* was restarted.
THEOREM JobVersionsAdvance ==
  ASSUME OneRequest
  PROVE  Spec => VersionsAdvance
<1> DEFINE Advance ==
      \A e \in Endpoints, id \in EdgeJobIDs :
        \/ tunnelJobs'[e][id].version >= tunnelJobs[e][id].version
        \/ tunnelJobs'[e][id] = NoJob
        \/ Restart
<1>1. ASSUME IInv, SerialInv, [Next]_vars PROVE Advance
  <2>1. \A e \in Endpoints, id \in EdgeJobIDs : tunnelJobs[e][id].version \in Nat
    BY <1>1, NoJobDiffers DEF IInv, TypeOK, Jobs
  <2>2. ASSUME UNCHANGED tunnelJobs PROVE Advance
    BY <2>1, <2>2
  <2>3. ASSUME NEW r \in Requests, BeginNext(r) PROVE Advance
    BY <2>2, <2>3 DEF BeginNext, EdgeJobCreate, EdgeJobUpdate, EdgeJobTasksCollect,
                      EdgeJobTasksClear, EndpointEdgeJobsLogs, EdgeJobDelete
  <2>4. ASSUME NEW r \in Requests, AddToTunnels(r) \/ AddLogStatus(r) PROVE Advance
    <3>1. requests[r] # Idle /\ requests[r].step \in {"add", "addlog"} /\ TypeOK
      BY <1>1, <2>4, InStep DEF IInv, AddToTunnels, AddLogStatus, At
    <3>2. /\ requests[r].id \in EdgeJobIDs /\ requests[r].job \in Jobs
          /\ requests[r].todo \subseteq Endpoints
      BY <1>1, <3>1, Holding
    <3>3. PICK e \in requests[r].todo : AddEdgeJob(e, requests[r].id, requests[r].job)
      BY <2>4 DEF AddToTunnels, AddLogStatus
    <3>4. /\ tunnelJobs'[e][requests[r].id] = requests[r].job
          /\ \A f \in Endpoints \ {e} : tunnelJobs'[f] = tunnelJobs[f]
          /\ \A i \in EdgeJobIDs \ {requests[r].id} : tunnelJobs'[e][i] = tunnelJobs[e][i]
      BY <3>1, <3>2, <3>3, TunnelTold
    <3>5. tunnelJobs[e][requests[r].id].version <= requests[r].job.version
      BY <1>1, <3>1, <3>2 DEF SerialInv, RequestInv, ReachesAgents
    <3>6. requests[r].job.version \in Nat
      BY <3>2 DEF Jobs
    <3> QED BY <2>1, <3>2, <3>4, <3>5, <3>6
  <2>5. ASSUME NEW r \in Requests, RemoveEdgeJob(r) PROVE Advance
    <3>1. requests[r].id \in EdgeJobIDs
      BY <1>1, <2>5, Holding DEF RemoveEdgeJob, At
    <3>2. \A f \in Endpoints, i \in EdgeJobIDs : tunnelJobs'[f][i] \in {tunnelJobs[f][i], NoJob}
      BY <1>1, <2>5, <3>1 DEF RemoveEdgeJob, IInv, TypeOK
    <3> QED BY <2>1, <3>2
  <2>6. ASSUME NEW r \in Requests, WriteNext(r) PROVE Advance
    BY <2>2, <2>4, <2>5, <2>6 DEF WriteNext, StoreScript, PutRecord, ClearLog, StoreLog,
                                  PutLogStatus, Unlink, DeleteRecord
  <2>7. CASE Restart
    BY <2>7
  <2>8. CASE UNCHANGED vars
    BY <2>2, <2>8 DEF vars
  <2> QED BY <1>1, <2>3, <2>6, <2>7, <2>8 DEF Next
<1>2. IInv /\ SerialInv /\ [Next]_vars => [Advance]_vars
  BY <1>1
<1> QED BY <1>2, Invariance, SerialInvariance, PTL DEF Spec, VersionsAdvance
=============================================================================
