---------------------------- MODULE BrowserViews ----------------------------
(* The browser application at work: the user opens views and starts          *)
(* operations; their requests are answered one by one, in any order, while   *)
(* the user goes on.  What a view reads and offers is given by its record    *)
(* (BrowserProgram); this module is what the controllers have in common: the *)
(* flags that disable buttons, the countdowns of the list operations, the    *)
(* dialogs, the intervals, $state, and the queue of agent targets.           *)
EXTENDS BrowserProgram, SequencesExt, Functions, TLC

CONSTANTS Views,       \* the records of the views
          Routes,      \* the names of the states of the router
          AgentKinds,  \* the kinds whose requests are decorated with an agent target
          Items,       \* the objects of the kind a view is about
          This,        \* the one an edit view shows
          NodeOf,      \* the node each object is on, and a new one is to be on
          MaxVisits,   \* bound: operations start in the first visits only
          MaxJobs,     \* bound: operations started in all
          MaxFaults    \* bound: requests that fail although they could succeed

Requests == [do : {"read", "create", "update", "delete"}, on : STRING,
             failure : {"fails the chain", "is lost", "is passed over"}]

\* The requests of a step that carry an agent target
Agents(step) == {r \in step : r.on \in AgentKinds}

\* The kinds of objects that are under access control
Controlled == {"container", "network", "volume", "config", "secret", "service", "stack", "container_group"}

\* What changes an object and is not passed over, of the requests of an operation
Changes(op) == {r \in UNION Range(op.chain) : r.do # "read" /\ r.failure = "fails the chain"}

\* An operation that gives targets gives one to each of its objects, whose first
\* requests take one each; in a view opened for a node it is about the view's object.
AimsRight(view, op) ==
  op.aims => /\ op.over # "sequence" /\ (view.aims => op.over = "this")
             /\ \E r \in op.chain[1] : Agents(op.chain[1]) = {r}
             /\ \A s \in DOMAIN op.chain : s > 1 => Agents(op.chain[s]) = {}

\* A form that creates an object under access control applies the control as well.
Controls(op) ==
  /\ op.over \in {"new", "copies"}
  /\ \E r \in UNION Range(op.chain) : r.do = "create" /\ r.on \in Controlled
  => \E r \in Changes(op) : r.do = "update" /\ r.on = "resource_control"

\* Whether an operation removes objects of a kind
Removes(op, of) == \E step \in Range(op.chain) : \E r \in step : r.do = "delete" /\ r.on = of

\* One that removes what the view shows hears of every failure and leaves the view, but
\* for the removal of one row; what saves an editor that it leaves behind does so too.
LeavesNoRow(view, op) ==
  Removes(op, view.of) =>
    /\ op.over \in {"row", "each", "sequence", "this", "all"}
    /\ \A step \in Range(op.chain) : \A r \in step : r.failure # "is lost"
    /\ op.over # "row" /\ view.state # "docker.volumes.volume.snapshot" =>
         /\ op.then \in Routes \cup {Reload}
         /\ \A name \in DOMAIN view.ops : view.edits /\ view.ops[name].saves =>
              view.ops[name].over \in {"new", "this"} /\ view.ops[name].then \in Routes \cup {Reload}

\* What all controllers respect: only what was read is read again; a flag that a
\* success leaves up is that of a view that is left for good, and of which nobody is
\* asked about changes; what is submitted is one object, and is marked as clean.  Of
\* the exceptions each is one view's or one operation's.
Respects(view, name) ==
  LET op == view.ops[name]
  IN  /\ op.chain \in Seq(SUBSET Requests) \ {<<>>}
      /\ \A s \in DOMAIN op.chain : IsFiniteSet(op.chain[s]) /\ op.chain[s] # {}
      /\ AimsRight(view, op) /\ Controls(op) /\ LeavesNoRow(view, op)
      /\ op.then = Reread => view.load # <<>>
      /\ op.lowered # "finally" => op.then \in Routes \cup {Reload} /\ (view.edits => op.saves)
      /\ op.submits => op.over \notin {"row", "each", "sequence"}
      /\ op.submits /\ view.edits => op.saves \/ view.state = "kubernetes.configurations.configuration"
      /\ op.lends \in {"never", "until it ends", "while it reads"} \/ (op.lends = "until it succeeds" /\ name = "duplicateStack")
IsView(view) ==
  /\ view.load \in Seq(SUBSET Requests) /\ \A s \in DOMAIN view.load : IsFiniteSet(view.load[s])
  /\ view.aims => view.load # <<>> /\ Agents(view.load[1]) # {}
  /\ Reread \notin view.lost \cup {view.next}
  /\ \A name \in DOMAIN view.ops : Respects(view, name)

ASSUME ViewsAssumption == /\ This \in Items /\ "new" \notin Items /\ IsFiniteSet(Items)
                          /\ Items \cup {"new"} = DOMAIN NodeOf
                          /\ MaxVisits \in Nat /\ MaxJobs \in Nat /\ MaxFaults \in Nat
                          /\ Routes \cap {Stay, Reload, Reread} = {}
                          /\ \A view \in Views : IsView(view)

VARIABLES visits,   \* the visits so far, the last one is open: the scopes of the controllers
          jobs,     \* the operations started so far
          dialog,   \* the dialog that is open, if any
          done,     \* what requests have changed: <<do, kind, object>>
          aimed,    \* HttpRequestHelper: the queue of agent targets and the latest value
          endpoint, \* EndpointProvider: the endpoint requests go to, the user's own or a lent one
          faults
vars == <<visits, jobs, dialog, done, aimed, endpoint, faults>>

Elsewhere == View("none", "portainer.roles", "none", <<>>, NoOperations)
ViewAt    == [s \in Routes |-> IF \E v \in Views : v.state = s THEN CHOOSE v \in Views : v.state = s ELSE Elsewhere]
None   == "none"
Now    == Len(visits)
Here   == visits[Now]
ViewOf(j) == visits[jobs[j].visit].view
OpOf(j)   == ViewOf(j).ops[jobs[j].op]
Exists(kind, i) == <<"delete", kind, i>> \notin done
Running(j) == ~jobs[j].over

(***************************************************************************)
(* HttpRequestHelper and the request interceptor.  The requests of one     *)
(* turn of the browser take the targets that were pushed in it, in order;  *)
(* a request that finds the queue empty repeats the latest target.         *)
(***************************************************************************)
\* Mutant: the latest target for all.
HeaderLatest(a) == IF a.queue = <<>> THEN a.last ELSE Last(a.queue)
\* The target of the next request
Header(a) == IF a.queue = <<>> THEN a.last ELSE Head(a.queue)
Shift(a)  == [queue |-> IF a.queue = <<>> THEN <<>> ELSE Tail(a.queue),
              last  |-> IF Len(a.queue) = 1 THEN Head(a.queue) ELSE a.last]
\* The targets once n requests have taken theirs
After(a, n) == LET left[k \in 0 .. n] == IF k = 0 THEN a ELSE Shift(left[k - 1]) IN left[n]

\* Called for each of some objects
setPortainerAgentTargetHeader(a, items) ==
  [a EXCEPT !.queue = @ \o [k \in DOMAIN items |-> NodeOf[items[k]]]]
resetAgentHeaders == [queue |-> <<>>, last |-> None]

\* What the requests of a step are sent as for each of some objects, one after the
\* other, and what is left of the targets
Decorated(a, items, step) ==
  LET calls == SetToSeq(Agents(step))
      Before(k, r) == (k - 1) * Len(calls) + (CHOOSE n \in DOMAIN calls : calls[n] = r) - 1
      Node(k, r)   == IF r \in Agents(step) THEN Header(After(a, Before(k, r))) ELSE None
  IN  [a    |-> After(a, Len(items) * Len(calls)),
       sent |-> {[do |-> r.do, on |-> r.on, failure |-> r.failure, item |-> items[k], node |-> Node(k, r)] :
                   k \in DOMAIN items, r \in step}]

(***************************************************************************)
(* Visits.  Entering a state builds its controller: a scope of its own,    *)
(* with no flag raised.  Of a scope that is left only what may still act   *)
(* is kept: its interval, and the reading it waits for.                    *)
(***************************************************************************)

\* Mutant: a view waits for an answer even if it reads nothing.
FirstStageAlways(view) == 1
FirstStage(view) == IF view.load = <<>> THEN 0 ELSE 1
Scope(view) ==
  [view |-> view, stage |-> FirstStage(view),
   rows |-> {}, unread |-> FALSE, flags |-> {}, dirty |-> FALSE, timer |-> FALSE, late |-> FALSE,
   blank |-> view.waits # "no" /\ view.load # <<>>]

\* Mutant: nothing is done on $destroy.
LeftAlone(scope) == [scope EXCEPT !.rows = {}, !.unread = FALSE, !.flags = {}, !.dirty = FALSE, !.blank = FALSE]
\* $destroy cancels the interval, if it was set by then
Left(scope) ==
  LET view == scope.view
  IN  [scope EXCEPT !.rows = {}, !.unread = FALSE, !.flags = {}, !.dirty = FALSE, !.timer = FALSE, !.blank = FALSE,
                    !.stage = IF view.polls # "no" \/ view.lost # {Stay} \/ view.next # Stay THEN @ ELSE 0]

\* The reads of the first step of a view, for the queue of targets
Opening(view) ==
  LET a == IF view.aims THEN setPortainerAgentTargetHeader(resetAgentHeaders, <<This>>) ELSE resetAgentHeaders
  IN  IF view.load = <<>> \/ ~view.aims THEN a ELSE Decorated(a, <<This>>, view.load[1]).a

\* A transition of $state from the scopes vs: the headers are reset before it
Entering(vs, view) ==
  /\ visits' = Append([vs EXCEPT ![Len(vs)] = Left(@)], Scope(view))
  /\ aimed'  = Opening(view)
  /\ dialog' = {}

\* $state.go and $state.reload from a controller, open or not; its scopes are
\* vs.  A state the router does not know leads nowhere, and nobody is told.
GoingOn(vs, target, a) ==
  CASE target = Reload     -> Entering(vs, vs[Len(vs)].view)
    [] target = Reread     -> /\ visits' = [vs EXCEPT ![Len(vs)].stage = 1, ![Len(vs)].unread = FALSE] /\ aimed' = a /\ UNCHANGED dialog
    [] target \in Routes   -> Entering(vs, ViewAt[target])
    [] OTHER               -> visits' = vs /\ aimed' = a /\ UNCHANGED dialog

ShownBy(view) ==
  CASE view.shows = "list" -> {i \in Items : Exists(view.of, i)}
    [] view.shows = "one"  -> {i \in {This} : Exists(view.of, i)}
    [] OTHER               -> {}

(***************************************************************************)
(* The reading of a view: one step after the other, each answered as a     *)
(* whole.  The last answer shows the objects, but for those whose failure  *)
(* was passed over, and starts the interval, also in a view that was left  *)
(* meanwhile.                                                              *)
(***************************************************************************)
LoadGoesOn(v, unread) ==
  LET view == visits[v].view
      last == visits[v].stage = Len(view.load)
      vs   == [visits EXCEPT ![v].stage  = IF last THEN 0 ELSE @ + 1,
                             ![v].unread = unread,
                             ![v].rows   = IF ~last \/ v # Now THEN @ ELSE IF unread THEN {} ELSE ShownBy(view),
                             ![v].timer  = @ \/ (last /\ view.polls = "once loaded"),
                             ![v].late   = last /\ v # Now,
                             ![v].blank  = @ /\ ~last]
  IN  \E to \in {Stay} \cup (IF last THEN {view.next} ELSE {}) : GoingOn(vs, to, aimed)

LoadAnswered(v) ==
  /\ visits[v].stage > 0
  /\ LoadGoesOn(v, visits[v].unread)
  /\ UNCHANGED <<jobs, done, endpoint, faults>>


\* Mutant: only a success makes any view appear.
BlankUnlessRead(view) == view.waits # "no"
\* Whether a view whose reading has failed is blank for good
BlankForGood(view) == view.waits = "success"
LoadFailed(v) ==
  LET view == visits[v].view
      step == view.load[visits[v].stage]
  IN  /\ visits[v].stage > 0
      /\ \/ faults < MaxFaults /\ faults' = faults + 1
         \/ view.shows = "one" /\ ~Exists(view.of, This) /\ UNCHANGED faults
      /\ \E r \in step :
           IF r.failure = "is passed over"
           THEN LoadGoesOn(v, visits[v].unread \/ r.on = view.of)
           ELSE \E to \in view.lost :
                  GoingOn([visits EXCEPT ![v].stage = 0, ![v].blank = @ /\ BlankForGood(view)], to, aimed)
      /\ UNCHANGED <<jobs, done, endpoint>>

\* The interval of a view reads again, and most stop themselves when that fails
Polled(v) ==
  /\ visits[v].timer /\ visits[v].view.givesUp /\ faults < MaxFaults
  /\ faults' = faults + 1
  /\ visits' = [visits EXCEPT ![v].timer = FALSE]
  /\ UNCHANGED <<jobs, dialog, done, aimed, endpoint>>

\* The user turns the automatic refresh on or off
Toggle ==
  /\ Here.view.polls = "on demand" /\ ~Here.blank /\ Now <= MaxVisits
  /\ visits' = [visits EXCEPT ![Now].timer = ~@]
  /\ UNCHANGED <<jobs, dialog, done, aimed, endpoint, faults>>

(***************************************************************************)
(* Starting an operation, from a button that is not disabled.              *)
(***************************************************************************)
\* What an operation may be about; images of several nodes are not downloaded together
Chosen(op) ==
  CASE op.over = "new"    -> {{"new"}}
    [] op.over = "copies" -> {Items}
    [] op.over = "row"    -> {{i} : i \in Here.rows}
    [] op.over = "this"   -> IF This \in Here.rows THEN {{This}} ELSE {}
    [] OTHER              -> {items \in (SUBSET Here.rows) \ {{}} :
                                op.aims /\ op.over = "all" => \A i, k \in items : NodeOf[i] = NodeOf[k]}

Enabled(op) == dialog = {} /\ op.flag \notin Here.flags

\* Mutant: the first of the objects, and no other in its turn.
BegunFirst(op, items) == <<Head(SetToSeq(items))>>
\* The objects an operation begins with: one after the other, or all at once
Begun(op, items) ==
  LET order == SetToSeq(items) IN IF op.over = "sequence" THEN <<Head(order)>> ELSE order

\* The targets as an operation leaves them before its first requests: what is done
\* together gives the node of the first of the objects
Targets(op, begun) ==
  IF ~op.aims THEN aimed
  ELSE setPortainerAgentTargetHeader(aimed, IF op.over = "all" THEN <<begun[1]>> ELSE begun)

\* The first requests of an operation, for the objects it begins with
FirstSent(op, begun) == Decorated(Targets(op, begun), begun, op.chain[1])

Started(name, items) ==
  LET op    == Here.view.ops[name]
      begun == Begun(op, items)
      out   == FirstSent(op, begun)
  IN  /\ Len(jobs) < MaxJobs /\ Now <= MaxVisits
      /\ jobs' = Append(jobs,
           [op |-> name, visit |-> Now, over |-> FALSE, deaf |-> FALSE, asked |-> FALSE,
            at  |-> [i \in items |-> IF i \in Range(begun) THEN 1 ELSE 0],
            out |-> [i \in items |-> {r \in out.sent : r.item = i}],
            res |-> [i \in items |-> "runs"]])
      /\ aimed' = out.a
      /\ visits' = [visits EXCEPT ![Now].flags = @ \cup ({op.flag} \ {NoFlag})]
      /\ endpoint' = IF op.lends # "never" THEN "lent" ELSE endpoint
      /\ UNCHANGED <<done, faults>>

Start == \E name \in DOMAIN Here.view.ops :
  LET op == Here.view.ops[name]
  IN  /\ FALSE \in op.asks /\ Enabled(op)
      /\ \E items \in Chosen(op) : Started(name, items)
      /\ UNCHANGED dialog

\* An operation that asks first: the rows are those ticked when the dialog opened
Ask == \E name \in DOMAIN Here.view.ops :
  LET op == Here.view.ops[name]
  IN  /\ TRUE \in op.asks /\ Enabled(op) /\ Len(jobs) < MaxJobs /\ Now <= MaxVisits
      /\ \E items \in Chosen(op) : dialog' = {[op |-> name, items |-> items]}
      /\ UNCHANGED <<visits, jobs, done, aimed, endpoint, faults>>

Confirm == \E d \in dialog : Started(d.op, d.items) /\ dialog' = {}
Cancel  == dialog # {} /\ dialog' = {} /\ UNCHANGED <<visits, jobs, done, aimed, endpoint, faults>>

(***************************************************************************)
(* Answers.  A request about an object that is gone fails.                 *)
(***************************************************************************)
CanSucceed(j, r) ==
  r.on = ViewOf(j).of /\ r.do \in {"update", "delete"} => Exists(r.on, r.item)

\* One of the objects of job b is through, or has failed: the job after it,
\* whether it is through, and the next object where they take turns
Settled(b, op, i, result) ==
  LET job     == [b EXCEPT !.res[i] = result]
      waiting == {k \in DOMAIN job.at : job.at[k] = 0}
      all     == \A k \in DOMAIN job.res : job.res[k] # "runs"
  IN  [job |-> [job EXCEPT !.over = @ \/ all \/ (op.over = "all" /\ result = "failed")],
       next |-> IF op.over = "sequence" /\ waiting # {} THEN {Head(SetToSeq(waiting))} ELSE {}]

\* Where the operation leads after result: the list operations end when all have settled
Leads(op, job, result, before) ==
  CASE op.over \in {"row", "each", "sequence"}    -> IF job.over THEN op.then ELSE Stay
    [] op.over = "copies" /\ result = "done"      -> op.then
    [] job.over /\ ~before /\ result = "done"     -> op.then
    [] OTHER                                      -> Stay

\* Mutant: a failure leaves the flag raised.
LowersIfDone(op, job, result) == op.lowered = "finally" /\ result = "done" /\ (job.over \/ op.over = "copies")
\* Whether the flag comes down once result is known
Lowers(op, job, result) == (op.lowered = "finally" \/ result = "failed") /\ (job.over \/ op.over = "copies")

\* Mutant: the editor is not marked as clean.
DirtyStill(scope, op, result) == scope.dirty
\* Whether there are changes to discard once result is known
Dirty(scope, op, result) == scope.dirty /\ ~(op.saves /\ result = "done")

\* Mutant: a failure leaves the other identifier.
GivenBackIfDone(op, result) == op.lends # "never" /\ result = "done"
\* Whether the identifier of the user's endpoint is back once result is known
GivenBack(op, result) ==
  op.lends \in {"until it ends", "while it reads"} \/ (op.lends = "until it succeeds" /\ result = "done")

\* Mutant: the row of what was removed stays.
FreedKeepingRow(scope, op, job, result, i) ==
  [scope EXCEPT !.flags = IF Lowers(op, job, result) THEN @ \ ({op.flag} \cup op.lowers) ELSE @,
                !.dirty = Dirty(scope, op, result)]
\* The scope of the operation once result is known: the row goes, the flag comes down
Freed(scope, op, job, result, i) ==
  [scope EXCEPT
     !.rows = IF result = "done" /\ op.over \in {"row", "each", "sequence"}
                 /\ \E s \in DOMAIN op.chain : \E r \in op.chain[s] : r.do = "delete"
              THEN @ \ {i} ELSE @,
     !.flags = IF Lowers(op, job, result) THEN @ \ ({op.flag} \cup op.lowers) ELSE @,
     !.dirty = Dirty(scope, op, result)]

\* Those of the object whose turn it is, if any
Following(op, next) ==
  IF next = {} THEN [a |-> aimed, sent |-> {}] ELSE FirstSent(op, SetToSeq(next))

Settles(j, i, result, b) ==
  LET op    == OpOf(j)
      s     == Settled(b, op, i, result)
      begun == Following(op, s.next)
      vs    == IF jobs[j].visit = Now
               THEN [visits EXCEPT ![Now] = Freed(@, op, s.job, result, i)] ELSE visits
      leads == Leads(op, s.job, result, jobs[j].over)
      to    == IF leads = Reread /\ jobs[j].visit # Now THEN Stay ELSE leads
      asks  == to \notin {Stay, Reread} /\ vs[Now].dirty
  IN  /\ jobs' = [jobs EXCEPT ![j] =
                    [s.job EXCEPT !.asked = asks /\ jobs[j].visit = Now,
                                  !.at  = [k \in DOMAIN @ |-> IF k \in s.next THEN 1 ELSE @[k]],
                                  !.out = [k \in DOMAIN @ |-> IF k \in s.next THEN begun.sent ELSE @[k]]]]
      \* uiCanExit: the user discards the changes, or stays
      /\ \/ GoingOn(vs, to, begun.a)
         \/ asks /\ GoingOn(vs, Stay, begun.a)
      /\ endpoint' = IF GivenBack(op, result) THEN "own" ELSE endpoint

\* Mutant: the last step is taken for the end of the chain.
ThroughEarly(op, step) == step >= Len(op.chain)
Through(op, step) == step > Len(op.chain)

\* The answer r of object i of job j is in, and nothing but the next step is to be done about it
Counted(j, i, r) ==
  LET op   == OpOf(j)
      left == jobs[j].out[i] \ {r}
      b    == [jobs[j] EXCEPT !.out[i] = left]
      step == jobs[j].at[i] + 1
      next == Decorated(aimed, <<i>>, op.chain[step])
  IN  IF left # {} \/ jobs[j].deaf \/ jobs[j].res[i] = "failed"
      THEN jobs' = [jobs EXCEPT ![j] = b] /\ UNCHANGED <<visits, dialog, aimed, endpoint>>
      ELSE IF Through(op, step) THEN Settles(j, i, "done", b)
      ELSE /\ jobs' = [jobs EXCEPT ![j] = [b EXCEPT !.at[i] = step, !.out[i] = next.sent]]
           /\ aimed' = next.a
           /\ endpoint' = IF op.lends = "while it reads" /\ \A q \in op.chain[step] : q.do # "read"
                          THEN "own" ELSE endpoint
           /\ UNCHANGED <<visits, dialog>>

Succeeded(j, i, r) ==
  /\ CanSucceed(j, r)
  /\ done' = IF r.do = "read" THEN done ELSE done \cup {<<r.do, r.on, i>>}
  /\ Counted(j, i, r)
  /\ UNCHANGED faults

\* The other requests of the step stay under way, and nobody looks at their answers
Failed(j, i, r) ==
  LET b == [jobs[j] EXCEPT !.out[i] = @ \ {r}]
  IN  /\ IF CanSucceed(j, r) THEN faults < MaxFaults /\ faults' = faults + 1 ELSE UNCHANGED faults
      /\ UNCHANGED done
      /\ \/ /\ jobs[j].res[i] = "failed" \/ r.failure = "is passed over"
            /\ Counted(j, i, r)
         \/ /\ jobs[j].res[i] # "failed" /\ r.failure = "fails the chain"
            /\ Settles(j, i, "failed", b)
         \/ /\ jobs[j].res[i] # "failed" /\ r.failure = "is lost"
            /\ jobs' = [jobs EXCEPT ![j] = [b EXCEPT !.deaf = TRUE]]
            /\ UNCHANGED <<visits, dialog, aimed, endpoint>>

Answered == \E j \in DOMAIN jobs : \E i \in DOMAIN jobs[j].out : \E r \in jobs[j].out[i] :
              Succeeded(j, i, r) \/ Failed(j, i, r)
Loaded   == \E v \in DOMAIN visits : LoadAnswered(v) \/ LoadFailed(v)

\* The user types into the editor of the view
Edit ==
  /\ Here.view.edits /\ ~Here.dirty /\ Now <= MaxVisits
  /\ visits' = [visits EXCEPT ![Now].dirty = TRUE]
  /\ UNCHANGED <<jobs, dialog, done, aimed, endpoint, faults>>

\* The user goes elsewhere, through the menu
Leave ==
  /\ Here.view # Elsewhere /\ Now <= MaxVisits
  /\ Entering(visits, Elsewhere)
  /\ UNCHANGED <<jobs, done, endpoint, faults>>

Init ==
  /\ \E view \in Views : visits = <<Scope(view)>> /\ aimed = Opening(view)
  /\ jobs = <<>> /\ dialog = {} /\ done = {} /\ endpoint = "own" /\ faults = 0

Next == \/ Start \/ Ask \/ Confirm \/ Cancel \/ Answered \/ Loaded \/ Edit \/ Toggle \/ Leave
        \/ \E v \in DOMAIN visits : Polled(v)

\* Every request is answered or fails in the end; what the user does is free
Spec == Init /\ [][Next]_vars /\ WF_vars(Answered) /\ WF_vars(Loaded)
-----------------------------------------------------------------------------
(* Properties                                                                *)

\* Shapes of the state
TypeOK ==
  /\ \A v \in DOMAIN visits : /\ visits[v].rows \subseteq Items
                              /\ visits[v].stage \in 0 .. Len(visits[v].view.load)
  /\ \A j \in DOMAIN jobs : /\ DOMAIN jobs[j].out = DOMAIN jobs[j].res /\ jobs[j].visit \in DOMAIN visits
                            /\ Range(jobs[j].res) \subseteq {"runs", "done", "failed"}
  /\ Cardinality(dialog) <= 1 /\ faults \in 0 .. MaxFaults

\* A raised flag belongs to an operation of the open view that still runs: no
\* path through a controller leaves its buttons disabled
FlagComesDown ==
  \A f \in Here.flags : \E j \in DOMAIN jobs : Running(j) /\ jobs[j].visit = Now /\ OpOf(j).flag = f

\* No path through the loading of a view leaves it blank, but where the code
\* takes the failure for granted: the login, whose form appears when the public
\* settings have come, paginated lists, whose promise only a success settles, and
\* a Kubernetes node, whose controller throws on its way without the node
ViewsGetReady == Here.blank => Here.stage > 0 \/ Here.view.waits = "success"

\* When nothing is under way, the rows of the open view are objects that exist:
\* each removal takes its rows with it or reads the list again.  Only what has
\* reported a failure may leave an object behind that is gone: several rows
\* removed together, a removal that has more steps (a service whose webhook could
\* not be deleted, a file whose folder could not be listed again); a user who
\* keeps the changes of an editor stays with an object that is gone, and so does
\* one who removes a Storidge snapshot in its view, which leads nowhere.
RowsExist ==
  /\ ~Here.dirty /\ Here.view.state # "docker.volumes.volume.snapshot"
  /\ \A j \in DOMAIN jobs : /\ \A i \in DOMAIN jobs[j].out : jobs[j].out[i] = {}
                            /\ jobs[j].visit = Now
                            /\ ~(OpOf(j).over \in {"all", "this", "row"} /\ "failed" \in Range(jobs[j].res))
  => \A i \in Here.rows : Exists(Here.view.of, i)

\* As long as a view is open, the agent target of its requests is the node of
\* the object each is about, or the node the view was opened for, however the
\* operations on several objects interleave: "sequential HTTP requests" do not "end up using the same header
\* value" (httpRequestHelper.js).  The later requests of a view that was left
\* find the targets of another.
EachToItsNode ==
  \A j \in {k \in DOMAIN jobs : jobs[k].visit = Now} : \A i \in DOMAIN jobs[j].out : \A r \in jobs[j].out[i] :
    r.on \in AgentKinds /\ (OpOf(j).aims \/ ViewOf(j).aims) => r.node = NodeOf[IF OpOf(j).aims THEN i ELSE This]

\* An interval outlives its view only if it was set by an answer that came
\* after the view had been left
PollingStops == \A v \in DOMAIN visits : visits[v].timer /\ v < Now => visits[v].late

\* A form that has reported the creation of an object under access control has
\* applied the access control the user asked for
CreatedIsControlled ==
  \A j \in DOMAIN jobs : \A i \in DOMAIN jobs[j].res :
    /\ jobs[j].res[i] = "done" /\ OpOf(j).over \in {"new", "copies"}
    /\ \E s \in DOMAIN OpOf(j).chain : \E r \in OpOf(j).chain[s] : r.do = "create" /\ r.on \in Controlled
    => <<"update", "resource_control", i>> \in done

\* What has been saved is not taken for changes to discard: the submission of an
\* editor that succeeded leaves its view without the question of uiCanExit.  Only
\* the view of a Kubernetes configuration asks about the "unsaved changes" it has
\* just saved: nothing but a new controller marks its editor as clean.
NotAskedAfterSaving ==
  \A j \in DOMAIN jobs :
    jobs[j].asked /\ OpOf(j).submits => ViewOf(j).state = "kubernetes.configurations.configuration"

\* The identifier of the user's endpoint is restored whatever becomes of the
\* operation that lent another one; only a duplication of a stack that failed
\* leaves the browser with the identifier of the endpoint it was meant for
EndpointRestored ==
  endpoint = "lent" => \E j \in DOMAIN jobs :
    \/ OpOf(j).lends # "never" /\ Running(j)
    \/ jobs[j].op = "duplicateStack" /\ "failed" \in Range(jobs[j].res)

\* Every operation ends, with its success or its failure told, unless the
\* failure is of a request whose promise the chain has lost: operations are
\* started no more than MaxJobs times, and so there comes a time when all have ended
EveryJobEnds == []<>(\A j \in DOMAIN jobs : jobs[j].over \/ jobs[j].deaf)
=============================================================================
