--------------------------- MODULE BrowserProgram ---------------------------
(* How the controllers of the browser application are written down: a view  *)
(* is what it reads when it opens and the operations it offers; an          *)
(* operation is the chain of requests it sends and what it does around      *)
(* them.  BrowserViews gives these records their meaning.                   *)
EXTENDS Sequences, Naturals, FiniteSetsExt

Stay   == "stay"      \* the view stays as it is
Reload == "reload"    \* $state.reload(): the view is built anew
Reread == "initView"  \* the open view reads its objects again

(***************************************************************************)
(* Chains of requests: a sequence of steps, each a set of requests sent at *)
(* once; a step starts when every request of the one before has succeeded. *)
(* A failure fails the chain, or is lost: the promise is not part of the   *)
(* chain and nobody hears of it; or it is passed over: caught and noted on *)
(* the spot (also by Promise.allSettled), and the chain goes on.  Of reads *)
(* that are caught together the later ones are sent all the same.          *)
(***************************************************************************)
Request(do, on) == <<{[do |-> do, on |-> on, failure |-> "fails the chain"]}>>
Read(on)   == Request("read", on)
Create(on) == Request("create", on)
Update(on) == Request("update", on)
Delete(on) == Request("delete", on)
Nothing    == <<>>

WithFailure(chain, failure) == [s \in DOMAIN chain |-> {[r EXCEPT !.failure = failure] : r \in chain[s]}]
Unheeded(chain)   == WithFailure(chain, "is lost")
PassedOver(chain) == WithFailure(chain, "is passed over")

\* $q.all, Promise.all: the chains of a set, side by side
AtOnce(chains) ==
  [s \in 1 .. Max({Len(c) : c \in chains}) |-> UNION {c[s] : c \in {x \in chains : s <= Len(x)}}]

(***************************************************************************)
(* Operations.  "over" says what one is about: a new object, one on each   *)
(* of several nodes ("copies"), the object of the view, one of the rows, or *)
(* the ticked rows: each at once and on its own ("each"), one after the    *)
(* other ("sequence"), or together, where the first failure fails the      *)
(* operation ("all").  "flag" is raised while it runs, disables what       *)
(* raises the same flag, and is lowered "finally" or on a "failure" only;  *)
(* "asks" says whether a dialog comes first (both, where that depends on   *)
(* the input), "aims" that the node of each object is given to the agent,  *)
(* "lends" that the browser takes on another endpoint's identifier, until  *)
(* it ends, until it succeeds or while it reads, "submits" that it sends   *)
(* the editor of the view and "saves" that success marks the editor as     *)
(* clean, "then" where it leads.                                           *)
(***************************************************************************)
NoFlag == "no flag"
Operation(over, chain) ==
  [over |-> over, chain |-> chain, asks |-> {FALSE}, flag |-> NoFlag, lowered |-> "finally",
   lowers |-> {}, aims |-> FALSE, lends |-> "never", submits |-> FALSE, saves |-> FALSE, then |-> Stay]
New(chain)      == Operation("new", chain)
Copies(chain)   == Operation("copies", chain)
OnIt(chain)     == Operation("this", chain)
OnRow(chain)    == Operation("row", chain)
Each(chain)     == Operation("each", chain)
InTurn(chain)   == Operation("sequence", chain)
Together(chain) == Operation("all", chain)

Asked(op)       == [op EXCEPT !.asks = {TRUE}]
MayAsk(op)      == [op EXCEPT !.asks = BOOLEAN]
Raising(op, flag) == [op EXCEPT !.flag = flag]
Flagged(op)     == Raising(op, "actionInProgress")
UntilFailure(op) == [op EXCEPT !.lowered = "failure"]
FlaggedUntilFailure(op) == UntilFailure(Flagged(op))
Lowering(op, flag) == [op EXCEPT !.lowers = {flag}]   \* a flag it has not raised
Aimed(op)       == [op EXCEPT !.aims = TRUE]
LendingUntilDone(op) == [op EXCEPT !.lends = "until it succeeds"]
Lending(op)     == [op EXCEPT !.lends = "until it ends"]
LendingToRead(op) == [op EXCEPT !.lends = "while it reads"]
Submitting(op)  == [op EXCEPT !.submits = TRUE]
Saving(op)      == [Submitting(op) EXCEPT !.saves = TRUE]
Then(op, state) == [op EXCEPT !.then = state]

(***************************************************************************)
(* Views.  "shows" is the list of the objects of a kind, one of them, or   *)
(* none; "lost" is where a failure to load may lead and "next" where       *)
(* success may, "waits" that the view is blank until it has loaded ("success") or  *)
(* the attempt has ended ("finally"), "polls" that an interval repeats the *)
(* reading until the view is left, from the loading on or when the user    *)
(* asks for it, and "givesUp" that its first failure ends it, "edits"     *)
(* that the view holds an editor and asks before changes in it are         *)
(* discarded (uiCanExit).                                                  *)
(***************************************************************************)
View(shows, state, of, load, ops) ==
  [shows |-> shows, state |-> state, of |-> of, load |-> load, ops |-> ops,
   lost |-> {Stay}, next |-> Stay, waits |-> "no", aims |-> FALSE, polls |-> "no", givesUp |-> TRUE,
   edits |-> FALSE]
ListView(state, of, load, ops) == View("list", state, of, load, ops)
OneView(state, of, load, ops)  == View("one", state, of, load, ops)
FormView(state, load, ops)     == View("none", state, "none", load, ops)

NoOperations == [x \in {} |-> x]
LostTo(view, state) == [view EXCEPT !.lost = {state}]
MayBeLostTo(view, state) == [view EXCEPT !.lost = {Stay, state}]
OnTo(view, state)   == [view EXCEPT !.next = state]
Waiting(view)       == [view EXCEPT !.waits = "finally"]
WaitingForSuccess(view) == [view EXCEPT !.waits = "success"]
AimedView(view)     == [view EXCEPT !.aims = TRUE]
Editing(view)       == [view EXCEPT !.edits = TRUE]
Polling(view)       == [view EXCEPT !.polls = "once loaded"]
PollingOnDemand(view) == [view EXCEPT !.polls = "on demand"]
Unstopped(view)     == [view EXCEPT !.givesUp = FALSE]
=============================================================================
