------------------------------ MODULE JobsLane ------------------------------
(***************************************************************************)
(* The Jobs lane of the Activity page (pages/Activity/JobsLane.tsx and     *)
(* index.tsx, over api/hooks.ts, under src/frontend/src), with the console *)
(* it launches workflows through (api_workflow_launch and                  *)
(* _run_launch_operation in src/dmf_cms/main.py, autoscale enabled) and    *)
(* AWX.  One browser page, loaded again, and a console that may restart.   *)
(*                                                                         *)
(* A POST the console sent and lost the answer of may still be carried out *)
(* by AWX, at any later time.                                              *)
(***************************************************************************)
EXTENDS Naturals, Sequences, FiniteSets

CONSTANTS
  Workflow,    \* the workflow templates AWX has
  Lifecycle,   \* those a catalog entry uses as a stage
  MaxOps,      \* bound: launch operations the console creates
  MaxSends,    \* bound: launch requests of the page
  MaxRestarts, \* bound: restarts of the console
  JobEnd,      \* bound: the ways a job ends
  MaxMoves     \* bound: times the lane is left, the page reloaded, a view-as set
               \* or the network back

ASSUME JobsLaneAssumption ==
  /\ Lifecycle \subseteq Workflow
  /\ MaxOps \in Nat /\ MaxSends \in Nat /\ MaxRestarts \in Nat /\ MaxMoves \in Nat
  /\ JobEnd \subseteq {"successful", "failed", "error", "canceled"}

OpId == 1..MaxOps
NoJob == 0
NoWorkflow == "no workflow"

VARIABLES
  op,       \* the console's launch operations
  job,      \* AWX: the job operation o's POST made
  stray,    \* POSTs nobody waits for, which AWX has not carried out yet
  late,     \* those it carried out after all
  restarts,
  url,      \* which lane of the Activity page is open
  list,     \* the page's read of the workflows
  armed,    \* the cards whose confirm panel is open
  sent,     \* the page's launch requests, oldest first
  last,     \* the request the lane's mutation follows
  pending,  \* pendingOps: operations the lane follows
  active,   \* activeJobs: jobs the lane follows
  seenOp, seenJob, \* what the page last read of each
  moves

backend == <<op, job, stray, late, restarts>>
session == <<url, moves>>
lane == <<list, armed, sent, last, pending, active>>
reads == <<seenOp, seenJob>>
vars == <<backend, session, lane, reads>>

-----------------------------------------------------------------------------
(* The console and AWX.                                                    *)

OpState == {"none", "waking", "posting", "launched", "error", "lost"}
JobState == {"none", "running"} \cup JobEnd

\* A launch operation is done once launched: nothing watches its job.
Underway(o) == op[o].state \in {"waking", "posting"}

Live(j) == job[j] = "running"

Fresh == {o \in OpId : op[o].state = "none" /\ \A p \in OpId : p < o => op[p].state # "none"}

ActiveOps(w) == {o \in OpId : op[o].workflow = w /\ Underway(o)}

\* get_or_create: the operation of w under way, or a new one.  The console
\* admits w or the bound is reached.
Taken(w) == IF ActiveOps(w) # {} THEN ActiveOps(w) ELSE Fresh

Admitted(w, o) ==
  op' = IF o \in ActiveOps(w) THEN op
        ELSE [op EXCEPT ![o] = [workflow |-> w, state |-> "waking", job |-> NoJob]]

Becomes(o, state) == op' = [op EXCEPT ![o].state = state]

\* find_active_job_for_template: a live job of the template, or none.
LiveJobs(w) == {j \in OpId : op[j].workflow = w /\ Live(j)}

\* Mutant for OneJobEach: a launch does not look for a running job.
MutantActiveJob(w) == {}

ActiveJob(w) == LiveJobs(w)

\* ensure_awx_awake and the template lookup, either of which may fail, then the
\* live jobs.  Waking and launching differ only in the label on the page.
LooksForJob(o) ==
  /\ op[o].state = "waking"
  /\ \/ \E j \in ActiveJob(op[o].workflow) :
          op' = [op EXCEPT ![o].state = "launched", ![o].job = j]
     \/ ActiveJob(op[o].workflow) = {} /\ Becomes(o, "posting")
     \/ Becomes(o, "error")
  /\ UNCHANGED <<job, stray, late, restarts, session, lane, reads>>

\* launch_job is sent once.
Carried(o) ==
  /\ job[o] = "none" /\ (op[o].state = "posting" \/ o \in stray)
  /\ job' = [job EXCEPT ![o] = "running"]
  /\ late' = IF o \in stray THEN late \cup {o} ELSE late
  /\ stray' = stray \ {o}
  /\ UNCHANGED <<op, restarts, session, lane, reads>>

LaunchAnswered(o) ==
  /\ op[o].state = "posting" /\ job[o] # "none"
  /\ op' = [op EXCEPT ![o].state = "launched", ![o].job = o]
  /\ UNCHANGED <<job, stray, late, restarts, session, lane, reads>>

Unanswered(o) == op[o].state = "posting" /\ job[o] = "none"

LaunchLost(o) ==
  /\ op[o].state = "posting"
  /\ Becomes(o, "error")
  /\ stray' = IF Unanswered(o) THEN stray \cup {o} ELSE stray
  /\ UNCHANGED <<job, late, restarts, session, lane, reads>>

JobEnds(j) ==
  /\ Live(j)
  /\ \E s \in JobEnd : job' = [job EXCEPT ![j] = s]
  /\ UNCHANGED <<op, stray, late, restarts, session, lane, reads>>

\* The store is empty afterwards, the coroutines are gone.
Restart ==
  /\ restarts < MaxRestarts
  /\ restarts' = restarts + 1
  /\ op' = [o \in OpId |-> IF op[o].state = "none" THEN op[o]
                           ELSE [op[o] EXCEPT !.state = "lost"]]
  /\ stray' = stray \cup {o \in OpId : Unanswered(o)}
  /\ UNCHANGED <<job, late, session, lane, reads>>

-----------------------------------------------------------------------------
(* The page: what is on screen.                                            *)

Unfetched == [data |-> "none", failed |-> FALSE, busy |-> FALSE]

\* data: nothing read yet, AWX's templates, no template at all, or a reason
\* AWX did not answer for.
Listing == [data : {"none", "cards", "degraded"}, failed : BOOLEAN, busy : BOOLEAN]

\* A read with nothing to show starts from nothing.
Asked(l) == [l EXCEPT !.busy = TRUE, !.failed = l.failed /\ l.data # "none"]

Branch(l) ==
  IF l.busy /\ l.data = "none" THEN "loading"
  ELSE IF l.failed THEN "retrying"
  ELSE IF l.data = "degraded" THEN "degraded"
  ELSE IF l.data = "none" THEN "empty"
  ELSE "cards"

OnJobs == url = "jobs"
Cards == OnJobs /\ Branch(list) = "cards"

JobWorkflow(j) == op[j].workflow

PendingOf(w) == {o \in pending : op[o].workflow = w}
ActiveOf(w) == {j \in active : JobWorkflow(j) = w}

InFlight(i) == sent[i].stage \in {"sent", "taken"}

\* isPending of the one mutation all the cards share.
Launching(w) == last # 0 /\ sent[last].workflow = w /\ InFlight(last)

\* Mutant for OpensOnceOver: only the request blocks the card, not its run.
MutantLaunchable(w) == ~ Launching(w) /\ w \notin armed

Launchable(w) ==
  ~ Launching(w) /\ PendingOf(w) = {} /\ ActiveOf(w) = {} /\ w \notin armed

\* A request nothing comes of any more.
Past(r, stage) == [r EXCEPT !.stage = stage, !.op = 0, !.page = FALSE, !.card = FALSE]

\* What leaving the lane, or its cards, takes with it.
Unmounted(s, whole) ==
  [i \in DOMAIN s |-> [s[i] EXCEPT !.card = FALSE, !.page = @ /\ ~ whole]]

\* What the page holds once it is at u with the listing l.
Render(u, l) ==
  /\ url' = u /\ list' = l
  /\ IF u # "jobs"
     THEN /\ armed' = {} /\ pending' = {} /\ active' = {} /\ last' = 0
          /\ sent' = Unmounted(sent, TRUE)
     ELSE /\ UNCHANGED <<pending, active, last>>
          /\ IF Branch(l) = "cards" THEN UNCHANGED <<armed, sent>>
             ELSE armed' = {} /\ sent' = Unmounted(sent, FALSE)

-----------------------------------------------------------------------------
(* Navigation and the reads of the role and of the workflows.              *)

Visits(u) ==
  /\ u # url
  /\ OnJobs => moves < MaxMoves
  /\ moves' = IF OnJobs THEN moves + 1 ELSE moves
  /\ Render(u, IF u = "jobs" THEN Asked(list) ELSE list)
  /\ UNCHANGED <<backend, reads>>

\* The page is loaded anew: its state and its cache are gone.
Reload ==
  /\ moves < MaxMoves
  /\ moves' = moves + 1
  /\ list' = IF OnJobs THEN Asked(Unfetched) ELSE Unfetched
  /\ armed' = {} /\ pending' = {} /\ active' = {} /\ last' = 0
  /\ sent' = [i \in DOMAIN sent |-> Past(sent[i], "gone")]
  /\ seenOp' = [o \in OpId |-> "none"] /\ seenJob' = [j \in OpId |-> "none"]
  /\ UNCHANGED <<backend, url>>

\* A cache entry nothing shows is dropped after five minutes.
Collects ==
  /\ ~ OnJobs /\ ~ list.busy /\ list # Unfetched
  /\ list' = Unfetched
  /\ UNCHANGED <<backend, session, armed, sent, last, pending, active, reads>>

\* The network is back, or a view-as invalidated every read.
Refetch ==
  /\ moves < MaxMoves
  /\ moves' = moves + 1
  /\ Render(url, IF OnJobs THEN Asked(list) ELSE list)
  /\ UNCHANGED <<backend, reads>>

ListArrives(data) ==
  /\ list.busy
  /\ Render(url, [data |-> data, failed |-> FALSE, busy |-> FALSE])
  /\ UNCHANGED <<backend, moves, reads>>

ListFails ==
  /\ list.busy
  /\ Render(url, [list EXCEPT !.failed = TRUE, !.busy = FALSE])
  /\ UNCHANGED <<backend, moves, reads>>

\* Mutant for DegradedLifts: the poll goes by the error, not by the reason.
MutantListPolled == OnJobs /\ list.data = "degraded" /\ list.failed

\* refetchInterval asks for another read only of a list with a reason.
ListPolled == OnJobs /\ list.data = "degraded"

ListPolls ==
  /\ ListPolled /\ ~ list.busy
  /\ Render(url, Asked(list))
  /\ UNCHANGED <<backend, moves, reads>>

-----------------------------------------------------------------------------
(* The page: launching a workflow and following it.                        *)

Arms(w) ==
  /\ Cards /\ Launchable(w)
  /\ armed' = armed \cup {w}
  /\ UNCHANGED <<backend, session, list, sent, last, pending, active, reads>>

Cancels(w) ==
  /\ w \in armed /\ ~ Launching(w)
  /\ armed' = armed \ {w}
  /\ UNCHANGED <<backend, session, list, sent, last, pending, active, reads>>

\* The reason was typed.
Confirms(w) ==
  /\ w \in armed /\ ~ Launching(w) /\ Len(sent) < MaxSends
  /\ sent' = Append(sent, [workflow |-> w, stage |-> "sent", op |-> 0,
                           page |-> TRUE, card |-> TRUE])
  /\ last' = Len(sent')
  /\ UNCHANGED <<backend, session, list, armed, pending, active, reads>>

\* api_workflow_launch: no template of a catalog stage.
Takes(i) ==
  /\ sent[i].stage = "sent" /\ sent[i].workflow \notin Lifecycle
  /\ \E o \in Taken(sent[i].workflow) :
       /\ Admitted(sent[i].workflow, o)
       /\ sent' = [sent EXCEPT ![i].stage = "taken", ![i].op = o]
  /\ UNCHANGED <<job, stray, late, restarts, session, list, armed, last,
                 pending, active, reads>>

\* handleLaunch goes on, and then the card's onConfirm, whether or not they are
\* still on screen.
Answered(i) ==
  /\ sent[i].stage = "taken"
  /\ sent' = [sent EXCEPT ![i].stage = "done", ![i].card = FALSE]
  /\ pending' = IF sent[i].page THEN pending \cup {sent[i].op} ELSE pending
  /\ armed' = IF sent[i].card THEN armed \ {sent[i].workflow} ELSE armed
  /\ UNCHANGED <<backend, session, list, last, active, reads>>

\* The console refused, or its answer was lost.
Fails(i) ==
  /\ InFlight(i)
  /\ sent' = [sent EXCEPT ![i] = Past(@, "failed")]
  /\ UNCHANGED <<backend, session, list, armed, last, pending, active, reads>>

\* GET /api/operations, until it says how the launch ended; what it says before
\* only labels the row.  Once the console has lost it the answer is 404.
OpRead(o) ==
  /\ Cards /\ o \in pending /\ seenOp[o] = "none"
  /\ op[o].state \in {"launched", "error"}
  /\ seenOp' = [seenOp EXCEPT ![o] = op[o].state]
  /\ UNCHANGED <<backend, session, lane, seenJob>>

\* A second after the launched operation is seen.
HandsOff(o) ==
  /\ Cards /\ o \in pending /\ seenOp[o] = "launched"
  /\ pending' = pending \ {o} /\ active' = active \cup {op[o].job}
  /\ UNCHANGED <<backend, session, list, armed, sent, last, reads>>

\* Three seconds after the failed one is.
DropsOp(o) ==
  /\ Cards /\ o \in pending /\ seenOp[o] = "error"
  /\ pending' = pending \ {o}
  /\ UNCHANGED <<backend, session, list, armed, sent, last, active, reads>>

\* GET /api/workflows/jobs.
JobRead(j) ==
  /\ Cards /\ j \in active /\ seenJob[j] # job[j] /\ ~ Live(j)
  /\ seenJob' = [seenJob EXCEPT ![j] = job[j]]
  /\ UNCHANGED <<backend, session, lane, seenOp>>

\* Mutant for LaunchesSettle: a canceled job is waited for.
MutantIsTerminal(status) == status \in {"successful", "failed", "error"}

IsTerminal(status) == status \in {"successful", "failed", "error", "canceled"}

\* Two seconds after the job is seen to have ended.
DropsJob(j) ==
  /\ Cards /\ j \in active /\ IsTerminal(seenJob[j])
  /\ active' = active \ {j}
  /\ UNCHANGED <<backend, session, list, armed, sent, last, pending, reads>>

-----------------------------------------------------------------------------
Init ==
  /\ op = [o \in OpId |-> [workflow |-> NoWorkflow, state |-> "none", job |-> NoJob]]
  /\ job = [j \in OpId |-> "none"]
  /\ stray = {} /\ late = {} /\ restarts = 0
  /\ url = "jobs" /\ list = Asked(Unfetched)
  /\ armed = {} /\ sent = <<>> /\ last = 0 /\ pending = {} /\ active = {}
  /\ seenOp = [o \in OpId |-> "none"] /\ seenJob = [j \in OpId |-> "none"]
  /\ moves = 0

\* What goes on by itself.
Goes ==
  \/ \E o \in OpId :
       \/ LooksForJob(o) \/ LaunchAnswered(o) \/ LaunchLost(o)
       \/ JobEnds(o)
       \/ OpRead(o) \/ HandsOff(o) \/ DropsOp(o) \/ JobRead(o) \/ DropsJob(o)

Listed == ListArrives("cards")

Next ==
  \/ Goes \/ Listed
  \/ \E o \in OpId : Carried(o)
  \/ Restart
  \/ \E w \in Workflow : Arms(w) \/ Cancels(w) \/ Confirms(w)
  \/ \E i \in DOMAIN sent : Takes(i) \/ Answered(i) \/ Fails(i)
  \/ \E u \in {"jobs", "history"} : Visits(u)
  \/ Reload \/ Collects \/ Refetch
  \/ ListArrives("degraded") \/ ListFails \/ ListPolls

\* The console's tasks and the page's timers run, calls and jobs end, and a list
\* that is asked for again and again arrives.
Fairness == WF_vars(Goes) /\ WF_vars(ListPolls) /\ SF_vars(Listed)

Spec == Init /\ [][Next]_vars /\ Fairness

-----------------------------------------------------------------------------
(* Properties.                                                             *)

Request == [workflow : Workflow, stage : {"sent", "taken", "done", "failed", "gone"},
            op : 0..MaxOps, page : BOOLEAN, card : BOOLEAN]

\* The state of the page, the console and AWX is well formed: the page follows
\* only operations the console made and jobs AWX has, and the lane's own state
\* ends where the lane does.
TypeOK ==
  /\ op \in [OpId -> [workflow : Workflow \cup {NoWorkflow}, state : OpState,
                      job : 0..MaxOps]]
  /\ job \in [OpId -> JobState] /\ stray \subseteq OpId /\ late \subseteq OpId
  /\ url \in {"jobs", "history"} /\ list \in Listing /\ sent \in Seq(Request)
  /\ last \in 0..Len(sent)
  /\ \A o \in pending : op[o].workflow \in Workflow
  /\ \A j \in active : job[j] # "none"
  /\ armed # {} => Cards
  /\ ~ OnJobs => pending = {} /\ active = {} /\ last = 0

\* A second click on the page, loaded again or not, while a run of the workflow is
\* dispatched or live gets that run instead of a second one, whatever the console
\* forgot in between; only a POST given up on that AWX carried out afterwards can
\* add one.
OneJobEach ==
  \A w \in Workflow : Cardinality(LiveJobs(w) \ late) <= 1

\* The run a request of this mount was answered with.
Over(o) == op[o].state \in {"error", "lost"} \/ (op[o].state = "launched" /\ ~ Live(op[o].job))

\* The lane opens a card's panel for another launch only once every run of the
\* workflow it was told of is over, or the console has forgotten it.
OpensOnceOver ==
  [][ \A w \in armed' \ armed, i \in DOMAIN sent :
        sent[i].workflow = w /\ sent[i].page /\ sent[i].stage = "done"
          => Over(sent[i].op) ]_vars

\* A card that waits for a run is released, whatever AWX and the console answer:
\* unless the console lost the operation before the page had read where it ended.
Waiting == Cards /\ (pending # {} \/ active # {})

Orphaned(o) == o \in pending /\ op[o].state = "lost" /\ seenOp[o] = "none"

LaunchesSettle == Waiting ~> (~ Waiting \/ \E o \in OpId : Orphaned(o))

\* A list AWX did not answer for is read again without the operator.
DegradedLifts ==
  [](Branch(list) = "degraded" /\ OnJobs => <>~(Branch(list) = "degraded" /\ OnJobs))

\* JobsLane.tsx:85: "Workflows could not be loaded right now. Retrying
\* automatically."
RetriesAutomatically ==
  [](Branch(list) = "retrying" /\ OnJobs => <>~(Branch(list) = "retrying" /\ OnJobs))
=============================================================================
