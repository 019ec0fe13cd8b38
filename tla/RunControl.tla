----------------------------- MODULE RunControl -----------------------------
(***************************************************************************)
(* The dispatch, tracking and recovery of AWX runs by the console, in its  *)
(* asynchronous mode (settings.awx_autoscale.enabled), src/src/dmf_cms/     *)
(* main.py: the endpoints that start a deploy, teardown, rollback,         *)
(* finalise-purge or generic launch, the background task each of them      *)
(* spawns, the watcher that follows the AWX job to its end, the automatic  *)
(* rollback of a failed deploy, and the monitoring-drain verification of a *)
(* rollback.  All of them run on one event loop over one OperationStore,   *)
(* so the code between two awaits is one action.                           *)
(*                                                                         *)
(* AWX is external: an AWX job is known by the id of the operation whose   *)
(* launch created it.  A launch made in AWX itself takes an id of its own, *)
(* under which the store never holds an operation.                         *)
(***************************************************************************)
EXTENDS OperationStore

CONSTANTS
  Operator,      \* concurrent verify-drain requests
  AutoRollback,  \* settings.l3.auto_rollback
  Kinds,         \* bound: the actions operators ask for
  Foreign,       \* bound: whether deploys are also launched in AWX itself
  MaxRestarts    \* bound: console restarts

ASSUME RunControlAssumption ==
  /\ AutoRollback \in BOOLEAN
  /\ Kinds \subseteq Action
  /\ Foreign \in BOOLEAN
  /\ MaxRestarts \in Nat

VARIABLES
  pc,       \* where the coroutine that drives each operation stands
  seen,     \* the watcher's seen_started
  recheck,  \* the operation each verify-drain request is checking
  job,      \* AWX's jobs
  restarts

vars == <<op, older, next, pc, seen, recheck, job, restarts>>

\* "idle" is no coroutine; "preflight" is still the deploy request itself;
\* "drain" is _verify_drain_and_finalize before its poll loop, "draining"
\* in it; each other value names the await the operation's task is at.
Phase == {"idle", "preflight", "wake", "lookup", "opposite", "launch",
          "watch", "drain", "draining"}

\* run is extra_vars.l3_request_id as _extract_run_id_from_job reads it,
\* target is the catalog key, the slug or extra_vars.l3_run_id.  "failed"
\* is any unsuccessful end after a start, "canceled" any end without one;
\* "posted" is a launch request nobody waits for and AWX has not taken up.
\* by tells a launch of the console AWX took up while the console waited for
\* the answer, one it took up later, and one made in AWX itself.
\* marker is the outcome token of the job's events: "refused" one of
\* _PRE_MUTATION_TOKENS, "complete" rollback_complete, "monitoring"
\* rollback_incomplete with surfaces=monitoring, "none" any other or none.
Job ==
  [action : Action, target : Target, run : OpId \cup {None},
   by : {"console", "late", "awx"},
   status : {"posted", "pending", "running", "successful", "failed", "canceled"},
   marker : {"none", "refused", "complete", "monitoring"}]

NoJob == [action |-> "none", target |-> None, run |-> None,
          by |-> "none", status |-> "absent", marker |-> "none"]

TypeOK ==
  /\ StoreTypeOK
  /\ pc \in [OpId -> Phase]
  /\ seen \in [OpId -> BOOLEAN]
  /\ recheck \in [Operator -> OpId \cup {None}]
  /\ job \in [OpId -> Job \cup {NoJob}]
  /\ restarts \in 0..MaxRestarts

Init ==
  /\ StoreInit
  /\ pc = [o \in OpId |-> "idle"]
  /\ seen = [o \in OpId |-> FALSE]
  /\ recheck = [u \in Operator |-> None]
  /\ job = [j \in OpId |-> NoJob]
  /\ restarts = 0

Live(j) == job[j].status \in {"pending", "running"}
Ended(j) == job[j].status \in {"successful", "failed", "canceled"}
Started(j) == job[j].status = "running"
Begun(j) == job[j].status \in {"running", "successful", "failed"}

\* awx.find_active_job_for_template; a job template belongs to one action
\* on one target (catalog entries name their own templates).
ActiveJobs(a, t) ==
  {j \in OpId : Live(j) /\ job[j].action = a /\ job[j].target = t}

Opposite(a) == IF a = "deploy" THEN "teardown" ELSE "deploy"

Move(o, p) == pc' = [pc EXCEPT ![o] = p]

\* Bound: n more ids can be handed out, and one for the automatic rollback
\* of every deploy in flight.
Room(n) ==
  next + n + (IF AutoRollback
                THEN Cardinality({o \in OpId : op[o].action = "deploy"
                                                 /\ IsActive(o)})
                ELSE 0) <= MaxOps + 1

-----------------------------------------------------------------------------
(* Requests.  A request that reattaches, conflicts or is refused before an  *)
(* operation exists changes nothing and is no step.                        *)

\* Create first, then ask whether the facility is busy: a refused request
\* leaves its operation in ERROR.
Admit(a, t, first) ==
  IF Blockers(a, t) = {}
    THEN Insert(a, t, "waking", FALSE) /\ Move(next, first)
    ELSE Insert(a, t, "error", FALSE) /\ pc' = pc

RequestDeploy(k) ==
  /\ "deploy" \in Kinds /\ Room(IF AutoRollback THEN 2 ELSE 1)
  /\ FindActive("deploy", k) = {} /\ FindActive("teardown", k) = {}
  /\ Admit("deploy", k, "preflight")
  /\ UNCHANGED <<seen, recheck, job, restarts>>

RequestTeardown(k) ==
  /\ "teardown" \in Kinds /\ Room(1)
  /\ FindActive("teardown", k) = {} /\ FindActive("deploy", k) = {}
  /\ Admit("teardown", k, "wake")
  /\ UNCHANGED <<seen, recheck, job, restarts>>

MutantRequestPurge(s) ==
  /\ "finalise-purge" \in Kinds /\ Room(1)
  /\ \A a \in WatchedAction : FindActive(a, s) = {}
  /\ Insert("finalise-purge", s, "waking", FALSE) /\ Move(next, "wake")
  /\ UNCHANGED <<seen, recheck, job, restarts>>

RequestPurge(s) ==
  /\ "finalise-purge" \in Kinds /\ Room(1)
  /\ \A a \in WatchedAction : FindActive(a, s) = {}
  /\ Admit("finalise-purge", s, "wake")
  /\ UNCHANGED <<seen, recheck, job, restarts>>

\* A rollback asks first and creates only when it may go on.  Any run id an
\* operator has seen may be named.
RequestRollback(r) ==
  /\ "rollback" \in Kinds /\ Room(1) /\ r < next
  /\ FindActive("rollback", r) = {}
  /\ Blockers("rollback", r) = {}
  /\ Insert("rollback", r, "waking", FALSE) /\ Move(next, "wake")
  /\ UNCHANGED <<seen, recheck, job, restarts>>

\* The generic launch asks nothing of the facility.
RequestLaunch(w) ==
  /\ "launch" \in Kinds /\ Room(1)
  /\ FindActive("launch", w) = {}
  /\ Insert("launch", w, "waking", FALSE) /\ Move(next, "wake")
  /\ UNCHANGED <<seen, recheck, job, restarts>>

-----------------------------------------------------------------------------
(* The deploy request between creating its operation and spawning the      *)
(* task: the capacity preflight and the topology seam, both awaited.       *)

PreflightPass(o) ==
  /\ pc[o] = "preflight"
  /\ Move(o, "wake")
  /\ UNCHANGED <<storeVars, seen, recheck, job, restarts>>

PreflightRefuse(o) ==
  /\ pc[o] = "preflight"
  /\ SetState(o, "error") /\ Move(o, "idle")
  /\ UNCHANGED <<seen, recheck, job, restarts>>

\* _resolve_topology_seam catches NetboxAPIError only: an unreachable or
\* slow NetBox raises out of the request handler past the un-wedging.
PreflightRaise(o) ==
  /\ pc[o] = "preflight"
  /\ Move(o, "idle")
  /\ UNCHANGED <<storeVars, seen, recheck, job, restarts>>

-----------------------------------------------------------------------------
(* The background task: wake AWX, find what is already running, launch.    *)

\* ensure_awx_awake returned; rollback and finalise-purge never look for a
\* job to reattach to.
EnsureAwake(o) ==
  /\ pc[o] = "wake"
  /\ SetState(o, "launching")
  /\ Move(o, IF op[o].action \in {"rollback", "finalise-purge"}
               THEN "launch" ELSE "lookup")
  /\ UNCHANGED <<seen, recheck, job, restarts>>

MutantTaskFails(o) ==
  /\ pc[o] \in {"wake", "lookup", "opposite", "launch"}
  /\ Move(o, "idle")
  /\ UNCHANGED <<storeVars, seen, recheck, job, restarts>>

\* A wake or AWX call raised, or the job template is not registered.  At
\* the launch itself it is a request that never left, or one AWX refused.
TaskFails(o) ==
  /\ pc[o] \in {"wake", "lookup", "opposite", "launch"}
  /\ SetState(o, "error") /\ Move(o, "idle")
  /\ UNCHANGED <<seen, recheck, job, restarts>>

\* Attach to an active job of the same template.  Its identity is what its
\* extra_vars say, or unknown when that read fails; which of several active
\* jobs is the newest is AWX's order, not that of the ids here.
FindActiveJob(o) ==
  /\ pc[o] = "lookup"
  /\ LET active == ActiveJobs(op[o].action, op[o].target) IN
     \/ /\ active = {}
        /\ Move(o, IF op[o].action = "launch" THEN "launch" ELSE "opposite")
        /\ UNCHANGED storeVars
     \/ /\ op[o].action = "launch"
        /\ \E j \in active :
             Update(o, [op[o] EXCEPT !.state = "launched", !.job = j])
        /\ Move(o, "idle")
     \/ /\ op[o].action # "launch"
        /\ \E j \in active : \E r \in {job[j].run, None} :
             Update(o, [op[o] EXCEPT !.state = "launched", !.job = j,
                                     !.run = r])
        /\ Move(o, "watch")
  /\ UNCHANGED <<seen, recheck, job, restarts>>

MutantCheckOpposite(o) ==
  /\ pc[o] = "opposite"
  /\ Move(o, "launch")
  /\ UNCHANGED <<storeVars, seen, recheck, job, restarts>>

\* The cross-template guard between deploy and teardown of one entry.
CheckOpposite(o) ==
  /\ pc[o] = "opposite"
  /\ IF ActiveJobs(Opposite(op[o].action), op[o].target) = {}
       THEN Move(o, "launch") /\ UNCHANGED storeVars
       ELSE SetState(o, "error") /\ Move(o, "idle")
  /\ UNCHANGED <<seen, recheck, job, restarts>>

LaunchedJob(o) ==
  [action |-> op[o].action, target |-> op[o].target,
   run |-> IF op[o].action = "deploy" THEN o ELSE None,
   by |-> "console", status |-> "pending", marker |-> "none"]

\* The same request when its sender is gone before AWX takes it up.
StrayLaunch(o) ==
  [LaunchedJob(o) EXCEPT !.status = "posted"]

\* A fresh launch is its own run.
LaunchJob(o) ==
  /\ pc[o] = "launch"
  /\ job' = [job EXCEPT ![o] = LaunchedJob(o)]
  /\ IF op[o].action = "launch"
       THEN /\ Update(o, [op[o] EXCEPT !.state = "launched", !.job = o])
            /\ Move(o, "idle")
       ELSE /\ Update(o, [op[o] EXCEPT !.state = "launched", !.job = o,
                                       !.run = o])
            /\ Move(o, "watch")
  /\ UNCHANGED <<seen, recheck, restarts>>

\* The POST timed out or its answer was lost: the handler writes ERROR and
\* nothing resends it, whether AWX has taken it up or will only later.
LaunchAnswerLost(o) ==
  /\ pc[o] = "launch"
  /\ \E j \in {LaunchedJob(o), StrayLaunch(o)} : job' = [job EXCEPT ![o] = j]
  /\ SetState(o, "error") /\ Move(o, "idle")
  /\ UNCHANGED <<seen, recheck, restarts>>

-----------------------------------------------------------------------------
(* The watcher.                                                            *)

Watching(o) == pc[o] = "watch"

\* The job is not at its end: RUNNING, whether or not it has started.
PollLive(o) ==
  /\ Watching(o) /\ Live(op[o].job)
  /\ seen' = [seen EXCEPT ![o] = @ \/ Started(op[o].job)]
  /\ IF op[o].state = "running" THEN UNCHANGED storeVars
                                ELSE SetState(o, "running")
  /\ UNCHANGED <<pc, recheck, job, restarts>>

\* _watch_lost_terminal_state
LostTerminalState(a, started) ==
  IF ~started THEN "run_failed"
  ELSE IF a = "rollback" THEN "rollback_incomplete"
  ELSE "run_status_unknown"

\* The deadline passed, three get_job calls in a row failed, or the watcher
\* crashed on an answer it could not use, which may have carried a start
\* time; the job goes its own way.
WatchGivesUp(o) ==
  /\ Watching(o)
  /\ \E started \in {seen[o], seen[o] \/ Begun(op[o].job)} :
       SetState(o, LostTerminalState(op[o].action, started))
  /\ Move(o, "idle")
  /\ UNCHANGED <<seen, recheck, job, restarts>>

\* The outcome token the watcher gets: the job's, or nothing when AWX has
\* not ingested the event in time or the read fails.
Token(o) == {job[op[o].job].marker, "none"}

MutantDeployEnd(status, token) ==
  IF status = "successful" THEN "run_complete"
  ELSE IF token = "refused" THEN "run_failed"
  ELSE "failed_rollback_required"

DeployEnd(status, token) ==
  IF status = "successful" THEN "run_complete"
  ELSE IF status = "canceled" \/ token = "refused" THEN "run_failed"
  ELSE "failed_rollback_required"

MutantAutoTrigger(o) ==
  /\ next <= MaxOps
  /\ op' = [op EXCEPT
              ![o].state = "failed_rollback_required",
              ![o].autoStatus = "triggered",
              ![next] = NewOperation("rollback", op[o].run, "waking", TRUE)]
  /\ next' = next + 1
  /\ Touch({o, next})
  /\ pc' = [pc EXCEPT ![o] = "idle", ![next] = "wake"]

\* _maybe_auto_trigger_rollback, in the step that found the deploy failed.
AutoTrigger(o) ==
  LET failed(status) == [op[o] EXCEPT !.state = "failed_rollback_required",
                                      !.autoStatus = status]
      r == op[o].run
  IN CASE r = None ->
            Update(o, failed("identity-unknown")) /\ Move(o, "idle")
       [] r # None /\ ~AutoRollback ->
            Update(o, failed("disabled")) /\ Move(o, "idle")
       [] r # None /\ AutoRollback /\ FindActive("rollback", r) # {} ->
            Update(o, failed("already-in-progress")) /\ Move(o, "idle")
       [] OTHER ->
            /\ next <= MaxOps
            /\ op' = [op EXCEPT
                        ![o] = failed("triggered"),
                        ![next] = NewOperation("rollback", r, "waking", TRUE)]
            /\ next' = next + 1
            /\ Touch({o, next})
            /\ pc' = [pc EXCEPT ![o] = "idle", ![next] = "wake"]

DeployEnds(o) ==
  /\ Watching(o) /\ op[o].action = "deploy" /\ Ended(op[o].job)
  /\ \E token \in Token(o) :
       LET s == DeployEnd(job[op[o].job].status, token) IN
       IF s = "failed_rollback_required"
         THEN AutoTrigger(o)
         ELSE SetState(o, s) /\ Move(o, "idle")
  /\ UNCHANGED <<seen, recheck, job, restarts>>

\* Teardown is its own recovery: no dirty state for a failed one.
TeardownEnds(o) ==
  /\ Watching(o) /\ op[o].action = "teardown" /\ Ended(op[o].job)
  /\ SetState(o, IF job[op[o].job].status = "successful"
                   THEN "run_complete" ELSE "run_failed")
  /\ Move(o, "idle")
  /\ UNCHANGED <<seen, recheck, job, restarts>>

MutantRollbackEnd(status, token) ==
  IF token = "complete" THEN "run_complete" ELSE "rollback_incomplete"

RollbackEnd(status, token) ==
  IF status = "successful" /\ token = "complete"
    THEN "run_complete" ELSE "rollback_incomplete"

MutantEligibleForDrain(status, token) == token = "monitoring"

\* drain.is_eligible_for_drain_verification
EligibleForDrain(status, token) ==
  status = "successful" /\ token = "monitoring"

RollbackEnds(o) ==
  /\ Watching(o) /\ op[o].action = "rollback" /\ Ended(op[o].job)
  /\ \E token \in Token(o) :
       LET status == job[op[o].job].status IN
       /\ SetState(o, RollbackEnd(status, token))
       /\ Move(o, IF EligibleForDrain(status, token)
                    THEN "drain" ELSE "idle")
  /\ UNCHANGED <<seen, recheck, job, restarts>>

\* The post-job NetBox read decides: gone, still there, or unreadable.
PurgeEnds(o) ==
  /\ Watching(o) /\ op[o].action = "finalise-purge" /\ Ended(op[o].job)
  /\ \E s \in IF job[op[o].job].status = "successful"
                THEN {"run_complete", "run_failed", "run_status_unknown"}
                ELSE {"run_failed"} : SetState(o, s)
  /\ Move(o, "idle")
  /\ UNCHANGED <<seen, recheck, job, restarts>>

-----------------------------------------------------------------------------
(* Monitoring-drain verification.                                          *)

\* The run a rollback operation's coroutine was started for.
RunOf(o) == job[o].target

\* _mark_drain_pending
MarkPending(o) ==
  IF op[o].pending THEN UNCHANGED storeVars
                   ELSE Update(o, [op[o] EXCEPT !.pending = TRUE])

RecoveredDeploys(r) ==
  {d \in DeployOpsFor(r) :
     op[d].state \in {"failed_rollback_required", "run_status_unknown"}}

Superseded(o, r) ==
  {p \in OpId \ {o} : /\ op[p].action = "rollback" /\ op[p].target = r
                      /\ op[p].state = "rollback_incomplete"}

MutantMarkVerified(o, r) ==
  LET resolved == {o} \cup RecoveredDeploys(r) \cup Superseded(o, r) IN
  IF ~Correlated(r) THEN MarkPending(o)
  ELSE /\ op' = [p \in OpId |->
            IF p \in resolved /\ InStore(p)
              THEN [op[p] EXCEPT !.state = "run_complete", !.pending = FALSE]
              ELSE op[p]]
       /\ next' = next
       /\ Touch({p \in resolved : InStore(p)})

\* _mark_drain_verified: o itself whatever its state by now, the run's
\* dirty deploys, and every other incomplete rollback of the run.
MarkVerified(o, r) ==
  IF ~Correlated(r) THEN MarkPending(o)
  ELSE LET failed == RecoveredDeploys(r)
           others == Superseded(o, r)
           self   == {o} \cap {p \in OpId : InStore(p)}
       IN /\ op' = [p \in OpId |->
               CASE p \in self ->
                      [op[p] EXCEPT !.state = "run_complete",
                                    !.pending = FALSE]
                 [] p \in failed -> [op[p] EXCEPT !.state = "run_failed"]
                 [] p \in others ->
                      [op[p] EXCEPT !.state = "run_failed",
                                    !.pending = FALSE]
                 [] OTHER -> op[p]]
          /\ next' = next
          /\ Touch(self \cup failed \cup others)

DrainBegins(o) ==
  /\ pc[o] = "drain"
  /\ IF Correlated(RunOf(o))
       THEN Move(o, "draining") /\ UNCHANGED storeVars
       ELSE MarkPending(o) /\ Move(o, "idle")
  /\ UNCHANGED <<seen, recheck, job, restarts>>

\* Targets unresolvable, window exhausted, or crashed.
DrainGivesUp(o) ==
  /\ pc[o] \in {"drain", "draining"}
  /\ MarkPending(o) /\ Move(o, "idle")
  /\ UNCHANGED <<seen, recheck, job, restarts>>

DrainGone(o) ==
  /\ pc[o] = "draining" /\ ~InStore(o)
  /\ Move(o, "idle")
  /\ UNCHANGED <<storeVars, seen, recheck, job, restarts>>

DrainVerified(o) ==
  /\ pc[o] = "draining"
  /\ MarkVerified(o, RunOf(o)) /\ Move(o, "idle")
  /\ UNCHANGED <<seen, recheck, job, restarts>>

\* POST /api/runs/{run_id}/verify-drain: the run's newest rollback, if it
\* is still pending; an unrecoverable identity ends the request at once.
RecheckBegins(u, o) ==
  /\ recheck[u] = None
  /\ op[o].action = "rollback" /\ LatestRollback(o)
  /\ op[o].state = "rollback_incomplete" /\ op[o].pending
  /\ Correlated(op[o].target)
  /\ recheck' = [recheck EXCEPT ![u] = o]
  /\ UNCHANGED <<storeVars, pc, seen, job, restarts>>

RecheckEnds(u) ==
  /\ recheck[u] # None
  /\ \/ MarkVerified(recheck[u], RunOf(recheck[u]))
     \/ MarkPending(recheck[u])     \* drain targets unresolvable
     \/ UNCHANGED storeVars         \* not drained
  /\ recheck' = [recheck EXCEPT ![u] = None]
  /\ UNCHANGED <<pc, seen, job, restarts>>

-----------------------------------------------------------------------------
(* Expiry, restart, and AWX itself.                                        *)

Expire(o) ==
  /\ Collect(o)
  /\ UNCHANGED <<pc, seen, recheck, job, restarts>>

\* lifespan makes a new store; no coroutine survives, and a launch in
\* flight has been taken up by AWX, may be later, or never left.
Restart ==
  /\ restarts < MaxRestarts
  /\ op' = [o \in OpId |-> Absent] /\ older' = {} /\ next' = next
  /\ pc' = [o \in OpId |-> "idle"]
  /\ seen' = [o \in OpId |-> FALSE]
  /\ recheck' = [u \in Operator |-> None]
  /\ \E sent, stray \in SUBSET {o \in OpId : pc[o] = "launch"} :
       job' = [j \in OpId |-> IF j \in sent THEN LaunchedJob(j)
                             ELSE IF j \in stray THEN StrayLaunch(j)
                             ELSE job[j]]
  /\ restarts' = restarts + 1

JobTo(j, status, marker) ==
  /\ job' = [job EXCEPT ![j].status = status, ![j].marker = marker]
  /\ UNCHANGED <<storeVars, pc, seen, recheck, restarts>>

\* AWX carries out a launch request whose sender has gone.
JobAccepted(j) ==
  /\ job[j].status = "posted"
  /\ job' = [job EXCEPT ![j].status = "pending", ![j].by = "late"]
  /\ UNCHANGED <<storeVars, pc, seen, recheck, restarts>>

JobStarts(j) == job[j].status = "pending" /\ JobTo(j, "running", "none")

JobSucceeds(j) ==
  /\ job[j].status = "running"
  /\ \E m \in IF job[j].action = "rollback"
                THEN {"none", "complete", "monitoring"} ELSE {"none"} :
       JobTo(j, "successful", m)

JobFails(j) ==
  /\ job[j].status = "running"
  /\ \E m \in CASE job[j].action = "deploy" -> {"none", "refused"}
                [] job[j].action = "rollback" ->
                     {"none", "complete", "monitoring"}
                [] OTHER -> {"none"} :
       JobTo(j, "failed", m)

JobCanceled(j) == job[j].status = "pending" /\ JobTo(j, "canceled", "none")

\* A deploy launched in AWX: its l3_request_id is its own, missing, or the
\* one of the job it was relaunched from.
JobForeign(k, r) ==
  /\ Foreign /\ Room(1) /\ next <= MaxOps
  /\ r = None \/ r \in 1..next
  /\ job' = [job EXCEPT ![next] =
               [action |-> "deploy", target |-> k, run |-> r,
                by |-> "awx", status |-> "pending", marker |-> "none"]]
  /\ next' = next + 1
  /\ UNCHANGED <<op, older, pc, seen, recheck, restarts>>

-----------------------------------------------------------------------------

Request ==
  \/ \E k \in Key : RequestDeploy(k) \/ RequestTeardown(k)
  \/ \E s \in Slug : RequestPurge(s)
  \/ \E r \in OpId : RequestRollback(r)
  \/ \E w \in Workflow : RequestLaunch(w)

Preflight(o) == PreflightPass(o) \/ PreflightRefuse(o) \/ PreflightRaise(o)

Dispatch(o) ==
  \/ EnsureAwake(o) \/ TaskFails(o)
  \/ FindActiveJob(o) \/ CheckOpposite(o)
  \/ LaunchJob(o) \/ LaunchAnswerLost(o)

Watch(o) ==
  \/ PollLive(o) \/ WatchGivesUp(o)
  \/ DeployEnds(o) \/ TeardownEnds(o) \/ RollbackEnds(o) \/ PurgeEnds(o)

Drain(o) ==
  DrainBegins(o) \/ DrainGivesUp(o) \/ DrainGone(o) \/ DrainVerified(o)

Coroutine(o) == Preflight(o) \/ Dispatch(o) \/ Watch(o) \/ Drain(o)

AWX ==
  \/ \E j \in OpId :
       \/ JobAccepted(j) \/ JobStarts(j)
       \/ JobSucceeds(j) \/ JobFails(j) \/ JobCanceled(j)
  \/ \E k \in Key, r \in OpId \cup {None} : JobForeign(k, r)

Recheck ==
  \E u \in Operator : RecheckEnds(u) \/ \E o \in OpId : RecheckBegins(u, o)

Next ==
  \/ Request
  \/ \E o \in OpId : Coroutine(o)
  \/ Recheck
  \/ \E o \in OpId : Expire(o)
  \/ Restart
  \/ AWX

Spec == Init /\ [][Next]_vars

\* Every await of a coroutine ends: the AWX, NetBox and monitoring calls
\* carry timeouts, the readiness retry, the watcher and the drain poll have
\* deadlines.  Nothing is assumed of operators, jobs, expiry or restarts.
FairSpec == Spec /\ \A o \in OpId : WF_vars(Coroutine(o))

-----------------------------------------------------------------------------
(* Properties.                                                             *)

\* The facility lock ("one run at a time, full stop", _facility_busy_check):
\* never two tracked runs in flight, whatever their actions and targets.
\* It is decided in one step of a request and must survive the automatic
\* rollback, which is created without asking.
OneRunAtATime ==
  \A o, p \in OpId : InFlight(o) /\ InFlight(p) => o = p

\* The run an operation's dirt is about.
DirtOf(o) ==
  CASE op[o].action = "rollback" -> op[o].target
    [] op[o].action = "deploy"   -> op[o].run
    [] OTHER                     -> None

\* While a run is in flight nothing in the store is dirty, except what that
\* very run is the rollback of.
CleanUnderRun ==
  \A o, d \in OpId :
    InFlight(o) /\ IsDirty(d) =>
      op[o].action = "rollback" /\ DirtOf(d) = op[o].target

\* An automatic rollback exists only for a run one of whose deploy jobs AWX
\* itself reported as failed after a start: never for a deploy the watcher
\* lost, one refused before mutating, or one of unknown identity.
AutoRollbackJustified ==
  \A o \in OpId :
    op[o].auto =>
      \E j \in OpId : /\ job[j].action = "deploy" /\ job[j].status = "failed"
                      /\ job[j].run = op[o].target

\* A rollback is never shown complete (WP2's dual signal, WP4's upgrade)
\* unless its own job succeeded and said either that all is clean or that
\* only monitoring is left; drain-pending is only ever said of the latter.
RollbackClaims ==
  \A o \in OpId :
    op[o].action = "rollback" =>
      /\ op[o].state = "run_complete" =>
           /\ job[op[o].job].status = "successful"
           /\ job[op[o].job].marker \in {"complete", "monitoring"}
      /\ op[o].pending =>
           /\ job[op[o].job].status = "successful"
           /\ job[op[o].job].marker = "monitoring"

\* Reattach and the cross-template guard against AWX: of the console's jobs
\* for one catalog entry that AWX took up while the console was waiting, at
\* most one is live, also after a restart, a watcher that gave up and a
\* launch whose answer was lost.  The guard reads AWX and then posts, and
\* says that this "residual check-to-launch TOCTOU window" is "not closed
\* here": a launch made in AWX itself, or a POST the console has given up on
\* that AWX carries out later, can be live beside another job of the entry.
\* Nothing else can.
NoCompetingJobs ==
  \A i, j \in OpId :
    /\ Live(i) /\ job[i].by = "console" /\ job[i].action \in {"deploy", "teardown"}
    /\ Live(j) /\ job[j].by = "console" /\ job[j].action \in {"deploy", "teardown"}
    /\ job[i].target = job[j].target
    => i = j

\* "A dirty facility is never silently treated as clean" (OperationState):
\* short of expiry or restart, a dirty operation changes to a clean state
\* only after a rollback job of its run succeeded with nothing but
\* monitoring left.
DirtNeedsCleanRollback ==
  [][\A d \in OpId :
       IsDirty(d) /\ op'[d].state \notin (DirtyStates \cup {"absent"}) =>
         \E j \in OpId : /\ job[j].action = "rollback"
                         /\ job[j].target = DirtOf(d)
                         /\ job[j].status = "successful"
                         /\ job[j].marker = "monitoring"]_vars

\* A terminal operation stays terminal (or goes away), so a client that
\* stopped polling was not misled, and a terminal deploy never turns into
\* a success.
TerminalIsFinal ==
  [][\A o \in OpId :
       IsTerminal(o) =>
         /\ op'[o] # Absent => op'[o].state \in TerminalStates(op[o].action)
         /\ op'[o].state = "run_complete" =>
              op[o].state = "run_complete" \/ op[o].action = "rollback"]_vars

\* "It must still leave the op in SOME terminal state, never stranded
\* mid-flight" (_watch_lost_terminal_state): a dispatched operation ends,
\* however long its AWX job takes, and so does every drain poll.
DispatchedOpsEnd ==
  \A o \in OpId :
    pc[o] \notin {"idle", "preflight"} ~> pc[o] = "idle" /\ ~IsActive(o)

\* What makes the above inductive.  Ids not handed out yet are unused; a
\* coroutine's place tells the state of its operation; a dirty state tells
\* the action it came from.
Allocated ==
  \A o \in OpId :
    o >= next => op[o] = Absent /\ pc[o] = "idle" /\ job[o] = NoJob

PhaseStates ==
  \A o \in OpId :
    /\ pc[o] \in {"preflight", "wake"} => op[o].state = "waking"
    /\ pc[o] \in {"lookup", "opposite", "launch"} =>
         op[o].state = "launching"
    /\ pc[o] = "lookup" => op[o].action \in {"launch", "deploy", "teardown"}
    /\ pc[o] = "opposite" => op[o].action \in {"deploy", "teardown"}
    /\ pc[o] = "watch" => /\ op[o].state \in {"launched", "running"}
                          /\ op[o].action \in WatchedAction

DirtKinds ==
  \A o \in OpId :
    /\ IsDirty(o) => op[o].action \in WatchedAction
    /\ op[o].state = "rollback_incomplete" => op[o].action = "rollback"

\* No coroutine that still moves its operation stands on an operation a
\* verify-drain request is looking at.
RecheckSettled ==
  \A u \in Operator :
    recheck[u] # None => /\ recheck[u] < next
                         /\ pc[recheck[u]] \in {"idle", "drain", "draining"}

\* The inductive invariant of RunControlProofs.
IInv ==
  /\ TypeOK /\ Allocated /\ PhaseStates /\ DirtKinds /\ RecheckSettled
  /\ OneRunAtATime /\ CleanUnderRun

\* The facility lock as a lock: what FacilityLock promises of a holder and
\* a set of dirty runs is what the store and the coroutines implement.
Holder ==
  {IF op[o].action = "rollback" THEN <<"recovery", op[o].target>>
                                ELSE <<"change">>
     : o \in {p \in OpId : InFlight(p)}}

Dirt == {DirtOf(o) : o \in {p \in OpId : IsDirty(p)}}

Lock == INSTANCE FacilityLock WITH Run <- OpId, Unknown <- None,
                                   holder <- Holder, dirty <- Dirt

LockSpec == Lock!Spec

\* main.py 5532-5549: a refusal after creation "must also mark the just-
\* created op terminal or it wedges the exclusive lock".
EveryRequestEnds ==
  \A o \in OpId : IsActive(o) ~> ~IsActive(o)

=============================================================================
