# Verification of the DMF console

TLA+ models of `dmf-cms`, the DMF console: a FastAPI backend
(`src/src/dmf_cms`) that starts and follows AWX jobs which deploy, tear down,
roll back and purge media workloads, and the React frontend that drives it.
The models are checked with TLC on small instances; theorems about them, for
every value of the constants, are proved with TLAPS.

## 1. The system

### Parts, their state and their operations

| part | code | state | operations |
|---|---|---|---|
| Operation store | `operations.py` | dict of operations (action, target, state, job, run, ...), update times | create, find_active, get_or_create(_exclusive), update, expiry |
| Facility lock | `main.py` `_facility_busy_check` | none of its own: computed from the store | asked by deploy, teardown, rollback, purge requests |
| Dispatch | `main.py` `api_catalog_deploy`, `_teardown`, `api_run_rollback`, `api_media_workloads_purge`, `api_workflow_launch` and the `_run_*_operation` tasks | one background task per operation | wake AWX, look for a running job, launch |
| Job watcher | `main.py` `_watch_job_operation` | one task per launched job: `seen_started`, misses, deadline, milestone | poll, classify the end, give up, trigger the automatic rollback |
| Drain verification | `drain.py`, `_verify_drain_and_finalize`, `api_run_verify_drain` | one task or request per check | poll, finalize, mark pending |
| AWX client | `awx.py` | none | calls with phases, readiness retry after a wake |
| Inventory reads | `media_workloads.py` 349-660, `main.py` `_inventory_write_refusal` | per scope: last good snapshot, failure episode, tickets | read, serve stale, block writes |
| Workload inventory | `media_workloads.py`, `netbox.py`, `prometheus.py` | none | group, derive lifecycle, resolve a purge |
| Sidecar cache | `media_workloads.py` 1638-1700 | entries with expiry | get or load |
| Source switching | `switch_source.py` | command store | dispatch, wait for the job, classify |
| Audit reader | `audit_events.py`, `loki.py` | none (reads the log) | parse, join terminal records, age out |
| Capacity preflight | `capacity.py`, `catalog.py` | none | parse quantities, compare demand and supply |
| Setup requests | `setup_requests.py` | Kubernetes receipts | create once and verify |
| Sign-on, roles | `security.py`, `authentik.py`, `contracts.py`, `settings.py` | session cookie | gate one request |
| Read-only pages | `facility.py`, `promsd.py`, `forgejo.py`, `loki.py` | none | aggregate |
| Frontend: flow | `frontend/src/lib/workloadLifecycle.ts`, `workloadFlow.ts` | none | say where a workload is, which steps are open, what may be offered |
| Frontend: setup wizard | `pages/MediaWorkloads/WorkloadSetup.tsx`, `stages/*` | selected step, armed confirmations, job flags, tracked operations and jobs | deploy, switch, tear down, purge, clear health, follow |
| Frontend: create | `CreateWorkload.tsx`, `WorkloadMaterializing.tsx`, `store/draftWorkload.ts` | draft of the tab, launch in the history entry | compose, confirm, deploy, follow the launch |
| Frontend: views | `index.tsx`, `WorkloadHome.tsx`, `LivePreviewBox.tsx`, `store/headerSlot.ts` | one cached read, open detail, preview frames | list, show, preview |
| Frontend: Activity | `pages/Activity/*`, `store/activity.ts` | launches the Jobs lane follows, the browser's own records | launch a workflow, follow it, show history |
| Release gates | `scripts/*.py` | none (forge state) | poll pull requests, decide |

### How they interact

A request creates an operation in the store under its lock, asks the facility
lock, and spawns a task on the event loop. The task calls AWX in a thread pool
(every such call is an `await`: all other tasks and requests run meanwhile) and
writes the operation. When the job is launched it spawns the watcher, which
polls AWX and writes the operation's end; after a failed deploy the watcher
itself creates the operation and the task of an automatic rollback, after a
rollback that left only monitoring behind it spawns the drain verification.
`verify-drain` requests run the same finalization beside it. Nothing is
persisted: a restart forgets every operation while the AWX jobs go on, and the
next request finds them through AWX. Jobs can also be launched in AWX itself.

The frontend polls: the grouped inventory every 15 s, an operation every 3 s
until it ends, a job every 5 s, a viewer's topology every 5 s. All pages of a
tab share one query cache. A page sends a write, receives an operation (or a
job), and follows it; what it holds of it lives in the mounted component, in
the history entry or in the tab, and goes with it. The pages decide by the
operators of the flow, which read the position the backend derives.

### What is hard

* Several tasks and requests write one operation between each other's awaits;
  `OperationStore.update` has no guard against leaving a terminal state.
* The facility lock is advisory and computed; the automatic rollback is
  created without asking it.
* Identity: the run a job belongs to is known, unknown, or shared by a
  relaunched job, and three code paths decide on it.
* AWX calls fail, time out, or succeed without an answer; the watcher may lose
  a job that lives on; outcome events are ingested late; the console restarts.
* Drain verification acts on reads made seconds earlier.
* Overlapping inventory reads complete out of order; caches load outside locks.
* In the browser reads settle, fail, pause offline and are retained while
  confirmations are open and requests are out; polls miss transient states; a
  page may be left, reloaded or re-entered at any of these moments.

### What makes each part correct

* Store and lock: one run in flight, nothing dirty under a run but what it
  rolls back, terminal states final, dispatched operations end.
* Dispatch: no two live jobs of one catalog entry launched by the console, but
  for a launch that AWX accepts after the console gave it up.
* Watcher: automatic rollback only of a run AWX reported failed after a start;
  a rollback is complete only on both signals.
* Drain: dirt goes away only after a rollback of its own run succeeded.
* Inventory: an answer reflects the newest observation; a write is blocked
  exactly while the newest observation is a failure.
* Switching: one command per viewer; a second live job of a viewer only after
  the operator was told that the first one's result is unknown; messages that
  are true of the job; no viewer stays reconnecting.
* Wizard: the panel that follows a job stays and its flag falls; an unsettled
  read takes nothing from the operator; the panel that sent a clear offers
  nothing on a read older than its answer.
* Create: what is deployed is what was confirmed; the launch page ends and is
  true of what it follows, whatever its polls miss, and follows another launch
  than its own in known cases only.
* Views: the pages agree, absence is read and never inferred from a failure,
  "live" is said of moving frames.
* Jobs lane: one run of a workflow, however often it is clicked; a card comes
  back.
* Audit, capacity, caches: see the plan.

## 2. The modules

| module | models | state and actions |
|---|---|---|
| `OperationStore` | the store and the busy check | `op`, `older` (order of `updated_at`), `next`; `Insert`, `Update`, `Collect`; `Blockers`, `Exempt`, `FindActive` |
| `RunControl` | dispatch, watcher, automatic rollback, drain verification, AWX, asynchronous mode | adds `pc` (the await each coroutine stands at), `seen`, `recheck`, `job`, `restarts`; one action per stretch of code between two awaits |
| `FacilityLock` | what the lock promises, in seven steps over `holder` and `dirty` | refined by `RunControl` (`LockSpec`) |
| `RunControlProofs` | theorems, in four parts, each on top of the one before | |
| `MCRunControl` | TLC's constants | |
| `InventoryRead` | inventory reads, their read states, the write guard and the shared cold read | `read` (by ticket), `state` (one `_ReadState` per kind), `now`, `cold`, `thread`, `request`; a read begins and ends in separate actions, a write walks from its arrival to the guard |
| `LatestObservation` | what a reader of an inventory is promised, in one action | refined by `InventoryRead` (`LatestWins`) |
| `InventoryReadProofs` | theorems | |
| `MCInventoryRead` | TLC's constants | |
| `SwitchSource` | the switch-source request, the command store, the AWX actuator, the switch play | by id of request: `pc`, `status`, `outcome`; its job `phase`, `event`, `found`, `wrote`; `running` per receiver; one action per stretch between two awaits |
| `SwitchContract` | what switching promises whatever actuator does it, in three actions | refined by `SwitchSource` (`KeepsContract`) |
| `SwitchSourceProofs` | theorems | |
| `MCSwitchSource` | TLC's constants | |
| `WorkloadLifecycle` | `workloadLifecycle.ts`, `roles.ts`, `queryState.ts`, with the backend's derivation of the position | no state: `ActiveStage`, `StageActions`, `StageStates`, `GroupedReadTrustworthy`, `BuildWorkloadLifecycleInput` |
| `WorkloadFlow` | `workloadFlow.ts` | no state: `FlowSteps`, `DraftSteps`, `ForwardExit`, `HomeState` |
| `WorkloadWizard` | the setup page of one workload, its stages, and the backend's operations as the page sees them | `read`, `user` (queries), `selected`, `settled`, `flags`, `owner`, `armed`, `pending`, `track` (the page), `wire`, `op` (requests and operations), `cleared`; one action per render, click, read, answer or backend step |
| `WorkloadWizardProofs` | theorems | |
| `CreateWorkload` | the create page, the deploy request, the page that follows the launch | `draft` (the tab's), `step`, `arming`, `waits`, `outcome` (the mount's), the three queries, `req`, `op`, `job`, `recorded` (backend), `launch` (history), `line` (what the page has polled) |
| `CreateWorkloadProofs` | theorems | |
| `LivePreview` | the preview of one instance in its two boxes | `feed`, `asking`, `broken`; composed into `WorkloadViews` |
| `WorkloadViews` | list, home, setup's early returns and header rail over one cached read | `read`, `route`, `open`, `gone`, `visible`, `reduced`, `online` |
| `WorkloadViewsProofs` | theorems | |
| `SwitchControl` | the switch control and the active-source row over the topology read | `truth`, `up`, `read`, `reply`, `row`, `fresh`, `call`, `gates` |
| `SwitchControlProofs` | theorems | |
| `JobsLane` | the Jobs lane, the launch endpoint and its task, AWX | `op`, `job`, `stray`, `late` (backend and AWX), `list`, `armed`, `sent`, `last`, `pending`, `active`, `seenOp`, `seenJob` (the page) |
| `JobsLaneProofs` | theorems | |
| `MC...` | TLC's constants of each | |

The backend's three parts do not share state: a write that the guard of `InventoryRead`
admits is one of the requests `RunControl` or `SwitchSource` starts with, and
the guard is asked once, before the operation or command is created. Switching
has a store of its own and does not ask the facility lock. The frontend modules
take the backend at its interface: an operation that walks through its states,
ends, or is forgotten, as `RunControl` has it, and read answers of every grade
`InventoryRead` gives. `JobsLane` composes page, endpoint, task and AWX, since
a second click is kept from becoming a second run by all of them together.

### Correspondence of `RunControl`

*Ids.* An id stands for an operation's uuid and the `request_id` minted with
it, and for the AWX job that operation launched. Ids are handed out in creation
order; no decision of the code depends on that order. The id of a job launched in AWX itself never gets an
operation.

*Atomicity.* The backend is one event loop; a task gives up control at an
`await` only. So what `_maybe_auto_trigger_rollback` (no await inside) does
belongs to the same step as the write of `FAILED_ROLLBACK_REQUIRED`, and what a
request does before its first await is one step. `PreflightPass`/`Refuse`/`Raise`
are the deploy request's awaits before its task exists. A poll that finds the
job ended and the fetch of its outcome marker are one step: an ended job does
not change, and the watcher uses nothing else it read before.

*Awaits.* `pc[o]` is `preflight`, `wake`, `lookup`, `opposite`, `launch`,
`watch`, `drain` or `draining`; `idle` means no coroutine. Each of the five
kinds of operation walks its own subset (`EnsureAwake`, `FindActiveJob` branch
on the action as the `_run_*_operation` functions differ).

*AWX.* A job is pending, running, or ended; `failed` stands for an unsuccessful
end after a start, `canceled` for one without. `marker` is the outcome token of
its events, which the watcher gets or not (`Token`). Which of several active
jobs of a template is the newest is left open.

A launch POST has a client timeout and is not idempotent. One that errors
(`LaunchAnswerLost`), or whose task a restart kills (`Restart`), has been
refused, accepted, or is still on its way: then the job is `posted`, and AWX may
accept it at any later time (`JobAccepted`), when the lock is long free. `by`
tells whose a job is: of a console that waited for the answer (`console`), of
one that had given up (`late`), or of AWX's own users (`awx`). Two live jobs of
one entry are possible when one of them is `late`: the console cannot know of
it, and `main.py:3145-3147` says that the time between check and launch is "not
closed here". `NoCompetingJobs` therefore speaks of `console` jobs only; that is
what the lock and the look at AWX guarantee together, and no more.

*Abstracted.* Error texts but for the `monitoring-drain-pending` token, who
asks, audit lines, the content of extra_vars but the run identity and target,
time: deadlines and expiry may strike at any moment, and expiry takes the
oldest update first. The run identity of a launch without an L3 envelope is
absent from the job's extra_vars; a reattach then reads none, which
`FindActiveJob` allows for every job. The cross-template guard assumes that an
entry has both templates registered.

### Correspondence of `InventoryRead`

*Tickets.* A read is its ticket. Each scalar of `_ReadState` that is written
together with another is one field, and stands for the ticket of the read it
came from (`since` for `failure_since` and `failure_since_ticket`, and so on),
0 for `None`; only the monotonic start of the snapshot is kept beside it, since
the grace window needs it. What an answer contains is the ticket of the read
whose payload it carries. Wall-clock times label answers and decide nothing, so
they are left out.

*Atomicity.* `_begin_read`, `_remember_success`, `_on_read_failure`,
`inventory_write_block` and the first section of `ensure_inventory_read` hold
`_read_states_lock` throughout: each is one action. Between them threads and
the event loop interleave freely. The owner of a cold read unregisters it and
sets its Future in two actions, because the second is outside the lock.

*Timeouts.* The wait of a request is cancelled by `asyncio.wait_for` while its
thread goes on; a thread that never started does not run. `TimesOut` may strike
at any time.

*Scope.* One tenant scope: another shares only the ticket counter. One process
run: nothing is persisted, so a restart is `Init`.

### Correspondence of `SwitchSource`

*Ids.* One id stands for a request, the command it may create and the job that
command may launch. `previous_source` of a command is `observed`.

*Atomicity.* After the sidecar's answer there is no await before the command is
created and the actuator sets RECONNECTING, so `Dispatch` is one step and
PENDING is never seen. The read of the sidecar is two steps: the source may
change between its answer and the request's resumption. The staleness check
compares a stamp taken at that resumption with the same moment, so it refuses
nothing and has no action.

*Waiting.* `misses` counts failed polls in a row as the code does. The deadline
may strike before any poll; the event wait is bounded and its fetch may fail,
so a job's event reaches the classification or not (`Classifies`).

*The play* is in another repository. Its stages, what each may change and what
it reports are taken from the comments that `switch_source.py` bases its
operator messages on: it reads, takes the facility lock, clears the source,
re-points the viewer (rolling back if that does not verify), sets the source
and reads it back, and may stop anywhere with or without an event. `Claim`
reduces each message to what it asserts.

*Abstracted.* Failed, error and canceled jobs are one; the labels up to
baseline-capture are one stage. Expiry removes decided commands, which no
decision reads.

### Correspondence of the frontend modules

*Steps.* JavaScript runs to completion and React renders with the state a
handler left, so a handler and the render and effects after it are one action
(`Rendered`, `StepsAfter` and the like are the render's part). A `mutateAsync`
continues after its component is gone; a `mutate` callback does not; both are
modelled as the code uses them. Timers that only pace what the reader sees (the
one to three seconds before a line clears) may fire at any time after they are
set.

*Queries.* A query is its last data, whether the last read failed, and whether
one is on its way. Data survives a failed read; an error lasts until the next
success, but a query that never had data starts again without it. A query
without an observer may be dropped. Offline a read waits (`paused`). One retry
of a failed read is part of the failing.

*`WorkloadWizard`.* A unit is what one write is about: a catalog entry, the
purge, the clear, the switch. `op` is the operation as the page can learn it.
`launched` is transient for a watched action, so `FollowJob` may find the job or
miss it; `settling` is the time between the job's end and the watcher's record
of it; `lost` is an operation after `Restart` or `Expire`. `settled` is the
latch over the steps of the last settled reads; `latest` is the one mutation
object all entries of a stage share.

A clear's `onSuccess` belongs to the hook: it invalidates the inventory whether
or not the panel that sent the clear is still there (`AnswerNobody`). `cleared`
says that a clear was accepted which the inventory does not show yet, and whether
the panel that sent it is mounted (`here`) or not (`gone`). The mutation is kept pending
until the read is in, but only in the panel that sent it: one mounted again
meanwhile has a mutation of its own, and offers the clear a second time until
the read lands. `ClearClosesLoop` promises the whole of it to the first panel
and to the others only that the newer read is on its way.

*`CreateWorkload`.* The request carries what it was confirmed with (`req`). An
answer may carry an operation or, from the synchronous endpoint, a job at once.
`line` dies with the page and is built anew from polls; `launch` survives
reloads with the history entry. `WorkloadMaterializing` is rendered without a
key, so a second launch that comes to a mounted page finds what that one learnt
of the first: `Carried` is what it keeps (the job it follows, the status and
flags of its polls), and `line.of` the launch that this is about.

*`WorkloadViews`, `LivePreview`.* Each page is an operator from the cached read
to what it says (`ListGrid`, `HomeBody`, `SetupBody`, `RailKeys`); grades of
a read are sets because a stale copy may also be degraded. The preview of one
live instance is followed; the others' are alike.

*`SwitchControl`.* Ages are counted in polls. A render finds the observation
fresh or not (`fresh`); the submit handler asks the clock again. The backend's
answer carries the age of its observation.

*`JobsLane`.* Workflows that a catalog entry uses as a stage are refused by the
endpoint. A task finds a live job of the template (`ActiveJob`), or sends a
POST; a POST whose answer is lost, or whose task the restart killed, may be
carried out at any later time (`stray`, then `late`). Launch operations end
with the launch: nothing watches their job but the page. A reload may come
between any two steps and stands for a second browser as well. Left out: the
role gate of the lane and the empty list, which launch nothing.

### Bounds

`MaxOps` bounds the ids, `Room` stops new requests when an id is needed for the
automatic rollback of a deploy already in flight (so that no behaviour of the
code is cut in the middle of a step); `Kinds`, `Foreign` and `MaxRestarts`
choose what a run may do. Three ids are enough for a deploy, its automatic
rollback and a further attempt or a third party (a foreign job, a second
deploy); supersession and the sharing of one run identity happen within them.
Two ids suffice for `dispatch`, which allows every action of the model: two
jobs compete, one run excludes another or is its rollback, and a dispatched
operation waits for nobody but its own job. The lock's two halves are proved
for any number.

`MaxReads` bounds the reads, `MaxClock` the clock. Four overlapping reads hold
the documented inexact case of `failure_since` (a success and two later
failures) with a read to spare; time matters only as inside or outside the
grace window, so two ticks against a window of one suffice. Sharing needs an
owner and a waiter: two writes, against three reads for the guard. The grace
window plays no part in admission, so the clock stands still in `writes`.

Two requests for one viewer hold what concerns switching: a command and its
competitor, the job of a given-up command against the next one's. Receivers
share only the facility lock of the play; the proofs cover any number of them.
Two sources are the one that flows and the one asked for.

`wizard`: one entry with its purge, its clear and its switch are four units;
two writes are one under way and the next. `Payload` has a workload at Provision
and one at Operate, between which the backend moves it as it likes, under reads
that also fail; a purged or conflicting workload only takes the wizard away.
`create`: one template, one identity, two facilities so that the confirmed one
may change; two sends, which meet on one page in either order of their answers.
The create page is worked on while a request is left to send (`SendsLeft`), the
catalog is read again before the first one only, of the history the last
launch's entry alone is gone back to, and the draft is not walked into the steps
behind Provision. `views`: two workloads
that share an instance by turns, a cap of one live tile, reads of every grade.
`control`: two sources, a fuse of two polls. `lane`: two workflows, one refused;
two sends, one restart and one reload, visit or reconnection, so that a click
before and one after each of them meet; a job ends one way, since all four are
treated alike.

An idle console may stay idle: deadlock is not checked.

## 3. The runs

| run | what it asks | scale |
|---|---|---|
| `dispatch` | `OneRunAtATime`, `CleanUnderRun`, `NoCompetingJobs`, `LockSpec`: the store and the tasks implement `FacilityLock`; and under fairness `DispatchedOpsEnd` | every request on two entries, launches from AWX, a restart, lost answers, launches accepted late, watchers giving up; 2 ids, ~176k states |
| `recovery` | `TypeOK`, what a rollback may claim, when an automatic one is justified, what may clean dirt, terminal states are final | launches from AWX, unknown and shared identities, two concurrent rechecks, launches accepted late; 3 ids, ~1.65M |
| `reads` | `AnswerIsTrue`, `EpisodeHonest`, and `LatestWins`: the reads implement `LatestObservation` | 4 overlapping reads of two inventories, no writes; ~124k |
| `writes` | `OneColdRead`, `AdmittedOnEvidence`, and under fairness `EveryWriteAnswered` | 2 first writes, 3 reads; ~210k |
| `switch` | `CompetitionDisclosed`, `CopyHonest`, `KeepsContract`, and under fairness `EverySwitchEnds` | 2 requests, 1 viewer, 2 sources, 1 restart; ~840k |
| `wizard` | `JobHoldsPanel`, `ClearClosesLoop`, `UnsettledReadsKeepArmed`, and under fairness `ControlsReturn` | 4 units, 2 writes, restarts and expiry; ~113k |
| `create` | `ExitTells`, `ExitStaysOpen`, `SentIsConfirmed`, and under fairness `HandoffEnds` | 2 sends, which may meet on one page; 2 facilities, reloads and history; ~557k |
| `views` | `PagesAgree`, `LiveViewSteady`, `AbsenceIsRead`, `LiveMeansMoving`, and under fairness `PictureRecovers` | 2 workloads, 10 answers, offline; ~93k |
| `control` | `SentOnEvidence`, `PendingPanelSteady`, and under fairness `Recovers` | 2 sources, 6 topologies; ~463k |
| `lane` | `OneJobEach`, `OpensOnceOver`, and under fairness `LaunchesSettle`, `DegradedLifts` | 2 workflows, 2 sends; ~221k |

Fairness of `RunControl` (`FairSpec`): weak fairness of each operation's coroutine. Every call
it awaits carries a timeout (AWX, NetBox and Prometheus requests, the wake
helper, the readiness retry), and the watcher and the drain poll have
deadlines. Nothing is assumed about operators, AWX's progress, expiry or
restarts: in `dispatch` a job may stay pending for ever and the operation ends
because the watcher gives up.

Fairness of `InventoryRead`: threads and the event loop are scheduled, and a
read ends, because every NetBox request has a timeout. No timeout of a write is
assumed to fire: `writes` shows that a waiter is released by the owner of the
read even when the owner's request has gone or the read raised.

Fairness of `SwitchSource`: an actuator goes on when what it awaits returns,
and its deadline passes. Nothing is assumed of the play, which may hang for
ever.

Fairness of the frontend modules: intervals go on firing and requests end, in
one way or another; the backend's tasks and watchers go on, as `RunControl`
assumes. `wizard` and `lane` let the inventory, or the list of workflows, be
read successfully again and again, because what comes back there comes back
with a read. Nothing is assumed of the operator, of restarts, of the network, of
AWX's jobs except in `create` and `lane`, where a job that never ends is
followed for ever, rightly. `control` says what must hold for the control to
come back (`Switchable`, `Readable`) instead of assuming it.

### Disagreements found

The first two have a run that checks the statement the repository makes, which
TLC refutes. The others came up while modelling and have none.

* `wedge` / `EveryRequestEnds`: `_resolve_topology_seam` handles
  `NetboxAPIError` only; another failure of the NetBox read leaves the new
  operation WAKING for ever, which the comment beside it says must not happen.
* `retries` / `RetriesAutomatically`: the Jobs lane says "Retrying
  automatically" of a list that could not be loaded; the interval of that query
  (`hooks.ts:98`) is off unless the data it has carries a reason.
* `main.py:2190`: a verified rollback closes *later* incomplete attempts of its
  run as the "superseded earlier" ones of the comment.
* `operations.py:30` documents RUN_FAILED as "failed without ever starting"; a
  watcher that lost a queued job says it too (`main.py:2324`).
* A rollback that is complete at once does not resolve the deploy it recovered;
  only a drain verification does (`main.py:2753`, against `operations.py:53`).
* `main.py:2212`: a verifier that gives up late marks an already verified
  operation pending.
* `WorkloadHome.tsx:214` and `WorkloadSetup.tsx:196` want a workload called
  missing on an answered read only. A page opened offline with nothing cached
  has a paused query, which is neither loading nor failed, and says "not found".
* `JobsLane.tsx:231`: "Stay armed, launchError renders the failure here" is not
  so once another workflow was confirmed: the shared mutation follows its last
  call, and the first card's confirmation is enabled again meanwhile.
* `WorkloadMaterializing.tsx:145-147` says that the operation a page follows
  "never changes mid-life". `WorkloadSetup.tsx:303-305` renders the page without
  a key, so a second deploy confirmed while the first one's answer is out changes
  it. The exit to the live view can then stand open, or "Launch failed" be said,
  for a launch that is still waking; a launch without an operation that comes to
  a page that follows one is not polled at all. `ExitTells` and `HandoffEnds`
  name these cases as their exceptions, and `create` reaches them.
* `hooks.ts:575` says of a clear that "the loop closes atomically or not at
  all". It does for the panel that sent it; a panel mounted again before the
  read is in offers the clear on the old one.
* `CreateWorkload.tsx`: a failed operation is worded as if nothing was created,
  although a POST whose answer was lost may have been carried out.
* `awx.py:497` says `find_active_job_for_template` makes a launch idempotent;
  the synchronous launch path never calls it.

## 4. What is proved

Every invariant and every action property of the runs, and the three
refinements, for every value of the constants. What a theorem assumes of the
constants is the assumption its module names; TLC evaluates it on the instances
of the runs.

The first part of `RunControlProofs` proves, for every set of keys, slugs, workflows and
operators, every `MaxOps` and `MaxRestarts`, either value of `AutoRollback` and
`Foreign` and every `Kinds` (assumptions `StoreAssumption`,
`RunControlAssumption`):

* `Inductive`: `Spec => []IInv`;
* `TypeCorrect`: `Spec => []TypeOK`;
* `OneRun`: `Spec => []OneRunAtATime`;
* `CleanRun`: `Spec => []CleanUnderRun`.

`OneRunAtATime` and `CleanUnderRun` are not inductive alone. A watcher hands
the lock from a failed deploy to a rollback it creates without asking: that is
safe only because the deploy it belongs to is in flight, which is what
`PhaseStates` says (the place of a coroutine tells the state of its operation).
The exemptions of the busy check are safe only because `rollback_incomplete`
occurs on rollbacks alone (`DirtKinds`). A recheck writes RUN_COMPLETE on the
operation it looked at some time ago, whatever its state is now: it must be one
no coroutine drives any more (`RecheckSettled`). Ids not handed out are unused
(`Allocated`).

The proof has a lemma per kind of step (`TaskStep`, `StateStep`, `EndStep`,
`StillStep`, `CleaningStep`, `CreateStep`, `HandOverStep`, `OutsideStep`), each
showing that a step of that shape preserves `IInv`, resting on what the writes
of the store do (`UpdateEffect`, `InsertEffect`, `MarkVerifiedEffect`) and on
two lemmas on the lock (`LockTaken`: the busy check found nothing; `LockKept`:
nothing new in flight, new dirt only from the run that ended); then a lemma per
group of actions places each action among them.

The second part goes on, under the same assumptions, with what the
console says of AWX's jobs:

* `JobsInductive`: `Spec => []JobInv`;
* `ClaimsHold`: `Spec => []RollbackClaims`;
* `TriggersJustified`: `Spec => []AutoRollbackJustified`;
* `NoCompetition`: `Spec => []NoCompetingJobs`.

`Coherent` says what an operation knows of its jobs: a coroutine that has not
launched has no job, a watched rollback stands on its own, a deploy that
reattached carries the run its job was launched with or none. `Drainable` is
the one that matters for drain verifications: a recheck writes on a
rollback it looked at some awaits ago, and may do so because whatever was
drainable then is, or is forgotten. Jobs only grow (`JobsGrow`), so such facts
survive AWX's steps. Competing jobs are a matter of evidence: what
`FindActiveJob` and `CheckOpposite` found must still hold at the launch
(`Looked`). It does because no two runs are in flight (`OneRun`): nobody else
launches in between, not even after the watcher of a live job gave up. A launch that AWX
accepts late rests on no such look, which is why its job is not counted.

The third part:

* `OwnInductive`: `Spec => []OwnInv`;
* `DirtRule`: `Spec => DirtNeedsCleanRollback`;
* `Finality`: `Spec => TerminalIsFinal`.

`StoreStep` sorts all a step may do to the store into seven kinds (`Fresh`,
`TaskWrites`, `HandsOver`, `Marks`, `Collects`, `Moves`, `Forgets`). Of these
only `Marks`, a drain verification, changes an operation that has ended
(`EndedStep`), to what `MarkOutcome` says; `OwnInv` makes the job behind it a
rollback of the very run that was dirty.

The fourth part:

* `SettledInductive`: `Spec => []SettledInv`;
* `LockImplemented`: `Spec => LockSpec`, the refinement of `FacilityLock`.

Each kind of `StoreStep` is a step of the lock or none: a fresh operation takes
it (`TakesLock`), a task's write ends its hold (`EndsLock`), an automatic
rollback takes it over (`HandsLock`), verification and expiry clean. `Settled`
is needed for a verification: the rollback it completes is none in flight.

`InventoryReadProofs` proves, for every number of reads and writers, every
clock bound and grace window (`ReadAssumption`):

* `ReadsInductive`: `Spec => []IInv`;
* `AnswersTrue`: `Spec => []AnswerIsTrue`;
* `LatestWinsAlways`: `Spec => LatestWins`, the refinement of
  `LatestObservation`;
* `OneRead`: `Spec => []OneColdRead`;
* `WritesOnEvidence`: `Spec => AdmittedOnEvidence`;
* `EpisodesHonest`: `Spec => EpisodeHonest`.

The code decides by a handful of scalars; the properties speak of all reads
that have reported. `Record` ties the two together: a failure is on record
exactly when no success is newer than the newest recorded failure, and then the
open episode lies between them; otherwise the snapshot is the newest success.
`Means` states it of a read state and two sets of tickets, so that the two ways
of reporting are proved by arithmetic alone (`SuccessMeans`, `FailureMeans`)
and lifted to steps (`RecordSuccess`, `RecordFailure`); all other steps leave
reported reads alone (`RecordFrame`). The refinement follows from the same two
cases (`SuccessReports`, `FailureReports`). `Ownership` says that the writer
registered for a scope is the one whose thread has not cleaned up.

`EpisodeHonest` needs no further invariant but arithmetic on sets of tickets:
`SuccessExact` and `FailureExact` say of one report what it makes of the earliest
failure since the last success (`OutageOf`), where the single exception is a
success with two later failures (`TwoMembers`), which the comment on
`_ReadState` allows for.

`SwitchSourceProofs` proves, for any receivers and sources and any number of
requests and restarts (`SwitchAssumption`):

* `SwitchInductive`: `Spec => []IInv`;
* `HonestCopy`: `Spec => []CopyHonest`;
* `Disclosed`: `Spec => []CompetitionDisclosed`;
* `ContractKept`: `Spec => KeepsContract`, the refinement of `SwitchContract`.

That two live jobs are disclosed follows from who may have a live job: a
command still watching it, of which `OneSwitch` allows one per receiver, or one
that ended with an unknown result (`JobOf`). `CopyHonest` needs what a job's
event says of what it wrote (`PlayReports`), and that a job whose command
claims anything is over, so that no later step of it can belie the claim
(`CopyStill`).

`WorkloadWizardProofs` proves, for every set of entries, every payload and
every number of writes (`WizardAssumption`):

* `WizardTypeCorrect`: `Spec => []TypeOK`;
* `FlagOnItsPanel`: `Spec => []JobHoldsPanel`;
* `ClearClosed`: `Spec => []ClearClosesLoop`;
* `ArmedKept`: `Spec => UnsettledReadsKeepArmed`.

A job flag is lowered by the panel of its stage alone. The position comes from
the backend and may move at any read, so the step of a running job must be open
whatever the position is: `JobStepOpen` shows that from `ActiveStage`, in which
the flag goes before the position, and `RenderHolds` that a render then leaves
the panel mounted.

Confirmations and requests live in the mounted panel, and a clear holds its own
panel while it is pending (`PanelHeld`): so an unsettled read, which leaves the
settled steps as they are, unmounts nothing that is armed. A clear that was
answered stays pending, in the panel that sent it, until a read newer than the
answer has landed (`ClearAwaited`), so what that panel offers next is offered on
that read. Of a clear whose panel has gone it is proved that the newer read is
on its way (`ReadAwaited`).

`JobsLaneProofs` proves, for every set of workflows, number of operations,
sends and restarts (`JobsLaneAssumption`):

* `LaneInductive`: `Spec => []IInv`;
* `OneJob`: `Spec => []OneJobEach`;
* `OpensWhenOver`: `Spec => OpensOnceOver`.

One click makes one job because the endpoint keeps one launch of a workflow at
a time (`OneUnderway`), and because a POST under way was sent on a look that
still holds (`PostAlone`). A POST given up on may still be carried out, but
nobody waits for it (`StrayOver`), which is why such jobs are not counted.

A card opens by what the page has polled, some of it long ago. `Advances` states
what makes that enough: what the page saw of a launch was true of it
(`SeenIsTrue`), and an operation or a job that was over then is over now; and
every launch the page was told of is followed until it is (`Followed`).

`SwitchControlProofs` proves, for any sources, topologies and staleness bound
(`ControlAssumption`):

* `ControlTypeCorrect`: `Spec => []TypeOK`;
* `SwitchesOnEvidence`: `Spec => SentOnEvidence`;
* `PanelStays`: `Spec => PendingPanelSteady`.

Both follow from the types once these say that a request is out only from an
armed panel on the control. The request is decided at the click, on the age of
the reading then and not on the age the panel was rendered with.

`CreateWorkloadProofs` proves, for any identities, entries, facilities and number
of requests (`CreateAssumption`):

* `CreateInductive`: `Spec => []IInv`, with `CreateTypeCorrect`: `Spec => []TypeOK`;
* `SendsConfirmed`: `Spec => SentIsConfirmed`;
* `ExitTellsTruth`: `Spec => []ExitTells`;
* `ExitStays`: `Spec => ExitStaysOpen`.

`TypeOK` is not inductive: that the inventory lists well-formed identities rests
on no request going out without one (`RequestNamed`), which is the gate of the
draft (`ProvisionOpens`, a fact of the flow for every draft; `ConfirmsDraft`).
`LineTrue` says that what the page has polled is still so of the launch it polled
(`line.of`), and in which cases that is another one than its own. `CarriedTrue`
proves it of what a page keeps when a new launch comes to it. The step for a
poll of the job needs that there is one by the time the page asks (`JobOfOp`): a
page follows the job only of an operation it saw past its launch.

`WorkloadViewsProofs` proves, for any workloads, members and inventories
(`ViewsAssumption`, of which a payload that is not configured carries no other
grade, as `api_media_workloads_grouped` answers it):

* `ViewsTypeCorrect`: `Spec => []TypeOK`;
* `PagesAgreeAlways`: `Spec => []PagesAgree`;
* `LiveIsMoving`: `Spec => []LiveMeansMoving`;
* `ViewsSteady`: `Spec => LiveViewSteady`;
* `AbsenceRead`: `Spec => AbsenceIsRead`.

The pages compute what they say from one cached read, so the argument is about
the operators, and the invariant is no more than the type of the read:
`InputFlags` says which flags an input has of a read, `HomeStates`, `Exits`,
`ConfigureOpens` and `BadgeOf` what the flow makes of an input, and `Agree`
compares the pages. `SameAnswer` relates two reads that hold the same answer,
one of which may be on its way; all that home and the list show is a function of
it (`SameHome`, `SameList`). `ClaimVouched`: a claim of absence is made only of a
read that did not fail and that the inventory stood behind.

Only model-checked: liveness (`DispatchedOpsEnd`, `EveryWriteAnswered`,
`EverySwitchEnds`, `ControlsReturn`, `HandoffEnds`, `PictureRecovers`, `Recovers`,
`LaunchesSettle`, `DegradedLifts`), which like ENABLED is out of this prover's
reach.

## 5. Not modelled

* Synchronous dispatch (AWX autoscaling off), the detail of a watcher's polls
  (three misses, milestones, ingestion waits, audit join records), the readiness
  retry, the sidecar cache, purge resolution, the audit reader, the capacity
  preflight, setup requests and the release gates: planned below, for want of
  runs rather than of substance.
* The History lane and the remaining pages of the frontend display one read
  each. The browser's own action records (`store/activity.ts`) are capped at 50
  and overwritten between tabs; they decide nothing.
* Stateless request checks, configuration parsing, rendering and packaging have
  nothing a model would tell.
* `InstanceLiveModal` and the tiles are followed for one preview; figures of
  health and runtime on them are display.

## 6. Plan

1. `JobWatch`: one watcher in detail, refining the watcher of `RunControl`;
   milestones monotone, audit claims never stronger than what was observed.
2. `SyncDispatch`: the synchronous endpoints over the same store, with the
   check-to-create window.
3. `AwxReadiness`: phases of a call and what the readiness retry may repeat.
4. `ScopedCache`, `SetupReceipts`, `PurgeResolution` (complete paged reads
   under concurrent change, fail-closed probe classification).
5. `AuditLane`: join of terminal records with dispatch rows, ageing; the History
   lane over it.
6. `CapacityPreflight` (pure operators against a reference definition),
   `ReleaseGate`.

The project keeps to a dozen runs, so that all of it is checked in minutes: a
new module's run joins an existing one (`JobWatch` and `SyncDispatch` extend
`dispatch`, `AwxReadiness` extends `lane`) or takes the place of `retries`.

Theorems to come: those of the modules above; and the safety half of the
liveness properties, that nobody waits for something that is not there.
