--------------------------- MODULE WorkloadWizard ---------------------------
(***************************************************************************)
(* A workload's guided setup page in one browser tab: the read that        *)
(* decides whether the wizard is on screen, the step whose panel is        *)
(* mounted, the confirmations armed in it, the writes it sends and the     *)
(* operations and jobs it follows until they end (WorkloadSetup.tsx,       *)
(* FlowStep.tsx, stages/*.tsx, ReasonConfirm.tsx, ClearForDeployment.tsx   *)
(* and api/hooks.ts under src/frontend/src).                               *)
(*                                                                         *)
(* A React render is atomic.  What a stage holds (armed confirmations,     *)
(* tracked operations, pending mutations) lives in the mounted panel and   *)
(* is lost with it, while the page's job flags are the wizard's: a flag    *)
(* whose stage is gone would never fall, and with it every control.        *)
(***************************************************************************)
EXTENDS WorkloadFlow

CONSTANTS
  Key,       \* the catalog entries behind the workload's functions
  Payload,   \* bound: what /api/media-workloads/grouped may say of the workload
  UserRead,  \* bound: how a read of /api/me may settle, [role, isError]
  MaxWrites  \* bound: the writes confirmed in a behaviour

ASSUME WizardAssumption ==
  Key \cap {"purge", "clear", "switch"} = {} /\ MaxWrites \in Nat

VARIABLES
  read,       \* the grouped inventory query
  user,       \* the current-user query
  selected,   \* selectedStep
  settled,    \* settledStepsRef: the steps openable at the last settled reads
  flags,      \* launching, switching, tearingDown
  owner,      \* jobOwner
  armed,      \* the units whose ReasonConfirm panel is open
  pending,    \* the units whose write is not answered yet
  latest,     \* variables.key of the stage's mutation hook: its last call
  track,      \* what the stage follows a unit's accepted write by
  wire,       \* each unit's request on its way to the backend and back
  op,         \* the backend: each unit's operation
  cleared,    \* whether a clear was answered after the payload on screen was
              \* read: "here" with its panel mounted, "gone" without
  writes      \* how many writes were confirmed

panel == <<selected, settled, flags, owner, armed, pending, latest, track>>
vars == <<read, user, panel, wire, op, cleared, writes>>

\* What one write is about: an entry, the whole workload's purge, the clear of
\* a member, the switch of a receiver.
Unit == Key \cup {"purge", "clear", "switch"}

\* "settling": the AWX job ended and the watcher has not recorded the outcome;
\* "error": the operation never got a job.  "lost": the backend has no record
\* of the operation any more; its job, if any, runs to its end.
OpPhase == {"none", "waking", "launched", "settling", "done", "error", "lost"}

\* "refetch": a clear answered, its invalidation's reads not settled.
Request == {"none", "sent", "accepted", "refused", "refetch"}

\* Whether a read of the query is on its way.
Fetch == {"idle", "fetching"}

Nobody == "nobody"
NoData == [members |-> <<>>, grade |-> "pending"]

TypeOK ==
  /\ read \in [at : Payload \cup {NoData}, status : {"ok", "error"},
               fetch : Fetch]
  /\ user \in [at : UserRead, fetch : Fetch]
  /\ selected \in FlowStepId \cup {NoStage}
  /\ settled \subseteq FlowStepId
  /\ flags \subseteq JobFlag
  /\ owner \in FlowStepId \cup {NoStage}
  /\ armed \subseteq Unit /\ pending \subseteq Unit
  /\ latest \in Key \cup {Nobody}
  /\ track \in [Unit -> {"idle", "op", "job"}]
  /\ wire \in [Unit -> Request]
  /\ op \in [Unit -> OpPhase]
  /\ cleared \in {"no", "here", "gone"} /\ writes \in 0..MaxWrites

-----------------------------------------------------------------------------
(* What a render derives from the reads.                                   *)

\* None of the early returns of the page: loading, error, not configured, not
\* confirmed, not found.
Shown(r) ==
  /\ r.at # NoData /\ r.status = "ok"
  /\ r.at.grade # "unconfigured"
  /\ DOMAIN r.at.members # {}

WizardInput(r, u, jobs) ==
  BuildWorkloadLifecycleInput(r.at.members, TRUE, jobs,
    [isError |-> r.status = "error", isFetching |-> r.fetch = "fetching",
     configured |-> r.at.grade # "unconfigured",
     degraded |-> r.at.grade = "degraded", stale |-> r.at.grade = "stale"],
    [role |-> u.at.role, isError |-> u.at.isError,
     isFetching |-> u.fetch = "fetching"])

\* Here and in Offered the union over one input makes TLC evaluate it once.
OpenSteps(i) ==
  UNION {{id \in FlowStepId : IsStepOpenable(FlowSteps(input)[id])} :
           input \in {i}}

Offered(step, i) == UNION {StageActions(step, input) : input \in {i}}

Unsettled(r, u) == "fetching" \in {r.fetch, u.fetch}

\* guardWrite, asked again when a confirmation is submitted.
WritesBlocked == read.at.grade \in {"stale", "degraded"}

DefaultSelection(input, requested) ==
  IF requested \in FlowStepId THEN requested
  ELSE IF CurrentStep(input) # NoStage THEN CurrentStep(input)
  ELSE IF OffFlow(input) THEN "finalise"
  ELSE "design"

\* FlowStep mounts its children unless the step it is given is locked.
Mounted == Shown(read) /\ selected \in settled


StageFlag(step) ==
  IF step = "provision" THEN {"launching"}
  ELSE IF step = "configure" THEN {"switching"}
  ELSE IF step = "finalise" THEN {"tearingDown"}
  ELSE {}

Idle == [u \in Unit |-> "idle"]

\* isPending follows the latest call of the stage's one mutation hook.
CallPending(sent, last) == last \in sent

\* The busy a mounted stage reports through onBusyChange.
StageBusy(step, sent, last, following) ==
  \/ /\ step \in {"provision", "finalise"}
     /\ \/ CallPending(sent, last)
        \/ \E k \in Key : following[k] # "idle"
  \/ step = "provision" /\ "clear" \in sent
  \/ step = "configure" /\ "switch" \in sent
  \/ step = "finalise" /\ ("purge" \in sent \/ following["purge"] # "idle")

UnitsOf(action) ==
  IF action \in {"deploy", "tear-down"} THEN Key
  ELSE IF action = "delete-permanently" THEN {"purge"}
  ELSE IF action = "clear-for-deployment" THEN {"clear"}
  ELSE {"switch"}

\* The units whose control the mounted stage shows.
OfferedUnits ==
  UNION {UnitsOf(a) : a \in Offered(selected, WizardInput(read, user, flags))}

-----------------------------------------------------------------------------
(* A render and the effects it runs, after a change of the reads or of     *)
(* what the stage holds: the mounted stage reports busy, the flags decide  *)
(* the steps, and a step that settles as locked unmounts its panel.        *)

\* The flags once the effects have run; a new wizard starts with none.
JobsAfter(step, sent, last, following) ==
  IF ~ Shown(read') \/ ~ Shown(read) THEN {}
  ELSE IF ~ Mounted THEN flags
  ELSE IF StageBusy(step, sent, last, following) THEN StageFlag(step)
  ELSE {}

\* Mutant for UnsettledReadsKeepArmed: no latch over a read in flight.
MutantStepsAfter(jobs) ==
  IF Shown(read') THEN OpenSteps(WizardInput(read', user', jobs)) ELSE {}

StepsAfter(jobs) ==
  IF ~ Shown(read') THEN {}
  ELSE IF Shown(read) /\ Unsettled(read', user') THEN settled
  ELSE OpenSteps(WizardInput(read', user', jobs))

Render(step, arms, sent, last, following, by) ==
  \E jobs \in {JobsAfter(step, sent, last, following)} :
    \E steps \in {StepsAfter(jobs)} :
      LET mounted == Shown(read') /\ step \in steps
      IN  /\ flags' = jobs
          /\ settled' = steps
          /\ selected' = IF Shown(read') THEN step ELSE NoStage
          /\ owner' = IF jobs = {} THEN NoStage ELSE by
          /\ armed' = IF mounted THEN arms ELSE {}
          /\ pending' = IF mounted THEN sent ELSE {}
          /\ latest' = IF mounted THEN last ELSE Nobody
          /\ track' = IF mounted THEN following ELSE Idle

\* The operator did nothing.  A wizard that comes back on screen is a new one,
\* and the address may name the step it opens at.
Rerender(sent) ==
  IF Shown(read') /\ ~ Shown(read)
    THEN \E input \in {WizardInput(read', user', {})},
            requested \in FlowStepId \cup {NoStage} :
           Render(DefaultSelection(input, requested),
                  {}, {}, Nobody, Idle, NoStage)
    ELSE Render(selected, armed, sent, latest, track, owner)

\* The mounted stage's own state changed.
StageChange(arms, sent, last, following, by) ==
  /\ Mounted
  /\ Render(selected, arms, sent, last, following, by)

-----------------------------------------------------------------------------
(* The two queries.                                                        *)

Init ==
  /\ read = [at |-> NoData, status |-> "ok", fetch |-> "fetching"]
  /\ user \in [at : UserRead, fetch : Fetch]
  /\ selected = NoStage /\ settled = {} /\ flags = {} /\ owner = NoStage
  /\ armed = {} /\ pending = {} /\ latest = Nobody /\ track = Idle
  /\ wire = [u \in Unit |-> "none"]
  /\ op = [u \in Unit |-> "none"]
  /\ cleared = "no" /\ writes = 0

\* The 15 s poll, a focus or a mount.
FetchStart ==
  /\ read.fetch = "idle"
  /\ read' = [read EXCEPT !.fetch = "fetching"] /\ user' = user
  /\ Rerender(pending)
  /\ UNCHANGED <<wire, op, cleared, writes>>

\* A clear stays pending until the reads its invalidation started settle.
Settle(r) ==
  /\ read.fetch = "fetching"
  /\ read' = r /\ user' = user
  /\ wire' = IF wire["clear"] = "refetch" THEN [wire EXCEPT !["clear"] = "none"]
             ELSE wire
  /\ Rerender(IF wire["clear"] = "refetch" THEN pending \ {"clear"} ELSE pending)
  /\ UNCHANGED <<op, writes>>

FetchOk(p) ==
  /\ Settle([at |-> p, status |-> "ok", fetch |-> "idle"])
  /\ cleared' = "no"

\* A failed refetch leaves the last payload in place.
FetchFail ==
  /\ Settle([read EXCEPT !.status = "error", !.fetch = "idle"])
  /\ UNCHANGED cleared

UserFetch(u) ==
  /\ user' = IF user.fetch = "fetching" THEN [at |-> u, fetch |-> "idle"]
             ELSE [user EXCEPT !.fetch = "fetching"]
  /\ read' = read
  /\ Rerender(pending)
  /\ UNCHANGED <<wire, op, cleared, writes>>

\* invalidateQueries: a read on its way is dropped and started again.
Invalidate == read' = [read EXCEPT !.fetch = "fetching"]

-----------------------------------------------------------------------------
(* The operator.                                                           *)

\* The keys of the rail are buttons; during a job they are labels.
KeysAct == flags = {}

\* The rail, and Previous and Next, which only repeat two of its keys.  A locked
\* step may be selected too.
SelectStep(step) ==
  /\ Shown(read) /\ KeysAct /\ step # selected
  /\ read' = read /\ user' = user
  /\ Render(step, {}, {}, Nobody, Idle, owner)
  /\ UNCHANGED <<wire, op, cleared, writes>>

\* What an entry's card knows of its own write, and its progress notice.
InFlight(u) == track[u] # "idle"

\* The card has a button instead of a panel.  A clear is confirmed in a panel
\* that is rendered only while it is offered.
Armable(u) == u \notin armed \cup {"clear"} /\ ~ InFlight(u)

Arm(u) ==
  /\ Armable(u)
  /\ read' = read /\ user' = user
  /\ StageChange(armed \cup {u}, pending, latest, track, owner)
  /\ UNCHANGED <<wire, op, cleared, writes>>

ConfirmPending(u) == u \in pending /\ (u \in Key => latest = u)

Cancel(u) ==
  /\ u \in armed /\ ~ ConfirmPending(u)
  /\ read' = read /\ user' = user
  /\ StageChange(armed \ {u}, pending, latest, track, owner)
  /\ UNCHANGED <<wire, op, cleared, writes>>

\* Whether the ReasonConfirm of u is on screen with its button enabled: an
\* armed panel stays whatever the reads and the other units do.
Confirmable(u) ==
  /\ ~ ConfirmPending(u) /\ ~ WritesBlocked
  /\ \/ u \in armed
     \/ u = "clear" /\ u \in OfferedUnits

\* startJob and the mutation.  Bound: a request that an unmounted panel left
\* behind is over before the same unit is confirmed again.
Confirm(u) ==
  /\ wire[u] = "none" /\ writes < MaxWrites
  /\ Mounted /\ Confirmable(u)
  /\ wire' = [wire EXCEPT ![u] = "sent"] /\ writes' = writes + 1
  /\ read' = read /\ user' = user
  /\ StageChange(armed, pending \cup {u}, IF u \in Key THEN u ELSE latest,
                 track, selected)
  /\ UNCHANGED <<op, cleared>>

-----------------------------------------------------------------------------
(* The backend, and the answers.                                           *)

OpBusy == \E u \in Unit : op[u] \in {"waking", "launched", "settling"}

\* The backend admits one operation at a time; clear and switch are direct.
Receive(u) ==
  /\ wire[u] = "sent"
  /\ LET direct == u \in {"clear", "switch"}
         admitted == direct \/ ~ OpBusy
     IN  /\ wire' = [wire EXCEPT ![u] = IF admitted THEN "accepted" ELSE "refused"]
         /\ op' = IF admitted /\ ~ direct THEN [op EXCEPT ![u] = "waking"] ELSE op
  /\ UNCHANGED <<read, user, panel, cleared, writes>>


\* Mutant for ClearClosesLoop: the invalidation is not awaited.
MutantAnswerClear ==
  /\ wire' = [wire EXCEPT !["clear"] = "none"] /\ cleared' = "here"
  /\ Invalidate
  /\ StageChange(armed, pending \ {"clear"}, latest, track, owner)

\* The answer finds the panel that sent the request.  A clear's starts the
\* reads that end it.
AnswerClear ==
  /\ wire' = [wire EXCEPT !["clear"] = "refetch"] /\ cleared' = "here"
  /\ Invalidate
  /\ StageChange(armed, pending, latest, track, owner)

AnswerSwitch ==
  /\ wire' = [wire EXCEPT !["switch"] = "none"] /\ read' = read
  /\ StageChange(armed \ {"switch"}, pending \ {"switch"}, latest, track, owner)
  /\ UNCHANGED cleared

\* An operation to follow.
AnswerOperation(u) ==
  /\ wire' = [wire EXCEPT ![u] = "none"] /\ read' = read
  /\ StageChange(armed \ {u}, pending \ {u}, latest,
                 [track EXCEPT ![u] = "op"], owner)
  /\ UNCHANGED cleared

Answer(u) ==
  /\ wire[u] = "accepted" /\ u \in pending /\ user' = user
  /\ \/ u = "clear" /\ AnswerClear
     \/ u = "switch" /\ AnswerSwitch
     \/ u \in Key \cup {"purge"} /\ AnswerOperation(u)
  /\ UNCHANGED <<op, writes>>

\* A refusal, or a request or an answer that was lost: the panel stays armed.
AnswerFail(u) ==
  /\ wire[u] \in {"sent", "accepted", "refused"} /\ u \in pending
  /\ wire' = [wire EXCEPT ![u] = "none"]
  /\ read' = read /\ user' = user
  /\ StageChange(armed, pending \ {u}, latest, track, owner)
  /\ UNCHANGED <<op, cleared, writes>>

\* The panel is gone, and with it what it would have followed; the backend
\* may have done what was asked.  A clear's invalidation is the hook's own and
\* starts its reads all the same, with no mutation on screen to wait for them.
AnswerNobody(u) ==
  /\ wire[u] \in {"accepted", "refused"} /\ u \notin pending
  /\ wire' = [wire EXCEPT ![u] = "none"]
  /\ \/ UNCHANGED <<read, user, panel, cleared>>    \* or the answer was lost
     \/ /\ u = "clear" /\ wire[u] = "accepted"
        /\ Invalidate /\ user' = user /\ cleared' = "gone"
        /\ Rerender(pending)
  /\ UNCHANGED <<op, writes>>

OpStep(u) ==
  /\ \E next \in OpPhase :
       /\ \/ op[u] = "waking" /\ next \in {"launched", "error"}
          \/ op[u] = "launched" /\ next = "settling"
          \/ op[u] = "settling" /\ next = "done"
       /\ op' = [op EXCEPT ![u] = next]
  /\ UNCHANGED <<read, user, panel, wire, cleared, writes>>

\* The backend restarts with an empty store, or collects an operation that
\* ended long ago.  Bound: what a poll had answered before is handled before.
Forgets(lost) ==
  /\ lost # {}
  /\ op' = [u \in Unit |-> IF u \in lost THEN "lost" ELSE op[u]]
  /\ UNCHANGED <<read, user, panel, wire, cleared, writes>>

Restart == Forgets({u \in Unit : op[u] \notin {"none", "lost"}})

Expire == \E u \in Unit : op[u] = "done" /\ Forgets({u})

-----------------------------------------------------------------------------
(* The status lines.  An answer to a poll may be handled late, so the       *)
(* operation may be further on by then.                                    *)

\* onLaunched: an entry's operation has a job, which is followed instead.
FollowJob(u) ==
  /\ u \in Key /\ track[u] = "op"
  /\ op[u] \in {"launched", "settling", "done"}
  /\ read' = read /\ user' = user
  /\ StageChange(armed, pending, latest, [track EXCEPT ![u] = "job"], owner)
  /\ UNCHANGED <<wire, op, cleared, writes>>


\* Mutant for ControlsReturn: only the job's end, never the operation's own.
MutantRelease(u) ==
  /\ track[u] = "job" /\ op[u] \in {"settling", "done"}
  /\ Invalidate /\ user' = user
  /\ StageChange(armed, pending, latest, [track EXCEPT ![u] = "idle"], owner)
  /\ UNCHANGED <<wire, op, cleared, writes>>

\* onTerminal, the purge's own effect and, once a job is followed, onComplete:
\* AWX answers for a job whose operation is lost.
Release(u) ==
  /\ \/ track[u] = "op" /\ op[u] \in {"done", "error"}
     \/ track[u] = "job" /\ op[u] \in {"settling", "done", "lost"}
  /\ IF op[u] = "error" /\ u \in Key THEN read' = read ELSE Invalidate
  /\ user' = user
  /\ StageChange(armed, pending, latest, [track EXCEPT ![u] = "idle"], owner)
  /\ UNCHANGED <<wire, op, cleared, writes>>

Next ==
  \/ FetchStart
  \/ \E p \in Payload : FetchOk(p)
  \/ FetchFail
  \/ \E u \in UserRead : UserFetch(u)
  \/ \E step \in FlowStepId : SelectStep(step)
  \/ Mounted /\ \E u \in OfferedUnits : Arm(u)
  \/ \E u \in Unit :
       Cancel(u) \/ Confirm(u) \/ Receive(u) \/ Answer(u) \/ AnswerFail(u)
         \/ AnswerNobody(u) \/ OpStep(u) \/ FollowJob(u) \/ Release(u)
  \/ Restart \/ Expire

\* Requests and reads end, polls are answered, the watcher records an outcome.
Fairness ==
  /\ WF_vars(\E p \in Payload : FetchOk(p))
  /\ WF_vars(\E u \in Unit : Receive(u))
  /\ WF_vars(\E u \in Unit : Answer(u) \/ AnswerFail(u))
  /\ WF_vars(\E u \in Unit : OpStep(u))
  /\ WF_vars(\E u \in Unit : FollowJob(u) \/ Release(u))

Spec == Init /\ [][Next]_vars /\ Fairness

-----------------------------------------------------------------------------
(* Properties.                                                             *)

\* A job flag is up only while the panel that can lower it is mounted, and it
\* is that panel's own: no render order leaves every control of the page dead
\* behind a flag whose stage is gone.
JobHoldsPanel ==
  flags # {} => Mounted /\ flags = StageFlag(selected)

\* A panel that follows an operation the backend no longer knows: the read
\* fails for ever, and nothing lowers the flag.
Orphaned(u) == track[u] = "op" /\ op[u] = "lost"

\* The job flag that takes every control of the page away comes down again: the
\* panel learns the outcome of what it sent or followed, or is gone.  The one
\* exception is an operation the backend forgot before it had a job to follow.
\* (MaxWrites keeps a later write from holding the flag up instead.)
ControlsReturn ==
  flags # {} ~> flags = {} \/ \E u \in Unit : Orphaned(u)

\* What the background reads do while they are unsettled never closes the
\* confirmation an operator has open (dmfdeploy#392).
UnsettledReadsKeepArmed ==
  [][ /\ <<read, user>>' # <<read, user>>
      /\ Shown(read) /\ Shown(read') /\ Unsettled(read', user')
      => armed' = armed ]_vars

\* "The loop closes atomically or not at all" (useClearForDeployment): while
\* the inventory read before an answered clear is on screen, a read after it is
\* on its way, and the clear that was answered in the mounted panel stays
\* pending, so it cannot be sent again.  A clear whose panel had gone is not
\* pending anywhere: the stage mounted since offers it again until that read
\* lands, and only until then.
ClearClosesLoop ==
  cleared # "no" /\ Mounted =>
    /\ read.fetch = "fetching"
    /\ cleared = "here" => "clear" \in pending
=============================================================================
