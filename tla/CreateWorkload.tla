--------------------------- MODULE CreateWorkload ---------------------------
(***************************************************************************)
(* Creating a media workload from one browser tab: the draft, kept until   *)
(* Provision fires, the deploy request it becomes, and the page that       *)
(* follows the launch until the inventory shows the workload               *)
(* (CreateWorkload.tsx, store/draftWorkload.ts, WorkloadMaterializing.tsx  *)
(* and stages/JobProgress.tsx under src/frontend/src).                     *)
(*                                                                         *)
(* Three lifetimes meet here.  The draft is the tab's and survives every   *)
(* page but not a reload; the launch is in the history entry and survives  *)
(* both; what the page has polled of it dies with the page.  A request     *)
(* goes on when the page that sent it is gone, and its answer still takes  *)
(* the tab to the setup page.  When that page is on screen for an earlier  *)
(* launch it is not mounted again (WorkloadSetup.tsx gives it no key), and *)
(* keeps most of what it has learnt of the other one.                      *)
(***************************************************************************)
EXTENDS WorkloadFlow

CONSTANTS
  Slug,         \* well-formed workload identities
  Key,          \* catalog entries
  Site,         \* facilities
  CatalogRead,  \* bound: what /api/catalog may answer, the entries' lifecycles
  SiteRead,     \* bound: what /api/facility/summary may answer
  MaxSends      \* bound: the deploy requests of a behaviour

NoSlug == "no-slug"     \* an identity that is empty or malformed
NoKey == "no-key"
NoSite == "no-site"

ASSUME CreateAssumption ==
  /\ NoSlug \notin Slug /\ NoKey \notin Key /\ NoSite \notin Site
  /\ CatalogRead \subseteq [Key -> {"absent", "bootstrapped", "active"}]
  /\ SiteRead \subseteq SUBSET Site
  /\ MaxSends \in Nat

VARIABLES
  place,      \* the page on screen
  draft,      \* the draft store
  step,       \* selectedStep
  arming,     \* the confirmation is armed
  waits,      \* the request this mount's mutation is pending on
  outcome,    \* what the page says of the last request
  catalog, facility, grouped,  \* the queries
  req,        \* the deploy requests
  op, job,    \* the backend: the operation and the job of a request
  recorded,   \* the workloads the launcher has recorded
  launch,     \* the request the history entry of the setup page hands over
  line        \* what the setup page has learnt of the launch

vars == <<place, draft, step, arming, waits, outcome, catalog, facility,
          grouped, req, op, job, recorded, launch, line>>
create == <<step, arming, waits, outcome>>
reads == <<catalog, facility, grouped>>
backend == <<op, job, recorded>>

Sends == 1..MaxSends
NoReq == 0

WizardStep == {"identity"} \cup FlowStepId

EmptyDraft == [slug |-> NoSlug, key |-> NoKey, facility |-> NoSite]

\* "direct": the answer carried the AWX job, not an operation.
OpState ==
  {"none", "direct", "waking", "launched", "run_complete", "run_failed",
   "run_status_unknown", "error", "gone"}

JobState == {"none", "running", "successful", "failed"}

\* of is the launch the line is about; sees and status are the last polls; done
\* tells that a polled fact is terminal, failed that the operation is given up.
NewLine(n) ==
  [of |-> n, follow |-> "op", sees |-> "none", status |-> "none",
   opDone |-> FALSE, jobDone |-> FALSE, failed |-> FALSE]

Unread == [at |-> [k \in Key |-> "absent"], failed |-> FALSE, fetching |-> TRUE]

NotAsked == [slug |-> NoSlug, key |-> NoKey, wire |-> "unsent"]

TypeOK ==
  /\ place \in {"create", "setup", "away"}
  /\ draft \in [slug : Slug \cup {NoSlug}, key : Key \cup {NoKey}, facility : Site \cup {NoSite}]
  /\ step \in WizardStep /\ arming \in BOOLEAN
  /\ waits \in Sends \cup {NoReq} /\ (waits # NoReq => place = "create")
  /\ outcome \in {"none", "refused", "unknown"}
  /\ catalog \in [at : [Key -> {"absent", "bootstrapped", "active"}],
                  failed : BOOLEAN, fetching : BOOLEAN]
  /\ facility \in [at : SUBSET Site, status : {"ok", "unread"}]
  /\ grouped \in [at : SUBSET Slug, grade : {"ok", "withheld"}]
  /\ req \in [Sends ->
                [slug : Slug \cup {NoSlug}, key : Key \cup {NoKey},
                 wire : {"unsent", "sent", "adrift", "accepted", "refused",
                         "over"}]]
  /\ op \in [Sends -> OpState] /\ job \in [Sends -> JobState]
  /\ recorded \subseteq Slug
  /\ launch \in Sends \cup {NoReq}
  /\ line \in [of : Sends \cup {NoReq}, follow : {"op", "job"}, sees : OpState,
               status : JobState, opDone : BOOLEAN, jobDone : BOOLEAN,
               failed : BOOLEAN]

-----------------------------------------------------------------------------
(* What the create page derives.                                           *)

HasFacility == facility.status = "ok" /\ Cardinality(facility.at) = 1

HasTemplate == draft.key # NoKey /\ catalog.at[draft.key] # "absent"

\* Mutant for SentIsConfirmed: that a placement was confirmed, not which.
MutantFacilityConfirmed == HasFacility /\ draft.facility # NoSite

\* The confirmation names the site that is resolved now.
FacilityConfirmed == HasFacility /\ facility.at = {draft.facility}

Draft ==
  {fact \in DraftFact :
     \/ fact = "hasName" /\ draft.slug # NoSlug
     \/ fact = "hasTemplate" /\ HasTemplate
     \/ fact = "hasFacility" /\ HasFacility
     \/ fact = "facilityConfirmed" /\ FacilityConfirmed}

ProvisionBlocked ==
  \/ catalog.failed \/ catalog.fetching
  \/ draft.key # NoKey /\ catalog.at[draft.key] = "active"

\* The provision section is on screen and shows its control or its panel.
AtProvision ==
  /\ place = "create" /\ step = "provision"
  /\ IsStepOpenable(DraftSteps(Draft)["provision"])
  /\ ~ ProvisionBlocked

DefaultStep(d) == IF "hasName" \in d THEN DraftCurrent(d) ELSE "identity"

WizardIndex(s) == IF s = "identity" THEN 0 ELSE FlowIndex(s)

\* The grouped inventory withdraws every write.
WritesBlocked == grouped.grade # "ok"

-----------------------------------------------------------------------------
(* The setup page of a launched workload.                                  *)

Materializing ==
  place = "setup" /\ launch # NoReq /\ req[launch].slug \notin grouped.at

\* The page is about the launch it was opened for.
Followed == Materializing /\ line.of = launch

TerminalOp == {"run_complete", "run_failed", "run_status_unknown"}

JobFailed == line.status = "failed"

Failed == line.failed \/ JobFailed

\* Mutant for ExitStaysOpen: only the line on screen counts.
MutantJobInFlight ==
  IF line.follow = "op" THEN ~ line.opDone ELSE ~ line.jobDone

\* The exit to the live view is locked.
JobInFlight == ~ (line.opDone \/ line.jobDone)

\* What the page holds of a launch is lost when it leaves the screen, and is
\* new when it comes back.
FreshLine(n) ==
  IF n # NoReq /\ op[n] = "direct"
    THEN [NewLine(n) EXCEPT !.follow = "job"] ELSE NewLine(n)

\* What the page on screen makes of another launch.  Only an operation line that
\* is still shown follows it to the new operation.  A job, once known, goes on
\* being polled, under the new entry's key; a failure stays; and a new launch
\* that has no operation shows no line at all.
Carried(n) ==
  IF op[n] # "direct" /\ line.follow = "op" /\ ~ line.failed
    THEN FreshLine(n)
    ELSE [line EXCEPT !.jobDone = @ /\ req[n].key = req[launch].key]

-----------------------------------------------------------------------------

Init ==
  /\ place = "create" /\ draft = EmptyDraft /\ step = "identity"
  /\ arming = FALSE /\ waits = NoReq /\ outcome = "none"
  /\ catalog = Unread
  /\ facility = [at |-> {}, status |-> "unread"]
  /\ grouped = [at |-> {}, grade |-> "withheld"]
  /\ req = [n \in Sends |-> NotAsked]
  /\ op = [n \in Sends |-> "none"] /\ job = [n \in Sends |-> "none"]
  /\ recorded = {} /\ launch = NoReq /\ line = NewLine(NoReq)

-----------------------------------------------------------------------------
(* The operator on the create page.                                        *)

\* Bound: the create page, and what it reads, are of interest while there is a
\* request left to send.
SendsLeft == \E n \in Sends : req[n].wire = "unsent"

Drafting == place = "create" /\ SendsLeft

\* The identity is typed, or derived from the studio's name until it is.
TypeIdentity(s) ==
  /\ Drafting /\ step = "identity"
  /\ draft' = [draft EXCEPT !.slug = s]
  /\ UNCHANGED <<place, create, reads, req, backend, launch, line>>

SelectTemplate(k) ==
  /\ Drafting /\ step = "design" /\ ~ catalog.failed
  /\ catalog.at[k] = "bootstrapped" /\ k # draft.key
  /\ draft' = [draft EXCEPT !.key = k]
  /\ UNCHANGED <<place, create, reads, req, backend, launch, line>>

ConfirmPlacement ==
  /\ Drafting /\ step = "plan"
  /\ IsStepOpenable(DraftSteps(Draft)["plan"])
  /\ HasFacility /\ ~ FacilityConfirmed
  /\ \E f \in facility.at : draft' = [draft EXCEPT !.facility = f]
  /\ UNCHANGED <<place, create, reads, req, backend, launch, line>>

\* Previous and Next move whether or not the step they reach is locked; only
\* the identity asks for a name.  Bound: not into the last two, which are
\* locked for the whole draft.
Walk(s) ==
  /\ Drafting /\ s \notin {"configure", "finalise"}
  /\ WizardIndex(s) \in {WizardIndex(step) - 1, WizardIndex(step) + 1}
  /\ step = "identity" => draft.slug # NoSlug
  /\ step' = s
  /\ UNCHANGED <<place, draft, arming, waits, outcome, reads, req, backend,
                 launch, line>>

Arm ==
  /\ Drafting /\ AtProvision /\ ~ arming /\ waits = NoReq
  /\ arming' = TRUE /\ outcome' = "none"
  /\ UNCHANGED <<place, draft, step, waits, reads, req, backend, launch, line>>

Cancel ==
  /\ AtProvision /\ arming /\ waits = NoReq
  /\ arming' = FALSE
  /\ UNCHANGED <<place, draft, step, waits, outcome, reads, req, backend,
                 launch, line>>

Confirm(n) ==
  /\ AtProvision /\ arming /\ waits = NoReq /\ ~ WritesBlocked
  /\ req[n].wire = "unsent" /\ \A i \in Sends : i < n => req[i].wire # "unsent"
  /\ req' = [req EXCEPT ![n] = [slug |-> draft.slug, key |-> draft.key,
                                wire |-> "sent"]]
  /\ waits' = n
  /\ UNCHANGED <<place, draft, step, arming, outcome, reads, backend, launch,
                 line>>

\* Not withheld while a request is out.
StartOver ==
  /\ place = "create"
  /\ draft' = EmptyDraft /\ arming' = FALSE /\ outcome' = "none"
  /\ step' = "identity"
  /\ UNCHANGED <<place, waits, reads, req, backend, launch, line>>

\* A mount of the create page: the wizard opens at what the draft implies.
EnterCreate ==
  /\ place' = "create" /\ step' = DefaultStep(Draft)
  /\ arming' = FALSE /\ waits' = NoReq /\ outcome' = "none"

LeaveCreate ==
  step' = "identity" /\ arming' = FALSE /\ waits' = NoReq /\ outcome' = "none"

\* Any navigation; the setup page's history entry still has its launch.  Bound:
\* of the launches handed over, only the last one's entry is gone back to.
Navigate(p) ==
  /\ p # place
  /\ \/ p = "create" /\ EnterCreate /\ SendsLeft
     \/ p = "setup" /\ launch # NoReq /\ place' = p /\ LeaveCreate
     \/ p = "away" /\ place' = p /\ LeaveCreate
  /\ line' = FreshLine(launch)
  /\ UNCHANGED <<draft, reads, req, backend, launch>>

\* A reload keeps the address and its history entry, and nothing else: nobody
\* is left to take the answers.
Reload ==
  /\ draft' = EmptyDraft /\ LeaveCreate
  /\ catalog' = Unread /\ facility' = [at |-> {}, status |-> "unread"]
  /\ grouped' = [at |-> {}, grade |-> "withheld"]
  /\ req' = [n \in Sends |->
               [req[n] EXCEPT !.wire = CASE @ = "unsent" -> "unsent"
                                         [] @ \in {"sent", "adrift"} -> "adrift"
                                         [] OTHER -> "over"]]
  /\ line' = FreshLine(launch)
  /\ UNCHANGED <<place, backend, launch>>

-----------------------------------------------------------------------------
(* The reads.  The catalog is read on a mount and on focus, the facility   *)
(* every minute, the inventory every 15 seconds.                           *)

\* Bound: the catalog is read again only before the first request.
CatalogStart ==
  /\ place = "create" /\ ~ catalog.fetching
  /\ \A n \in Sends : req[n].wire = "unsent"
  /\ catalog' = [catalog EXCEPT !.fetching = TRUE]
  /\ UNCHANGED <<place, draft, create, facility, grouped, req, backend, launch,
                 line>>

CatalogSettles ==
  /\ catalog.fetching /\ SendsLeft
  /\ \/ \E c \in CatalogRead :
          catalog' = [at |-> c, failed |-> FALSE, fetching |-> FALSE]
     \/ catalog' = [catalog EXCEPT !.failed = TRUE, !.fetching = FALSE]
  /\ UNCHANGED <<place, draft, create, facility, grouped, req, backend, launch,
                 line>>

FacilityReads ==
  /\ Drafting
  /\ \/ \E s \in SiteRead : facility' = [at |-> s, status |-> "ok"]
     \/ facility' = [at |-> {}, status |-> "unread"]
  /\ UNCHANGED <<place, draft, create, catalog, grouped, req, backend, launch,
                 line>>

\* The setup page swaps what it has polled for the workload's own pages when
\* the inventory shows the workload, and starts again when it no longer does.
GroupedReads ==
  /\ \/ grouped' = [at |-> recorded, grade |-> "ok"]
     \/ grouped' = [grouped EXCEPT !.grade = "withheld"]
  /\ UNCHANGED <<place, draft, create, catalog, facility, req, backend, launch>>
  /\ line' = IF Materializing /\ Materializing' THEN line ELSE FreshLine(launch)

-----------------------------------------------------------------------------
(* The backend.                                                            *)

\* The request is refused, starts an operation or a job, or is given an
\* operation of the entry that is already under way.
Receive(n) ==
  /\ req[n].wire \in {"sent", "adrift"}
  /\ \E answer \in {"accepted", "refused"},
        to \in {"none", "direct", "waking", "launched"} :
       /\ answer = "refused" <=> to = "none"
       /\ op' = [op EXCEPT ![n] = to]
       /\ job' = [job EXCEPT ![n] = IF to \in {"direct", "launched"}
                                      THEN "running" ELSE "none"]
       /\ req' = [req EXCEPT ![n].wire = IF @ = "adrift" THEN "over" ELSE answer]
  /\ UNCHANGED <<place, draft, create, reads, recorded, launch, line>>

\* The launch fails before AWX is asked, or its answer is lost after.
Launches(o) ==
  /\ op[o] = "waking"
  /\ \/ op' = [op EXCEPT ![o] = "launched"] /\ job' = [job EXCEPT ![o] = "running"]
     \/ op' = [op EXCEPT ![o] = "error"] /\ job' = job
     \/ op' = [op EXCEPT ![o] = "error"] /\ job' = [job EXCEPT ![o] = "running"]
  /\ UNCHANGED <<place, draft, create, reads, req, recorded, launch, line>>

\* The launcher records the workload part-way through the job.
Records(o) ==
  /\ job[o] = "running" /\ req[o].slug \notin recorded
  /\ recorded' = recorded \cup {req[o].slug}
  /\ UNCHANGED <<place, draft, create, reads, req, op, job, launch, line>>

JobEnds(o) ==
  /\ job[o] = "running"
  /\ \E s \in {"successful", "failed"} : job' = [job EXCEPT ![o] = s]
  /\ UNCHANGED <<place, draft, create, reads, req, op, recorded, launch, line>>

WatchEnds(o) ==
  /\ op[o] = "launched"
  /\ \E s \in TerminalOp :
       /\ s = "run_complete" => job[o] = "successful"
       /\ s = "run_failed" => job[o] = "failed"
       /\ op' = [op EXCEPT ![o] = s]
  /\ UNCHANGED <<place, draft, create, reads, req, job, recorded, launch, line>>

\* A restart of the console, or the expiry of what is over.
Forgets(o) ==
  /\ op[o] \notin {"none", "direct", "gone"}
  /\ op' = [op EXCEPT ![o] = "gone"]
  /\ UNCHANGED <<place, draft, create, reads, req, job, recorded, launch, line>>

\* The workload is purged.
Purged(s) ==
  /\ s \in recorded
  /\ recorded' = recorded \ {s}
  /\ UNCHANGED <<place, draft, create, reads, req, op, job, launch, line>>

-----------------------------------------------------------------------------
(* The answers.                                                            *)

\* Whatever page is on screen: the continuation resets the draft store and
\* navigates.
Accepted(n) ==
  /\ req[n].wire = "accepted"
  /\ req' = [req EXCEPT ![n].wire = "over"]
  /\ draft' = EmptyDraft /\ LeaveCreate
  /\ place' = "setup" /\ launch' = n
  /\ UNCHANGED <<reads, backend>>
  /\ line' = IF Materializing /\ Materializing' THEN Carried(n) ELSE FreshLine(n)

\* A refusal of the console proves that this request launched nothing; of
\* every other failure the outcome is unknown.  A page that was left is not
\* told.
Fails(n) ==
  /\ req[n].wire \in {"sent", "accepted", "refused"}
  /\ \E o \in {"refused", "unknown"} :
       /\ o = "refused" => req[n].wire = "refused"
       /\ outcome' = IF waits = n THEN o ELSE outcome
  /\ req' = [req EXCEPT ![n].wire = IF @ = "sent" THEN "adrift" ELSE "over"]
  /\ arming' = (arming /\ waits # n)
  /\ waits' = IF waits = n THEN NoReq ELSE waits
  /\ UNCHANGED <<place, draft, step, reads, backend, launch, line>>

-----------------------------------------------------------------------------
(* The status lines of the setup page.                                     *)

OpLine ==
  /\ Materializing /\ op[launch] # "direct"
  /\ line.follow = "op" /\ ~ line.failed

\* Mutant for ExitTells: a launched operation is taken for a finished one.
MutantPollOp ==
  /\ OpLine /\ line.sees \notin TerminalOp \cup {"error"} /\ op[launch] # "gone"
  /\ line' = [line EXCEPT !.sees = op[launch], !.opDone = op[launch] # "waking"]
  /\ UNCHANGED <<place, draft, create, reads, req, backend, launch>>

\* Polling stops at a terminal state; an operation that is gone is asked for
\* again and again.
PollOp ==
  /\ OpLine /\ line.sees \notin TerminalOp \cup {"error"} /\ op[launch] # "gone"
  /\ line' = [line EXCEPT !.sees = op[launch],
                          !.opDone = op[launch] \in TerminalOp \cup {"error"}]
  /\ UNCHANGED <<place, draft, create, reads, req, backend, launch>>

FollowsJob == line' = [line EXCEPT !.follow = "job"]

\* Mutant for HandoffEnds: only the transient state hands over (#403).
MutantHandsOver ==
  /\ OpLine
  /\ \/ line.sees = "launched" /\ FollowsJob
     \/ line.sees = "error" /\ line' = [line EXCEPT !.failed = TRUE]
  /\ UNCHANGED <<place, draft, create, reads, req, backend, launch>>

\* The paced callbacks: onLaunched, onError and onTerminal.
HandsOver ==
  /\ OpLine
  /\ \/ line.sees \in TerminalOp \cup {"launched"} /\ FollowsJob
     \/ line.sees = "error" /\ line' = [line EXCEPT !.failed = TRUE]
  /\ UNCHANGED <<place, draft, create, reads, req, backend, launch>>

PollJob ==
  /\ Materializing /\ line.follow = "job"
  /\ line' = [line EXCEPT !.status = job[line.of],
                          !.jobDone = job[line.of] # "running"]
  /\ line' # line
  /\ UNCHANGED <<place, draft, create, reads, req, backend, launch>>

Operator ==
  \/ \E s \in Slug \cup {NoSlug} : TypeIdentity(s)
  \/ \E k \in Key : SelectTemplate(k)
  \/ ConfirmPlacement
  \/ \E s \in WizardStep : Walk(s)
  \/ Arm \/ Cancel \/ StartOver \/ Reload
  \/ \E n \in Sends : Confirm(n)
  \/ \E p \in {"create", "setup", "away"} : Navigate(p)

Reads == CatalogStart \/ CatalogSettles \/ FacilityReads \/ GroupedReads

Backend ==
  \/ \E n \in Sends : Receive(n) \/ Launches(n) \/ Records(n) \/ JobEnds(n)
                        \/ WatchEnds(n) \/ Forgets(n)
  \/ \E s \in Slug : Purged(s)

Answers == \E n \in Sends : Accepted(n) \/ Fails(n)

Lines == PollOp \/ HandsOver \/ PollJob

Next == Operator \/ Reads \/ Backend \/ Answers \/ Lines

\* The watcher and AWX finish what they have, polls are answered and timers
\* fire.  Nothing is promised of the operator, of the reads or of the record.
Fairness ==
  /\ WF_vars(\E o \in Sends : Launches(o) \/ JobEnds(o) \/ WatchEnds(o))
  /\ WF_vars(Lines)

Spec == Init /\ [][Next]_vars /\ Fairness

-----------------------------------------------------------------------------
(* Properties.                                                             *)

\* A deploy goes out only for the draft on screen, once the operator has
\* confirmed the very facility the last read names, with a template that a
\* settled read lists and does not call deployed, on a current inventory.
SentIsConfirmed ==
  [][ \A n \in Sends : req[n].wire = "unsent" /\ req'[n].wire = "sent" =>
        /\ req'[n].slug = draft.slug /\ draft.slug # NoSlug
        /\ facility = [at |-> {draft.facility}, status |-> "ok"]
        /\ ~ catalog.failed /\ ~ catalog.fetching
        /\ catalog.at[req'[n].key] = "bootstrapped"
        /\ grouped.grade = "ok" ]_vars

\* The exit to the live view opens once the operation or the job that the page
\* follows is over.  That is the launch of the page, unless the launch came to a
\* page that already followed another one's job or told its failure, or brought
\* no operation to a page that followed one: there the exit can stand open, and
\* "Launch failed" be said, for a launch that is still waking.
\* WorkloadMaterializing.tsx says that its launch never changes mid-life.
ExitTells ==
  Materializing /\ ~ JobInFlight =>
    /\ \/ op[line.of] \in TerminalOp \cup {"error", "gone"}
       \/ job[line.of] \in {"successful", "failed"}
    /\ line.of # launch =>
         line.follow = "job" \/ line.failed \/ op[launch] = "direct"

\* An exit that is open does not close again at the hand-over from operation to
\* job, whosever they are: only another launch, or a new page, closes it.
ExitStaysOpen ==
  [][ Materializing /\ ~ JobInFlight /\ Materializing' /\ launch' = launch
        => ~ JobInFlight' \/ line' = FreshLine(launch) ]_vars

\* The page that follows an accepted launch comes to an end that it tells,
\* whichever of the operation's states its polls miss (dmfdeploy#403), unless the
\* console has forgotten the operation or the operator reloads it for ever.  A
\* launch that came to another one's page (line.of # launch) is not promised it.
HandoffEnds ==
  <>[][~ Reload]_vars =>
    (Followed ~> Failed \/ line.jobDone \/ ~ (Followed /\ op[launch] # "gone"))

=============================================================================
