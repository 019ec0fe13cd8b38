---------------------------- MODULE SwitchSource ----------------------------
(***************************************************************************)
(* Switching a viewer to another source: the switch-source request          *)
(* (src/src/dmf_cms/main.py), the command store and the actuator that       *)
(* launches an AWX job and waits for it (src/src/dmf_cms/switch_source.py). *)
(*                                                                         *)
(* One coroutine carries a request from the read of the observed source to  *)
(* the end of its command.  Others run at each of its awaits.  The job it   *)
(* launches outlives the wait for it: the console stops waiting at a        *)
(* deadline or after three failed polls, and takes the next command.        *)
(*                                                                         *)
(* The switch play is not in the repository.  Its stages, what each may     *)
(* change and what it reports are those the comments on the operator copy   *)
(* in switch_source.py state.                                               *)
(***************************************************************************)
EXTENDS Naturals

CONSTANTS Receiver,   \* viewers of the catalog
          Source,     \* sources[] of their topology
          Nothing,    \* no active source, or no observation of one
          MaxSwitches,\* bound: requests, commands and jobs, by one id each
          MaxRestarts \* bound: restarts of the console

ASSUME SwitchAssumption == /\ MaxSwitches \in Nat /\ MaxRestarts \in Nat
                           /\ Nothing \notin Source
                           /\ Nothing \notin Receiver

Id == 1..MaxSwitches

VARIABLES
  pc,       \* where the coroutine of a request stands
  target,   \* what a request asks for: receiver and source
  observed, \* the source its sidecar read reported
  status,   \* status of its command, "none" without one
  outcome,  \* error and outcome of its command
  misses,   \* consecutive_failures of its polls
  phase,    \* AWX job launched for it: state, or stage of the play
  event,    \* outcome event of that job
  found,    \* source the job found when it took the facility lock
  wrote,    \* source the job last wrote, "untouched" before it wrote any
  running,  \* per receiver, the source that flows
  restarts  \* restarts so far

console == <<pc, target, observed, status, outcome, misses>>
cluster == <<phase, event, found, wrote, running>>
vars == <<pc, target, observed, status, outcome, misses,
          phase, event, found, wrote, running, restarts>>

\* The awaits of the actuator, from wake to the fetch of the outcome event.
Driving == {"wake", "lookup", "launch", "watch", "ingest"}

\* "asking" and "asked" are the read of the sidecar before and after it
\* answered; "over" is a request that has its answer.
Place == {"unborn", "asking", "asked", "over"} \cup Driving

\* SwitchStatus; pending lasts no longer than a step.  "forgotten" is a
\* command lost in a restart.
Status == {"none", "reconnecting", "active", "failed", "forgotten"}

\* Stages in which the play changes something, under the facility lock.
Changing == {"quiesce", "repoint", "select", "readback"}

LiveJob == {"queued", "reading"} \cup Changing

Phase == {"none"} \cup LiveJob \cup {"successful", "unsuccessful"}

\* The outcome event: a token, or the stage of a refusal.  All labels up to
\* baseline-capture are "reading".
Event == {"none", "restored", "no_previous", "unverified", "reading"}
           \cup Changing

\* What a command ends with: the event of its job, its job's status alone
\* ("job_failed"), or the actuator's own error.
Outcome == Event \cup {"success", "job_failed", "watch_timeout", "watch_lost",
                       "watch_crashed", "launch_failed", "template_missing"}

Request == [receiver : Receiver \cup {Nothing}, source : Source \cup {Nothing}]

Init ==
  /\ pc = [q \in Id |-> "unborn"]
  /\ target = [q \in Id |-> [receiver |-> Nothing, source |-> Nothing]]
  /\ observed = [q \in Id |-> Nothing]
  /\ status = [q \in Id |-> "none"]
  /\ outcome = [q \in Id |-> "none"]
  /\ misses = [q \in Id |-> 0]
  /\ phase = [q \in Id |-> "none"]
  /\ event = [q \in Id |-> "none"]
  /\ found = [q \in Id |-> Nothing]
  /\ wrote = [q \in Id |-> "untouched"]
  /\ running \in [Receiver -> Source \cup {Nothing}]
  /\ restarts = 0

Moves(q, place) == pc' = [pc EXCEPT ![q] = place]

----------------------------------------------------------------------------
(* The request *)

\* The request has passed its gates and asks the viewer's sidecar.
SwitchArrives(q, r, s) ==
  /\ pc[q] = "unborn"
  /\ \A p \in 1..(q - 1) : pc[p] # "unborn"
  /\ target' = [target EXCEPT ![q] = [receiver |-> r, source |-> s]]
  /\ Moves(q, "asking")
  /\ UNCHANGED <<observed, status, outcome, misses, cluster, restarts>>

\* The sidecar answers with the source that flows, or no declared source is
\* observed: it is unreachable, or reports a flow nobody declared.
SidecarAnswers(q) ==
  /\ pc[q] = "asking"
  /\ \E s \in {running[target[q].receiver], Nothing} :
       observed' = [observed EXCEPT ![q] = s]
  /\ Moves(q, "asked")
  /\ UNCHANGED <<target, status, outcome, misses, cluster, restarts>>

\* find_active: the commands of a receiver that have not ended.
FindActive(r) ==
  {q \in Id : status[q] = "reconnecting" /\ target[q].receiver = r}

\* source-state-unknown or target-already-active.
WriteSeamRefuses(q) == observed[q] \in {Nothing, target[q].source}

\* Refused, or answered with the command already under way.
AnsweredAtOnce(q) ==
  /\ pc[q] = "asked"
  /\ WriteSeamRefuses(q) \/ FindActive(target[q].receiver) # {}
  /\ Moves(q, "over")
  /\ UNCHANGED <<target, observed, status, outcome, misses, cluster, restarts>>

\* Mutant: the command under way was looked for before the sidecar was read.
MutantDispatch(q) ==
  /\ pc[q] = "asked"
  /\ ~WriteSeamRefuses(q)
  /\ status' = [status EXCEPT ![q] = "reconnecting"]
  /\ Moves(q, "wake")
  /\ UNCHANGED <<target, observed, outcome, misses, cluster, restarts>>

\* The command is created and the actuator entered in one step: there is no
\* await between the two.  The observed source is its previous_source.
Dispatch(q) ==
  /\ pc[q] = "asked"
  /\ ~WriteSeamRefuses(q)
  /\ FindActive(target[q].receiver) = {}
  /\ status' = [status EXCEPT ![q] = "reconnecting"]
  /\ Moves(q, "wake")
  /\ UNCHANGED <<target, observed, outcome, misses, cluster, restarts>>

----------------------------------------------------------------------------
(* The actuator *)

\* _fail, and the return from execute that follows it everywhere.
Fail(q, o) ==
  /\ status' = [status EXCEPT ![q] = "failed"]
  /\ outcome' = [outcome EXCEPT ![q] = o]
  /\ Moves(q, "over")

\* AWX is awake; then the template lookup has found the template.
Proceeds(q) ==
  /\ \/ pc[q] = "wake" /\ Moves(q, "lookup")
     \/ pc[q] = "lookup" /\ Moves(q, "launch")
  /\ UNCHANGED <<target, observed, status, outcome, misses, cluster, restarts>>

\* Any exception up to the launch; a launch that AWX never received.
CannotLaunch(q) ==
  /\ pc[q] \in {"wake", "lookup", "launch"}
  /\ Fail(q, "launch_failed")
  /\ UNCHANGED <<target, observed, misses, cluster, restarts>>

TemplateMissing(q) ==
  /\ pc[q] = "lookup"
  /\ Fail(q, "template_missing")
  /\ UNCHANGED <<target, observed, misses, cluster, restarts>>

\* AWX accepts the launch.  Its answer may be lost on the way back.
Launches(q) ==
  /\ pc[q] = "launch"
  /\ phase' = [phase EXCEPT ![q] = "queued"]
  /\ \/ Moves(q, "watch") /\ UNCHANGED <<status, outcome>>
     \/ Fail(q, "launch_failed")
  /\ UNCHANGED <<target, observed, misses, event, found, wrote, running, restarts>>

\* The deadline is looked at before each poll.
WatchTimesOut(q) ==
  /\ pc[q] = "watch"
  /\ Fail(q, "watch_timeout")
  /\ UNCHANGED <<target, observed, misses, cluster, restarts>>

\* A poll fails; the third in a row ends the wait.
PollFails(q) ==
  /\ pc[q] = "watch"
  /\ \/ /\ misses[q] < 2
        /\ misses' = [misses EXCEPT ![q] = @ + 1]
        /\ UNCHANGED <<pc, status, outcome>>
     \/ misses[q] = 2 /\ Fail(q, "watch_lost") /\ UNCHANGED misses
  /\ UNCHANGED <<target, observed, cluster, restarts>>

\* Mutant: an answer without a status raises out of the coroutine.
MutantPollMalformed(q) ==
  /\ pc[q] = "watch"
  /\ Moves(q, "over")
  /\ UNCHANGED <<target, observed, status, outcome, misses, cluster, restarts>>

\* AWX answers without a status.
PollMalformed(q) ==
  /\ pc[q] = "watch"
  /\ Fail(q, "watch_crashed")
  /\ UNCHANGED <<target, observed, misses, cluster, restarts>>

PollLive(q) ==
  /\ pc[q] = "watch" /\ phase[q] \in LiveJob
  /\ misses' = [misses EXCEPT ![q] = 0]
  /\ UNCHANGED <<pc, target, observed, status, outcome, cluster, restarts>>

PollSuccessful(q) ==
  /\ pc[q] = "watch" /\ phase[q] = "successful"
  /\ status' = [status EXCEPT ![q] = "active"]
  /\ outcome' = [outcome EXCEPT ![q] = "success"]
  /\ Moves(q, "over")
  /\ UNCHANGED <<target, observed, misses, cluster, restarts>>

\* The job failed: the actuator waits for its events to be ingested.
PollUnsuccessful(q) ==
  /\ pc[q] = "watch" /\ phase[q] = "unsuccessful"
  /\ Moves(q, "ingest")
  /\ UNCHANGED <<target, observed, status, outcome, misses, cluster, restarts>>

\* classify_switch_job_failure: the event decides, else the job's status.
Classify(e) == IF e = "none" THEN "job_failed" ELSE e

\* The wait is bounded, so the event may be missing still; fetching it may
\* fail.
Classifies(q) ==
  /\ pc[q] = "ingest"
  /\ \E e \in {event[q], "none"} : Fail(q, Classify(e))
  /\ UNCHANGED <<target, observed, misses, cluster, restarts>>

\* Mutant: quiesce counted among the stages that only read.
MutantReadOnly == {"reading", "quiesce"}

\* Stages whose copy says that the source is unchanged.
ReadOnly == {"reading"}

\* The operator copy of an outcome, reduced to what it claims to know.
Claim(o) ==
  CASE o = "success" -> "switched"
    [] o = "template_missing" -> "not run"
    [] o \in ReadOnly -> "unchanged"
    [] o = "restored" -> "previous restored"
    [] o = "no_previous" -> "no previous"
    [] o \in Changing \cup {"unverified", "job_failed"} -> "over, unsure"
    [] OTHER -> "unsure"

\* The console restarts: requests and commands are gone, jobs are not.
Restart ==
  /\ restarts < MaxRestarts
  /\ restarts' = restarts + 1
  /\ pc' = [q \in Id |-> IF pc[q] = "unborn" THEN "unborn" ELSE "over"]
  /\ status' = [q \in Id |-> IF status[q] = "none" THEN "none" ELSE "forgotten"]
  /\ outcome' = [q \in Id |-> "none"]
  /\ UNCHANGED <<target, observed, misses, cluster>>

----------------------------------------------------------------------------
(* The switch play *)

JobTo(q, p) == phase' = [phase EXCEPT ![q] = p]

Writes(q, s) ==
  /\ wrote' = [wrote EXCEPT ![q] = s]
  /\ running' = [running EXCEPT ![target[q].receiver] = s]

JobStarts(q) ==
  /\ phase[q] = "queued" /\ JobTo(q, "reading")
  /\ UNCHANGED <<console, event, found, wrote, running, restarts>>

\* The facility lock is taken and the baseline captured.
JobLocks(q) ==
  /\ phase[q] = "reading"
  /\ \A p \in Id : phase[p] \notin Changing
  /\ JobTo(q, "quiesce")
  /\ found' = [found EXCEPT ![q] = running[target[q].receiver]]
  /\ UNCHANGED <<console, event, wrote, running, restarts>>

JobAdvances(q) ==
  /\ \/ phase[q] = "quiesce" /\ JobTo(q, "repoint") /\ Writes(q, Nothing)
     \/ phase[q] = "repoint" /\ JobTo(q, "select") /\ UNCHANGED <<wrote, running>>
     \/ phase[q] = "select" /\ JobTo(q, "readback") /\ Writes(q, target[q].source)
     \/ phase[q] = "readback" /\ JobTo(q, "successful") /\ UNCHANGED <<wrote, running>>
  /\ UNCHANGED <<console, event, found, restarts>>

\* The viewer does not verify after the re-point: the play rolls it back and
\* restores the source it found.
JobRollsBack(q) ==
  /\ phase[q] = "repoint"
  /\ JobTo(q, "unsuccessful")
  /\ \/ /\ Writes(q, found[q])
        /\ event' = [event EXCEPT ![q] = IF found[q] = Nothing THEN "no_previous"
                                         ELSE "restored"]
     \/ /\ \E s \in {found[q], Nothing} : Writes(q, s)
        /\ event' = [event EXCEPT ![q] = "unverified"]
  /\ UNCHANGED <<console, found, restarts>>

\* The effect a stage had when it stopped in the middle.
HalfDone(q) ==
  \/ UNCHANGED <<wrote, running>>
  \/ phase[q] = "quiesce" /\ Writes(q, Nothing)
  \/ phase[q] = "select" /\ Writes(q, target[q].source)

\* The job stops: refused with its stage, or dead before it could report.
JobStops(q) ==
  /\ phase[q] \in LiveJob
  /\ JobTo(q, "unsuccessful")
  /\ HalfDone(q)
  /\ \/ UNCHANGED event
     \/ phase[q] # "queued" /\ event' = [event EXCEPT ![q] = phase[q]]
  /\ UNCHANGED <<console, found, restarts>>

----------------------------------------------------------------------------
Asks(q) == \/ \E r \in Receiver, s \in Source : SwitchArrives(q, r, s)
           \/ SidecarAnswers(q) \/ AnsweredAtOnce(q) \/ Dispatch(q)

Actuates(q) ==
  \/ Proceeds(q) \/ CannotLaunch(q) \/ TemplateMissing(q) \/ Launches(q)
  \/ WatchTimesOut(q) \/ PollFails(q) \/ PollMalformed(q) \/ PollLive(q)
  \/ PollSuccessful(q) \/ PollUnsuccessful(q) \/ Classifies(q)

Play(q) ==
  JobStarts(q) \/ JobLocks(q) \/ JobAdvances(q) \/ JobRollsBack(q) \/ JobStops(q)

Next == (\E q \in Id : Asks(q) \/ Actuates(q) \/ Play(q)) \/ Restart

Spec == Init /\ [][Next]_vars

\* A coroutine goes on when what it awaits returns, and everything it awaits
\* has a timeout; time passes, so the deadline of a wait is reached.  Nothing
\* is assumed of the play.
FairSpec ==
  /\ Spec
  /\ \A q \in Id : /\ WF_vars(pc[q] # "unborn" /\ (Asks(q) \/ Actuates(q)))
                   /\ WF_vars(WatchTimesOut(q))

----------------------------------------------------------------------------
(* Properties *)

\* Requests, commands and jobs are well formed.
TypeOK ==
  /\ pc \in [Id -> Place]
  /\ target \in [Id -> Request]
  /\ observed \in [Id -> Source \cup {Nothing}]
  /\ status \in [Id -> Status]
  /\ outcome \in [Id -> Outcome]
  /\ misses \in [Id -> 0..2]
  /\ phase \in [Id -> Phase]
  /\ event \in [Id -> Event]
  /\ found \in [Id -> Source \cup {Nothing}]
  /\ wrote \in [Id -> Source \cup {Nothing, "untouched"}]
  /\ running \in [Receiver -> Source \cup {Nothing}]
  /\ restarts \in 0..MaxRestarts

\* A command is under way exactly while a coroutine drives it.
Driven ==
  \A q \in Id :
    /\ pc[q] \in Driving <=> status[q] = "reconnecting"
    /\ pc[q] \in {"unborn", "asking", "asked"} => status[q] = "none"
    /\ pc[q] # "unborn" => target[q] \in [receiver : Receiver, source : Source]

\* One command at a time for a receiver.
OneSwitch ==
  \A p, q \in Id :
    /\ status[p] = "reconnecting" /\ status[q] = "reconnecting"
    /\ target[p].receiver = target[q].receiver
    => p = q

\* Nobody can rely on the job of this command being over.
MayLive(q) == \/ status[q] = "forgotten"
              \/ status[q] = "failed" /\ Claim(outcome[q]) = "unsure"

\* Which jobs there are, by the state of their commands.
JobOf ==
  \A q \in Id :
    /\ status[q] = "none" \/ pc[q] \in {"wake", "lookup", "launch"} => phase[q] = "none"
    /\ pc[q] = "ingest" => phase[q] = "unsuccessful"
    /\ phase[q] \in LiveJob => pc[q] = "watch" \/ MayLive(q)

\* What a job reports is what it did.
PlayReports ==
  \A q \in Id :
    /\ phase[q] # "unsuccessful" => event[q] = "none"
    /\ phase[q] \in {"none", "queued", "reading"} \/ event[q] = "reading"
         => wrote[q] = "untouched"
    /\ phase[q] \in {"readback", "successful"} => wrote[q] = target[q].source
    /\ event[q] = "restored" => found[q] \in Source /\ wrote[q] = found[q]
    /\ event[q] = "no_previous" => found[q] = Nothing /\ wrote[q] = Nothing

\* What the operator is told about a command that has ended is true of its
\* job: it is over unless the message says its result is unknown, the viewer
\* was switched, nothing was changed, the source it found was restored.
CopyHonest ==
  \A q \in Id : status[q] \in {"active", "failed"} =>
    LET claim == Claim(outcome[q]) IN
    /\ status[q] = "active" <=> claim = "switched"
    /\ claim # "unsure" => phase[q] \notin LiveJob
    /\ claim = "switched" => phase[q] = "successful" /\ wrote[q] = target[q].source
    /\ claim = "not run" => phase[q] = "none"
    /\ claim = "unchanged" => wrote[q] = "untouched"
    /\ claim = "previous restored" => found[q] \in Source /\ wrote[q] = found[q]
    /\ claim = "no previous" => found[q] = Nothing

\* The inductive invariant behind the theorems of SwitchSourceProofs.
IInv == TypeOK /\ Driven /\ OneSwitch /\ JobOf /\ PlayReports /\ CopyHonest

\* Two jobs that switch one receiver at the same time: the wait for one of
\* them was given up with a message that its result is unknown, or the
\* console has restarted.  A repeated or competing request alone never does
\* it.
CompetitionDisclosed ==
  \A p, q \in Id :
    /\ p # q /\ phase[p] \in LiveJob /\ phase[q] \in LiveJob
    /\ target[p].receiver = target[q].receiver
    => MayLive(p) \/ MayLive(q)

\* Every request is answered, and its command, if it got one, is then decided
\* and no longer in the way of the next: whatever AWX, the play and the polls
\* do, no receiver stays reconnecting.
EverySwitchEnds ==
  \A q \in Id : pc[q] = "asking" ~> pc[q] = "over" /\ status[q] # "reconnecting"

Contract == INSTANCE SwitchContract WITH
  Command <- Id,
  switching <- [r \in Receiver |-> FindActive(r)],
  verdict <- [c \in Id |-> IF status[c] = "reconnecting" THEN "none" ELSE status[c]]

\* The AWX actuator keeps the contract of switching: each command taken up
\* once, alone on its receiver, and decided once for good.
KeepsContract == Contract!ContractSpec
=============================================================================
