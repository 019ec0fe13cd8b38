---------------------------- MODULE WorkloadFlow ----------------------------
(***************************************************************************)
(* The guided flow over the lifecycle: which of its five steps may be      *)
(* opened, how far each is settled, the badge, the exit out of Configure   *)
(* and what a workload's home shows (src/frontend/src/lib/workloadFlow.ts).*)
(* Stateless, like the classification it reads.                            *)
(***************************************************************************)
EXTENDS WorkloadLifecycle

FlowStep == <<"design", "plan", "provision", "configure", "finalise">>
FlowStepId == {FlowStep[i] : i \in 1..5}

RecordStep == {"design", "plan"}

StepState == {"complete", "record", "current", "open", "locked"}

Completeness == {"complete", "partial", "none"}

FlowIndex(id) == CHOOSE i \in 1..5 : FlowStep[i] = id

\* The position is a stage the flow does not render.
OffFlow(input) == ActiveStage(input) = "operate"

Undetermined(input) == ActiveStage(input) = NoStage

CurrentStep(input) ==
  IF ActiveStage(input) \in FlowStepId THEN ActiveStage(input) ELSE NoStage

\* A workload at Operate is past every step.
Behind(id, input) ==
  \/ OffFlow(input)
  \/ /\ ActiveStage(input) \in FlowStepId
     /\ FlowIndex(id) < FlowIndex(ActiveStage(input))

FlowSteps(input) ==
  [id \in FlowStepId |->
     IF StageActions(id, input) # {} THEN "open"
     ELSE IF id = ActiveStage(input) THEN "current"
     ELSE IF Behind(id, input) THEN "complete"
     ELSE IF Undetermined(input) /\ id \in RecordStep THEN "record"
     ELSE "locked"]

\* Position facts only: a settled stage stays settled when it bears an action.
FlowCompleteness(input) ==
  [id \in FlowStepId |->
     CASE Behind(id, input) -> "complete"
       [] id = ActiveStage(input) -> "partial"
       [] Undetermined(input) /\ id \in RecordStep -> "partial"
       [] OTHER -> "none"]

IsStepOpenable(state) == state # "locked"

-----------------------------------------------------------------------------
(* A draft: a workload that does not exist yet, gated on the operator's    *)
(* own progress, the set of the facts that hold of it.                     *)

DraftFact == {"hasName", "hasTemplate", "hasFacility", "facilityConfirmed"}

DesignDone(draft) == {"hasName", "hasTemplate"} \subseteq draft

PlanDone(draft) == DraftFact \subseteq draft

DraftCurrent(draft) ==
  CASE ~ DesignDone(draft) -> "design"
    [] DesignDone(draft) /\ ~ PlanDone(draft) -> "plan"
    [] PlanDone(draft) -> "provision"

DraftSteps(draft) ==
  [id \in FlowStepId |->
     CASE id = DraftCurrent(draft) -> "current"
       [] id = "design" /\ DesignDone(draft) -> "complete"
       [] id = "plan" /\ PlanDone(draft) -> "complete"
       [] OTHER -> "locked"]

DraftCompleteness(draft) ==
  [id \in FlowStepId |->
     IF \/ id = "design" /\ DesignDone(draft)
        \/ id = "plan" /\ PlanDone(draft) THEN "complete"
     ELSE IF \/ id = "design" /\ draft \cap {"hasName", "hasTemplate"} # {}
             \/ id = "plan" /\ DesignDone(draft) /\ "hasFacility" \in draft
             \/ id = "provision" /\ PlanDone(draft) THEN "partial"
     ELSE "none"]

-----------------------------------------------------------------------------
(* What is said of the workload on its way in and out of the flow.         *)

RestingGrammar ==
  [provision |-> "planned", configure |-> "provisioned",
   operate |-> "configured", unknown |-> "unknown"]

InFlightGrammar ==
  [provision |-> "provisioning", configure |-> "configuring",
   finalise |-> "finalising"]

LifecycleBadge(input) ==
  IF Busy(input) THEN InFlightGrammar[ActiveStage(input)]
  ELSE RestingGrammar[input.lifecycle]

ForwardExit(input) ==
  CASE \/ "membersDataTrustworthy" \notin input.flags
       \/ Busy(input) -> "none"
    [] OTHER ->
         CASE /\ input.lifecycle = "configure"
              /\ "anyMemberObservedRunning" \notin input.flags -> "view-status"
           [] input.lifecycle = "operate" -> "live"
           [] OTHER -> "none"


\* Mutant for PagesAgree: a position is believed whatever the read.
MutantHomeState(input) ==
  IF input.lifecycle = "operate" THEN "live"
  ELSE IF /\ input.lifecycle \in {"provision", "configure"}
          /\ "anyMemberObservedRunning" \notin input.flags THEN "setup"
  ELSE "unresolved"

\* Mutant for LiveViewSteady: a read on its way withdraws the claim.
MutantSettledHomeState(input) ==
  IF "membersDataTrustworthy" \notin input.flags THEN "unresolved"
  ELSE MutantHomeState(input)

HomeState(input) ==
  CASE "membersDataRetained" \notin input.flags -> "unresolved"
    [] OTHER ->
         CASE input.lifecycle = "operate" -> "live"
           [] /\ input.lifecycle \in {"provision", "configure"}
              /\ "anyMemberObservedRunning" \notin input.flags -> "setup"
           [] OTHER -> "unresolved"

IsAwaitingHealthResult(input) ==
  /\ {"membersDataRetained", "awaitingHealthResult"} \subseteq input.flags
  /\ input.lifecycle = "configure"
=============================================================================
