------------------------ MODULE WorkloadWizardProofs ------------------------
(***************************************************************************)
(* Proofs about the wizard: its state stays well formed, and a job flag    *)
(* never outlives the panel that lowers it.  The second rests on a fact of *)
(* the classification, for every input: the step a running job belongs to  *)
(* can be opened, whatever the inventory says of the workload.             *)
(*                                                                         *)
(* Two more are about the panels.  What is armed or pending lives in the   *)
(* mounted panel, so an unsettled read takes no confirmation away; and a   *)
(* clear answered there is pending until a read after it has landed.       *)
(***************************************************************************)
EXTENDS WorkloadWizard, TLAPS

\* A running job's step is open whatever position the backend reports: the
\* panel that follows the job is never locked away by the job itself.
LEMMA JobStepOpen ==
  ASSUME NEW r, NEW u, NEW step \in {"provision", "configure", "finalise"}
  PROVE  step \in OpenSteps(WizardInput(r, u, StageFlag(step)))
<1> DEFINE input == WizardInput(r, u, StageFlag(step))
<1>1. input.flags \cap JobFlag = StageFlag(step)
  BY DEF WizardInput, BuildWorkloadLifecycleInput, StageFlag, JobFlag, Flag
<1>2. ActiveStage(input) = step
  <2> HIDE DEF input
  <2> QED BY <1>1 DEF ActiveStage, StageFlag, JobFlag
<1>3. step \in FlowStepId
  BY DEF FlowStepId, FlowStep
<1>4. FlowSteps(input)[step] \in {"open", "current"}
  <2> HIDE DEF input
  <2> QED BY <1>2, <1>3 DEF FlowSteps
<1> QED BY <1>3, <1>4 DEF OpenSteps, IsStepOpenable

-----------------------------------------------------------------------------
(* Typing.                                                                 *)

PanelType ==
  /\ selected \in FlowStepId \cup {NoStage}
  /\ settled \subseteq FlowStepId
  /\ flags \subseteq JobFlag
  /\ owner \in FlowStepId \cup {NoStage}
  /\ armed \subseteq Unit /\ pending \subseteq Unit
  /\ latest \in Key \cup {Nobody}
  /\ track \in [Unit -> {"idle", "op", "job"}]

LEMMA SelectionType ==
  ASSUME NEW input, NEW requested
  PROVE  DefaultSelection(input, requested) \in FlowStepId
  BY DEF DefaultSelection, CurrentStep, FlowStepId, FlowStep, NoStage

LEMMA RenderType ==
  ASSUME PanelType, NEW step \in FlowStepId \cup {NoStage},
         NEW arms \in SUBSET Unit, NEW sent \in SUBSET Unit,
         NEW last \in Key \cup {Nobody},
         NEW following \in [Unit -> {"idle", "op", "job"}],
         NEW by \in FlowStepId \cup {NoStage},
         Render(step, arms, sent, last, following, by)
  PROVE  PanelType'
<1>1. Idle \in [Unit -> {"idle", "op", "job"}]
  BY DEF Idle
<1>2. \A jobs : StepsAfter(jobs) \subseteq FlowStepId
  BY DEF StepsAfter, OpenSteps, PanelType
<1>3. JobsAfter(step, sent, last, following) \subseteq JobFlag
  BY DEF JobsAfter, StageFlag, JobFlag, PanelType
<1> QED BY <1>1, <1>2, <1>3 DEF Render, PanelType

LEMMA RerenderType ==
  ASSUME PanelType, NEW sent \in SUBSET Unit, Rerender(sent)
  PROVE  PanelType'
<1>1. Idle \in [Unit -> {"idle", "op", "job"}]
  BY DEF Idle
<1>2. CASE Shown(read') /\ ~ Shown(read)
  <2>1. PICK step \in FlowStepId : Render(step, {}, {}, Nobody, Idle, NoStage)
    BY <1>2, SelectionType DEF Rerender
  <2> QED BY <2>1, <1>1, RenderType
<1>3. CASE ~ (Shown(read') /\ ~ Shown(read))
  BY <1>3, RenderType DEF Rerender, PanelType
<1> QED BY <1>2, <1>3

LEMMA StageChangeType ==
  ASSUME PanelType,
         NEW arms \in SUBSET Unit, NEW sent \in SUBSET Unit,
         NEW last \in Key \cup {Nobody},
         NEW following \in [Unit -> {"idle", "op", "job"}],
         NEW by \in FlowStepId \cup {NoStage},
         StageChange(arms, sent, last, following, by)
  PROVE  PanelType'
  BY RenderType DEF StageChange, PanelType

LEMMA PanelKept ==
  ASSUME PanelType, UNCHANGED panel
  PROVE  PanelType'
  BY DEF PanelType, panel

\* What TypeOK says beyond the panel.
RestType ==
  /\ read \in [at : Payload \cup {NoData}, status : {"ok", "error"},
               fetch : Fetch]
  /\ user \in [at : UserRead, fetch : Fetch]
  /\ wire \in [Unit -> Request]
  /\ op \in [Unit -> OpPhase]
  /\ cleared \in {"no", "here", "gone"} /\ writes \in 0..MaxWrites

LEMMA TypeParts == TypeOK <=> PanelType /\ RestType
  BY DEF TypeOK, PanelType, RestType

LEMMA TypeInit == Init => TypeOK
<1> SUFFICES ASSUME Init PROVE TypeOK
  OBVIOUS
<1>1. PanelType
  BY DEF Init, PanelType, Idle
<1>2. read \in [at : Payload \cup {NoData}, status : {"ok", "error"},
               fetch : Fetch]
  BY DEF Init, Fetch
<1>3. wire \in [Unit -> Request] /\ op \in [Unit -> OpPhase]
  BY DEF Init, Request, OpPhase
<1>4. writes \in 0..MaxWrites
  BY WizardAssumption DEF Init
<1>5. cleared \in {"no", "here", "gone"}
  BY DEF Init
<1>6. RestType
  BY <1>2, <1>3, <1>4, <1>5 DEF Init, RestType
<1> QED BY <1>1, <1>6, TypeParts

LEMMA OfferedType == OfferedUnits \subseteq Unit
  BY DEF OfferedUnits, UnitsOf, Unit

LEMMA PanelStep == PanelType /\ [Next]_vars => PanelType'
<1> SUFFICES ASSUME PanelType, [Next]_vars PROVE PanelType'
  OBVIOUS
<1> USE DEF PanelType
<1>1. CASE FetchStart
  BY <1>1, RerenderType DEF FetchStart
<1>2. ASSUME NEW p \in Payload, FetchOk(p) PROVE PanelType'
  BY <1>2, RerenderType DEF FetchOk, Settle
<1>3. CASE FetchFail
  BY <1>3, RerenderType DEF FetchFail, Settle
<1>4. ASSUME NEW u \in UserRead, UserFetch(u) PROVE PanelType'
  BY <1>4, RerenderType DEF UserFetch
<1>5. ASSUME NEW step \in FlowStepId, SelectStep(step) PROVE PanelType'
  <2>1. Idle \in [Unit -> {"idle", "op", "job"}]
    BY DEF Idle
  <2> QED BY <1>5, <2>1, RenderType DEF SelectStep
<1>6. ASSUME NEW u \in Unit,
             Cancel(u) \/ Confirm(u) \/ Receive(u) \/ Answer(u)
               \/ AnswerFail(u) \/ AnswerNobody(u) \/ OpStep(u)
               \/ FollowJob(u) \/ Release(u)
      PROVE  PanelType'
  <2>2. CASE Cancel(u)
    BY <2>2, StageChangeType DEF Cancel
  <2>3. CASE Confirm(u)
    <3>1. (IF u \in Key THEN u ELSE latest) \in Key \cup {Nobody}
      OBVIOUS
    <3> QED BY <2>3, <3>1, StageChangeType DEF Confirm
  <2>4. CASE Receive(u) \/ OpStep(u)
    BY <2>4, PanelKept DEF Receive, OpStep
  <2>9. CASE AnswerNobody(u)
    BY <2>9, PanelKept, RerenderType DEF AnswerNobody, panel
  <2>5. CASE Answer(u)
    <3>1. CASE AnswerClear
      BY <3>1, StageChangeType DEF AnswerClear
    <3>2. CASE AnswerSwitch
      BY <3>2, StageChangeType DEF AnswerSwitch
    <3>3. CASE AnswerOperation(u)
      BY <3>3, StageChangeType DEF AnswerOperation
    <3> QED BY <2>5, <3>1, <3>2, <3>3 DEF Answer
  <2>6. CASE AnswerFail(u)
    BY <2>6, StageChangeType DEF AnswerFail
  <2>7. CASE FollowJob(u)
    BY <2>7, StageChangeType DEF FollowJob
  <2>8. CASE Release(u)
    BY <2>8, StageChangeType DEF Release
  <2> QED BY <1>6, <2>2, <2>3, <2>4, <2>5, <2>6, <2>7, <2>8, <2>9
<1>7. ASSUME NEW u \in OfferedUnits, Arm(u) PROVE PanelType'
  BY <1>7, OfferedType, StageChangeType DEF Arm
<1>8. CASE Restart \/ Expire
  BY <1>8, PanelKept DEF Restart, Expire, Forgets
<1>9. CASE UNCHANGED vars
  BY <1>9, PanelKept DEF vars
<1> QED BY <1>1, <1>2, <1>3, <1>4, <1>5, <1>6, <1>7, <1>8, <1>9 DEF Next

LEMMA RestStep == RestType /\ [Next]_vars => RestType'
<1> SUFFICES ASSUME RestType, [Next]_vars PROVE RestType'
  OBVIOUS
<1> USE DEF RestType, Invalidate, Fetch, Request, OpPhase
<1>1. CASE FetchStart
  BY <1>1 DEF FetchStart
<1>2. ASSUME NEW p \in Payload, FetchOk(p) PROVE RestType'
  BY <1>2 DEF FetchOk, Settle
<1>3. CASE FetchFail
  BY <1>3 DEF FetchFail, Settle
<1>4. ASSUME NEW u \in UserRead, UserFetch(u) PROVE RestType'
  BY <1>4 DEF UserFetch
<1>5. ASSUME NEW step \in FlowStepId, SelectStep(step) PROVE RestType'
  BY <1>5 DEF SelectStep
<1>6. ASSUME NEW u \in Unit,
             Cancel(u) \/ Confirm(u) \/ Receive(u) \/ Answer(u)
               \/ AnswerFail(u) \/ AnswerNobody(u) \/ OpStep(u)
               \/ FollowJob(u) \/ Release(u)
      PROVE  RestType'
  <2>1. CASE Cancel(u) \/ FollowJob(u)
    BY <2>1 DEF Cancel, FollowJob
  <2>2. CASE Confirm(u)
    BY <2>2, WizardAssumption DEF Confirm
  <2>3. CASE Receive(u) \/ AnswerNobody(u) \/ OpStep(u)
    BY <2>3 DEF Receive, AnswerNobody, OpStep
  <2>4. CASE Answer(u)
    <3>1. CASE AnswerClear
      BY <2>4, <3>1 DEF Answer, AnswerClear
    <3>2. CASE AnswerSwitch
      BY <2>4, <3>2 DEF Answer, AnswerSwitch
    <3>3. CASE AnswerOperation(u)
      BY <2>4, <3>3 DEF Answer, AnswerOperation
    <3> QED BY <2>4, <3>1, <3>2, <3>3 DEF Answer
  <2>5. CASE AnswerFail(u)
    BY <2>5 DEF AnswerFail
  <2>6. CASE Release(u)
    BY <2>6 DEF Release
  <2> QED BY <1>6, <2>1, <2>2, <2>3, <2>4, <2>5, <2>6
<1>7. ASSUME NEW u \in OfferedUnits, Arm(u) PROVE RestType'
  BY <1>7 DEF Arm
<1>8. CASE Restart \/ Expire
  BY <1>8 DEF Restart, Expire, Forgets
<1>9. CASE UNCHANGED vars
  BY <1>9 DEF vars
<1> QED BY <1>1, <1>2, <1>3, <1>4, <1>5, <1>6, <1>7, <1>8, <1>9 DEF Next

-----------------------------------------------------------------------------
(* The flag and its panel.                                                 *)

\* A render keeps the flags on a mounted panel: the flag it leaves is the one
\* of a panel that was mounted, and JobStepOpen keeps that panel open.
LEMMA RenderHolds ==
  ASSUME JobHoldsPanel, NEW step, NEW arms, NEW sent, NEW last,
         NEW following, NEW by,
         step = selected \/ ~ StageBusy(step, sent, last, following),
         Render(step, arms, sent, last, following, by)
  PROVE  JobHoldsPanel'
<1> SUFFICES ASSUME flags' # {}
             PROVE  Mounted' /\ flags' = StageFlag(selected')
  BY DEF JobHoldsPanel
<1> DEFINE jobs == JobsAfter(step, sent, last, following)
           steps == StepsAfter(jobs)
<1>1. flags' = jobs /\ settled' = steps
  BY DEF Render
<1>2. Shown(read') /\ Shown(read) /\ Mounted
  BY <1>1 DEF JobsAfter, JobHoldsPanel
<1>3. jobs = StageFlag(step) /\ step = selected /\ selected' = step
  BY <1>1, <1>2 DEF JobsAfter, Render
<1>4. step \in {"provision", "configure", "finalise"}
  BY <1>1, <1>3 DEF StageFlag
<1>5. step \in steps
  <2>1. CASE Unsettled(read', user')
    BY <1>2, <1>3, <2>1 DEF StepsAfter, Mounted
  <2>2. CASE ~ Unsettled(read', user')
    BY <1>2, <1>3, <1>4, <2>2, JobStepOpen DEF StepsAfter
  <2> QED BY <2>1, <2>2
<1> QED BY <1>1, <1>2, <1>3, <1>5 DEF Mounted

LEMMA RerenderHolds ==
  ASSUME JobHoldsPanel, NEW sent, Rerender(sent)
  PROVE  JobHoldsPanel'
<1>1. CASE Shown(read') /\ ~ Shown(read)
  <2>1. PICK step : Render(step, {}, {}, Nobody, Idle, NoStage)
    BY <1>1 DEF Rerender
  <2>2. flags' = {}
    BY <1>1, <2>1 DEF Render, JobsAfter
  <2> QED BY <2>2 DEF JobHoldsPanel
<1>2. CASE ~ (Shown(read') /\ ~ Shown(read))
  BY <1>2, RenderHolds DEF Rerender
<1> QED BY <1>1, <1>2

LEMMA HoldsStep == JobHoldsPanel /\ [Next]_vars => JobHoldsPanel'
<1> SUFFICES ASSUME JobHoldsPanel, [Next]_vars PROVE JobHoldsPanel'
  OBVIOUS
<1>1. CASE FetchStart
  BY <1>1, RerenderHolds DEF FetchStart
<1>2. ASSUME NEW p \in Payload, FetchOk(p) PROVE JobHoldsPanel'
  BY <1>2, RerenderHolds DEF FetchOk, Settle
<1>3. CASE FetchFail
  BY <1>3, RerenderHolds DEF FetchFail, Settle
<1>4. ASSUME NEW u \in UserRead, UserFetch(u) PROVE JobHoldsPanel'
  BY <1>4, RerenderHolds DEF UserFetch
<1>5. ASSUME NEW step \in FlowStepId, SelectStep(step) PROVE JobHoldsPanel'
  <2>1. Nobody \notin {}
    OBVIOUS
  <2>2. ~ StageBusy(step, {}, Nobody, Idle)
    BY <2>1 DEF StageBusy, CallPending, Idle, Unit
  <2> QED BY <1>5, <2>2, RenderHolds DEF SelectStep
<1>6. ASSUME NEW u \in Unit,
             Cancel(u) \/ Confirm(u) \/ Receive(u) \/ Answer(u)
               \/ AnswerFail(u) \/ AnswerNobody(u) \/ OpStep(u)
               \/ FollowJob(u) \/ Release(u)
      PROVE  JobHoldsPanel'
  <2>1. CASE Receive(u) \/ OpStep(u)
    BY <2>1 DEF Receive, OpStep, panel, JobHoldsPanel, Mounted
  <2>4. CASE AnswerNobody(u)
    BY <2>4, RerenderHolds DEF AnswerNobody, panel, JobHoldsPanel, Mounted
  <2>2. CASE Cancel(u) \/ Confirm(u) \/ AnswerFail(u)
               \/ FollowJob(u) \/ Release(u)
    BY <2>2, RenderHolds
    DEF Cancel, Confirm, AnswerFail, FollowJob, Release, StageChange
  <2>3. CASE Answer(u)
    BY <2>3, RenderHolds
    DEF Answer, AnswerClear, AnswerSwitch, AnswerOperation, StageChange
  <2> QED BY <1>6, <2>1, <2>2, <2>3, <2>4
<1>7. ASSUME NEW u \in OfferedUnits, Arm(u) PROVE JobHoldsPanel'
  BY <1>7, RenderHolds DEF Arm, StageChange
<1>8. CASE Restart \/ Expire
  BY <1>8 DEF Restart, Expire, Forgets, panel, JobHoldsPanel, Mounted
<1>9. CASE UNCHANGED vars
  BY <1>9 DEF vars, panel, JobHoldsPanel, Mounted
<1> QED BY <1>1, <1>2, <1>3, <1>4, <1>5, <1>6, <1>7, <1>8, <1>9 DEF Next

-----------------------------------------------------------------------------

\* The page's state stays well formed whatever the reads, the operator and
\* the backend do, for every set of entries and every answer.
THEOREM WizardTypeCorrect == Spec => []TypeOK
<1>1. TypeOK /\ [Next]_vars => TypeOK'
  <2> SUFFICES ASSUME TypeOK, [Next]_vars PROVE TypeOK'
    OBVIOUS
  <2>1. PanelType /\ RestType
    BY TypeParts
  <2>2. PanelType' /\ RestType'
    BY <2>1, PanelStep, RestStep
  <2> QED BY <2>2 DEF TypeOK, PanelType, RestType
<1> QED BY TypeInit, <1>1, PTL DEF Spec

\* A job flag is up only while the panel that can lower it is mounted.
THEOREM FlagOnItsPanel == Spec => []JobHoldsPanel
<1>1. Init => JobHoldsPanel
  BY DEF Init, JobHoldsPanel
<1> QED BY <1>1, HoldsStep, PTL DEF Spec

-----------------------------------------------------------------------------
(* The clear and its reads.                                                *)

\* What is armed and what is pending lives in the mounted panel; a clear has
\* no armed button, and while it is pending it holds its own panel's flag.
PanelHeld ==
  /\ ~ Mounted => armed = {} /\ pending = {}
  /\ "clear" \notin armed
  /\ "clear" \in pending => selected = "provision" /\ flags = {"launching"}

\* A read after an answered clear is on its way, or the last one failed and
\* nothing of the payload is shown.
ReadAwaited ==
  cleared # "no" => read.status = "error" \/ read.fetch = "fetching"

\* A clear that was answered in its panel is still pending there, or nothing
\* of the payload is shown.
ClearAwaited ==
  cleared = "here" => \/ read.status = "error"
                      \/ "clear" \in pending /\ wire["clear"] = "refetch"

\* Whether the wizard is on screen does not depend on a read being on its way.
LEMMA ShownSettled ==
  ASSUME NEW r, NEW q, r.at = q.at, r.status = q.status
  PROVE  Shown(r) <=> Shown(q)
BY DEF Shown

\* A render keeps what the panel holds in a mounted panel.
LEMMA RenderKeeps ==
  ASSUME NEW step, NEW arms, NEW sent, NEW last, NEW following, NEW by,
         "clear" \notin arms,
         "clear" \in sent => step = "provision" /\ Mounted,
         Render(step, arms, sent, last, following, by)
  PROVE  PanelHeld'
<1> DEFINE jobs == JobsAfter(step, sent, last, following)
           steps == StepsAfter(jobs)
           mounted == Shown(read') /\ step \in steps
<1>1. /\ flags' = jobs /\ settled' = steps
      /\ selected' = IF Shown(read') THEN step ELSE NoStage
      /\ armed' = IF mounted THEN arms ELSE {}
      /\ pending' = IF mounted THEN sent ELSE {}
  BY DEF Render
<1>2. ~ Mounted' => armed' = {} /\ pending' = {}
  BY <1>1 DEF Mounted
<1>3. "clear" \notin armed'
  BY <1>1
<1>4. ASSUME "clear" \in pending'
      PROVE  selected' = "provision" /\ flags' = {"launching"}
  <2>1. mounted /\ "clear" \in sent
    BY <1>1, <1>4
  <2>2. step = "provision" /\ Mounted /\ Shown(read)
    BY <2>1 DEF Mounted
  <2>3. StageBusy(step, sent, last, following)
    BY <2>1, <2>2 DEF StageBusy
  <2> QED BY <1>1, <2>1, <2>2, <2>3 DEF JobsAfter, StageFlag
<1> QED BY <1>2, <1>3, <1>4 DEF PanelHeld

\* The panel of a pending clear is never locked away: its flag opens it.
LEMMA ClearStays ==
  ASSUME JobHoldsPanel, PanelHeld, "clear" \in pending, Shown(read'),
         NEW arms, NEW sent, NEW last, NEW following, NEW by, "clear" \in sent,
         Render(selected, arms, sent, last, following, by)
  PROVE  "clear" \in pending'
<1> DEFINE jobs == JobsAfter(selected, sent, last, following)
           steps == StepsAfter(jobs)
<1>1. Mounted /\ selected = "provision" /\ Shown(read)
  BY DEF PanelHeld, Mounted
<1>2. StageBusy(selected, sent, last, following)
  BY <1>1 DEF StageBusy
<1>3. jobs = StageFlag("provision")
  BY <1>1, <1>2 DEF JobsAfter
<1>4. selected \in steps
  <2>1. CASE Unsettled(read', user')
    BY <1>1, <2>1 DEF StepsAfter, Mounted
  <2>2. CASE ~ Unsettled(read', user')
    BY <1>1, <1>3, <2>2, JobStepOpen DEF StepsAfter
  <2> QED BY <2>1, <2>2
<1> QED BY <1>4 DEF Render

\* The reads alone: nothing the operator holds is added to.
LEMMA RerenderKeeps ==
  ASSUME PanelHeld, NEW sent, sent \subseteq pending, Rerender(sent)
  PROVE  PanelHeld'
<1>1. CASE Shown(read') /\ ~ Shown(read)
  <2>1. PICK step : Render(step, {}, {}, Nobody, Idle, NoStage)
    BY <1>1 DEF Rerender
  <2> QED BY <2>1, RenderKeeps
<1>2. CASE ~ (Shown(read') /\ ~ Shown(read))
  <2>1. Render(selected, armed, sent, latest, track, owner)
    BY <1>2 DEF Rerender
  <2> QED BY <2>1, RenderKeeps DEF PanelHeld
<1> QED BY <1>1, <1>2

\* The panel that offers a clear is Provision's.
LEMMA ClearOffered ==
  ASSUME "clear" \in OfferedUnits
  PROVE  selected = "provision"
<1>1. PICK a \in Offered(selected, WizardInput(read, user, flags)) :
        "clear" \in UnitsOf(a)
  BY DEF OfferedUnits
<1>2. PICK input : a \in StageActions(selected, input)
  BY <1>1 DEF Offered
<1>3. a = "clear-for-deployment"
  BY <1>1, <1>2, WizardAssumption DEF UnitsOf, StageActions, StageAction
<1> QED BY <1>2, <1>3 DEF StageActions

LEMMA HeldStep == PanelHeld /\ [Next]_vars => PanelHeld'
<1> SUFFICES ASSUME PanelHeld, [Next]_vars PROVE PanelHeld'
  OBVIOUS
<1>1. CASE FetchStart
  BY <1>1, RerenderKeeps DEF FetchStart
<1>2. ASSUME NEW r, Settle(r) PROVE PanelHeld'
  BY <1>2, RerenderKeeps DEF Settle
<1>3. ASSUME NEW u \in UserRead, UserFetch(u) PROVE PanelHeld'
  BY <1>3, RerenderKeeps DEF UserFetch
<1>4. ASSUME NEW step \in FlowStepId, SelectStep(step) PROVE PanelHeld'
  BY <1>4, RenderKeeps DEF SelectStep
<1>5. ASSUME NEW arms, NEW sent, NEW last, NEW following, NEW by,
             "clear" \notin arms, "clear" \in sent => selected = "provision",
             StageChange(arms, sent, last, following, by)
      PROVE  PanelHeld'
  BY <1>5, RenderKeeps DEF StageChange
<1>6. "clear" \notin armed /\ ("clear" \in pending => selected = "provision")
  BY DEF PanelHeld
<1>7. ASSUME NEW u \in Unit, Confirm(u) PROVE PanelHeld'
  <2>1. "clear" \in pending \cup {u} => selected = "provision"
    BY <1>6, <1>7, ClearOffered DEF Confirm, Confirmable
  <2> QED BY <1>5, <1>6, <1>7, <2>1 DEF Confirm
<1>8. ASSUME NEW u \in Unit,
             Cancel(u) \/ AnswerFail(u) \/ FollowJob(u) \/ Release(u)
      PROVE  PanelHeld'
  BY <1>5, <1>6, <1>8 DEF Cancel, AnswerFail, FollowJob, Release
<1>9. ASSUME NEW u \in Unit, Answer(u) PROVE PanelHeld'
  BY <1>5, <1>6, <1>9 DEF Answer, AnswerClear, AnswerSwitch, AnswerOperation
<1>10. ASSUME NEW u \in OfferedUnits, Arm(u) PROVE PanelHeld'
  <2>1. "clear" \notin armed \cup {u}
    BY <1>6, <1>10 DEF Arm, Armable
  <2> QED BY <1>5, <1>6, <1>10, <2>1 DEF Arm
<1>11. CASE UNCHANGED <<read, panel>>
  BY <1>11 DEF panel, PanelHeld, Mounted
<1>12. ASSUME NEW u \in Unit, Receive(u) \/ AnswerNobody(u) \/ OpStep(u)
       PROVE  PanelHeld'
  BY <1>11, <1>12, RerenderKeeps DEF Receive, AnswerNobody, OpStep
<1>13. CASE Restart \/ Expire
  BY <1>11, <1>13 DEF Restart, Expire, Forgets
<1>14. CASE UNCHANGED vars
  BY <1>11, <1>14 DEF vars
<1> QED
  BY <1>1, <1>2, <1>3, <1>4, <1>7, <1>8, <1>9, <1>10, <1>12, <1>13, <1>14
  DEF Next, FetchOk, FetchFail

\* Only the read itself ends what a clear's answer awaits.
LEMMA ReadStep ==
  RestType /\ ReadAwaited /\ [Next]_vars => ReadAwaited'
<1> SUFFICES ASSUME RestType, ReadAwaited, [Next]_vars
             PROVE  ReadAwaited'
  OBVIOUS
<1>1. read \in [at : Payload \cup {NoData}, status : {"ok", "error"}, fetch : Fetch]
  BY DEF RestType
<1>2. ASSUME Invalidate PROVE ReadAwaited'
  BY <1>1, <1>2 DEF Invalidate, ReadAwaited
<1>3. ASSUME read' = read, cleared' = cleared PROVE ReadAwaited'
  BY <1>3 DEF ReadAwaited
<1>4. CASE FetchStart
  BY <1>1, <1>4 DEF FetchStart, ReadAwaited
<1>5. ASSUME NEW p \in Payload, FetchOk(p) PROVE ReadAwaited'
  BY <1>5 DEF FetchOk, ReadAwaited
<1>6. CASE FetchFail
  BY <1>1, <1>6 DEF FetchFail, Settle, ReadAwaited
<1>7. ASSUME NEW u \in Unit,
             Cancel(u) \/ Confirm(u) \/ Receive(u) \/ AnswerFail(u) \/ OpStep(u)
               \/ FollowJob(u) \/ Arm(u)
      PROVE  ReadAwaited'
  BY <1>3, <1>7 DEF Cancel, Confirm, Receive, AnswerFail, OpStep, FollowJob, Arm
<1>8. ASSUME NEW u \in Unit, AnswerNobody(u) \/ Answer(u) \/ Release(u)
      PROVE  ReadAwaited'
  BY <1>2, <1>3, <1>8
  DEF AnswerNobody, Answer, AnswerClear, AnswerSwitch, AnswerOperation, Release
<1>9. ASSUME NEW u \in UserRead, UserFetch(u) PROVE ReadAwaited'
  BY <1>3, <1>9 DEF UserFetch
<1>10. ASSUME NEW step \in FlowStepId, SelectStep(step) PROVE ReadAwaited'
  BY <1>3, <1>10 DEF SelectStep
<1>11. CASE Restart \/ Expire \/ UNCHANGED vars
  BY <1>3, <1>11 DEF Restart, Expire, Forgets, vars
<1> QED
  BY <1>4, <1>5, <1>6, <1>7, <1>8, <1>9, <1>10, <1>11, OfferedType DEF Next

LEMMA AwaitedStep ==
  /\ RestType /\ JobHoldsPanel /\ PanelHeld /\ ClearAwaited
  /\ [Next]_vars
  => ClearAwaited'
<1> SUFFICES ASSUME RestType, JobHoldsPanel, PanelHeld, ClearAwaited,
                    [Next]_vars, cleared' = "here", read'.status # "error"
             PROVE  "clear" \in pending' /\ wire'["clear"] = "refetch"
  BY DEF ClearAwaited
<1>0. /\ "clear" \in Unit /\ wire \in [Unit -> Request]
      /\ read \in [at : Payload \cup {NoData}, status : {"ok", "error"}, fetch : Fetch]
  BY DEF Unit, RestType
<1> DEFINE Done == "clear" \in pending' /\ wire'["clear"] = "refetch"
\* Everything but a clear's own answer and the reads leaves what is awaited.
<1>1. ASSUME NEW arms, NEW sent, NEW last, NEW following, NEW by,
             pending \subseteq sent, wire'["clear"] = wire["clear"], cleared = "here",
             read'.status = read.status, Shown(read') = Shown(read),
             Render(selected, arms, sent, last, following, by)
      PROVE  Done
  <2>1. "clear" \in pending /\ wire["clear"] = "refetch"
    BY <1>1 DEF ClearAwaited
  <2>2. Shown(read')
    BY <1>1, <2>1 DEF PanelHeld, Mounted
  <2> QED BY <1>1, <2>1, <2>2, ClearStays
<1>2. ASSUME NEW sent, pending \subseteq sent, wire' = wire, cleared = "here",
             read'.status = read.status, Shown(read') = Shown(read), Rerender(sent)
      PROVE  Done
  BY <1>1, <1>2 DEF Rerender
<1>3. CASE FetchStart
  <2>1. read'.at = read.at /\ read'.status = read.status
    BY <1>0, <1>3 DEF FetchStart
  <2>2. Shown(read') = Shown(read)
    BY <2>1, ShownSettled DEF Shown
  <2> QED BY <1>2, <1>3, <2>1, <2>2 DEF FetchStart
<1>4. ASSUME NEW p \in Payload, FetchOk(p) PROVE Done
  BY <1>4 DEF FetchOk
<1>5. CASE FetchFail
  BY <1>0, <1>5 DEF FetchFail, Settle
<1>6. ASSUME NEW u \in UserRead, UserFetch(u) PROVE Done
  BY <1>2, <1>6 DEF UserFetch
<1>7. ASSUME NEW step \in FlowStepId, SelectStep(step) PROVE Done
  <2>1. "clear" \notin pending
    BY <1>7 DEF SelectStep, KeysAct, PanelHeld
  <2>2. cleared = "here" /\ read.status # "error"
    BY <1>7 DEF SelectStep
  <2> QED BY <2>1, <2>2 DEF ClearAwaited
<1>8. ASSUME NEW u \in Unit, wire[u] # "refetch", cleared' = cleared,
             NEW v, wire' = [wire EXCEPT ![u] = v],
             NEW arms, NEW sent, NEW last, NEW following, NEW by,
             pending \ {u} \subseteq sent, read' = read,
             StageChange(arms, sent, last, following, by)
      PROVE  Done
  <2>1. "clear" \in pending /\ wire["clear"] = "refetch"
    BY <1>8 DEF ClearAwaited
  <2>2. u # "clear"
    BY <1>8, <2>1
  <2>3. wire'["clear"] = "refetch" /\ "clear" \in sent
    BY <1>0, <1>8, <2>1, <2>2
  <2>4. Shown(read')
    BY <1>8 DEF StageChange, Mounted
  <2> QED BY <1>8, <2>1, <2>3, <2>4, ClearStays DEF StageChange
<1>9. ASSUME NEW u \in Unit, Confirm(u) \/ AnswerFail(u) PROVE Done
  BY <1>8, <1>9 DEF Confirm, AnswerFail
<1>10. ASSUME NEW u \in Unit, Answer(u) PROVE Done
  <2>1. CASE u = "clear" /\ AnswerClear
    <3>1. "clear" \in pending /\ wire'["clear"] = "refetch"
      BY <1>0, <1>10, <2>1 DEF Answer, AnswerClear
    <3>2. read'.at = read.at /\ read'.status = read.status
      BY <1>0, <2>1 DEF AnswerClear, Invalidate
    <3>3. Shown(read')
      BY <2>1, <3>2, ShownSettled DEF AnswerClear, StageChange, Mounted
    <3> QED BY <2>1, <3>1, <3>3, ClearStays DEF AnswerClear, StageChange
  <2>2. CASE u = "switch" /\ AnswerSwitch
    BY <1>8, <1>10, <2>2 DEF Answer, AnswerSwitch
  <2>3. CASE AnswerOperation(u)
    BY <1>8, <1>10, <2>3 DEF Answer, AnswerOperation
  <2> QED BY <1>10, <2>1, <2>2, <2>3 DEF Answer
<1>11. ASSUME NEW u \in Unit, Release(u) PROVE Done
  <2>1. read'.at = read.at /\ read'.status = read.status
    BY <1>0, <1>11 DEF Release, Invalidate
  <2>2. Shown(read') = Shown(read)
    BY <2>1, ShownSettled DEF Shown
  <2> QED BY <1>1, <1>11, <2>1, <2>2 DEF Release, StageChange
<1>12. ASSUME NEW u \in Unit, Cancel(u) \/ FollowJob(u) \/ Arm(u) PROVE Done
  BY <1>1, <1>12 DEF Cancel, FollowJob, Arm, StageChange
<1>13. CASE UNCHANGED <<read, panel, cleared>> /\ wire'["clear"] = wire["clear"]
  BY <1>13 DEF panel, ClearAwaited
<1>14. ASSUME NEW u \in Unit, Receive(u) \/ AnswerNobody(u) \/ OpStep(u) PROVE Done
  <2>1. "clear" \in pending /\ wire["clear"] = "refetch"
    BY <1>14 DEF Receive, AnswerNobody, OpStep, ClearAwaited
  <2>2. wire'["clear"] = wire["clear"]
    BY <1>0, <1>14, <2>1 DEF Receive, AnswerNobody, OpStep
  <2>3. UNCHANGED <<read, panel, cleared>>
    BY <1>14 DEF Receive, AnswerNobody, OpStep
  <2> QED BY <1>13, <2>2, <2>3
<1>15. CASE Restart \/ Expire
  BY <1>13, <1>15 DEF Restart, Expire, Forgets
<1>16. CASE UNCHANGED vars
  BY <1>13, <1>16 DEF vars
<1> QED
  BY <1>3, <1>4, <1>5, <1>6, <1>7, <1>9, <1>10, <1>11, <1>12, <1>14, <1>15,
     <1>16, OfferedType
  DEF Next

\* While the inventory read before an answered clear is on screen, a read
\* after it is on its way; a clear answered in its panel is pending there till
\* then, whatever fails, re-renders or restarts meanwhile.  One answered with
\* its panel gone is not: the stage mounted since offers it till that read.
THEOREM ClearClosed == Spec => []ClearClosesLoop
<1>1. Init => PanelHeld /\ ClearAwaited /\ ReadAwaited
  BY DEF Init, PanelHeld, ClearAwaited, ReadAwaited
<1>2. ClearAwaited /\ ReadAwaited => ClearClosesLoop
  BY DEF ClearAwaited, ReadAwaited, ClearClosesLoop, Mounted, Shown
<1>3. TypeOK => RestType
  BY TypeParts
<1>4. TypeOK' => RestType'
  BY DEF TypeOK, RestType
<1> QED
  BY WizardTypeCorrect, FlagOnItsPanel, <1>1, <1>2, <1>3, HeldStep, ReadStep,
     AwaitedStep, PTL
  DEF Spec

\* What the background reads do while they are unsettled closes no
\* confirmation.
THEOREM ArmedKept == Spec => UnsettledReadsKeepArmed
<1> DEFINE Keeps ==
      /\ <<read, user>>' # <<read, user>>
      /\ Shown(read) /\ Shown(read') /\ Unsettled(read', user')
      => armed' = armed
<1>1. Init => PanelHeld
  BY DEF Init, PanelHeld
<1>2. PanelHeld /\ [Next]_vars => [Keeps]_vars
  <2> SUFFICES ASSUME PanelHeld, [Next]_vars, <<read, user>>' # <<read, user>>,
                      Shown(read), Shown(read'), Unsettled(read', user')
               PROVE  armed' = armed
    OBVIOUS
  <2>1. ASSUME NEW sent, NEW last, NEW following, NEW by,
               Render(selected, armed, sent, last, following, by)
        PROVE  armed' = armed
    <3>1. StepsAfter(JobsAfter(selected, sent, last, following)) = settled
      BY DEF StepsAfter
    <3> QED BY <2>1, <3>1 DEF Render, PanelHeld, Mounted
  <2>2. ASSUME NEW sent, Rerender(sent) PROVE armed' = armed
    BY <2>1, <2>2 DEF Rerender
  <2>3. CASE FetchStart
    BY <2>2, <2>3 DEF FetchStart
  <2>4. ASSUME NEW r, Settle(r) PROVE armed' = armed
    BY <2>2, <2>4 DEF Settle
  <2>5. ASSUME NEW u \in UserRead, UserFetch(u) PROVE armed' = armed
    BY <2>2, <2>5 DEF UserFetch
  <2>6. ASSUME NEW u \in Unit, Release(u) PROVE armed' = armed
    BY <2>1, <2>6 DEF Release, StageChange
  <2>7. CASE AnswerClear
    BY <2>1, <2>7 DEF AnswerClear, StageChange
  <2>8. ASSUME NEW u \in Unit,
               Cancel(u) \/ Confirm(u) \/ Receive(u) \/ AnswerFail(u)
                 \/ OpStep(u) \/ FollowJob(u) \/ Arm(u)
        PROVE  FALSE
    BY <2>8 DEF Cancel, Confirm, Receive, AnswerFail, OpStep, FollowJob, Arm
  <2>13. ASSUME NEW u \in Unit, AnswerNobody(u) PROVE armed' = armed
    BY <2>2, <2>13 DEF AnswerNobody
  <2>9. ASSUME NEW u \in Unit, Answer(u) PROVE armed' = armed
    BY <2>7, <2>9 DEF Answer, AnswerSwitch, AnswerOperation
  <2>10. ASSUME NEW step \in FlowStepId, SelectStep(step) PROVE FALSE
    BY <2>10 DEF SelectStep
  <2>11. CASE Restart \/ Expire
    BY <2>11 DEF Restart, Expire, Forgets
  <2>12. CASE UNCHANGED vars
    BY <2>12 DEF vars
  <2> QED
    BY <2>3, <2>4, <2>5, <2>6, <2>8, <2>9, <2>10, <2>11, <2>12,
       <2>13, OfferedType
    DEF Next, FetchOk, FetchFail
<1>3. UnsettledReadsKeepArmed <=> [][Keeps]_vars
  BY DEF UnsettledReadsKeepArmed
<1> QED BY <1>1, HeldStep, <1>2, <1>3, PTL DEF Spec
=============================================================================
