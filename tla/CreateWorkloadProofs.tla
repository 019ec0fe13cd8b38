------------------------ MODULE CreateWorkloadProofs ------------------------
(***************************************************************************)
(* Proofs about creating a workload, for any number of identities, entries, *)
(* facilities and requests: what a deploy request is sent on, and that the  *)
(* exit of the page after it is true of the launch that page follows, which *)
(* is another one than its own in known cases only, and stays open.         *)
(*                                                                         *)
(* The types are not inductive alone: that the inventory only ever lists a  *)
(* well-formed identity rests on no request going out without one, which    *)
(* is the draft's gate.                                                     *)
(***************************************************************************)
EXTENDS CreateWorkload, TLAPS

PageType ==
  /\ place \in {"create", "setup", "away"}
  /\ draft \in [slug : Slug \cup {NoSlug}, key : Key \cup {NoKey}, facility : Site \cup {NoSite}]
  /\ step \in WizardStep /\ arming \in BOOLEAN
  /\ waits \in Sends \cup {NoReq} /\ (waits # NoReq => place = "create")
  /\ outcome \in {"none", "refused", "unknown"}
  /\ launch \in Sends \cup {NoReq}

ReadsType ==
  /\ catalog \in [at : [Key -> {"absent", "bootstrapped", "active"}],
                  failed : BOOLEAN, fetching : BOOLEAN]
  /\ facility \in [at : SUBSET Site, status : {"ok", "unread"}]
  /\ grouped \in [at : SUBSET Slug, grade : {"ok", "withheld"}]

Wire == {"unsent", "sent", "adrift", "accepted", "refused", "over"}

RequestType ==
  req \in [Sends -> [slug : Slug \cup {NoSlug}, key : Key \cup {NoKey}, wire : Wire]]

BackendType ==
  /\ op \in [Sends -> OpState] /\ job \in [Sends -> JobState]
  /\ recorded \subseteq Slug

LineType ==
  line \in [of : Sends \cup {NoReq}, follow : {"op", "job"}, sees : OpState,
            status : JobState, opDone : BOOLEAN, jobDone : BOOLEAN, failed : BOOLEAN]

LEMMA TypeParts ==
  TypeOK <=> PageType /\ ReadsType /\ RequestType /\ BackendType /\ LineType
  BY DEF TypeOK, PageType, ReadsType, RequestType, BackendType, LineType, Wire

\* A request has the identity it was confirmed with, and until it is received
\* the backend knows nothing of it.
RequestNamed ==
  \A n \in Sends :
    /\ req[n].wire # "unsent" => req[n].slug \in Slug
    /\ req[n].wire = "unsent" => op[n] = "none" /\ job[n] = "none"

\* An operation past its launch has a job, one before it has none.
JobOfOp ==
  \A n \in Sends :
    /\ op[n] \in {"direct", "launched"} \cup TerminalOp => job[n] # "none"
    /\ op[n] = "waking" => job[n] = "none"

\* What the setup page has learnt of the launch its line is about is still so: an
\* end that was polled is an end that stays.  The line is about another launch
\* than the page's own only where the page does not follow the new one.
LineTrue ==
  launch # NoReq =>
    /\ line.of \in Sends /\ req[line.of].wire = "over" /\ req[launch].wire = "over"
    /\ line.follow = "job" \/ line.sees \in TerminalOp \cup {"launched"}
         => job[line.of] # "none"
    /\ line.opDone => /\ line.sees \in TerminalOp \cup {"error"}
                      /\ op[line.of] \in TerminalOp \cup {"error", "gone"}
    /\ line.jobDone => job[line.of] \in {"successful", "failed"}
    /\ line.of # launch =>
         line.follow = "job" \/ line.failed \/ op[launch] = "direct"

IInv == TypeOK /\ RequestNamed /\ JobOfOp /\ LineTrue

-----------------------------------------------------------------------------
(* The draft.                                                              *)

\* Provision can be opened only for a draft of which everything holds.
LEMMA ProvisionOpens ==
  ASSUME NEW d, IsStepOpenable(DraftSteps(d)["provision"])
  PROVE  DraftFact \subseteq d
<1>1. "provision" \in FlowStepId
  BY DEF FlowStepId, FlowStep
<1>2. CASE DraftCurrent(d) = "provision"
  <2>1. CASE ~ DesignDone(d)
    BY <1>2, <2>1, Zenon DEF DraftCurrent, PlanDone, DesignDone, DraftFact
  <2>2. CASE DesignDone(d) /\ ~ PlanDone(d)
    BY <1>2, <2>2, Zenon DEF DraftCurrent
  <2>3. CASE DesignDone(d) /\ PlanDone(d)
    BY <2>3 DEF PlanDone
  <2> QED BY <2>1, <2>2, <2>3
<1>3. CASE DraftCurrent(d) # "provision"
  <2>1. DraftSteps(d)["provision"] = "locked"
    BY <1>1, <1>3, Zenon DEF DraftSteps
  <2> QED BY <2>1 DEF IsStepOpenable
<1> QED BY <1>2, <1>3

LEMMA DefaultStepType ==
  ASSUME NEW d
  PROVE  DefaultStep(d) \in WizardStep
<1>1. DraftCurrent(d) \in {"design", "plan", "provision"}
  <2>1. CASE ~ DesignDone(d)
    BY <2>1, Zenon DEF DraftCurrent, PlanDone, DesignDone, DraftFact
  <2>2. CASE DesignDone(d) /\ ~ PlanDone(d)
    BY <2>2, Zenon DEF DraftCurrent
  <2>3. CASE DesignDone(d) /\ PlanDone(d)
    BY <2>3, Zenon DEF DraftCurrent
  <2> QED BY <2>1, <2>2, <2>3
<1> QED BY <1>1 DEF DefaultStep, WizardStep, FlowStepId, FlowStep

\* What is known of the draft when its deploy can be confirmed.
LEMMA ConfirmsDraft ==
  ASSUME PageType, ReadsType, AtProvision
  PROVE  /\ draft.slug \in Slug /\ draft.slug # NoSlug
         /\ facility = [at |-> {draft.facility}, status |-> "ok"]
         /\ ~ catalog.failed /\ ~ catalog.fetching
         /\ catalog.at[draft.key] = "bootstrapped"
<1>1. DraftFact \subseteq Draft
  BY ProvisionOpens DEF AtProvision
<1>2. draft.slug # NoSlug /\ HasTemplate /\ FacilityConfirmed
  BY <1>1 DEF Draft, DraftFact
<1>3. facility.at = {draft.facility} /\ facility.status = "ok"
  BY <1>2 DEF FacilityConfirmed, HasFacility
<1>4. facility = [at |-> {draft.facility}, status |-> "ok"]
  BY <1>3 DEF ReadsType
<1>5. ~ catalog.failed /\ ~ catalog.fetching /\ catalog.at[draft.key] # "active"
  BY <1>2 DEF AtProvision, ProvisionBlocked, HasTemplate
<1>6. draft.key \in Key /\ catalog.at[draft.key] # "absent"
  BY <1>2 DEF HasTemplate, PageType
<1>7. catalog.at[draft.key] = "bootstrapped"
  BY <1>5, <1>6 DEF ReadsType
<1> QED BY <1>2, <1>4, <1>5, <1>7 DEF PageType

-----------------------------------------------------------------------------
(* Typing.                                                                 *)

LEMMA FreshLineType ==
  ASSUME NEW n \in Sends \cup {NoReq}
  PROVE  /\ FreshLine(n) \in [of : Sends \cup {NoReq}, follow : {"op", "job"},
                              sees : OpState, status : JobState, opDone : BOOLEAN,
                              jobDone : BOOLEAN, failed : BOOLEAN]
         /\ FreshLine(n).of = n
         /\ FreshLine(n).opDone = FALSE /\ FreshLine(n).jobDone = FALSE
         /\ FreshLine(n).sees = "none"
         /\ FreshLine(n).follow = "job" => n # NoReq /\ op[n] = "direct"
  BY DEF FreshLine, NewLine, OpState, JobState

LEMMA TypeInit == Init => IInv
<1> SUFFICES ASSUME Init PROVE IInv
  OBVIOUS
<1>1. PageType
  BY DEF Init, PageType, EmptyDraft, WizardStep
<1>2. ReadsType
  BY DEF Init, ReadsType, Unread
<1>3. RequestType /\ RequestNamed
  BY DEF Init, RequestType, RequestNamed, NotAsked, Wire
<1>4. BackendType /\ JobOfOp
  BY DEF Init, BackendType, JobOfOp, OpState, JobState, TerminalOp
<1>5. LineType
  BY DEF Init, LineType, NewLine, OpState, JobState
<1>6. LineTrue
  BY DEF Init, LineTrue
<1> QED BY <1>1, <1>2, <1>3, <1>4, <1>5, <1>6, TypeParts DEF IInv

LEMMA PageStep == PageType /\ ReadsType /\ [Next]_vars => PageType'
<1> SUFFICES ASSUME PageType, ReadsType, [Next]_vars PROVE PageType'
  OBVIOUS
<1>0. EmptyDraft \in [slug : Slug \cup {NoSlug}, key : Key \cup {NoKey},
                      facility : Site \cup {NoSite}]
      /\ "identity" \in WizardStep
  BY DEF EmptyDraft, WizardStep
<1>1. ASSUME NEW s \in Slug \cup {NoSlug}, TypeIdentity(s) PROVE PageType'
  BY <1>1 DEF TypeIdentity, create, PageType
<1>2. ASSUME NEW k \in Key, SelectTemplate(k) PROVE PageType'
  BY <1>2 DEF SelectTemplate, create, PageType
<1>3. CASE ConfirmPlacement
  <2>1. facility.at \subseteq Site
    BY DEF ReadsType
  <2> QED BY <1>3, <2>1 DEF ConfirmPlacement, create, PageType
<1>4. ASSUME NEW s \in WizardStep, Walk(s) PROVE PageType'
  BY <1>4 DEF Walk, PageType
<1>5. CASE Arm \/ Cancel
  BY <1>5 DEF Arm, Cancel, PageType
<1>6. ASSUME NEW n \in Sends, Confirm(n) PROVE PageType'
  BY <1>6 DEF Confirm, AtProvision, PageType
<1>7. CASE StartOver
  BY <1>0, <1>7 DEF StartOver, PageType
<1>8. ASSUME NEW p \in {"create", "setup", "away"}, Navigate(p) PROVE PageType'
  BY <1>0, <1>8, DefaultStepType DEF Navigate, EnterCreate, LeaveCreate, PageType
<1>9. CASE Reload
  BY <1>0, <1>9 DEF Reload, LeaveCreate, PageType
<1>10. CASE Reads
  BY <1>10 DEF Reads, CatalogStart, CatalogSettles, FacilityReads, GroupedReads,
               create, PageType
<1>11. CASE Backend
  BY <1>11 DEF Backend, Receive, Launches, Records, JobEnds, WatchEnds, Forgets,
               Purged, create, PageType
<1>12. ASSUME NEW n \in Sends, Accepted(n) PROVE PageType'
  BY <1>0, <1>12 DEF Accepted, LeaveCreate, PageType
<1>13. ASSUME NEW n \in Sends, Fails(n) PROVE PageType'
  BY <1>13 DEF Fails, PageType
<1>14. CASE Lines
  BY <1>14 DEF Lines, PollOp, HandsOver, PollJob, create, PageType
<1>15. CASE UNCHANGED vars
  BY <1>15 DEF vars, PageType
<1> QED
  BY <1>1, <1>2, <1>3, <1>4, <1>5, <1>6, <1>7, <1>8, <1>9, <1>10, <1>11, <1>12,
     <1>13, <1>14, <1>15
  DEF Next, Operator, Answers

LEMMA ReadsStep == ReadsType /\ BackendType /\ [Next]_vars => ReadsType'
<1> SUFFICES ASSUME ReadsType, BackendType, [Next]_vars PROVE ReadsType'
  OBVIOUS
<1>1. CASE UNCHANGED reads
  BY <1>1 DEF reads, ReadsType
<1>2. CASE CatalogStart
  BY <1>2 DEF CatalogStart, ReadsType
<1>3. CASE CatalogSettles
  <2>1. facility' = facility /\ grouped' = grouped
    BY <1>3 DEF CatalogSettles
  <2>2. ASSUME NEW c \in CatalogRead,
               catalog' = [at |-> c, failed |-> FALSE, fetching |-> FALSE]
        PROVE  ReadsType'
    <3>1. c \in [Key -> {"absent", "bootstrapped", "active"}]
      BY CreateAssumption
    <3> QED BY <2>1, <2>2, <3>1 DEF ReadsType
  <2>3. CASE catalog' = [catalog EXCEPT !.failed = TRUE, !.fetching = FALSE]
    BY <2>1, <2>3 DEF ReadsType
  <2> QED BY <1>3, <2>2, <2>3 DEF CatalogSettles
<1>4. CASE FacilityReads
  BY <1>4, CreateAssumption DEF FacilityReads, ReadsType
<1>5. CASE GroupedReads
  BY <1>5 DEF GroupedReads, ReadsType, BackendType
<1>6. CASE Reload
  BY <1>6 DEF Reload, ReadsType, Unread
<1>7. CASE Operator /\ ~ Reload
  BY <1>1, <1>7 DEF Operator, TypeIdentity, SelectTemplate, ConfirmPlacement, Walk,
     Arm, Cancel, Confirm, StartOver, Navigate
<1>8. CASE Backend
  BY <1>1, <1>8 DEF Backend, Receive, Launches, Records, JobEnds, WatchEnds, Forgets, Purged
<1>9. CASE Answers \/ Lines
  BY <1>1, <1>9 DEF Answers, Accepted, Fails, Lines, PollOp, HandsOver, PollJob
<1>10. CASE UNCHANGED vars
  BY <1>1, <1>10 DEF vars, reads
<1> QED
  BY <1>2, <1>3, <1>4, <1>5, <1>6, <1>7, <1>8, <1>9, <1>10 DEF Next, Reads

-----------------------------------------------------------------------------
(* The requests, and what the backend makes of them.                       *)

\* What a step leaves alone when it is none of those that move a request.
LEMMA RequestsKept ==
  ASSUME \/ \E s \in Slug \cup {NoSlug} : TypeIdentity(s)
         \/ \E k \in Key : SelectTemplate(k)
         \/ ConfirmPlacement \/ \E s \in WizardStep : Walk(s)
         \/ Arm \/ Cancel \/ StartOver
         \/ \E p \in {"create", "setup", "away"} : Navigate(p)
         \/ Reads \/ Lines \/ UNCHANGED vars
  PROVE  UNCHANGED <<req, op, job, recorded>>
  BY DEF TypeIdentity, SelectTemplate, ConfirmPlacement, Walk, Arm, Cancel,
         StartOver, Navigate, Reads, CatalogStart, CatalogSettles,
         FacilityReads, GroupedReads, Lines, PollOp, HandsOver, PollJob,
         backend, vars

\* A reload leaves a request unsent, or under way with nobody to answer to,
\* or over.
LEMMA ReloadedRequest ==
  ASSUME RequestType, Reload, NEW n \in Sends
  PROVE  /\ req'[n].slug = req[n].slug /\ req'[n].key = req[n].key
         /\ req'[n] = [req[n] EXCEPT !.wire = req'[n].wire]
         /\ req'[n].wire = IF req[n].wire = "unsent" THEN "unsent"
                           ELSE IF req[n].wire \in {"sent", "adrift"}
                                  THEN "adrift" ELSE "over"
<1> DEFINE w == CASE req[n].wire = "unsent" -> "unsent"
                  [] req[n].wire \in {"sent", "adrift"} -> "adrift"
                  [] OTHER -> "over"
<1>1. req'[n] = [req[n] EXCEPT !.wire = w]
  BY Zenon DEF Reload
<1>2. w = IF req[n].wire = "unsent" THEN "unsent"
          ELSE IF req[n].wire \in {"sent", "adrift"} THEN "adrift" ELSE "over"
  <2>1. CASE req[n].wire = "unsent"
    <3>1. req[n].wire \notin {"sent", "adrift"}
      BY <2>1
    <3> QED BY <2>1, <3>1, Zenon
  <2>2. CASE req[n].wire \in {"sent", "adrift"}
    <3>1. req[n].wire # "unsent"
      BY <2>2
    <3> QED BY <2>2, <3>1, Zenon
  <2>3. CASE req[n].wire \notin {"unsent", "sent", "adrift"}
    <3>1. req[n].wire # "unsent" /\ req[n].wire \notin {"sent", "adrift"}
      BY <2>3
    <3> QED BY <3>1, Zenon
  <2> QED BY <2>1, <2>2, <2>3
<1> HIDE DEF w
<1> QED BY <1>1, <1>2 DEF RequestType

LEMMA RequestStep ==
  ASSUME PageType, ReadsType, RequestType, BackendType, RequestNamed, [Next]_vars
  PROVE  RequestType' /\ RequestNamed'
<1>1. CASE UNCHANGED <<req, op, job, recorded>>
  BY <1>1 DEF RequestType, RequestNamed
<1>2. ASSUME NEW n \in Sends, Confirm(n) PROVE RequestType' /\ RequestNamed'
  <2>1. draft.slug \in Slug /\ draft.key \in Key \cup {NoKey}
    BY <1>2, ConfirmsDraft DEF Confirm, PageType
  <2>2. req' = [req EXCEPT ![n] = [slug |-> draft.slug, key |-> draft.key, wire |-> "sent"]]
        /\ UNCHANGED <<op, job>>
    BY <1>2 DEF Confirm, backend
  <2> QED BY <2>1, <2>2 DEF RequestType, RequestNamed, Wire
<1>3. CASE Reload
  <2>1. UNCHANGED <<op, job>> /\ \E f : req' = [n \in Sends |-> f[n]]
    <3>1. UNCHANGED <<op, job>>
      BY <1>3 DEF Reload, backend
    <3>2. req' = [n \in Sends |-> req'[n]]
      BY <1>3, Zenon DEF Reload
    <3> QED BY <3>1, <3>2
  <2>2. ASSUME NEW n \in Sends
        PROVE  /\ req'[n] \in [slug : Slug \cup {NoSlug}, key : Key \cup {NoKey}, wire : Wire]
               /\ req'[n].slug = req[n].slug
               /\ req'[n].wire = "unsent" <=> req[n].wire = "unsent"
    BY <1>3, ReloadedRequest DEF RequestType, Wire
  <2> QED BY <2>1, <2>2 DEF RequestType, RequestNamed
<1>4. ASSUME NEW n \in Sends, Receive(n) PROVE RequestType' /\ RequestNamed'
  <2>1. PICK answer \in {"accepted", "refused"}, to \in {"none", "direct", "waking", "launched"} :
          /\ op' = [op EXCEPT ![n] = to]
          /\ job' = [job EXCEPT ![n] = IF to \in {"direct", "launched"} THEN "running" ELSE "none"]
          /\ req' = [req EXCEPT ![n].wire = IF @ = "adrift" THEN "over" ELSE answer]
    BY <1>4 DEF Receive
  <2>2. req[n].wire \in {"sent", "adrift"}
    BY <1>4 DEF Receive
  <2> QED BY <2>1, <2>2 DEF RequestType, RequestNamed, BackendType, Wire
<1>5. ASSUME NEW n \in Sends,
             Launches(n) \/ Records(n) \/ JobEnds(n) \/ WatchEnds(n) \/ Forgets(n)
      PROVE  RequestType' /\ RequestNamed'
  <2>1. req' = req /\ (op[n] # "none" \/ job[n] # "none")
    BY <1>5 DEF Launches, Records, JobEnds, WatchEnds, Forgets
  <2>2. \A i \in Sends : i # n => op'[i] = op[i] /\ job'[i] = job[i]
    BY <1>5 DEF Launches, Records, JobEnds, WatchEnds, Forgets, BackendType
  <2> QED BY <2>1, <2>2 DEF RequestType, RequestNamed
<1>6. ASSUME NEW s \in Slug, Purged(s) PROVE RequestType' /\ RequestNamed'
  BY <1>6 DEF Purged, RequestType, RequestNamed
<1>7. ASSUME NEW n \in Sends, Accepted(n) \/ Fails(n) PROVE RequestType' /\ RequestNamed'
  <2>1. UNCHANGED <<op, job>> /\ req[n].wire # "unsent"
    BY <1>7 DEF Accepted, Fails, backend
  <2>2. PICK w \in Wire \ {"unsent"} : req' = [req EXCEPT ![n].wire = w]
    BY <1>7 DEF Accepted, Fails, Wire
  <2> QED BY <2>1, <2>2 DEF RequestType, RequestNamed
<1> QED
  BY <1>1, <1>2, <1>3, <1>4, <1>5, <1>6, <1>7, RequestsKept
  DEF Next, Operator, Backend, Answers

LEMMA BackendStep ==
  ASSUME RequestNamed, BackendType, JobOfOp, [Next]_vars
  PROVE  BackendType' /\ JobOfOp'
<1>1. CASE UNCHANGED <<op, job, recorded>>
  BY <1>1 DEF BackendType, JobOfOp
<1>2. ASSUME NEW n \in Sends, Receive(n) PROVE BackendType' /\ JobOfOp'
  BY <1>2 DEF Receive, BackendType, JobOfOp, OpState, JobState, TerminalOp
<1>3. ASSUME NEW n \in Sends, Launches(n) PROVE BackendType' /\ JobOfOp'
  BY <1>3 DEF Launches, BackendType, JobOfOp, OpState, JobState, TerminalOp
<1>4. ASSUME NEW n \in Sends, Records(n) PROVE BackendType' /\ JobOfOp'
  <2>1. req[n].slug \in Slug
    BY <1>4 DEF Records, RequestNamed
  <2> QED BY <1>4, <2>1 DEF Records, BackendType, JobOfOp
<1>5. ASSUME NEW n \in Sends, JobEnds(n) PROVE BackendType' /\ JobOfOp'
  BY <1>5 DEF JobEnds, BackendType, JobOfOp, JobState
<1>6. ASSUME NEW n \in Sends, WatchEnds(n) PROVE BackendType' /\ JobOfOp'
  BY <1>6 DEF WatchEnds, BackendType, JobOfOp, OpState, TerminalOp
<1>7. ASSUME NEW n \in Sends, Forgets(n) PROVE BackendType' /\ JobOfOp'
  BY <1>7 DEF Forgets, BackendType, JobOfOp, OpState, TerminalOp
<1>8. ASSUME NEW s \in Slug, Purged(s) PROVE BackendType' /\ JobOfOp'
  BY <1>8 DEF Purged, BackendType, JobOfOp
<1>9. CASE Answers \/ Reload \/ \E n \in Sends : Confirm(n)
  BY <1>1, <1>9 DEF Answers, Accepted, Fails, Reload, Confirm, backend
<1> QED
  BY <1>1, <1>2, <1>3, <1>4, <1>5, <1>6, <1>7, <1>8, <1>9, RequestsKept
  DEF Next, Operator, Backend

-----------------------------------------------------------------------------
(* What the setup page has learnt.                                         *)

\* The steps of the backend neither lose the job of a request that is over nor
\* undo an end of it.
LEMMA LaunchAdvances ==
  ASSUME BackendType, JobOfOp, NEW m \in Sends, req[m].wire = "over", Backend
  PROVE  /\ req'[m].wire = "over"
         /\ job[m] # "none" => job'[m] # "none"
         /\ op[m] = "direct" => op'[m] = "direct"
         /\ op[m] \in TerminalOp \cup {"error", "gone"}
              => op'[m] \in TerminalOp \cup {"error", "gone"}
         /\ job[m] \in {"successful", "failed"} => job'[m] = job[m]
<1>1. ASSUME NEW n \in Sends, Receive(n)
      PROVE  req'[m] = req[m] /\ op'[m] = op[m] /\ job'[m] = job[m]
  <2>1. n # m
    BY <1>1 DEF Receive
  <2>2. PICK answer \in {"accepted", "refused"}, to \in {"none", "direct", "waking", "launched"} :
          /\ op' = [op EXCEPT ![n] = to]
          /\ job' = [job EXCEPT ![n] = IF to \in {"direct", "launched"} THEN "running" ELSE "none"]
          /\ req' = [req EXCEPT ![n].wire = IF @ = "adrift" THEN "over" ELSE answer]
    BY <1>1 DEF Receive
  <2> QED BY <2>1, <2>2
<1>2. ASSUME NEW n \in Sends, Launches(n) \/ Records(n) \/ JobEnds(n) \/ WatchEnds(n) \/ Forgets(n)
      PROVE  /\ req' = req
             /\ job[m] # "none" => job'[m] # "none"
             /\ op[m] = "direct" => op'[m] = "direct"
             /\ op[m] \in TerminalOp \cup {"error", "gone"}
                  => op'[m] \in TerminalOp \cup {"error", "gone"}
             /\ job[m] \in {"successful", "failed"} => job'[m] = job[m]
  <2>1. CASE Launches(n)
    BY <2>1 DEF Launches, BackendType, JobOfOp, TerminalOp
  <2>2. CASE Records(n)
    BY <2>2 DEF Records
  <2>3. CASE JobEnds(n)
    BY <2>3 DEF JobEnds, BackendType
  <2>4. CASE WatchEnds(n)
    BY <2>4 DEF WatchEnds, BackendType
  <2>5. CASE Forgets(n)
    BY <2>5 DEF Forgets, BackendType
  <2> QED BY <1>2, <2>1, <2>2, <2>3, <2>4, <2>5
<1>3. ASSUME NEW s \in Slug, Purged(s) PROVE UNCHANGED <<req, op, job>>
  BY <1>3 DEF Purged
<1> QED BY <1>1, <1>2, <1>3 DEF Backend

\* The page that another launch comes to still says what is so: of the new
\* launch, or of the one it goes on following.
LEMMA CarriedTrue ==
  ASSUME LineType, BackendType, JobOfOp, LineTrue, launch # NoReq, NEW n \in Sends,
         launch' = n, line' = Carried(n), UNCHANGED <<op, job>>, RequestType',
         req'[n].wire = "over", req'[line.of].wire = "over"
  PROVE  LineType' /\ LineTrue'
<1>0. n \in Sends \cup {NoReq}
  OBVIOUS
<1>1. CASE op[n] # "direct" /\ line.follow = "op" /\ ~ line.failed
  <2>1. line' = FreshLine(n)
    BY <1>1 DEF Carried
  <2>2. /\ FreshLine(n) \in [of : Sends \cup {NoReq}, follow : {"op", "job"},
                             sees : OpState, status : JobState, opDone : BOOLEAN,
                             jobDone : BOOLEAN, failed : BOOLEAN]
        /\ FreshLine(n).of = n /\ FreshLine(n).sees = "none"
        /\ FreshLine(n).opDone = FALSE /\ FreshLine(n).jobDone = FALSE
        /\ FreshLine(n).follow # "job"
    BY <1>0, <1>1, FreshLineType, Zenon
  <2>3. LineType'
    BY <2>1, <2>2, Zenon DEF LineType
  <2>4. /\ line'.of = n /\ line'.follow # "job" /\ line'.sees = "none"
        /\ line'.opDone = FALSE /\ line'.jobDone = FALSE
    BY <2>1, <2>2, Zenon
  <2>5. LineTrue'
    BY <2>4 DEF LineTrue, TerminalOp
  <2> QED BY <2>3, <2>5
<1>2. CASE ~ (op[n] # "direct" /\ line.follow = "op" /\ ~ line.failed)
  <2>1. line' = [line EXCEPT !.jobDone = @ /\ req[n].key = req[launch].key]
    BY <1>2, Zenon DEF Carried
  <2>2. /\ line'.of = line.of /\ line'.follow = line.follow /\ line'.sees = line.sees
        /\ line'.opDone = line.opDone /\ line'.failed = line.failed
        /\ line'.jobDone => line.jobDone
    BY <2>1 DEF LineType
  <2>3. LineType'
    BY <2>1 DEF LineType
  <2>4. line.follow = "job" \/ line.failed \/ op'[n] = "direct"
    BY <1>2 DEF LineType
  <2>5. line'.of \in Sends /\ (req[line.of].wire)' = "over"
    BY <2>2 DEF LineTrue
  <2>6. LineTrue'
    BY <2>2, <2>4, <2>5 DEF LineTrue
  <2> QED BY <2>3, <2>6
<1> QED BY <1>1, <1>2

LEMMA LineStep ==
  ASSUME PageType, RequestType, BackendType, LineType, JobOfOp, LineTrue, [Next]_vars,
         RequestType'
  PROVE  LineType' /\ LineTrue'
<1>1. CASE UNCHANGED <<req, op, job, launch, line>>
  <2>1. LineType'
    BY <1>1 DEF LineType
  <2>2. LineTrue'
    BY <1>1 DEF LineTrue
  <2> QED BY <2>1, <2>2
<1>2. ASSUME NEW n \in Sends \cup {NoReq}, launch' = n, line' = FreshLine(n),
             UNCHANGED <<op, job>>, n # NoReq => req'[n].wire = "over"
      PROVE  LineType' /\ LineTrue'
  <2>1. LineType'
    BY <1>2, FreshLineType DEF LineType
  <2>2. /\ line'.opDone = FALSE /\ line'.jobDone = FALSE /\ line'.sees = "none"
        /\ line'.follow = "job" => n # NoReq /\ op[n] = "direct"
        /\ line'.of = n
    BY <1>2, FreshLineType
  <2>3. line'.follow = "job" => job'[n] # "none"
    BY <1>2, <2>2 DEF JobOfOp
  <2>4. LineTrue'
    BY <1>2, <2>2, <2>3 DEF LineTrue, TerminalOp
  <2> QED BY <2>1, <2>4
<1>3. launch \in Sends \cup {NoReq}
      /\ (launch # NoReq => /\ launch \in Sends /\ req[launch].wire = "over"
                            /\ line.of \in Sends /\ req[line.of].wire = "over")
  BY DEF PageType, LineTrue
<1>4. ASSUME NEW p \in {"create", "setup", "away"}, Navigate(p)
      PROVE  LineType' /\ LineTrue'
  BY <1>2, <1>3, <1>4 DEF Navigate, backend
<1>5. CASE Reload
  <2>1. launch # NoReq => req'[launch].wire = "over"
    BY <1>3, <1>5, ReloadedRequest
  <2> QED BY <1>2, <1>3, <1>5, <2>1 DEF Reload, backend
<1>6. CASE GroupedReads
  <2>1. line' = line \/ line' = FreshLine(launch)
    BY <1>6 DEF GroupedReads
  <2> QED BY <1>1, <1>2, <1>3, <1>6, <2>1 DEF GroupedReads, backend
<1>7. ASSUME NEW n \in Sends, Accepted(n) PROVE LineType' /\ LineTrue'
  <2>1. /\ req' = [req EXCEPT ![n].wire = "over"]
        /\ launch' = n /\ UNCHANGED <<op, job>>
    BY <1>7 DEF Accepted, backend
  <2>2. req'[n].wire = "over"
    BY <2>1 DEF RequestType
  <2>3. CASE Materializing /\ line' = Carried(n)
    <3>1. launch # NoReq
      BY <2>3 DEF Materializing
    <3>2. req'[line.of].wire = "over"
      BY <1>3, <2>1, <3>1 DEF RequestType
    <3> QED BY <2>1, <2>2, <2>3, <3>1, <3>2, CarriedTrue
  <2>4. CASE line' = FreshLine(n)
    BY <1>2, <2>1, <2>2, <2>4
  <2> QED BY <1>7, <2>3, <2>4 DEF Accepted
<1>8. ASSUME NEW n \in Sends, Fails(n) \/ Confirm(n) PROVE LineType' /\ LineTrue'
  <2>1. UNCHANGED <<op, job, launch, line>>
    BY <1>8 DEF Fails, Confirm, backend
  <2>2. \A m \in Sends : req[m].wire = "over" => req'[m] = req[m]
    BY <1>8 DEF Fails, Confirm, RequestType
  <2>3. LineType'
    BY <2>1 DEF LineType
  <2>4. LineTrue'
    BY <1>3, <2>1, <2>2 DEF LineTrue
  <2> QED BY <2>3, <2>4
<1>9. CASE Backend
  <2>1. UNCHANGED <<launch, line>>
    BY <1>9 DEF Backend, Receive, Launches, Records, JobEnds, WatchEnds, Forgets, Purged
  <2>2. LineType'
    BY <2>1 DEF LineType
  <2>3. CASE launch = NoReq
    <3>1. launch' = NoReq
      BY <2>1, <2>3
    <3> QED BY <2>2, <3>1 DEF LineTrue
  <2>4. CASE launch # NoReq
    <3>1. req'[launch].wire = "over" /\ (op[launch] = "direct" => op'[launch] = "direct")
      BY <1>3, <1>9, <2>4, LaunchAdvances
    <3>2. /\ req'[line.of].wire = "over"
          /\ job[line.of] # "none" => job'[line.of] # "none"
          /\ op[line.of] \in TerminalOp \cup {"error", "gone"}
               => op'[line.of] \in TerminalOp \cup {"error", "gone"}
          /\ job[line.of] \in {"successful", "failed"} => job'[line.of] = job[line.of]
      BY <1>3, <1>9, <2>4, LaunchAdvances
    <3>3. launch' = launch /\ line' = line
      BY <2>1
    <3>4. /\ (req[launch].wire)' = req'[launch].wire /\ (op[launch])' = op'[launch]
          /\ (req[line.of].wire)' = req'[line.of].wire
          /\ (op[line.of])' = op'[line.of] /\ (job[line.of])' = job'[line.of]
      BY <3>3
    <3>5. LineTrue'
      BY <2>4, <3>1, <3>2, <3>3, <3>4 DEF LineTrue
    <3> QED BY <2>2, <3>5
  <2> QED BY <2>2, <2>3, <2>4
<1>10. CASE Lines
  <2>1. launch # NoReq /\ UNCHANGED <<req, op, job, launch>>
    BY <1>10 DEF Lines, PollOp, HandsOver, PollJob, OpLine, Materializing, backend
  <2>2. /\ launch \in Sends /\ line.of \in Sends
        /\ op[line.of] \in OpState /\ job[line.of] \in JobState
    BY <1>3, <2>1 DEF BackendType
  <2>3. CASE PollOp
    <3>0. line.of = launch
      BY <2>1, <2>3 DEF PollOp, OpLine, LineTrue
    <3>1. line' = [line EXCEPT !.sees = op[launch],
                               !.opDone = op[launch] \in TerminalOp \cup {"error"}]
      BY <2>3 DEF PollOp
    <3>2. LineType'
      <4>1. PICK b \in BOOLEAN : b <=> op[launch] \in TerminalOp \cup {"error"}
        OBVIOUS
      <4>2. line' = [line EXCEPT !.sees = op[launch], !.opDone = b]
        BY <3>1, <4>1, Zenon
      <4> QED BY <2>2, <3>0, <4>2 DEF LineType
    <3>3. /\ line'.of = line.of /\ line'.follow = line.follow /\ line'.sees = op[launch]
          /\ line'.opDone = (op[launch] \in TerminalOp \cup {"error"})
          /\ line'.jobDone = line.jobDone
      BY <3>1 DEF LineType
    <3>4. op[launch] \in TerminalOp \cup {"launched"} => job[launch] # "none"
      BY <2>2 DEF JobOfOp
    <3>5. LineTrue'
      BY <2>1, <3>0, <3>3, <3>4 DEF LineTrue
    <3> QED BY <3>2, <3>5
  <2>4. CASE HandsOver
    <3>0. line.of = launch
      BY <2>1, <2>4 DEF HandsOver, OpLine, LineTrue
    <3>1. \/ line.sees \in TerminalOp \cup {"launched"} /\ line' = [line EXCEPT !.follow = "job"]
          \/ line.sees = "error" /\ line' = [line EXCEPT !.failed = TRUE]
      BY <2>4 DEF HandsOver, FollowsJob
    <3>2. LineType'
      BY <3>1 DEF LineType
    <3>3. /\ line'.of = line.of /\ line'.sees = line.sees /\ line'.opDone = line.opDone
          /\ line'.jobDone = line.jobDone
          /\ line'.follow = line.follow \/ line.sees \in TerminalOp \cup {"launched"}
      BY <3>1 DEF LineType
    <3>4. LineTrue'
      BY <2>1, <3>0, <3>3 DEF LineTrue
    <3> QED BY <3>2, <3>4
  <2>5. CASE PollJob
    <3>1. line.follow = "job"
          /\ line' = [line EXCEPT !.status = job[line.of], !.jobDone = job[line.of] # "running"]
      BY <2>5 DEF PollJob
    <3>2. LineType'
      BY <2>2, <3>1 DEF LineType
    <3>3. /\ line'.of = line.of /\ line'.follow = line.follow /\ line'.sees = line.sees
          /\ line'.opDone = line.opDone
          /\ line'.jobDone = (job[line.of] # "running")
      BY <3>1 DEF LineType
    <3>4. job[line.of] # "none"
      BY <2>1, <3>1 DEF LineTrue
    <3>5. LineTrue'
      BY <2>1, <2>2, <3>1, <3>3, <3>4 DEF LineTrue, JobState
    <3> QED BY <3>2, <3>5
  <2> QED BY <1>10, <2>3, <2>4, <2>5 DEF Lines
<1>11. CASE Operator /\ ~ Reload /\ (\A n \in Sends : ~ Confirm(n))
            /\ (\A p \in {"create", "setup", "away"} : ~ Navigate(p))
  BY <1>1, <1>11 DEF Operator, TypeIdentity, SelectTemplate, ConfirmPlacement, Walk,
     Arm, Cancel, StartOver, backend
<1>12. CASE CatalogStart \/ CatalogSettles \/ FacilityReads \/ UNCHANGED vars
  BY <1>1, <1>12 DEF CatalogStart, CatalogSettles, FacilityReads, backend, vars
<1> QED
  BY <1>4, <1>5, <1>6, <1>7, <1>8, <1>9, <1>10, <1>11, <1>12
  DEF Next, Operator, Reads, Answers

-----------------------------------------------------------------------------

\* Every state of the tab and of its requests is typed and named, and what the
\* setup page holds is true of the launch it is about, be it the page's own or an
\* earlier one the page has carried over (WorkloadSetup.tsx gives it no key).
THEOREM CreateInductive == Spec => []IInv
<1>1. IInv /\ [Next]_vars => IInv'
  <2> SUFFICES ASSUME IInv, [Next]_vars PROVE IInv'
    OBVIOUS
  <2>1. PageType /\ ReadsType /\ RequestType /\ BackendType /\ LineType
        /\ RequestNamed /\ JobOfOp /\ LineTrue
    BY TypeParts DEF IInv
  <2>2. PageType' /\ ReadsType'
    BY <2>1, PageStep, ReadsStep
  <2>3. RequestType' /\ RequestNamed'
    BY <2>1, RequestStep
  <2>4. BackendType' /\ JobOfOp'
    BY <2>1, BackendStep
  <2>5. LineType' /\ LineTrue'
    BY <2>1, <2>3, LineStep
  <2>6. TypeOK'
    BY <2>2, <2>3, <2>4, <2>5
    DEF TypeOK, PageType, ReadsType, RequestType, BackendType, LineType, Wire
  <2> QED BY <2>3, <2>4, <2>5, <2>6 DEF IInv
<1> QED BY TypeInit, <1>1, PTL DEF Spec

\* The exit to the live view is open only when the operation or the job that the
\* page follows is really over (JobProgress.tsx, the locked hand-off).  It is the
\* page's own launch but for those that came to a page that followed an earlier
\* job, had told a failure, or was given no operation to follow.
THEOREM ExitTellsTruth == Spec => []ExitTells
<1>1. IInv => ExitTells
  BY DEF IInv, LineTrue, ExitTells, Materializing, JobInFlight
<1> QED BY <1>1, CreateInductive, PTL

\* A deploy goes out only as the operator confirmed it: the draft's identity,
\* the one facility the last read names, a template that is listed and not
\* deployed, a current inventory (CreateWorkload.tsx, the provision section).
THEOREM SendsConfirmed == Spec => SentIsConfirmed
<1> DEFINE A ==
      \A n \in Sends : req[n].wire = "unsent" /\ req'[n].wire = "sent" =>
        /\ req'[n].slug = draft.slug /\ draft.slug # NoSlug
        /\ facility = [at |-> {draft.facility}, status |-> "ok"]
        /\ ~ catalog.failed /\ ~ catalog.fetching
        /\ catalog.at[req'[n].key] = "bootstrapped"
        /\ grouped.grade = "ok"
<1>1. IInv /\ [Next]_vars => [A]_vars
  <2> SUFFICES ASSUME IInv, [Next]_vars, NEW n \in Sends,
                      req[n].wire = "unsent", req'[n].wire = "sent"
               PROVE  /\ req'[n].slug = draft.slug /\ draft.slug # NoSlug
                      /\ facility = [at |-> {draft.facility}, status |-> "ok"]
                      /\ ~ catalog.failed /\ ~ catalog.fetching
                      /\ catalog.at[req'[n].key] = "bootstrapped"
                      /\ grouped.grade = "ok"
    OBVIOUS
  <2>0. PageType /\ ReadsType /\ RequestType /\ BackendType
    BY TypeParts DEF IInv
  <2>1. ~ UNCHANGED req
    OBVIOUS
  <2>2. ~ Reload
    BY <2>0, ReloadedRequest
  <2>3. ASSUME NEW m \in Sends, Receive(m) \/ Accepted(m) \/ Fails(m) PROVE FALSE
    <3>1. req[m].wire # "unsent"
      BY <2>3 DEF Receive, Accepted, Fails
    <3>2. req'[n] = req[n]
      BY <2>0, <2>3, <3>1 DEF Receive, Accepted, Fails, RequestType
    <3> QED BY <3>2
  <2>4. ASSUME NEW m \in Sends,
               Launches(m) \/ Records(m) \/ JobEnds(m) \/ WatchEnds(m) \/ Forgets(m)
        PROVE  FALSE
    BY <2>1, <2>4 DEF Launches, Records, JobEnds, WatchEnds, Forgets
  <2>5. \A s \in Slug : ~ Purged(s)
    BY <2>1 DEF Purged
  <2>6. PICK m \in Sends : Confirm(m)
    BY <2>1, <2>2, <2>3, <2>4, <2>5, RequestsKept DEF Next, Operator, Backend, Answers
  <2>7. req' = [req EXCEPT ![m] = [slug |-> draft.slug, key |-> draft.key, wire |-> "sent"]]
        /\ AtProvision /\ ~ WritesBlocked
    BY <2>6 DEF Confirm
  <2>8. n = m
    BY <2>0, <2>7 DEF RequestType
  <2>9. req'[n].slug = draft.slug /\ req'[n].key = draft.key
    BY <2>0, <2>7, <2>8 DEF RequestType
  <2> QED BY <2>0, <2>7, <2>9, ConfirmsDraft DEF WritesBlocked
<1>2. SentIsConfirmed <=> [][A]_vars
  BY DEF SentIsConfirmed
<1> HIDE DEF A
<1> QED BY <1>1, <1>2, CreateInductive, PTL DEF Spec

\* The hand-over from the operation to its job does not lock the exit again,
\* for as long as the page stays on screen (JobProgress.tsx).
THEOREM ExitStays == Spec => ExitStaysOpen
<1> DEFINE A == Materializing /\ ~ JobInFlight /\ Materializing' /\ launch' = launch
                  => ~ JobInFlight' \/ line' = FreshLine(launch)
<1>1. IInv /\ [Next]_vars => [A]_vars
  <2> SUFFICES ASSUME IInv, [Next]_vars, Materializing, ~ JobInFlight, launch' = launch
               PROVE  ~ JobInFlight' \/ line' = FreshLine(launch)
    OBVIOUS
  <2>0. PageType /\ LineType /\ BackendType /\ launch # NoReq /\ launch \in Sends /\ LineTrue
    BY TypeParts DEF IInv, PageType, Materializing
  <2>1. CASE UNCHANGED line
    BY <2>1 DEF JobInFlight
  <2>2. CASE PollOp
    <3>1. ~ line.opDone
      BY <2>0, <2>2 DEF LineTrue, PollOp
    <3>2. line'.jobDone = line.jobDone
      BY <2>0, <2>2 DEF PollOp, LineType
    <3> QED BY <3>1, <3>2 DEF JobInFlight
  <2>3. CASE HandsOver
    <3>1. line'.jobDone = line.jobDone /\ line'.opDone = line.opDone
      BY <2>0, <2>3 DEF HandsOver, FollowsJob, LineType
    <3> QED BY <3>1 DEF JobInFlight
  <2>4. CASE PollJob
    <3>1. line'.opDone = line.opDone /\ line'.jobDone = (job[line.of] # "running")
      BY <2>0, <2>4 DEF PollJob, LineType
    <3>2. line.jobDone => job[line.of] # "running"
      BY <2>0 DEF LineTrue
    <3> QED BY <3>1, <3>2 DEF JobInFlight
  <2>5. CASE Reload \/ GroupedReads \/ \E p \in {"create", "setup", "away"} : Navigate(p)
    BY <2>1, <2>5 DEF Reload, GroupedReads, Navigate
  <2>6. \A n \in Sends : ~ Accepted(n)
    BY <2>0 DEF Accepted, LineTrue
  <2>7. CASE Backend
    BY <2>1, <2>7 DEF Backend, Receive, Launches, Records, JobEnds, WatchEnds, Forgets, Purged
  <2>8. CASE Operator /\ ~ Reload /\ \A p \in {"create", "setup", "away"} : ~ Navigate(p)
    BY <2>1, <2>8 DEF Operator, TypeIdentity, SelectTemplate, ConfirmPlacement, Walk,
       Arm, Cancel, StartOver, Confirm
  <2>9. CASE CatalogStart \/ CatalogSettles \/ FacilityReads \/ (\E n \in Sends : Fails(n))
             \/ UNCHANGED vars
    BY <2>1, <2>9 DEF CatalogStart, CatalogSettles, FacilityReads, Fails, vars
  <2> QED
    BY <2>2, <2>3, <2>4, <2>5, <2>6, <2>7, <2>8, <2>9
    DEF Next, Operator, Reads, Answers, Lines
<1>2. ExitStaysOpen <=> [][A]_vars
  BY DEF ExitStaysOpen
<1> HIDE DEF A
<1> QED BY <1>1, <1>2, CreateInductive, PTL DEF Spec

\* The tab, its reads, its requests and what the backend holds of them keep
\* their types (CreateWorkload.tsx, store/draftWorkload.ts).
THEOREM CreateTypeCorrect == Spec => []TypeOK
<1>1. IInv => TypeOK
  BY DEF IInv
<1> QED BY <1>1, CreateInductive, PTL
=============================================================================
