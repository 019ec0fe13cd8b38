--------------------------- MODULE JobsLaneProofs ---------------------------
(***************************************************************************)
(* Proof that the launch path of the console makes one job of one click,   *)
(* for every number of workflows, launches, requests and restarts: of the  *)
(* live jobs of a workflow, only those of POSTs given up on may compete.   *)
(* The second part is about what the lane has seen of its launches: it is  *)
(* true of them, so a card opens again only when each of them is over.     *)
(***************************************************************************)
EXTENDS JobsLane, FiniteSetTheorems, TLAPS

BackendType ==
  /\ op \in [OpId -> [workflow : Workflow \cup {NoWorkflow}, state : OpState,
                      job : 0..MaxOps]]
  /\ job \in [OpId -> JobState]
  /\ stray \subseteq OpId /\ late \subseteq OpId

ArmedType == armed \subseteq Workflow

\* Each request is for a workflow, and has the fields a step of it changes.
SentType == sent \in Seq(Request)

\* An id not handed out has no job and no POST on its way.
Unused ==
  \A o \in OpId : op[o].state = "none" => job[o] = "none" /\ o \notin stray

\* Nobody waits for the answer of a POST given up on.
StrayOver ==
  \A o \in stray : op[o].state \in {"error", "lost"}

\* get_or_create: one launch of a workflow at a time.
OneUnderway ==
  \A o, p \in OpId :
    Underway(o) /\ Underway(p) /\ op[o].workflow = op[p].workflow => o = p

\* The live jobs of a workflow but those that came of POSTs given up on.
Counted(w) == LiveJobs(w) \ late

\* A POST under way is sent on evidence that still holds: no job of its workflow
\* has come up since find_active_job_for_template, except late ones.
PostAlone ==
  \A o \in OpId : Unanswered(o) => Counted(op[o].workflow) = {}

OneEach ==
  \A w \in Workflow : \A i, j \in Counted(w) : i = j

\* The inductive invariant.
IInv ==
  /\ BackendType /\ ArmedType /\ SentType
  /\ Unused /\ StrayOver /\ OneUnderway /\ PostAlone /\ OneEach

Launches == Unused /\ StrayOver /\ OneUnderway /\ PostAlone /\ OneEach

-----------------------------------------------------------------------------
(* The console and AWX.                                                    *)

LEMMA BackendStill ==
  ASSUME BackendType, Launches, UNCHANGED backend
  PROVE  BackendType' /\ Launches'
  BY DEF BackendType, Launches, backend, Unused, StrayOver, OneUnderway,
         PostAlone, OneEach, Counted, LiveJobs, Live, Underway, Unanswered

LEMMA LookStep ==
  ASSUME BackendType, Launches, NEW o \in OpId, LooksForJob(o)
  PROVE  BackendType' /\ Launches'
<1>1. op[o].state = "waking" /\ UNCHANGED <<job, stray, late>>
  BY DEF LooksForJob
<1>2. PICK s \in {"launched", "posting", "error"}, j \in 0..MaxOps :
        /\ op' = [op EXCEPT ![o].state = s, ![o].job = j]
        /\ s = "posting" => LiveJobs(op[o].workflow) = {}
  BY DEF LooksForJob, Becomes, ActiveJob, LiveJobs, BackendType, OpId
<1>3. BackendType'
  BY ZenonT(40), <1>1, <1>2 DEF BackendType, OpState
<1>4. \A p \in OpId : /\ op'[p].workflow = op[p].workflow
                      /\ p # o => op'[p] = op[p]
                      /\ op'[o].state = s
  BY <1>2 DEF BackendType
<1>5. \A w : Counted(w)' = Counted(w)
  BY <1>1, <1>4 DEF Counted, LiveJobs, Live
<1>6. Unused' /\ StrayOver'
  BY <1>1, <1>4 DEF Launches, Unused, StrayOver, BackendType
<1>7. OneUnderway'
  BY <1>1, <1>4 DEF Launches, OneUnderway, Underway
<1>8. PostAlone'
  <2> SUFFICES ASSUME NEW p \in OpId, Unanswered(p)'
               PROVE  Counted(op[p].workflow) = {}
    BY <1>4, <1>5 DEF PostAlone
  <2>1. CASE p = o
    BY <2>1, <1>2, <1>4 DEF Unanswered, Counted
  <2>2. CASE p # o
    BY <2>2, <1>1, <1>4 DEF Unanswered, Launches, PostAlone
  <2> QED BY <2>1, <2>2
<1>9. OneEach'
  BY <1>5 DEF Launches, OneEach
<1> QED BY <1>3, <1>6, <1>7, <1>8, <1>9 DEF Launches

\* One state of one operation changes, to one that no POST is under way in.
LEMMA EndOfLaunch ==
  ASSUME BackendType, Launches, NEW o \in OpId, Underway(o),
         NEW s \in {"launched", "error"}, NEW j \in 0..MaxOps,
         op' = [op EXCEPT ![o].state = s, ![o].job = j],
         stray' \subseteq stray \cup {o}, s = "launched" => stray' = stray,
         UNCHANGED <<job, late>>
  PROVE  BackendType' /\ Launches'
<1>1. BackendType'
  BY DEF BackendType, OpState
<1>2. \A p \in OpId : /\ op'[p].workflow = op[p].workflow
                      /\ p # o => op'[p] = op[p]
                      /\ op'[o].state = s
  BY DEF BackendType
<1>3. \A w : Counted(w)' = Counted(w)
  BY <1>2 DEF Counted, LiveJobs, Live
<1>4. Unused' /\ StrayOver'
  BY <1>2 DEF Launches, Unused, StrayOver, BackendType, Underway
<1>5. OneUnderway'
  BY <1>2 DEF Launches, OneUnderway, Underway
<1>6. PostAlone'
  <2> SUFFICES ASSUME NEW p \in OpId, Unanswered(p)'
               PROVE  Counted(op[p].workflow) = {}
    BY <1>2, <1>3 DEF PostAlone
  <2>1. p # o
    BY <1>2 DEF Unanswered
  <2> QED BY <2>1, <1>2 DEF Unanswered, Launches, PostAlone
<1>7. OneEach'
  BY <1>3 DEF Launches, OneEach
<1> QED BY <1>1, <1>4, <1>5, <1>6, <1>7 DEF Launches

LEMMA AnswerStep ==
  ASSUME BackendType, Launches, NEW o \in OpId,
         LaunchAnswered(o) \/ LaunchLost(o)
  PROVE  BackendType' /\ Launches'
<1>1. Underway(o) /\ UNCHANGED <<job, late>>
  BY DEF LaunchAnswered, LaunchLost, Underway
<1>2. CASE LaunchAnswered(o)
  <2>1. op' = [op EXCEPT ![o].state = "launched", ![o].job = o] /\ stray' = stray
    BY <1>2 DEF LaunchAnswered
  <2>2. o \in 0..MaxOps
    BY JobsLaneAssumption DEF JobsLaneAssumption, OpId
  <2> QED BY <1>1, <2>1, <2>2, EndOfLaunch
<1>3. CASE LaunchLost(o)
  <2>1. op' = [op EXCEPT ![o].state = "error", ![o].job = op[o].job]
    BY <1>3 DEF LaunchLost, Becomes, BackendType
  <2>2. op[o].job \in 0..MaxOps
    BY DEF BackendType
  <2>3. stray' \subseteq stray \cup {o}
    BY <1>3 DEF LaunchLost
  <2> QED BY <1>1, <2>1, <2>2, <2>3, EndOfLaunch
<1> QED BY <1>2, <1>3

LEMMA CarriedStep ==
  ASSUME BackendType, Launches, NEW o \in OpId, Carried(o)
  PROVE  BackendType' /\ Launches'
<1>1. /\ job[o] = "none" /\ (op[o].state = "posting" \/ o \in stray)
      /\ job' = [job EXCEPT ![o] = "running"]
      /\ late' = IF o \in stray THEN late \cup {o} ELSE late
      /\ stray' = stray \ {o} /\ op' = op
  BY DEF Carried
<1>2. BackendType'
  BY <1>1 DEF BackendType, JobState
<1>3. Unused' /\ StrayOver' /\ OneUnderway'
  BY <1>1 DEF Launches, Unused, StrayOver, OneUnderway, Underway, BackendType
<1>4. CASE o \in stray
  <2>1. \A w : Counted(w)' = Counted(w)
    BY <1>1, <1>4 DEF Counted, LiveJobs, Live, BackendType
  <2>2. \A p \in OpId : Unanswered(p)' => Unanswered(p)
    BY <1>1 DEF Unanswered, BackendType
  <2>3. PostAlone' /\ OneEach'
    BY <1>1, <2>1, <2>2 DEF Launches, PostAlone, OneEach
  <2> QED BY <1>2, <1>3, <2>3 DEF Launches
<1>5. CASE o \notin stray
  <2>1. Unanswered(o) /\ Counted(op[o].workflow) = {}
    BY <1>1, <1>5 DEF Unanswered, Launches, PostAlone
  <2>2. \A w : /\ Counted(w)' \subseteq Counted(w) \cup {o}
               /\ w # op[o].workflow => Counted(w)' = Counted(w)
    BY <1>1, <1>5 DEF Counted, LiveJobs, Live, BackendType
  <2>3. OneEach'
    <3> SUFFICES ASSUME NEW w \in Workflow, NEW i \in Counted(w)',
                        NEW j \in Counted(w)'
                 PROVE  i = j
      BY DEF OneEach
    <3>1. CASE w = op[o].workflow
      BY <3>1, <2>1, <2>2
    <3>2. CASE w # op[o].workflow
      BY <3>2, <2>2 DEF Launches, OneEach
    <3> QED BY <3>1, <3>2
  <2>4. PostAlone'
    <3> SUFFICES ASSUME NEW p \in OpId, Unanswered(p)'
                 PROVE  Counted(op[p].workflow)' = {}
      BY <1>1 DEF PostAlone
    <3>1. p # o /\ Unanswered(p)
      BY <1>1 DEF Unanswered, BackendType
    <3>2. op[p].workflow # op[o].workflow
      BY <3>1, <2>1 DEF Launches, OneUnderway, Underway, Unanswered
    <3> QED BY <1>1, <3>1, <3>2, <2>2 DEF Launches, PostAlone
  <2> QED BY <1>2, <1>3, <2>3, <2>4 DEF Launches
<1> QED BY <1>4, <1>5

LEMMA JobEndsStep ==
  ASSUME BackendType, Launches, NEW o \in OpId, JobEnds(o)
  PROVE  BackendType' /\ Launches'
<1>1. PICK s \in JobEnd : job' = [job EXCEPT ![o] = s]
  BY DEF JobEnds
<1>2. job[o] = "running" /\ UNCHANGED <<op, stray, late>>
  BY DEF JobEnds, Live
<1>3. s \notin {"none", "running"}
  BY JobsLaneAssumption DEF JobsLaneAssumption
<1>4. BackendType'
  BY <1>1, <1>2 DEF BackendType, JobState
<1>5. \A w : Counted(w)' \subseteq Counted(w)
  BY <1>1, <1>2, <1>3 DEF Counted, LiveJobs, Live, BackendType
<1>6. \A p \in OpId : Unanswered(p)' => Unanswered(p)
  BY <1>1, <1>2, <1>3 DEF Unanswered, BackendType
<1>7. Unused'
  BY <1>1, <1>2, <1>3 DEF Launches, Unused, BackendType
<1>8. StrayOver' /\ OneUnderway'
  BY <1>2 DEF Launches, StrayOver, OneUnderway, Underway
<1>9. PostAlone'
  BY <1>2, <1>5, <1>6 DEF Launches, PostAlone
<1>10. OneEach'
  BY <1>5 DEF Launches, OneEach
<1> QED BY <1>4, <1>7, <1>8, <1>9, <1>10 DEF Launches

LEMMA RestartStep ==
  ASSUME BackendType, Launches, Restart
  PROVE  BackendType' /\ Launches'
<1>1. /\ op' = [o \in OpId |-> IF op[o].state = "none" THEN op[o]
                               ELSE [op[o] EXCEPT !.state = "lost"]]
      /\ stray' = stray \cup {o \in OpId : Unanswered(o)}
      /\ UNCHANGED <<job, late>>
  BY DEF Restart
<1>2. BackendType'
  BY <1>1 DEF BackendType, OpState
<1>3. \A o \in OpId :
        /\ op'[o].workflow = op[o].workflow
        /\ op'[o].state = IF op[o].state = "none" THEN "none" ELSE "lost"
  BY <1>1 DEF BackendType
<1>4. \A w : Counted(w)' = Counted(w)
  BY <1>1, <1>3 DEF Counted, LiveJobs, Live
<1>5. Unused' /\ StrayOver'
  BY <1>1, <1>3 DEF Launches, Unused, StrayOver, BackendType, Unanswered
<1>6. OneUnderway' /\ PostAlone'
  BY <1>3 DEF OneUnderway, PostAlone, Underway, Unanswered
<1>7. OneEach'
  BY <1>4 DEF Launches, OneEach
<1> QED BY <1>2, <1>5, <1>6, <1>7 DEF Launches

\* api_workflow_launch takes the launch under way, or makes one.
LEMMA AdmittedStep ==
  ASSUME BackendType, Launches, NEW w \in Workflow, NEW o \in Taken(w),
         Admitted(w, o), UNCHANGED <<job, stray, late>>
  PROVE  BackendType' /\ Launches'
<1>1. CASE o \in ActiveOps(w)
  <2>1. UNCHANGED <<op, job, stray, late>>
    BY <1>1 DEF Admitted
  <2> QED BY <2>1 DEF BackendType, Launches, Unused, StrayOver, OneUnderway,
         PostAlone, OneEach, Counted, LiveJobs, Live, Underway, Unanswered
<1>2. CASE o \notin ActiveOps(w)
  <2>1. /\ o \in OpId /\ op[o].state = "none" /\ ActiveOps(w) = {}
        /\ op' = [op EXCEPT ![o] =
                    [workflow |-> w, state |-> "waking", job |-> NoJob]]
    BY <1>2 DEF Admitted, Taken, Fresh
  <2>2. BackendType'
    <3>1. [workflow |-> w, state |-> "waking", job |-> NoJob]
            \in [workflow : Workflow \cup {NoWorkflow}, state : OpState,
                 job : 0..MaxOps]
      BY JobsLaneAssumption DEF JobsLaneAssumption, NoJob, OpState
    <3> QED BY <2>1, <3>1 DEF BackendType
  <2>3. \A p \in OpId : /\ p # o => op'[p] = op[p]
                        /\ op'[o].state = "waking" /\ op'[o].workflow = w
    BY <2>1 DEF BackendType
  <2>4. job[o] = "none" /\ o \notin stray
    BY <2>1 DEF Launches, Unused
  <2>5. \A v : Counted(v)' = Counted(v)
    BY <2>3, <2>4 DEF Counted, LiveJobs, Live
  <2>6. Unused' /\ StrayOver'
    BY <2>3, <2>4 DEF Launches, Unused, StrayOver, BackendType
  <2>7. OneUnderway'
    BY <2>1, <2>3 DEF Launches, OneUnderway, Underway, ActiveOps
  <2>8. PostAlone'
    BY <2>3, <2>5 DEF Launches, PostAlone, Unanswered
  <2>9. OneEach'
    BY <2>5 DEF Launches, OneEach
  <2> QED BY <2>2, <2>6, <2>7, <2>8, <2>9 DEF Launches
<1> QED BY <1>1, <1>2

-----------------------------------------------------------------------------
(* The page.                                                               *)

LEMMA RequestChanges ==
  ASSUME NEW r \in Request,
         NEW stage \in {"sent", "taken", "done", "failed", "gone"}
  PROVE  /\ Past(r, stage) \in Request
         /\ \A o \in OpId : [r EXCEPT !.stage = stage, !.op = o] \in Request
         /\ [r EXCEPT !.stage = stage, !.card = FALSE] \in Request
         /\ \A whole \in BOOLEAN :
              [r EXCEPT !.card = FALSE, !.page = @ /\ ~ whole] \in Request
<1>1. Past(r, stage) \in Request
  <2>1. 0 \in 0..MaxOps
    BY JobsLaneAssumption DEF JobsLaneAssumption
  <2> QED BY <2>1 DEF Request, Past
<1>2. ASSUME NEW o \in OpId
      PROVE  [r EXCEPT !.stage = stage, !.op = o] \in Request
  <2>1. o \in 0..MaxOps
    BY JobsLaneAssumption DEF JobsLaneAssumption, OpId
  <2> HIDE DEF OpId
  <2> QED BY <2>1 DEF Request
<1>3. [r EXCEPT !.stage = stage, !.card = FALSE] \in Request
  BY DEF Request
<1>4. ASSUME NEW whole \in BOOLEAN
      PROVE  [r EXCEPT !.card = FALSE, !.page = @ /\ ~ whole] \in Request
  <2>1. (r.page /\ ~ whole) \in BOOLEAN
    OBVIOUS
  <2>2. ASSUME NEW b \in BOOLEAN
        PROVE  [r EXCEPT !.card = FALSE, !.page = b] \in Request
    BY DEF Request
  <2> QED BY <2>1, <2>2
<1> QED BY <1>1, <1>2, <1>3, <1>4

LEMMA UnmountedType ==
  ASSUME SentType, NEW whole \in BOOLEAN
  PROVE  Unmounted(sent, whole) \in Seq(Request)
<1> DEFINE keep(i) == [sent[i] EXCEPT !.card = FALSE, !.page = @ /\ ~ whole]
<1>1. DOMAIN sent = 1..Len(sent) /\ Len(sent) \in Nat
  BY DEF SentType
<1>2. \A i \in DOMAIN sent : sent[i] \in Request
  BY DEF SentType
<1>3. \A i \in DOMAIN sent : keep(i) \in Request
  BY <1>2, RequestChanges
<1>4. Unmounted(sent, whole) = [i \in 1..Len(sent) |-> keep(i)]
  BY <1>1 DEF Unmounted
<1> HIDE DEF keep
<1> QED BY <1>1, <1>3, <1>4

LEMMA RenderType ==
  ASSUME SentType, ArmedType, NEW u, NEW l, Render(u, l)
  PROVE  SentType' /\ ArmedType'
<1>1. armed' \subseteq armed
  BY DEF Render
<1>2. sent' \in {sent, Unmounted(sent, TRUE), Unmounted(sent, FALSE)}
  BY DEF Render
<1> QED BY <1>1, <1>2, UnmountedType DEF SentType, ArmedType

LEMMA SentChanges ==
  ASSUME SentType, NEW i \in DOMAIN sent, NEW r \in Request,
         sent' = [sent EXCEPT ![i] = r]
  PROVE  SentType'
  BY DEF SentType

LEMMA PageTypes ==
  ASSUME BackendType, SentType, ArmedType, [Next]_vars
  PROVE  SentType' /\ ArmedType'
<1>1. CASE UNCHANGED <<armed, sent>>
  BY <1>1 DEF SentType, ArmedType
<1>2. ASSUME NEW u, NEW l, Render(u, l)
      PROVE  SentType' /\ ArmedType'
  BY <1>2, RenderType
<1>3. ASSUME NEW w \in Workflow, Arms(w) \/ Cancels(w)
      PROVE  SentType' /\ ArmedType'
  BY <1>3 DEF Arms, Cancels, SentType, ArmedType
<1>4. ASSUME NEW w \in Workflow, Confirms(w)
      PROVE  SentType' /\ ArmedType'
  <2>1. [workflow |-> w, stage |-> "sent", op |-> 0, page |-> TRUE,
         card |-> TRUE] \in Request
    <3>1. 0 \in 0..MaxOps
      BY JobsLaneAssumption DEF JobsLaneAssumption
    <3> QED BY <3>1 DEF Request
  <2> QED BY <2>1, <1>4 DEF Confirms, SentType, ArmedType
<1>5. ASSUME NEW i \in DOMAIN sent, Takes(i) \/ Answered(i) \/ Fails(i)
      PROVE  SentType' /\ ArmedType'
  <2>1. sent[i] \in Request
    BY DEF SentType
  <2>2. CASE Takes(i)
    <3>1. PICK o \in Taken(sent[i].workflow) :
            sent' = [sent EXCEPT ![i].stage = "taken", ![i].op = o]
      BY <2>2 DEF Takes
    <3>2. o \in OpId
      BY DEF Taken, ActiveOps, Fresh
    <3>3. sent' = [sent EXCEPT ![i] = [sent[i] EXCEPT !.stage = "taken", !.op = o]]
      BY <3>1 DEF SentType
    <3>4. [sent[i] EXCEPT !.stage = "taken", !.op = o] \in Request
      BY <2>1, <3>2, RequestChanges
    <3> QED BY <2>2, <3>3, <3>4, SentChanges DEF Takes, ArmedType
  <2>3. CASE Answered(i)
    <3>1. sent' = [sent EXCEPT ![i] = [sent[i] EXCEPT !.stage = "done", !.card = FALSE]]
      BY <2>3 DEF Answered, SentType
    <3>2. [sent[i] EXCEPT !.stage = "done", !.card = FALSE] \in Request
      BY <2>1, RequestChanges
    <3> QED BY <2>3, <3>1, <3>2, SentChanges DEF Answered, ArmedType
  <2>4. CASE Fails(i)
    <3>1. sent' = [sent EXCEPT ![i] = Past(sent[i], "failed")]
      BY <2>4 DEF Fails, SentType
    <3>2. Past(sent[i], "failed") \in Request
      BY <2>1, RequestChanges
    <3> QED BY <2>4, <3>1, <3>2, SentChanges DEF Fails, ArmedType
  <2> QED BY <1>5, <2>2, <2>3, <2>4
<1>6. CASE Reload
  <2> DEFINE gone(i) == Past(sent[i], "gone")
  <2>1. DOMAIN sent = 1..Len(sent) /\ Len(sent) \in Nat
    BY DEF SentType
  <2>2. ASSUME NEW i \in DOMAIN sent
        PROVE  gone(i) \in Request
    <3>1. sent[i] \in Request
      BY DEF SentType
    <3> QED BY <3>1, RequestChanges
  <2>3. sent' = [i \in 1..Len(sent) |-> gone(i)] /\ armed' = {}
    BY <1>6, <2>1 DEF Reload
  <2> HIDE DEF gone
  <2> QED BY <2>1, <2>2, <2>3 DEF SentType, ArmedType
<1> QED
  <2>1. CASE UNCHANGED vars
    BY <2>1, <1>1 DEF vars, lane
  <2>2. CASE Goes
    BY <2>2, <1>1 DEF Goes, LooksForJob, LaunchAnswered, LaunchLost, JobEnds,
       OpRead, HandsOff, DropsOp, JobRead, DropsJob, lane
  <2>3. CASE Listed \/ ListArrives("degraded") \/ ListFails \/ ListPolls
    BY <2>3, <1>2 DEF Listed, ListArrives, ListFails, ListPolls
  <2>4. CASE Restart \/ \E o \in OpId : Carried(o)
    BY <2>4, <1>1 DEF Restart, Carried, lane
  <2>5. CASE Collects
    BY <2>5, <1>1 DEF Collects
  <2>6. CASE Refetch \/ \E u \in {"jobs", "history"} : Visits(u)
    BY <2>6, <1>2 DEF Refetch, Visits
  <2> QED BY <2>1, <2>2, <2>3, <2>4, <2>5, <2>6, <1>3, <1>4, <1>5, <1>6 DEF Next

-----------------------------------------------------------------------------
(* The specification.                                                      *)

LEMMA BackendSteps ==
  ASSUME BackendType, SentType, Launches, [Next]_vars
  PROVE  BackendType' /\ Launches'
<1>1. CASE UNCHANGED backend
  BY <1>1, BackendStill
<1>2. ASSUME NEW i \in DOMAIN sent, Takes(i)
      PROVE  BackendType' /\ Launches'
  <2>1. sent[i] \in Request
    BY DEF SentType
  <2>2. sent[i].workflow \in Workflow
    BY <2>1 DEF Request
  <2> QED BY <1>2, <2>2, AdmittedStep DEF Takes
<1> QED
  <2>1. CASE UNCHANGED vars
    BY <2>1, <1>1 DEF vars
  <2>2. CASE Goes
    <3>1. PICK o \in OpId :
            \/ LooksForJob(o) \/ LaunchAnswered(o) \/ LaunchLost(o)
            \/ JobEnds(o)
            \/ OpRead(o) \/ HandsOff(o) \/ DropsOp(o) \/ JobRead(o) \/ DropsJob(o)
      BY <2>2 DEF Goes
    <3>2. CASE OpRead(o) \/ HandsOff(o) \/ DropsOp(o) \/ JobRead(o) \/ DropsJob(o)
      BY <3>2, <1>1 DEF OpRead, HandsOff, DropsOp, JobRead, DropsJob
    <3> QED BY <3>1, <3>2, LookStep, AnswerStep, JobEndsStep
  <2>3. CASE \/ Listed \/ ListArrives("degraded") \/ ListFails \/ ListPolls
             \/ Reload \/ Collects \/ Refetch
             \/ \E u \in {"jobs", "history"} : Visits(u)
             \/ \E w \in Workflow : Arms(w) \/ Cancels(w) \/ Confirms(w)
             \/ \E i \in DOMAIN sent : Answered(i) \/ Fails(i)
    BY <2>3, <1>1 DEF Listed, ListArrives, ListFails, ListPolls, Reload, Collects,
       Refetch, Visits, Arms, Cancels, Confirms, Answered, Fails
  <2> QED BY <2>1, <2>2, <2>3, <1>2, CarriedStep, RestartStep DEF Next

LEMMA Initially == Init => IInv
<1> SUFFICES ASSUME Init PROVE IInv
  OBVIOUS
<1>1. BackendType /\ ArmedType /\ SentType
  <2>1. 0 \in 0..MaxOps
    BY JobsLaneAssumption DEF JobsLaneAssumption
  <2> QED BY <2>1 DEF Init, BackendType, ArmedType, SentType, OpState, JobState, NoJob
<1>2. Unused /\ StrayOver /\ OneUnderway /\ PostAlone
  BY DEF Init, Unused, StrayOver, OneUnderway, PostAlone, Underway, Unanswered
<1>3. OneEach
  BY DEF Init, OneEach, Counted, LiveJobs, Live
<1> QED BY <1>1, <1>2, <1>3 DEF IInv

\* The strengthened invariant holds of every behaviour.
THEOREM LaneInductive == Spec => []IInv
<1>1. IInv /\ [Next]_vars => IInv'
  BY PageTypes, BackendSteps DEF IInv, Launches
<1> QED BY Initially, <1>1, PTL DEF Spec

LEMMA AtMostOne ==
  ASSUME NEW S, \A i, j \in S : i = j
  PROVE  Cardinality(S) <= 1
<1>1. CASE S = {}
  BY <1>1, FS_EmptySet
<1>2. CASE S # {}
  <2>1. PICK i : S = {i}
    BY <1>2
  <2>2. Cardinality({i}) = 1
    BY FS_Singleton
  <2> QED BY <2>1, <2>2
<1> QED BY <1>1, <1>2

\* A workflow launched from the page, however often and across restarts of the
\* console, has one live job, but for POSTs given up on that AWX carried out later.
THEOREM OneJob == Spec => []OneJobEach
<1>1. IInv => OneJobEach
  BY AtMostOne DEF IInv, OneEach, Counted, OneJobEach
<1> QED BY LaneInductive, <1>1, PTL

-----------------------------------------------------------------------------
(* What the page was told of, and what became of it.                       *)

\* A launched operation names a job of its workflow, which AWX has.
LaunchedJob ==
  \A o \in OpId : op[o].state = "launched" =>
    /\ op[o].job \in OpId /\ job[op[o].job] # "none"
    /\ op[op[o].job].workflow = op[o].workflow

\* What the page last read of an operation or a job that has ended is how it
\* ended.
SeenIsTrue ==
  /\ seenOp \in [OpId -> {"none", "launched", "error"}]
  /\ seenJob \in [OpId -> JobState]
  /\ \A o \in OpId :
       /\ seenOp[o] # "none" => op[o].state \in {seenOp[o], "lost"}
       /\ seenJob[o] # "none" => job[o] = seenJob[o] /\ ~ Live(o)

\* A run nobody has to wait for, or that the lane waits for by its job.
Settled(o) ==
  \/ op[o].state \in {"error", "lost"}
  \/ op[o].state = "launched" /\ (op[o].job \in active \/ ~ Live(op[o].job))

Handled(o) == o \in pending \/ Settled(o)

\* The operation of an accepted request is its workflow's, and the mount that
\* was answered with it waits until it has settled.
Followed ==
  \A i \in DOMAIN sent : sent[i].stage \in {"taken", "done"} =>
    /\ sent[i].op \in OpId
    /\ op[sent[i].op].workflow = sent[i].workflow
    /\ op[sent[i].op].state # "none"
    /\ sent[i].stage = "done" /\ sent[i].page => Handled(sent[i].op)

Follows == LaunchedJob /\ SeenIsTrue /\ Followed

\* What the backend may do to an operation and a job that exist.
Advances ==
  /\ \A o \in OpId : op[o].state # "none" =>
       /\ op'[o].workflow = op[o].workflow /\ op'[o].state # "none"
       /\ op[o].state \in {"error", "lost"} => op'[o].state \in {op[o].state, "lost"}
       /\ op[o].state = "launched" => /\ op'[o].state \in {"launched", "lost"}
                                      /\ op'[o].job = op[o].job
  /\ \A j \in OpId : job[j] # "none" =>
       job'[j] # "none" /\ (~ Live(j) => job'[j] = job[j])

\* Every step of the backend only advances what exists.
LEMMA BackendAdvances ==
  ASSUME BackendType, Unused, LaunchedJob, NEW o \in OpId,
         \/ LooksForJob(o) \/ LaunchAnswered(o) \/ LaunchLost(o)
         \/ JobEnds(o) \/ Carried(o) \/ Restart
  PROVE  Advances /\ LaunchedJob'
<1>1. CASE LooksForJob(o)
  <2>1. PICK s \in {"launched", "posting", "error"}, j \in 0..MaxOps :
          /\ op' = [op EXCEPT ![o].state = s, ![o].job = j]
          /\ s = "launched" => j \in LiveJobs(op[o].workflow)
    BY <1>1 DEF LooksForJob, Becomes, ActiveJob, LiveJobs, BackendType, OpId
  <2>2. \A p \in OpId : /\ op'[p].workflow = op[p].workflow
                        /\ p # o => op'[p] = op[p]
                        /\ op'[o].state = s /\ op'[o].job = j
    BY <2>1 DEF BackendType
  <2>3. op[o].state = "waking" /\ job' = job
    BY <1>1 DEF LooksForJob
  <2>4. Advances
    BY <2>2, <2>3 DEF Advances
  <2>5. s = "launched" => /\ j \in OpId /\ op[j].workflow = op[o].workflow
                          /\ job[j] = "running"
    BY <2>1 DEF LiveJobs, Live
  <2>6. LaunchedJob'
    BY <2>2, <2>3, <2>5 DEF LaunchedJob
  <2> QED BY <2>4, <2>6
<1>2. CASE LaunchAnswered(o)
  <2>1. \A p \in OpId : /\ op'[p].workflow = op[p].workflow
                        /\ p # o => op'[p] = op[p]
                        /\ op'[o].state = "launched" /\ op'[o].job = o
    BY <1>2 DEF LaunchAnswered, BackendType
  <2>2. op[o].state = "posting" /\ job[o] # "none" /\ job' = job
    BY <1>2 DEF LaunchAnswered
  <2>3. Advances
    BY <2>1, <2>2 DEF Advances
  <2>4. LaunchedJob'
    BY <2>1, <2>2 DEF LaunchedJob
  <2> QED BY <2>3, <2>4
<1>3. CASE LaunchLost(o)
  <2>1. \A p \in OpId : /\ op'[p].workflow = op[p].workflow
                        /\ p # o => op'[p] = op[p]
                        /\ op'[o].state = "error"
    BY <1>3 DEF LaunchLost, Becomes, BackendType
  <2> QED BY <1>3, <2>1 DEF Advances, LaunchedJob, LaunchLost
<1>4. CASE JobEnds(o)
  <2>1. PICK s \in JobEnd : job' = [job EXCEPT ![o] = s]
    BY <1>4 DEF JobEnds
  <2>2. s # "none" /\ op' = op /\ job[o] = "running"
    BY <1>4, <2>1, JobsLaneAssumption DEF JobEnds, Live
  <2> QED BY <2>1, <2>2 DEF Advances, LaunchedJob, BackendType, Live
<1>5. CASE Carried(o)
  BY <1>5 DEF Carried, Advances, LaunchedJob, BackendType, Live
<1>6. CASE Restart
  <2>1. \A p \in OpId : IF op[p].state = "none" THEN op'[p] = op[p]
                        ELSE /\ op'[p].state = "lost" /\ op'[p].job = op[p].job
                             /\ op'[p].workflow = op[p].workflow
    BY <1>6 DEF Restart, BackendType
  <2> QED BY <1>6, <2>1 DEF Restart, Advances, LaunchedJob
<1> QED BY <1>1, <1>2, <1>3, <1>4, <1>5, <1>6

\* While the page stands still, what it was told of stays handled.
LEMMA AdvancesKeep ==
  ASSUME BackendType, Unused, Follows, Advances, UNCHANGED <<reads, pending, active>>
  PROVE  /\ SeenIsTrue'
         /\ \A o \in OpId : Handled(o) /\ op[o].state # "none" => Handled(o)'
<1>1. SeenIsTrue'
  BY DEF Follows, SeenIsTrue, Advances, reads, Live
<1>2. ASSUME NEW o \in OpId, Settled(o), op[o].state # "none" PROVE Settled(o)'
  <2>1. CASE op[o].state \in {"error", "lost"}
    BY <1>2, <2>1 DEF Advances, Settled
  <2>2. CASE op[o].state = "launched"
    <3>1. op[o].job \in OpId /\ job[op[o].job] # "none"
      BY <2>2 DEF Follows, LaunchedJob
    <3> QED BY <1>2, <2>2, <3>1 DEF Advances, Settled, Live
  <2> QED BY <1>2, <2>1, <2>2 DEF Settled
<1> QED BY <1>1, <1>2 DEF Handled

LEMMA BackendFollows ==
  ASSUME BackendType, Unused, Follows, Advances, LaunchedJob',
         UNCHANGED <<lane, reads>>
  PROVE  Follows'
<1>1. SeenIsTrue' /\ \A o \in OpId : Handled(o) /\ op[o].state # "none" => Handled(o)'
  BY AdvancesKeep DEF lane
<1>2. Followed'
  BY <1>1 DEF Follows, Followed, Advances, lane
<1> QED BY <1>1, <1>2 DEF Follows

\* While the backend stands still: a request the page still awaits is one it
\* awaited, of an operation still handled.
LEMMA PageFollows ==
  ASSUME Follows, UNCHANGED <<op, job>>, SeenIsTrue',
         \A i \in DOMAIN sent' :
           \/ sent'[i].stage \notin {"taken", "done"}
           \/ /\ i \in DOMAIN sent /\ sent'[i].stage = sent[i].stage
              /\ sent'[i].op = sent[i].op /\ sent'[i].workflow = sent[i].workflow
              /\ sent'[i].page => /\ sent[i].page
                                  /\ \A o \in OpId : Handled(o) => Handled(o)'
  PROVE  Follows'
<1>1. LaunchedJob'
  BY DEF Follows, LaunchedJob
<1>2. Followed'
  BY DEF Follows, Followed
<1> QED BY <1>1, <1>2 DEF Follows

LEMMA UnmountedFields ==
  ASSUME SentType, NEW whole \in BOOLEAN
  PROVE  /\ DOMAIN Unmounted(sent, whole) = DOMAIN sent
         /\ \A i \in DOMAIN sent :
              LET r == Unmounted(sent, whole)[i] IN
              /\ r.stage = sent[i].stage /\ r.op = sent[i].op
              /\ r.workflow = sent[i].workflow
              /\ r.page => sent[i].page /\ ~ whole
<1>1. \A i \in DOMAIN sent : sent[i] \in Request
  BY DEF SentType
<1>2. ASSUME NEW r \in Request, NEW n, n = [r EXCEPT !.card = FALSE, !.page = @ /\ ~ whole]
      PROVE  /\ n.stage = r.stage /\ n.op = r.op /\ n.workflow = r.workflow
             /\ n.page => r.page /\ ~ whole
  BY <1>2, Zenon DEF Request
<1> QED BY <1>1, <1>2 DEF Unmounted

LEMMA RenderFollows ==
  ASSUME SentType, Follows, UNCHANGED <<op, job, reads>>, NEW u, NEW l, Render(u, l)
  PROVE  Follows'
<1>1. SeenIsTrue'
  BY DEF Follows, SeenIsTrue, reads, Live
<1>2. CASE u # "jobs"
  <2>1. sent' = Unmounted(sent, TRUE)
    BY <1>2 DEF Render
  <2> QED BY <1>1, <2>1, UnmountedFields, PageFollows
<1>3. CASE u = "jobs"
  <2>1. UNCHANGED <<pending, active>> /\ sent' \in {sent, Unmounted(sent, FALSE)}
    BY <1>3 DEF Render
  <2>2. \A o \in OpId : Handled(o) => Handled(o)'
    BY <2>1 DEF Handled, Settled, Live
  <2> QED BY <1>1, <2>1, <2>2, UnmountedFields, PageFollows
<1> QED BY <1>2, <1>3

LEMMA RequestFollows ==
  ASSUME IInv, Follows, NEW i \in DOMAIN sent, Takes(i) \/ Answered(i) \/ Fails(i)
  PROVE  Follows'
<1>0. /\ sent[i] \in Request /\ BackendType /\ Unused /\ SentType
      /\ LaunchedJob /\ SeenIsTrue
  BY DEF IInv, SentType, Follows
<1>1. CASE Takes(i)
  <2> DEFINE w == sent[i].workflow
  <2>1. PICK o \in Taken(w) :
          Admitted(w, o) /\ sent' = [sent EXCEPT ![i].stage = "taken", ![i].op = o]
    BY <1>1 DEF Takes
  <2>2. o \in OpId /\ (o \in ActiveOps(w) \/ op[o].state = "none")
    BY <2>1 DEF Taken, ActiveOps, Fresh
  <2>3. /\ \A p \in OpId : p # o => op'[p] = op[p]
        /\ op'[o].workflow = w /\ op'[o].state # "none" /\ op'[o].state # "launched"
        /\ op[o].state # "none" => op'[o] = op[o]
    BY <1>0, <2>1, <2>2 DEF Admitted, ActiveOps, Underway, BackendType
  <2>4. job' = job /\ UNCHANGED <<reads, pending, active>>
    BY <1>1 DEF Takes, reads
  <2>5. Advances
    BY <2>3, <2>4 DEF Advances
  <2>6. LaunchedJob'
    <3>1. \A j \in OpId : job[j] # "none" => op[j].state # "none"
      BY <1>0 DEF Unused
    <3> QED BY <1>0, <2>3, <2>4, <3>1 DEF LaunchedJob
  <2>7. SeenIsTrue' /\ \A p \in OpId : Handled(p) /\ op[p].state # "none" => Handled(p)'
    BY <1>0, <2>4, <2>5, AdvancesKeep
  <2>8. /\ DOMAIN sent' = DOMAIN sent /\ \A k \in DOMAIN sent : k # i => sent'[k] = sent[k]
        /\ sent'[i].stage = "taken" /\ sent'[i].op = o /\ sent'[i].workflow = w
    BY <1>0, <2>1 DEF SentType, Request
  <2>9. Followed'
    <3> SUFFICES ASSUME NEW k \in DOMAIN sent', sent'[k].stage \in {"taken", "done"}
                 PROVE  /\ sent'[k].op \in OpId
                        /\ op'[sent'[k].op].workflow = sent'[k].workflow
                        /\ op'[sent'[k].op].state # "none"
                        /\ sent'[k].stage = "done" /\ sent'[k].page
                             => Handled(sent[k].op)' /\ sent'[k] = sent[k]
      BY <2>8 DEF Followed
    <3>1. CASE k = i
      BY <2>2, <2>3, <2>8, <3>1
    <3>2. CASE k # i
      <4>1. sent'[k] = sent[k]
        BY <2>8, <3>2
      <4> QED BY <2>5, <2>7, <2>8, <4>1 DEF Follows, Followed, Advances
    <3> QED BY <3>1, <3>2
  <2> QED BY <2>6, <2>7, <2>9 DEF Follows
<1>2. CASE Answered(i)
  <2>1. UNCHANGED <<op, job, reads, active>> /\ sent[i].stage = "taken"
    BY <1>2 DEF Answered, backend, reads
  <2>2. /\ DOMAIN sent' = DOMAIN sent /\ \A k \in DOMAIN sent : k # i => sent'[k] = sent[k]
        /\ sent'[i] = [sent[i] EXCEPT !.stage = "done", !.card = FALSE]
    BY <1>0, <1>2 DEF Answered, SentType
  <2>3. /\ sent'[i].op = sent[i].op /\ sent'[i].workflow = sent[i].workflow
        /\ sent'[i].page => sent[i].page
    BY <1>0, <2>2, Zenon DEF Request
  <2>4. pending \subseteq pending' /\ (sent[i].page => sent[i].op \in pending')
    BY <1>2 DEF Answered
  <2>5. \A o \in OpId : Handled(o) => Handled(o)'
    BY <2>1, <2>4 DEF Handled, Settled, Live
  <2>6. SeenIsTrue' /\ LaunchedJob'
    BY <1>0, <2>1 DEF SeenIsTrue, LaunchedJob, reads, Live
  <2>7. Followed'
    <3> SUFFICES ASSUME NEW k \in DOMAIN sent, sent'[k].stage \in {"taken", "done"}
                 PROVE  /\ sent'[k].op \in OpId
                        /\ op'[sent'[k].op].workflow = sent'[k].workflow
                        /\ op'[sent'[k].op].state # "none"
                        /\ sent'[k].stage = "done" /\ sent'[k].page
                             => Handled(sent[k].op)' /\ sent'[k].op = sent[k].op
      BY <2>2 DEF Followed, Handled, Settled, Live
    <3>1. CASE k = i
      BY <2>1, <2>3, <2>4, <3>1 DEF Follows, Followed, Handled
    <3>2. CASE k # i
      <4>1. sent'[k] = sent[k]
        BY <2>2, <3>2
      <4> QED BY <2>1, <2>5, <4>1 DEF Follows, Followed
    <3> QED BY <3>1, <3>2
  <2> QED BY <2>6, <2>7 DEF Follows
<1>3. CASE Fails(i)
  <2>1. UNCHANGED <<op, job, reads, pending, active>>
    BY <1>3 DEF Fails, backend, reads
  <2>2. /\ DOMAIN sent' = DOMAIN sent /\ \A k \in DOMAIN sent : k # i => sent'[k] = sent[k]
        /\ sent'[i].stage = "failed"
    BY <1>0, <1>3 DEF Fails, SentType, Past, Request
  <2>3. SeenIsTrue' /\ \A o \in OpId : Handled(o) => Handled(o)'
    BY <1>0, <2>1 DEF SeenIsTrue, reads, Live, Handled, Settled
  <2> QED BY <2>1, <2>2, <2>3, PageFollows
<1> QED BY <1>1, <1>2, <1>3

\* The page's reads of operations and jobs, and what its timers do of them.
LEMMA TimersFollow ==
  ASSUME IInv, Follows, NEW o \in OpId,
         OpRead(o) \/ HandsOff(o) \/ DropsOp(o) \/ JobRead(o) \/ DropsJob(o)
  PROVE  Follows'
<1>1. UNCHANGED <<op, job, sent>> /\ SeenIsTrue /\ LaunchedJob /\ BackendType
  BY DEF OpRead, HandsOff, DropsOp, JobRead, DropsJob, backend, lane, Follows, IInv
<1>2. SeenIsTrue' /\ \A p \in OpId : Handled(p) => Handled(p)'
  <2>1. CASE OpRead(o)
    BY <1>1, <2>1 DEF OpRead, SeenIsTrue, Handled, Settled, Live, lane
  <2>2. CASE HandsOff(o)
    <3>1. op[o].state \in {"launched", "lost"} /\ UNCHANGED reads
      BY <1>1, <2>2 DEF HandsOff, SeenIsTrue
    <3> QED BY <1>1, <2>2, <3>1 DEF HandsOff, SeenIsTrue, Handled, Settled, Live, reads
  <2>3. CASE DropsOp(o)
    <3>1. op[o].state \in {"error", "lost"} /\ UNCHANGED reads
      BY <1>1, <2>3 DEF DropsOp, SeenIsTrue
    <3> QED BY <1>1, <2>3, <3>1 DEF DropsOp, SeenIsTrue, Handled, Settled, Live, reads
  <2>4. CASE JobRead(o)
    BY <1>1, <2>4 DEF JobRead, SeenIsTrue, Handled, Settled, Live, lane, BackendType
  <2>5. CASE DropsJob(o)
    <3>1. ~ Live(o) /\ UNCHANGED reads
      BY <1>1, <2>5 DEF DropsJob, SeenIsTrue, IsTerminal
    <3> QED BY <1>1, <2>5, <3>1 DEF DropsJob, SeenIsTrue, Handled, Settled, Live, reads
  <2> QED BY <2>1, <2>2, <2>3, <2>4, <2>5
<1> QED BY <1>1, <1>2, PageFollows

LEMMA FollowsStep == IInv /\ Follows /\ [Next]_vars => Follows'
<1> SUFFICES ASSUME IInv, Follows, [Next]_vars PROVE Follows'
  OBVIOUS
<1>0. BackendType /\ SentType /\ Unused
  BY DEF IInv
<1>1. ASSUME NEW o \in OpId,
             \/ LooksForJob(o) \/ LaunchAnswered(o) \/ LaunchLost(o)
             \/ JobEnds(o) \/ Carried(o) \/ Restart
      PROVE  Follows'
  <2>1. UNCHANGED <<lane, reads>>
    BY <1>1 DEF LooksForJob, LaunchAnswered, LaunchLost, JobEnds, Carried, Restart
  <2>2. Advances /\ LaunchedJob'
    BY <1>0, <1>1, BackendAdvances DEF Follows
  <2> QED BY <1>0, <2>1, <2>2, BackendFollows
<1>2. ASSUME UNCHANGED <<op, job, reads, sent, pending, active>> PROVE Follows'
  <2>1. SeenIsTrue' /\ \A o \in OpId : Handled(o) => Handled(o)'
    BY <1>2 DEF Follows, SeenIsTrue, reads, Live, Handled, Settled
  <2> QED BY <1>2, <2>1, PageFollows
<1>3. CASE Restart
  <2>1. CASE OpId = {}
    <3>1. UNCHANGED <<op, job, reads, sent, pending, active>>
      BY <1>0, <1>3, <2>1 DEF Restart, lane, BackendType
    <3> QED BY <1>2, <3>1
  <2>2. CASE OpId # {}
    BY <1>1, <1>3, <2>2
  <2> QED BY <2>1, <2>2
<1>4. ASSUME NEW u, NEW l, Render(u, l), UNCHANGED <<op, job, reads>> PROVE Follows'
  BY <1>0, <1>4, RenderFollows
<1>5. CASE Listed \/ ListArrives("degraded") \/ ListFails \/ ListPolls \/ Refetch
           \/ \E u \in {"jobs", "history"} : Visits(u)
  BY <1>4, <1>5 DEF Listed, ListArrives, ListFails, ListPolls, Refetch, Visits, backend
<1>6. CASE Collects
  BY <1>2, <1>6 DEF Collects, backend
<1>7. ASSUME NEW w \in Workflow, Arms(w) \/ Cancels(w) PROVE Follows'
  BY <1>2, <1>7 DEF Arms, Cancels, backend
<1>8. ASSUME NEW w \in Workflow, Confirms(w) PROVE Follows'
  <2>1. UNCHANGED <<op, job, reads, pending, active>>
    BY <1>8 DEF Confirms, backend
  <2>2. SeenIsTrue' /\ \A o \in OpId : Handled(o) => Handled(o)'
    BY <2>1 DEF Follows, SeenIsTrue, reads, Live, Handled, Settled
  <2>3. \A i \in DOMAIN sent' : \/ i \in DOMAIN sent /\ sent'[i] = sent[i]
                                \/ sent'[i].stage = "sent"
    BY <1>0, <1>8 DEF Confirms, SentType
  <2> QED BY <2>1, <2>2, <2>3, PageFollows
<1>9. CASE Reload
  <2>1. UNCHANGED <<op, job>>
    BY <1>9 DEF Reload, backend
  <2>2. SeenIsTrue'
    BY <1>9 DEF Reload, SeenIsTrue, JobState
  <2>3. \A i \in DOMAIN sent' : sent'[i].stage = "gone"
    <3>1. \A r \in Request : Past(r, "gone").stage = "gone"
      BY DEF Past, Request
    <3>2. \A i \in DOMAIN sent : sent[i] \in Request
      BY <1>0 DEF SentType
    <3>3. sent' = [i \in DOMAIN sent |-> Past(sent[i], "gone")]
      BY <1>9 DEF Reload
    <3> QED BY <3>1, <3>2, <3>3
  <2> QED BY <2>1, <2>2, <2>3, PageFollows
<1>10. CASE UNCHANGED vars
  BY <1>2, <1>10 DEF vars, backend, lane
<1> QED
  BY <1>1, <1>3, <1>5, <1>6, <1>7, <1>8, <1>9, <1>10, RequestFollows, TimersFollow
  DEF Next, Goes

\* The lane opens a card for another launch only once every run this mount was
\* answered with is over: the card is blocked by the operation until the job
\* takes over, with no gap between them.
THEOREM OpensWhenOver == Spec => OpensOnceOver
<1> DEFINE Opens ==
      \A w \in armed' \ armed, i \in DOMAIN sent :
        sent[i].workflow = w /\ sent[i].page /\ sent[i].stage = "done"
          => Over(sent[i].op)
<1>1. Init => Follows
  BY DEF Init, Follows, LaunchedJob, SeenIsTrue, Followed, JobState
<1>2. IInv /\ Follows /\ [Next]_vars => [Opens]_vars
  <2> SUFFICES ASSUME IInv, Follows, [Next]_vars, NEW w \in armed' \ armed,
                      NEW i \in DOMAIN sent, sent[i].workflow = w,
                      sent[i].page, sent[i].stage = "done"
               PROVE  Over(sent[i].op)
    BY DEF Opens
  <2>1. Launchable(w)
    <3>1. ASSUME NEW v \in Workflow, Arms(v) PROVE Launchable(w)
      BY <3>1 DEF Arms
    <3>2. CASE armed' \subseteq armed
      BY <3>2
    <3>3. ASSUME NEW u, NEW l, Render(u, l) PROVE FALSE
      BY <3>2, <3>3 DEF Render
    <3>4. ASSUME NEW j \in DOMAIN sent, Takes(j) \/ Answered(j) \/ Fails(j) PROVE FALSE
      BY <3>2, <3>4 DEF Takes, Answered, Fails
    <3>5. ASSUME NEW v \in Workflow, Cancels(v) \/ Confirms(v) PROVE FALSE
      BY <3>5 DEF Cancels, Confirms
    <3>6. CASE Goes \/ Restart \/ Collects \/ Reload \/ \E o \in OpId : Carried(o)
      BY <3>2, <3>6
      DEF Goes, LooksForJob, LaunchAnswered, LaunchLost, JobEnds, OpRead, HandsOff,
          DropsOp, JobRead, DropsJob, Restart, Collects, Reload, Carried, lane
    <3>7. CASE UNCHANGED vars
      BY <3>7 DEF vars, lane
    <3> QED
      BY <3>1, <3>3, <3>4, <3>5, <3>6, <3>7
      DEF Next, Listed, ListArrives, ListFails, ListPolls, Refetch, Visits
  <2> DEFINE o == sent[i].op
  <2>2. o \in OpId /\ op[o].workflow = w /\ Handled(o)
    BY DEF Follows, Followed
  <2>3. o \notin pending
    BY <2>1, <2>2 DEF Launchable, PendingOf
  <2>4. op[o].state = "launched" => op[o].job \notin active
    BY <2>1, <2>2 DEF Launchable, ActiveOf, JobWorkflow, Follows, LaunchedJob
  <2> QED BY <2>2, <2>3, <2>4 DEF Handled, Settled, Over
<1>3. OpensOnceOver <=> [][Opens]_vars
  BY DEF OpensOnceOver
<1> QED BY LaneInductive, <1>1, FollowsStep, <1>2, <1>3, PTL DEF Spec
=============================================================================
