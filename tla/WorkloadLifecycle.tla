-------------------------- MODULE WorkloadLifecycle --------------------------
(***************************************************************************)
(* Where a media workload is in its lifecycle and what the console may     *)
(* offer there: src/frontend/src/lib/workloadLifecycle.ts, roles.ts and    *)
(* queryState.ts, over the grouped inventory the backend serves            *)
(* (src/src/dmf_cms/media_workloads.py).                                   *)
(*                                                                         *)
(* The module has no state.  A WorkloadLifecycleInput is a record of the   *)
(* backend's position and of the set of optional flags that are true: an   *)
(* absent flag and a false one are the same thing to every reader.         *)
(***************************************************************************)
EXTENDS Naturals, FiniteSets

Stage == {"design", "plan", "provision", "configure", "operate", "finalise"}

Position == {"provision", "configure", "operate", "unknown"}

StageAction ==
  {"deploy", "clear-for-deployment", "switch-source", "tear-down",
   "delete-permanently"}

JobFlag == {"launching", "switching", "tearingDown"}

Flag == JobFlag \cup
  {"hasBootstrappedMembers", "allMembersBootstrapped",
   "anyMemberObservedRunning", "awaitingHealthResult",
   "membersDataTrustworthy", "membersDataRetained", "purgeAuthorized",
   "isPurgeableEntity", "inventoryStale"}

Input == [lifecycle : Position, flags : SUBSET Flag]

NoStage == "none"

-----------------------------------------------------------------------------
(* What the backend reports of a member and derives from the members.      *)

Requested == {"bootstrapped", "active", "unknown"}
Observed == {"running", "failing", "unknown"}
Member == [requested : Requested, observed : Observed]

\* "start" or "stop" when intent and observation disagree.
ReconcileDirection(m) ==
  CASE m.requested = "active" /\ m.observed # "running" -> "start"
    [] m.requested = "bootstrapped" /\ m.observed = "running" -> "stop"
    [] OTHER -> "none"

ReconcilePending(m) == ReconcileDirection(m) # "none"

\* ms is the function from the members' names to what is known of them.
DeriveWorkloadLifecycle(ms) ==
  LET Asked == {ms[i].requested : i \in DOMAIN ms}
  IN  IF DOMAIN ms = {} THEN "unknown"
      ELSE IF Asked \subseteq {"bootstrapped", "unknown"} THEN "provision"
      ELSE IF Asked = {"active"} /\ \A i \in DOMAIN ms : ~ ReconcilePending(ms[i])
        THEN "operate"
      ELSE "configure"

-----------------------------------------------------------------------------
(* The affordances.                                                        *)

Busy(input) == input.flags \cap JobFlag # {}

Running(input) == input.lifecycle \in {"configure", "operate"}

Withheld(input) ==
  \/ Busy(input)
  \/ input.lifecycle = "unknown"
  \/ "inventoryStale" \in input.flags

PurgeGate ==
  {"allMembersBootstrapped", "membersDataTrustworthy", "purgeAuthorized",
   "isPurgeableEntity"}

MayPurge(input) ==
  /\ ~ Running(input)
  /\ PurgeGate \subseteq input.flags
  /\ "anyMemberObservedRunning" \notin input.flags

\* Deploying belongs to the position, clearing to the members.
StageActions(id, input) ==
  IF Withheld(input) THEN {}
  ELSE {a \in StageAction :
          \/ /\ id = "provision" /\ a = "deploy"
             /\ input.lifecycle = "provision"
          \/ /\ id = "provision" /\ a = "clear-for-deployment"
             /\ "hasBootstrappedMembers" \in input.flags
          \/ id = "configure" /\ a = "switch-source" /\ Running(input)
          \/ id = "finalise" /\ a = "tear-down" /\ Running(input)
          \/ id = "finalise" /\ a = "delete-permanently" /\ MayPurge(input)}

StageHasContent(id, input) ==
  \/ id \in {"design", "plan"}
  \/ id = "provision" /\ input.lifecycle # "unknown"
  \/ id \in {"configure", "operate", "finalise"} /\ Running(input)


\* Mutant for JobHoldsPanel: the position wins over a running job.
MutantActiveStage(input) ==
  IF input.lifecycle = "unknown" THEN NoStage ELSE input.lifecycle

\* A running job wins over the position: it is what the operator waits on.
ActiveStage(input) ==
  IF "tearingDown" \in input.flags THEN "finalise"
  ELSE IF "switching" \in input.flags THEN "configure"
  ELSE IF "launching" \in input.flags THEN "provision"
  ELSE IF input.lifecycle = "unknown" THEN NoStage
  ELSE input.lifecycle

StageStates(input) ==
  [id \in Stage |->
     IF id = ActiveStage(input) THEN "active"
     ELSE IF StageActions(id, input) # {} THEN "available"
     ELSE IF StageHasContent(id, input) THEN "informational"
     ELSE "not-applicable"]

-----------------------------------------------------------------------------
(* The input, built from the raw reads.  A read is a record of isError,    *)
(* isFetching and the last payload, which a failed refetch leaves in place.*)

GroupedReadRetained(read) ==
  ~ read.isError /\ read.configured /\ ~ read.degraded /\ ~ read.stale

GroupedReadTrustworthy(read) ==
  GroupedReadRetained(read) /\ ~ read.isFetching

RoleRank == [viewer |-> 0, operator |-> 1, engineer |-> 2, admin |-> 3]

RoleAtLeast(role, floor) ==
  role \in DOMAIN RoleRank /\ RoleRank[role] >= RoleRank[floor]

PurgeAuthorized(user) ==
  ~ user.isFetching /\ ~ user.isError /\ RoleAtLeast(user.role, "operator")

RunningReadout(ms) ==
  [running |-> Cardinality({i \in DOMAIN ms : ms[i].observed = "running"}),
   total |-> Cardinality(DOMAIN ms)]

AllMembersBootstrapped(ms) ==
  DOMAIN ms # {} /\ \A i \in DOMAIN ms : ms[i].requested = "bootstrapped"

AwaitingHealthResult(ms) ==
  /\ \A i \in DOMAIN ms : /\ ms[i].requested = "active"
                          /\ ms[i].observed \in {"running", "unknown"}
  /\ \E i \in DOMAIN ms : ms[i].observed = "unknown"

\* ms the members the payload lists, purgeable whether the slug is not the
\* backend's "unassigned" bucket, jobs the page's own job flags.
BuildWorkloadLifecycleInput(ms, purgeable, jobs, read, user) ==
  LET Holds(f) ==
        CASE f \in JobFlag -> f \in jobs
          [] f = "hasBootstrappedMembers" ->
               \E i \in DOMAIN ms : /\ ~ ReconcilePending(ms[i])
                                    /\ ms[i].requested = "bootstrapped"
          [] f = "allMembersBootstrapped" -> AllMembersBootstrapped(ms)
          [] f = "anyMemberObservedRunning" ->
               \E i \in DOMAIN ms : ms[i].observed = "running"
          [] f = "awaitingHealthResult" -> AwaitingHealthResult(ms)
          [] f = "membersDataTrustworthy" -> GroupedReadTrustworthy(read)
          [] f = "membersDataRetained" -> GroupedReadRetained(read)
          [] f = "purgeAuthorized" -> PurgeAuthorized(user)
          [] f = "isPurgeableEntity" -> purgeable
          [] f = "inventoryStale" -> read.stale
  IN  [lifecycle |-> DeriveWorkloadLifecycle(ms),
       flags |-> {f \in Flag : Holds(f)}]
=============================================================================
