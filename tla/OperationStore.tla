--------------------------- MODULE OperationStore ---------------------------
(***************************************************************************)
(* The in-memory store of AWX operations (src/src/dmf_cms/operations.py)    *)
(* and the advisory facility lock computed from it                         *)
(* (_facility_busy_check in src/src/dmf_cms/main.py).                       *)
(*                                                                         *)
(* An operation id stands for the operation's uuid4 and for the            *)
(* request_id minted with it; ids are handed out in creation order.        *)
(* Every store method holds the store's lock from its first line to its    *)
(* last, so each is one atomic piece of an action of RunControl.           *)
(***************************************************************************)
EXTENDS Naturals, FiniteSets

CONSTANTS
  Key,       \* catalog keys: targets of deploy and teardown
  Slug,      \* workload slugs: targets of finalise-purge
  Workflow,  \* workflow names: targets of the generic launch
  None,      \* Python's None
  MaxOps     \* bound: ids a behaviour may use (operations and AWX launches)

ASSUME StoreAssumption == MaxOps \in Nat /\ None \notin Nat

OpId == 1..MaxOps
Target == Key \cup Slug \cup Workflow \cup OpId

Action == {"launch", "deploy", "teardown", "rollback", "finalise-purge"}

\* Actions whose operations get a job watcher; the facility lock counts
\* exactly these.
WatchedAction == {"deploy", "teardown", "rollback", "finalise-purge"}

\* FAILED_ROLLBACK_REQUIRED, ROLLBACK_INCOMPLETE and RUN_STATUS_UNKNOWN.
DirtyStates == {"failed_rollback_required", "rollback_incomplete",
                "run_status_unknown"}

WatchedTerminal == DirtyStates \cup {"run_complete", "run_failed", "error"}

OperationState ==
  WatchedTerminal \cup {"waking", "launching", "launched", "running"}

TerminalStates(a) ==
  IF a \in WatchedAction THEN WatchedTerminal ELSE {"launched", "error"}

\* Operation: job is the id under which the job was launched, auto is
\* auto_rollback_dispatch, autoStatus is auto_rollback, pending is the
\* "monitoring-drain-pending" token of the error text.
Operation ==
  [action : Action, target : Target, state : OperationState,
   job : OpId \cup {None}, run : OpId \cup {None}, auto : BOOLEAN,
   autoStatus : {"unset", "identity-unknown", "disabled",
                 "already-in-progress", "triggered"},
   pending : BOOLEAN]

\* The value of an id the dict does not hold: not created yet, collected by
\* _gc, lost in a restart, or the id of a launch made outside the console.
Absent ==
  [action |-> "none", target |-> None, state |-> "absent", job |-> None,
   run |-> None, auto |-> FALSE, autoStatus |-> "unset", pending |-> FALSE]

NewOperation(a, t, s, isAuto) ==
  [action |-> a, target |-> t, state |-> s, job |-> None, run |-> None,
   auto |-> isAuto, autoStatus |-> "unset", pending |-> FALSE]

VARIABLES
  op,     \* the store: op[o] is an Operation or Absent
  older,  \* <<a, b>>: a's updated_at is before b's
  next    \* the next id to hand out

storeVars == <<op, older, next>>

StoreTypeOK ==
  /\ op \in [OpId -> Operation \cup {Absent}]
  /\ older \in SUBSET (OpId \X OpId)
  /\ next \in 1..(MaxOps + 1)

StoreInit ==
  /\ op = [o \in OpId |-> Absent]
  /\ older = {}
  /\ next = 1

-----------------------------------------------------------------------------
(* Queries.                                                                *)

InStore(o) == op[o].state # "absent"
IsTerminal(o) == op[o].state \in TerminalStates(op[o].action)
IsActive(o) == InStore(o) /\ ~IsTerminal(o)
IsDirty(o) == op[o].state \in DirtyStates

\* An operation that holds the facility: a tracked run in flight.
InFlight(o) == op[o].action \in WatchedAction /\ IsActive(o)

\* OperationStore.find_active, and the dedupe scan of get_or_create and
\* get_or_create_exclusive.
FindActive(a, t) ==
  {o \in OpId : IsActive(o) /\ op[o].action = a /\ op[o].target = t}

MutantExempt(o, a, t) ==
  a = "rollback" /\ (op[o].run = t \/ op[o].target = t)

\* The two exceptions of the busy check, both for a rollback of run t: the
\* dirty deploy it recovers, and an incomplete earlier attempt at it.
Exempt(o, a, t) ==
  /\ a = "rollback"
  /\ \/ /\ op[o].action = "deploy"
        /\ op[o].run = t
        /\ op[o].state \in {"failed_rollback_required", "run_status_unknown"}
     \/ op[o].target = t /\ op[o].state = "rollback_incomplete"

MutantBlockers(a, t) ==
  {o \in OpId : /\ op[o].action \in WatchedAction
                /\ ~Exempt(o, a, t) /\ op[o].target # t
                /\ InFlight(o) \/ IsDirty(o)}

\* _facility_busy_check asked for action a on target t. The caller's own
\* new operation is skipped by asking before it is inserted.
Blockers(a, t) ==
  {o \in OpId : /\ op[o].action \in WatchedAction
                /\ ~Exempt(o, a, t)
                /\ InFlight(o) \/ IsDirty(o)}

\* drain.find_deploy_ops_for_run: the deploy operations of run r, usable
\* only if there is one and all agree on the catalog key.
DeployOpsFor(r) ==
  {o \in OpId : op[o].action = "deploy" /\ op[o].run = r}

Correlated(r) ==
  /\ DeployOpsFor(r) # {}
  /\ \A o, p \in DeployOpsFor(r) : op[o].target = op[p].target

\* _find_rollback_op_for_run: the most recently updated rollback of run r.
LatestRollback(o) ==
  \A p \in OpId \ {o} :
    op[p].action = "rollback" /\ op[p].target = op[o].target
      => <<o, p>> \notin older

-----------------------------------------------------------------------------
(* Writes.                                                                 *)

\* updated_at of the operations in S becomes "now". The base are the
\* operations the store holds after the step.
Touch(S) ==
  older' = {p \in older : p[1] \notin S /\ p[2] \notin S}
             \cup ({o \in OpId : op'[o] # Absent} \ S) \X S

\* OperationStore.create.
Insert(a, t, s, isAuto) ==
  /\ next <= MaxOps
  /\ op' = [op EXCEPT ![next] = NewOperation(a, t, s, isAuto)]
  /\ next' = next + 1
  /\ Touch({next})

\* OperationStore.update: no terminal guard, and updated_at always moves.
Update(o, new) ==
  /\ op' = [op EXCEPT ![o] = IF InStore(o) THEN new ELSE Absent]
  /\ next' = next
  /\ Touch({o} \cap {p \in OpId : InStore(p)})

SetState(o, s) == Update(o, [op[o] EXCEPT !.state = s])

\* OperationStore._gc: only a terminal operation expires, oldest update
\* first; nothing ever removes an active one.
Collect(o) ==
  /\ InStore(o) /\ IsTerminal(o)
  /\ \A p \in OpId : InStore(p) /\ IsTerminal(p) => <<p, o>> \notin older
  /\ op' = [op EXCEPT ![o] = Absent]
  /\ older' = {p \in older : p[1] # o /\ p[2] # o}
  /\ next' = next
=============================================================================
