-------------------------- MODULE RunControlProofs --------------------------
(***************************************************************************)
(* Theorems about RunControl, for every number of keys, slugs, operators,  *)
(* operations and restarts, in four parts of which each rests on the ones  *)
(* before it:                                                              *)
(*                                                                         *)
(*   1. the store: its types, one run at a time, nothing dirty under a run; *)
(*   2. AWX's jobs: a rollback shown complete has a job that says so, an   *)
(*      automatic rollback has a failed deploy, two jobs do not compete;   *)
(*   3. the failed deploy that only a clean rollback clears, and what may  *)
(*      still happen to an operation that has ended;                       *)
(*   4. the store and its tasks implement the abstract facility lock.      *)
(***************************************************************************)
EXTENDS RunControl, TLAPS

-----------------------------------------------------------------------------
(* The writes of the store.                                                *)

\* What OperationStore.update does to the dict when it is given a
\* well-formed operation.
LEMMA UpdateEffect ==
  ASSUME StoreTypeOK, NEW o \in OpId, NEW new,
         InStore(o) => new \in Operation, Update(o, new)
  PROVE  /\ StoreTypeOK' /\ next' = next
         /\ op'[o] = IF InStore(o) THEN new ELSE Absent
         /\ \A p \in OpId : p # o => op'[p] = op[p]
<1>1. op' = [op EXCEPT ![o] = IF InStore(o) THEN new ELSE Absent]
  BY DEF Update
<1>2. op' \in [OpId -> Operation \cup {Absent}]
  BY <1>1 DEF StoreTypeOK
<1>3. older' \in SUBSET (OpId \X OpId)
  BY DEF StoreTypeOK, Update, Touch
<1>4. next' = next
  BY DEF Update
<1> QED
  BY <1>1, <1>2, <1>3, <1>4 DEF StoreTypeOK

\* The same for a change of state alone.
LEMMA SetStateEffect ==
  ASSUME StoreTypeOK, NEW o \in OpId, NEW s \in OperationState,
         SetState(o, s)
  PROVE  /\ StoreTypeOK' /\ next' = next
         /\ op'[o] = IF InStore(o) THEN [op[o] EXCEPT !.state = s] ELSE Absent
         /\ \A p \in OpId : p # o => op'[p] = op[p]
<1>1. InStore(o) => [op[o] EXCEPT !.state = s] \in Operation
  BY DEF StoreTypeOK, InStore, Absent, Operation
<1> QED
  BY <1>1, UpdateEffect DEF SetState

\* A new operation gets the next id and changes no other.
LEMMA InsertEffect ==
  ASSUME StoreTypeOK, NEW a \in Action, NEW t \in Target,
         NEW s \in OperationState, NEW auto \in BOOLEAN, Insert(a, t, s, auto)
  PROVE  /\ StoreTypeOK' /\ next \in OpId /\ next' = next + 1
         /\ op'[next] = NewOperation(a, t, s, auto)
         /\ \A p \in OpId : p # next => op'[p] = op[p]
<1>1. next \in OpId /\ next' = next + 1 /\ next' \in 1..(MaxOps + 1)
  BY StoreAssumption DEF StoreTypeOK, Insert, OpId
<1>2. NewOperation(a, t, s, auto) \in Operation
  BY DEF NewOperation, Operation
<1>3. op' = [op EXCEPT ![next] = NewOperation(a, t, s, auto)]
  BY DEF Insert
<1>4. op' \in [OpId -> Operation \cup {Absent}]
  BY <1>2, <1>3 DEF StoreTypeOK
<1>5. older' \in SUBSET (OpId \X OpId)
  BY <1>1 DEF StoreTypeOK, Insert, Touch
<1> QED
  BY <1>1, <1>3, <1>4, <1>5 DEF StoreTypeOK

\* What an id of the store stands for.
LEMMA StoreEntries ==
  ASSUME StoreTypeOK, NEW o \in OpId
  PROVE  /\ InStore(o) => op[o] \in Operation
         /\ ~InStore(o) => op[o] = Absent
<1>1. op[o] \in Operation \cup {Absent}
  BY DEF StoreTypeOK
<1>2. op[o] \in Operation => op[o].state # "absent"
  BY DEF Operation, OperationState, WatchedTerminal, DirtyStates
<1>3. Absent.state = "absent"
  BY DEF Absent
<1> QED
  BY <1>1, <1>2, <1>3 DEF InStore

\* The changes the coroutines make to an operation keep its shape.
LEMMA OperationShape ==
  ASSUME NEW x \in Operation, NEW s \in OperationState, NEW b \in BOOLEAN
  PROVE  /\ [x EXCEPT !.state = s] \in Operation
         /\ [x EXCEPT !.pending = b] \in Operation
         /\ [x EXCEPT !.state = s, !.pending = b] \in Operation
         /\ [x EXCEPT !.state = s]
              = [x EXCEPT !.state = s, !.pending = x.pending]
         /\ x.pending \in BOOLEAN
<1>1. [x EXCEPT !.state = s] \in Operation
  BY DEF Operation
<1>2. [x EXCEPT !.pending = b] \in Operation
  BY DEF Operation
<1>3. [x EXCEPT !.state = s, !.pending = b] \in Operation
  BY DEF Operation
<1>4. [x EXCEPT !.state = s]
        = [x EXCEPT !.state = s, !.pending = x.pending]
  BY DEF Operation
<1>5. x.pending \in BOOLEAN
  BY DEF Operation
<1> QED
  BY <1>1, <1>2, <1>3, <1>4, <1>5

\* _mark_drain_pending touches nothing but the pending token.
LEMMA MarkPendingEffect ==
  ASSUME StoreTypeOK, NEW o \in OpId, MarkPending(o)
  PROVE  /\ StoreTypeOK' /\ next' = next
         /\ \A p \in OpId :
              \/ op'[p] = op[p]
              \/ InStore(p) /\ op'[p] = [op[p] EXCEPT !.pending = TRUE]
<1>1. CASE op[o].pending
  BY <1>1 DEF MarkPending, storeVars, StoreTypeOK
<1>2. CASE ~op[o].pending
  <2> DEFINE new == [op[o] EXCEPT !.pending = TRUE]
  <2>1. \A x \in Operation : [x EXCEPT !.pending = TRUE] \in Operation
    BY OperationShape, Zenon DEF OperationState
  <2>2. InStore(o) => new \in Operation
    BY <2>1, StoreEntries, Zenon
  <2>3. Update(o, new)
    BY <1>2, Zenon DEF MarkPending
  <2> HIDE DEF new
  <2>4. /\ StoreTypeOK' /\ next' = next
        /\ op'[o] = IF InStore(o) THEN new ELSE Absent
        /\ \A p \in OpId : p # o => op'[p] = op[p]
    BY <2>2, <2>3, UpdateEffect, Zenon
  <2>5. \A p \in OpId :
          \/ op'[p] = op[p]
          \/ InStore(p) /\ p = o /\ op'[p] = new
    <3>1. ~InStore(o) => op[o] = Absent
      BY StoreEntries, Zenon
    <3>2. ~InStore(o) => op'[o] = op[o]
      BY <2>4, <3>1, Zenon
    <3>3. InStore(o) => op'[o] = new
      BY <2>4, Zenon
    <3> QED
      BY <2>4, <3>2, <3>3, Zenon
  <2> QED
    BY <2>4, <2>5, Zenon DEF new
<1> QED
  BY <1>1, <1>2, Zenon

\* _mark_drain_verified leaves each operation as it was but for the pending
\* token, or gives it a clean terminal state; nothing becomes active.
LEMMA MarkVerifiedEffect ==
  ASSUME StoreTypeOK, NEW o \in OpId, NEW r, MarkVerified(o, r)
  PROVE  /\ StoreTypeOK' /\ next' = next
         /\ \A p \in OpId :
              \/ op'[p] = op[p]
              \/ InStore(p) /\ op'[p] = [op[p] EXCEPT !.pending = TRUE]
              \/ /\ InStore(p) /\ (p = o \/ IsDirty(p))
                 /\ \E s \in {"run_complete", "run_failed"}, b \in BOOLEAN :
                      op'[p] = [op[p] EXCEPT !.state = s, !.pending = b]
<1>1. CASE ~Correlated(r)
  <2>1. MarkPending(o)
    BY <1>1, Zenon DEF MarkVerified
  <2> QED
    BY <2>1, MarkPendingEffect, Zenon
<1>2. CASE Correlated(r)
  <2> DEFINE failed == RecoveredDeploys(r)
             others == Superseded(o, r)
             self   == {o} \cap {p \in OpId : InStore(p)}
             clean(p) == [op[p] EXCEPT !.state = "run_complete",
                                       !.pending = FALSE]
             fail(p) == [op[p] EXCEPT !.state = "run_failed"]
             over(p) == [op[p] EXCEPT !.state = "run_failed",
                                      !.pending = FALSE]
  <2>1. /\ op' = [p \in OpId |->
               CASE p \in self -> clean(p)
                 [] p \in failed -> fail(p)
                 [] p \in others -> over(p)
                 [] OTHER -> op[p]]
        /\ next' = next
        /\ Touch(self \cup failed \cup others)
    BY <1>2, Zenon DEF MarkVerified
  <2>2. \A p \in failed \cup others : p \in OpId /\ IsDirty(p) /\ InStore(p)
    BY DEF RecoveredDeploys, Superseded, DeployOpsFor, IsDirty, InStore, DirtyStates
  <2>3. \A p \in self : p = o /\ InStore(p)
    OBVIOUS
  <2>4. \A p \in OpId : InStore(p) => op[p] \in Operation
    BY StoreEntries, Zenon
  <2>5. \A p \in OpId : InStore(p) =>
          /\ clean(p) \in Operation /\ fail(p) \in Operation
          /\ over(p) \in Operation
          /\ op[p].pending \in BOOLEAN
          /\ fail(p) = [op[p] EXCEPT !.state = "run_failed",
                                     !.pending = op[p].pending]
    <3>1. "run_complete" \in OperationState /\ "run_failed" \in OperationState
      BY DEF OperationState, WatchedTerminal
    <3> QED
      BY <2>4, <3>1, OperationShape, Zenon
  <2> HIDE DEF failed, others, self, clean, fail, over
  <2>6. \A p \in OpId :
          \/ op'[p] = op[p]
          \/ p \in self /\ op'[p] = clean(p)
          \/ p \in failed /\ op'[p] = fail(p)
          \/ p \in others /\ op'[p] = over(p)
    BY <2>1
  <2>7. \A p \in OpId :
          \/ op'[p] = op[p]
          \/ /\ InStore(p) /\ (p = o \/ IsDirty(p))
             /\ \E s \in {"run_complete", "run_failed"}, b \in BOOLEAN :
                  op'[p] = [op[p] EXCEPT !.state = s, !.pending = b]
    BY <2>2, <2>3, <2>5, <2>6, Zenon DEF clean, fail, over
  <2>8. \A p \in OpId : op'[p] \in Operation \cup {Absent}
    BY <2>2, <2>3, <2>5, <2>6 DEF StoreTypeOK
  <2>9. op' \in [OpId -> Operation \cup {Absent}]
    BY <2>1, <2>8
  <2>10. older' \in SUBSET (OpId \X OpId)
    BY <2>1, <2>2, <2>3 DEF StoreTypeOK, Touch
  <2> QED
    BY <2>1, <2>7, <2>9, <2>10 DEF StoreTypeOK
<1> QED
  BY <1>1, <1>2

-----------------------------------------------------------------------------
(* How the inductive invariant survives each kind of step.                 *)

\* A state that is dirty is terminal for a tracked action, so an operation
\* is never both in flight and dirty.
LEMMA DirtyIsNotInFlight ==
  ASSUME NEW o \in OpId, IsDirty(o) PROVE ~InFlight(o)
BY DEF IsDirty, InFlight, IsActive, IsTerminal, TerminalStates, WatchedTerminal

\* A coroutine on its way has an active operation, which is in flight if its
\* action is tracked.
LEMMA MovingIsActive ==
  ASSUME IInv, NEW o \in OpId, pc[o] \notin {"idle", "drain", "draining"}
  PROVE  /\ op[o] \in Operation /\ IsActive(o) /\ o < next
         /\ op[o].action \in WatchedAction => InFlight(o)
<1>1. op[o].state \in {"waking", "launching", "launched", "running"}
  BY DEF IInv, PhaseStates, TypeOK, Phase
<1>2. InStore(o)
  BY <1>1 DEF InStore
<1>3. op[o] \in Operation
  BY <1>2, StoreEntries DEF IInv, TypeOK
<1>4. o < next
  <2>1. ~(o >= next)
    BY DEF IInv, Allocated
  <2>2. o \in Nat /\ next \in Nat
    BY StoreAssumption DEF OpId, IInv, TypeOK, StoreTypeOK
  <2> QED
    BY <2>1, <2>2
<1>5. IsActive(o)
  <2>1. \/ op[o].action \in WatchedAction
        \/ op[o].state \in {"waking", "launching"}
    BY DEF IInv, PhaseStates, TypeOK, Phase
  <2> QED
    BY <1>1, <1>2, <2>1
    DEF IsActive, IsTerminal, TerminalStates, WatchedTerminal, DirtyStates
<1> QED
  BY <1>3, <1>4, <1>5 DEF InFlight

\* Nothing new in flight, and new dirt only from a run that just ended.
LEMMA LockKept ==
  ASSUME OneRunAtATime, CleanUnderRun,
         \A p \in OpId : InFlight(p)' => /\ InFlight(p)
                                        /\ op'[p].action = op[p].action
                                        /\ op'[p].target = op[p].target,
         \A p \in OpId : IsDirty(p)' =>
           \/ IsDirty(p) /\ DirtOf(p)' = DirtOf(p)
           \/ InFlight(p)
  PROVE  OneRunAtATime' /\ CleanUnderRun'
<1>1. OneRunAtATime'
  BY DEF OneRunAtATime
<1>2. ASSUME NEW o \in OpId, NEW d \in OpId, InFlight(o)', IsDirty(d)'
      PROVE  (op[o].action = "rollback" /\ DirtOf(d) = op[o].target)'
  <2>1. InFlight(o) /\ op'[o].action = op[o].action /\ op'[o].target = op[o].target
    BY <1>2
  <2>2. o # d
    <3>1. ~InFlight(d)'
      BY <1>2 DEF IsDirty, InFlight, IsActive, IsTerminal, TerminalStates, WatchedTerminal
    <3> QED
      BY <1>2, <3>1
  <2>3. ~InFlight(d)
    BY <2>1, <2>2 DEF OneRunAtATime
  <2>4. IsDirty(d) /\ DirtOf(d)' = DirtOf(d)
    BY <1>2, <2>3
  <2> QED
    BY <2>1, <2>4 DEF CleanUnderRun
<1> QED
  BY <1>1, <1>2 DEF CleanUnderRun

\* One more in flight, when the busy check found nothing in its way.
LEMMA LockTaken ==
  ASSUME IInv, NEW a \in WatchedAction, NEW t \in Target, NEW n \in OpId,
         Blockers(a, t) = {},
         op'[n].action = a, op'[n].target = t, op'[n].state = "waking",
         \A p \in OpId : p # n => op'[p] = op[p]
  PROVE  OneRunAtATime' /\ CleanUnderRun'
<1>1. \A p \in OpId : ~InFlight(p)
  <2> SUFFICES ASSUME NEW p \in OpId, InFlight(p) PROVE FALSE
    OBVIOUS
  <2>1. op[p].action \in WatchedAction
    BY DEF InFlight
  <2>2. Exempt(p, a, t)
    BY <2>1 DEF Blockers
  <2>3. IsDirty(p)
    BY <2>2 DEF Exempt, IsDirty, DirtyStates
  <2> QED
    BY <2>3, DirtyIsNotInFlight
<1>2. \A p \in OpId : IsDirty(p) => a = "rollback" /\ DirtOf(p) = t
  <2> SUFFICES ASSUME NEW p \in OpId, IsDirty(p)
               PROVE  a = "rollback" /\ DirtOf(p) = t
    OBVIOUS
  <2>1. op[p].action \in WatchedAction
    BY DEF IInv, DirtKinds
  <2>2. Exempt(p, a, t)
    BY <2>1 DEF Blockers
  <2>3. op[p].state = "rollback_incomplete" => op[p].action = "rollback"
    BY DEF IInv, DirtKinds
  <2> QED
    BY <2>2, <2>3 DEF Exempt, DirtOf
<1>3. \A p \in OpId : InFlight(p)' => p = n
  BY <1>1 DEF InFlight, IsActive, InStore, IsTerminal
<1>4. \A p \in OpId : IsDirty(p)' => p # n /\ IsDirty(p) /\ DirtOf(p)' = DirtOf(p)
  BY DEF IsDirty, DirtOf, DirtyStates
<1>5. OneRunAtATime'
  BY <1>3 DEF OneRunAtATime
<1>6. CleanUnderRun'
  BY <1>2, <1>3, <1>4 DEF CleanUnderRun
<1> QED
  BY <1>5, <1>6

\* What PhaseStates and DirtKinds ask of one operation x at place ph.
PhaseFits(ph, x) ==
  /\ ph \in {"preflight", "wake"} => x.state = "waking"
  /\ ph \in {"lookup", "opposite", "launch"} => x.state = "launching"
  /\ ph = "lookup" => x.action \in {"launch", "deploy", "teardown"}
  /\ ph = "opposite" => x.action \in {"deploy", "teardown"}
  /\ ph = "watch" => /\ x.state \in {"launched", "running"}
                     /\ x.action \in WatchedAction

DirtFits(x) ==
  /\ x.state \in DirtyStates => x.action \in WatchedAction
  /\ x.state = "rollback_incomplete" => x.action = "rollback"

\* What a step leaves of AWX's jobs: all but those at ids in S.
JobsFit(S) ==
  /\ job' \in [OpId -> Job \cup {NoJob}]
  /\ \A j \in OpId : j \notin S => job'[j] = job[j]

\* A step of a request or task that has not ended yet: it writes its own
\* operation and moves on.
LEMMA TaskStep ==
  ASSUME IInv, NEW o \in OpId, NEW new \in Operation, NEW ph \in Phase,
         pc[o] \notin {"idle", "drain", "draining"},
         Update(o, new), pc' = [pc EXCEPT ![o] = ph],
         new.action = op[o].action, new.target = op[o].target,
         PhaseFits(ph, new), DirtFits(new), JobsFit({o}),
         seen' \in [OpId -> BOOLEAN],
         recheck' = recheck, restarts' = restarts
  PROVE  IInv'
<1>1. op[o] \in Operation /\ IsActive(o) /\ o < next /\ InStore(o)
  BY MovingIsActive DEF IsActive
<1>2. /\ StoreTypeOK' /\ next' = next /\ op'[o] = new
      /\ \A p \in OpId : p # o => op'[p] = op[p]
  BY <1>1, UpdateEffect DEF IInv, TypeOK
<1>3. TypeOK'
  BY <1>2 DEF IInv, TypeOK, JobsFit
<1>4. Allocated'
  <2> SUFFICES ASSUME NEW p \in OpId, p >= next
               PROVE  op'[p] = Absent /\ pc'[p] = "idle" /\ job'[p] = NoJob
    BY <1>2 DEF Allocated
  <2>1. p # o
    <3>1. o \in Nat /\ next \in Nat
      BY StoreAssumption DEF OpId, IInv, TypeOK, StoreTypeOK
    <3> QED
      BY <1>1, <3>1
  <2> QED
    BY <1>2, <2>1 DEF IInv, Allocated, JobsFit, TypeOK
<1>5. PhaseStates'
  BY <1>2 DEF IInv, TypeOK, PhaseStates, PhaseFits
<1>6. DirtKinds'
  BY <1>2 DEF IInv, DirtKinds, DirtFits, IsDirty
<1>7. RecheckSettled'
  BY <1>2 DEF IInv, TypeOK, RecheckSettled
<1>8. OneRunAtATime' /\ CleanUnderRun'
  <2>1. \A p \in OpId : InFlight(p)' => /\ InFlight(p)
                                       /\ op'[p].action = op[p].action
                                       /\ op'[p].target = op[p].target
    BY <1>1, <1>2 DEF InFlight, IsActive, InStore, IsTerminal
  <2>2. \A p \in OpId : IsDirty(p)' =>
          \/ IsDirty(p) /\ DirtOf(p)' = DirtOf(p)
          \/ InFlight(p)
    BY <1>1, <1>2 DEF InFlight, IsDirty, DirtOf, DirtFits
  <2> QED
    BY <2>1, <2>2, LockKept DEF IInv
<1> QED
  BY <1>3, <1>4, <1>5, <1>6, <1>7, <1>8 DEF IInv

\* The common case: only the state changes, and no job.
LEMMA StateStep ==
  ASSUME IInv, NEW o \in OpId, NEW s \in OperationState, NEW ph \in Phase,
         pc[o] \notin {"idle", "drain", "draining"},
         SetState(o, s), pc' = [pc EXCEPT ![o] = ph],
         PhaseFits(ph, [op[o] EXCEPT !.state = s]),
         DirtFits([op[o] EXCEPT !.state = s]),
         seen' \in [OpId -> BOOLEAN],
         job' = job, recheck' = recheck, restarts' = restarts
  PROVE  IInv'
<1>1. op[o] \in Operation
  BY MovingIsActive
<1>2. [op[o] EXCEPT !.state = s] \in Operation
  BY <1>1, OperationShape, Zenon
<1>3. /\ [op[o] EXCEPT !.state = s].action = op[o].action
      /\ [op[o] EXCEPT !.state = s].target = op[o].target
  BY <1>1 DEF Operation
<1>4. JobsFit({o})
  BY DEF JobsFit, IInv, TypeOK
<1>5. Update(o, [op[o] EXCEPT !.state = s])
  BY DEF SetState
<1> QED
  BY <1>2, <1>3, <1>4, <1>5, TaskStep

\* The task ends and leaves the operation in a clean terminal state.
LEMMA EndStep ==
  ASSUME IInv, NEW o \in OpId,
         NEW s \in {"error", "run_complete", "run_failed"},
         pc[o] \notin {"idle", "drain", "draining"},
         SetState(o, s), pc' = [pc EXCEPT ![o] = "idle"],
         seen' = seen, job' = job, recheck' = recheck, restarts' = restarts
  PROVE  IInv'
<1>1. op[o] \in Operation
  BY MovingIsActive
<1>2. [op[o] EXCEPT !.state = s].state = s
  BY <1>1 DEF Operation
<1>3. PhaseFits("idle", [op[o] EXCEPT !.state = s])
  BY DEF PhaseFits
<1>4. DirtFits([op[o] EXCEPT !.state = s])
  BY <1>2 DEF DirtFits, DirtyStates
<1>5. s \in OperationState /\ "idle" \in Phase /\ seen \in [OpId -> BOOLEAN]
  BY DEF OperationState, WatchedTerminal, Phase, IInv, TypeOK
<1> QED
  BY <1>3, <1>4, <1>5, StateStep

\* A step that moves a coroutine and leaves the store alone.
LEMMA StillStep ==
  ASSUME IInv, NEW o \in OpId, NEW ph \in Phase,
         pc[o] # "idle", UNCHANGED storeVars, pc' = [pc EXCEPT ![o] = ph],
         PhaseFits(ph, op[o]),
         pc[o] \in {"drain", "draining"} =>
           ph \in {"idle", "drain", "draining"},
         seen' \in [OpId -> BOOLEAN],
         recheck' = recheck, job' = job, restarts' = restarts
  PROVE  IInv'
<1> USE DEF storeVars
<1>1. TypeOK'
  BY DEF IInv, TypeOK, StoreTypeOK
<1>2. Allocated'
  BY DEF IInv, TypeOK, Allocated
<1>3. PhaseStates'
  BY DEF IInv, TypeOK, PhaseStates, PhaseFits
<1>4. DirtKinds'
  BY DEF IInv, DirtKinds, IsDirty
<1>5. RecheckSettled'
  BY DEF IInv, TypeOK, RecheckSettled
<1>6. OneRunAtATime' /\ CleanUnderRun'
  BY DEF IInv, OneRunAtATime, CleanUnderRun, InFlight, IsActive, InStore,
         IsTerminal, IsDirty, DirtOf
<1> QED
  BY <1>1, <1>2, <1>3, <1>4, <1>5, <1>6 DEF IInv

\* What drain verification may do to the store.
Cleans(o) ==
  /\ StoreTypeOK' /\ next' = next
  /\ \A p \in OpId :
       \/ op'[p] = op[p]
       \/ InStore(p) /\ op'[p] = [op[p] EXCEPT !.pending = TRUE]
       \/ /\ InStore(p) /\ (p = o \/ IsDirty(p))
          /\ \E s \in {"run_complete", "run_failed"}, b \in BOOLEAN :
               op'[p] = [op[p] EXCEPT !.state = s, !.pending = b]

\* A step of drain verification: the operation it is about no longer moves.
LEMMA CleaningStep ==
  ASSUME IInv, NEW o \in OpId, pc[o] \in {"idle", "drain", "draining"},
         Cleans(o),
         pc' = pc \/ pc' = [pc EXCEPT ![o] = "idle"],
         recheck' = recheck
           \/ \E u \in Operator : recheck' = [recheck EXCEPT ![u] = None],
         seen' = seen, job' = job, restarts' = restarts
  PROVE  IInv'
<1>1. \A p \in OpId :
        \/ op'[p] = op[p]
        \/ /\ op[p] \in Operation /\ op'[p] \in Operation
           /\ op'[p].action = op[p].action /\ op'[p].target = op[p].target
           /\ op'[p].run = op[p].run
           /\ \/ op'[p].state = op[p].state
              \/ /\ op'[p].state \in {"run_complete", "run_failed"}
                 /\ p = o \/ IsDirty(p)
  <2> SUFFICES ASSUME NEW p \in OpId, op'[p] # op[p]
               PROVE  /\ op[p] \in Operation /\ op'[p] \in Operation
                      /\ op'[p].action = op[p].action
                      /\ op'[p].target = op[p].target
                      /\ op'[p].run = op[p].run
                      /\ \/ op'[p].state = op[p].state
                         \/ /\ op'[p].state \in {"run_complete", "run_failed"}
                            /\ p = o \/ IsDirty(p)
    OBVIOUS
  <2>1. InStore(p)
    BY DEF Cleans
  <2>2. op[p] \in Operation
    BY <2>1, StoreEntries DEF IInv, TypeOK
  <2>3. CASE op'[p] = [op[p] EXCEPT !.pending = TRUE]
    <3>1. [op[p] EXCEPT !.pending = TRUE] \in Operation
      BY <2>2, OperationShape, Zenon DEF OperationState
    <3> QED
      BY <2>2, <2>3, <3>1 DEF Operation
  <2>4. ASSUME p = o \/ IsDirty(p),
               NEW s \in {"run_complete", "run_failed"}, NEW b \in BOOLEAN,
               op'[p] = [op[p] EXCEPT !.state = s, !.pending = b]
        PROVE  /\ op'[p] \in Operation
               /\ op'[p].action = op[p].action
               /\ op'[p].target = op[p].target
               /\ op'[p].run = op[p].run
               /\ op'[p].state \in {"run_complete", "run_failed"}
    <3>1. s \in OperationState
      BY DEF OperationState, WatchedTerminal
    <3>2. [op[p] EXCEPT !.state = s, !.pending = b] \in Operation
      BY <2>2, <3>1, OperationShape, Zenon
    <3> QED
      BY <2>2, <2>4, <3>2 DEF Operation
  <2> QED
    BY <2>2, <2>3, <2>4 DEF Cleans
<1>2. \A p \in OpId : ~InStore(p) => op'[p] = op[p]
  BY DEF Cleans
<1>3. TypeOK'
  BY DEF IInv, TypeOK, Cleans, Phase
<1>4. Allocated'
  <2>1. next' = next
    BY DEF Cleans
  <2>2. ~InStore(o) => op'[o] = op[o]
    BY <1>2
  <2>3. \A p \in OpId : op[p] = Absent => op'[p] = Absent
    BY <1>2 DEF InStore, Absent
  <2> QED
    BY <2>1, <2>3 DEF IInv, TypeOK, Allocated
<1>5. PhaseStates'
  <2> SUFFICES ASSUME NEW p \in OpId,
                      pc'[p] \notin {"idle", "drain", "draining"}
               PROVE  /\ pc'[p] = pc[p]
                      /\ op'[p].state = op[p].state
                      /\ op'[p].action = op[p].action
    BY DEF IInv, PhaseStates
  <2>1. pc'[p] = pc[p] /\ p # o
    BY DEF IInv, TypeOK
  <2>2. ~IsDirty(p)
    <3>1. op[p].state \in {"waking", "launching", "launched", "running"}
      BY <2>1 DEF IInv, PhaseStates, TypeOK, Phase
    <3> QED
      BY <3>1 DEF IsDirty, DirtyStates
  <2> QED
    BY <1>1, <2>1, <2>2
<1>6. DirtKinds'
  BY <1>1 DEF IInv, DirtKinds, IsDirty, DirtyStates
<1>7. RecheckSettled'
  <2> SUFFICES ASSUME NEW u \in Operator, recheck'[u] # None
               PROVE  /\ recheck'[u] < next'
                      /\ pc'[recheck'[u]] \in {"idle", "drain", "draining"}
    BY DEF RecheckSettled
  <2>1. recheck'[u] = recheck[u]
    BY DEF IInv, TypeOK
  <2>2. /\ recheck[u] \in OpId /\ recheck[u] < next
        /\ pc[recheck[u]] \in {"idle", "drain", "draining"}
    BY <2>1 DEF IInv, TypeOK, RecheckSettled
  <2>3. pc'[recheck[u]] \in {"idle", "drain", "draining"}
    BY <2>2 DEF IInv, TypeOK
  <2> QED
    BY <2>1, <2>2, <2>3 DEF Cleans
<1>8. OneRunAtATime' /\ CleanUnderRun'
  <2>1. \A p \in OpId : InFlight(p)' => /\ InFlight(p)
                                       /\ op'[p].action = op[p].action
                                       /\ op'[p].target = op[p].target
    <3> SUFFICES ASSUME NEW p \in OpId, InFlight(p)'
                 PROVE  InFlight(p) /\ op'[p].action = op[p].action
                                    /\ op'[p].target = op[p].target
      OBVIOUS
    <3>1. CASE op'[p] = op[p]
      BY <3>1 DEF InFlight, IsActive, InStore, IsTerminal
    <3>2. CASE op'[p].action = op[p].action /\ op'[p].target = op[p].target
               /\ op'[p].state = op[p].state
      BY <3>2 DEF InFlight, IsActive, InStore, IsTerminal
    <3>3. CASE op'[p].state \in {"run_complete", "run_failed"}
      BY <3>3 DEF InFlight, IsActive, InStore, IsTerminal, TerminalStates,
                  WatchedTerminal
    <3> QED
      BY <1>1, <3>1, <3>2, <3>3
  <2>2. \A p \in OpId : IsDirty(p)' => IsDirty(p) /\ DirtOf(p)' = DirtOf(p)
    BY <1>1 DEF IsDirty, DirtOf, DirtyStates
  <2> QED
    BY <2>1, <2>2, LockKept DEF IInv
<1> QED
  BY <1>3, <1>4, <1>5, <1>6, <1>7, <1>8 DEF IInv

\* A new operation.
LEMMA CreateStep ==
  ASSUME IInv, NEW a \in Action, NEW t \in Target,
         NEW s \in {"waking", "error"},
         NEW ph \in {"preflight", "wake", "idle"},
         Insert(a, t, s, FALSE), pc' = [pc EXCEPT ![next] = ph],
         ph # "idle" => s = "waking",
         s = "waking" /\ a \in WatchedAction => Blockers(a, t) = {},
         seen' = seen, recheck' = recheck, job' = job, restarts' = restarts
  PROVE  IInv'
<1>1. s \in OperationState /\ ph \in Phase
  BY DEF OperationState, WatchedTerminal, Phase
<1>2. PICK n \in OpId :
        /\ n = next
        /\ StoreTypeOK' /\ next' = n + 1
        /\ op'[n] = NewOperation(a, t, s, FALSE)
        /\ \A p \in OpId : p # n => op'[p] = op[p]
  BY <1>1, InsertEffect, Zenon DEF IInv, TypeOK
<1>3. op[n] = Absent /\ pc[n] = "idle" /\ job[n] = NoJob
  BY <1>2 DEF IInv, Allocated, OpId
<1>4. /\ op'[n].action = a /\ op'[n].target = t /\ op'[n].state = s
      /\ ~IsDirty(n)' /\ ~InFlight(n)
  BY <1>2, <1>3 DEF NewOperation, IsDirty, DirtyStates, InFlight, IsActive,
                    InStore, Absent
<1>5. TypeOK'
  BY <1>1, <1>2 DEF IInv, TypeOK
<1>6. Allocated'
  <2>1. \A p \in OpId : p >= next' => p >= next /\ p # n
    BY <1>2 DEF OpId
  <2> QED
    BY <1>2, <2>1 DEF IInv, Allocated, TypeOK
<1>7. PhaseStates'
  BY <1>2, <1>4 DEF IInv, PhaseStates, TypeOK
<1>8. DirtKinds'
  BY <1>2, <1>4 DEF IInv, DirtKinds, IsDirty, DirtyStates
<1>9. RecheckSettled'
  <2> SUFFICES ASSUME NEW u \in Operator, recheck[u] # None
               PROVE  recheck[u] < next' /\ pc'[recheck[u]] = pc[recheck[u]]
    BY DEF IInv, RecheckSettled
  <2>1. recheck[u] \in OpId /\ recheck[u] < next
    BY DEF IInv, RecheckSettled, TypeOK
  <2> QED
    BY <1>2, <2>1 DEF OpId, IInv, TypeOK
<1>10. OneRunAtATime' /\ CleanUnderRun'
  <2>1. CASE a \in WatchedAction /\ s = "waking"
    BY <1>2, <1>4, <2>1, LockTaken
  <2>2. CASE a \notin WatchedAction \/ s = "error"
    <3>1. ~InFlight(n)'
      BY <1>4, <2>2 DEF InFlight, IsActive, IsTerminal, TerminalStates,
                        WatchedTerminal
    <3>2. \A p \in OpId : InFlight(p)' => /\ InFlight(p)
                                         /\ op'[p].action = op[p].action
                                         /\ op'[p].target = op[p].target
      BY <1>2, <3>1 DEF InFlight, IsActive, InStore, IsTerminal
    <3>3. \A p \in OpId : IsDirty(p)' => IsDirty(p) /\ DirtOf(p)' = DirtOf(p)
      BY <1>2, <1>4 DEF IsDirty, DirtOf
    <3> QED
      BY <3>2, <3>3, LockKept DEF IInv
  <2> QED
    BY <2>1, <2>2
<1> QED
  BY <1>5, <1>6, <1>7, <1>8, <1>9, <1>10 DEF IInv

\* The automatic rollback: the lock passes from the failed deploy o to the
\* rollback n of its run, within one step and without asking.
LEMMA HandOverStep ==
  ASSUME IInv, NEW o \in OpId, NEW n \in OpId, NEW r \in OpId,
         InFlight(o), op[o].action = "deploy", o # n, o < n,
         n = next, next' = n + 1, StoreTypeOK',
         op'[o].action = "deploy", op'[o].run = r,
         op'[o].state = "failed_rollback_required",
         op'[n].action = "rollback", op'[n].target = r,
         op'[n].state = "waking",
         \A p \in OpId : p # o /\ p # n => op'[p] = op[p],
         pc' = [pc EXCEPT ![o] = "idle", ![n] = "wake"],
         pc[o] = "watch",
         seen' = seen, recheck' = recheck, job' = job, restarts' = restarts
  PROVE  IInv'
<1>1. /\ pc'[o] = "idle" /\ pc'[n] = "wake"
      /\ \A p \in OpId : p # o /\ p # n => pc'[p] = pc[p]
  BY DEF IInv, TypeOK
<1>2. TypeOK'
  BY DEF IInv, TypeOK, Phase
<1>3. Allocated'
  <2>1. \A p \in OpId : p >= next' => p >= next /\ p # n /\ p # o
    BY DEF OpId
  <2> QED
    BY <1>1, <2>1 DEF IInv, Allocated
<1>4. PhaseStates'
  <2> SUFFICES ASSUME NEW p \in OpId PROVE PhaseFits(pc'[p], op'[p])
    BY DEF PhaseStates, PhaseFits
  <2>1. CASE p = o
    BY <1>1, <2>1 DEF PhaseFits
  <2>2. CASE p = n
    BY <1>1, <2>2 DEF PhaseFits
  <2>3. CASE p # o /\ p # n
    <3>1. PhaseFits(pc[p], op[p])
      BY DEF IInv, PhaseStates, PhaseFits
    <3> QED
      BY <1>1, <2>3, <3>1
  <2> QED
    BY <2>1, <2>2, <2>3
<1>5. DirtKinds'
  <2> SUFFICES ASSUME NEW p \in OpId PROVE DirtFits(op'[p])
    BY DEF DirtKinds, DirtFits, IsDirty
  <2>1. CASE p = o
    BY <2>1 DEF DirtFits, WatchedAction
  <2>2. CASE p = n
    BY <2>2 DEF DirtFits, DirtyStates
  <2>3. CASE p # o /\ p # n
    BY <2>3 DEF IInv, DirtKinds, IsDirty, DirtFits
  <2> QED
    BY <2>1, <2>2, <2>3
<1>6. RecheckSettled'
  <2> SUFFICES ASSUME NEW u \in Operator, recheck[u] # None
               PROVE  recheck[u] < next' /\ pc'[recheck[u]] = pc[recheck[u]]
    BY DEF IInv, RecheckSettled
  <2>1. recheck[u] \in OpId /\ recheck[u] < next /\ recheck[u] # o
    BY DEF IInv, RecheckSettled, TypeOK
  <2>2. recheck[u] # n /\ recheck[u] < next'
    BY <2>1, StoreAssumption DEF OpId
  <2> QED
    BY <1>1, <2>1, <2>2
<1>7. \A p \in OpId : InFlight(p)' => p = n
  <2>1. ~InFlight(o)'
    BY DEF InFlight, IsActive, IsTerminal, TerminalStates,
           WatchedTerminal, DirtyStates
  <2>2. \A p \in OpId : p # o => ~InFlight(p)
    BY DEF IInv, OneRunAtATime
  <2> QED
    BY <2>1, <2>2 DEF InFlight, IsActive, InStore, IsTerminal
<1>8. \A p \in OpId : IsDirty(p)' => DirtOf(p)' = r
  <2>1. \A p \in OpId : ~IsDirty(p)
    BY DEF IInv, CleanUnderRun
  <2>2. DirtOf(o)' = r
    BY DEF DirtOf
  <2>3. ~IsDirty(n)'
    BY DEF IsDirty, DirtyStates
  <2> QED
    BY <2>1, <2>2, <2>3 DEF IsDirty
<1>9. OneRunAtATime' /\ CleanUnderRun'
  BY <1>7, <1>8 DEF OneRunAtATime, CleanUnderRun
<1> QED
  BY <1>2, <1>3, <1>4, <1>5, <1>6, <1>9 DEF IInv

\* _maybe_auto_trigger_rollback, when it dispatches.
LEMMA TriggerStep ==
  ASSUME IInv, NEW o \in OpId, pc[o] = "watch", op[o].action = "deploy",
         op[o].run # None, next <= MaxOps,
         op' = [op EXCEPT
                  ![o] = [op[o] EXCEPT !.state = "failed_rollback_required",
                                       !.autoStatus = "triggered"],
                  ![next] = NewOperation("rollback", op[o].run, "waking",
                                         TRUE)],
         next' = next + 1, Touch({o, next}),
         pc' = [pc EXCEPT ![o] = "idle", ![next] = "wake"],
         seen' = seen, recheck' = recheck, job' = job, restarts' = restarts
  PROVE  IInv'
<1>1. PICK n \in OpId : n = next /\ next' = n + 1 /\ n + 1 \in 1..(MaxOps + 1)
  BY StoreAssumption DEF IInv, TypeOK, StoreTypeOK, OpId
<1>2. op[o] \in Operation /\ InFlight(o) /\ o < next /\ o # n
  BY <1>1, MovingIsActive DEF WatchedAction, OpId
<1> DEFINE r == op[o].run
           old == [op[o] EXCEPT !.state = "failed_rollback_required",
                                !.autoStatus = "triggered"]
           new == NewOperation("rollback", r, "waking", TRUE)
<1>3. r \in OpId
  BY <1>2 DEF Operation
<1>4. /\ old \in Operation /\ old.action = "deploy" /\ old.run = r
      /\ old.state = "failed_rollback_required"
  BY <1>2 DEF Operation, OperationState, WatchedTerminal, DirtyStates
<1>5. new \in Operation
  <2>1. \A b \in BOOLEAN : NewOperation("rollback", r, "waking", b) \in Operation
    BY <1>3 DEF NewOperation, Operation, Target, Action, OperationState
  <2> QED
    BY <2>1, Zenon
<1>6. new.action = "rollback" /\ new.target = r /\ new.state = "waking"
  BY DEF NewOperation
<1> HIDE DEF old, new
<1>7. /\ op'[o] = old /\ op'[n] = new
      /\ \A p \in OpId : p # o /\ p # n => op'[p] = op[p]
  BY <1>1, <1>2 DEF IInv, TypeOK, StoreTypeOK, old, new
<1>8. StoreTypeOK'
  <2>1. op' \in [OpId -> Operation \cup {Absent}]
    BY <1>1, <1>4, <1>5 DEF IInv, TypeOK, StoreTypeOK, old, new
  <2>2. older' \in SUBSET (OpId \X OpId)
    BY <1>1 DEF IInv, TypeOK, StoreTypeOK, Touch
  <2> QED
    BY <1>1, <2>1, <2>2 DEF StoreTypeOK
<1>9. /\ op'[o].action = "deploy" /\ op'[o].run = r
      /\ op'[o].state = "failed_rollback_required"
      /\ op'[n].action = "rollback" /\ op'[n].target = r
      /\ op'[n].state = "waking"
  BY <1>4, <1>6, <1>7
<1>10. pc' = [pc EXCEPT ![o] = "idle", ![n] = "wake"] /\ o < n
  BY <1>1, <1>2
<1> HIDE DEF r
<1> QED
  BY <1>1, <1>2, <1>3, <1>7, <1>8, <1>9, <1>10, HandOverStep, Zenon

\* A step of AWX, or one that forgets operations.
LEMMA OutsideStep ==
  ASSUME IInv,
         op' \in [OpId -> Operation \cup {Absent}],
         \A p \in OpId : op'[p] \in {op[p], Absent},
         \A p \in OpId : op'[p] = Absent => pc'[p] \in {"idle", "drain", "draining"},
         older' \in SUBSET (OpId \X OpId),
         next' \in 1..(MaxOps + 1), next <= next',
         pc' = pc \/ pc' = [p \in OpId |-> "idle"],
         seen' \in [OpId -> BOOLEAN],
         recheck' = recheck \/ recheck' = [u \in Operator |-> None],
         restarts' \in 0..MaxRestarts,
         job' \in [OpId -> Job \cup {NoJob}],
         \A j \in OpId : j >= next' => job'[j] = job[j]
  PROVE  IInv'
<1>1. \A p \in OpId : p >= next' => p >= next
  BY DEF OpId, IInv, TypeOK, StoreTypeOK
<1>2. TypeOK'
  BY DEF IInv, TypeOK, StoreTypeOK, Phase
<1>3. Allocated'
  BY <1>1 DEF IInv, Allocated
<1>4. PhaseStates'
  BY DEF IInv, PhaseStates
<1>5. DirtKinds'
  BY DEF IInv, DirtKinds, IsDirty, DirtyStates, Absent
<1>6. RecheckSettled'
  <2> SUFFICES ASSUME NEW u \in Operator, recheck'[u] # None
               PROVE  /\ recheck'[u] < next'
                      /\ pc'[recheck'[u]] \in {"idle", "drain", "draining"}
    BY DEF RecheckSettled
  <2>1. recheck'[u] = recheck[u]
    OBVIOUS
  <2>2. /\ recheck[u] \in OpId /\ recheck[u] < next
        /\ pc[recheck[u]] \in {"idle", "drain", "draining"}
    BY <2>1 DEF IInv, TypeOK, RecheckSettled
  <2>3. recheck[u] < next'
    BY <2>2, StoreAssumption DEF IInv, TypeOK, StoreTypeOK, OpId
  <2>4. pc'[recheck[u]] \in {"idle", "drain", "draining"}
    BY <2>2 DEF IInv, TypeOK
  <2> QED
    BY <2>1, <2>3, <2>4
<1>7. \A p \in OpId : InFlight(p)' => /\ InFlight(p)
                                     /\ op'[p].action = op[p].action
                                     /\ op'[p].target = op[p].target
  BY DEF InFlight, IsActive, InStore, IsTerminal, Absent
<1>8. \A p \in OpId : IsDirty(p)' => IsDirty(p) /\ DirtOf(p)' = DirtOf(p)
  BY DEF IsDirty, DirtOf, Absent, DirtyStates
<1>9. OneRunAtATime' /\ CleanUnderRun'
  BY <1>7, <1>8, LockKept DEF IInv
<1> QED
  BY <1>2, <1>3, <1>4, <1>5, <1>6, <1>9 DEF IInv

-----------------------------------------------------------------------------
(* The actions.                                                            *)

\* Every request that creates an operation.
LEMMA RequestKeeps == ASSUME IInv, Request PROVE IInv'
<1> DEFINE Adm(a, t, ph) ==
      /\ Admit(a, t, ph)
      /\ UNCHANGED <<seen, recheck, job, restarts>>
<1>1. ASSUME NEW a \in Action, NEW t \in Target,
             NEW ph \in {"preflight", "wake"}, Adm(a, t, ph)
      PROVE  IInv'
  <2>1. CASE Blockers(a, t) = {}
    BY <1>1, <2>1, CreateStep DEF Admit, Move
  <2>2. CASE Blockers(a, t) # {}
    <3>1. Insert(a, t, "error", FALSE) /\ pc' = pc
      BY <1>1, <2>2 DEF Admit
    <3>2. PICK n \in OpId : n = next
      BY <3>1, StoreAssumption DEF Insert, IInv, TypeOK, StoreTypeOK, OpId
    <3>3. pc[n] = "idle"
      BY <3>2 DEF IInv, Allocated, OpId
    <3>4. pc' = [pc EXCEPT ![next] = "idle"]
      BY <3>1, <3>2, <3>3 DEF IInv, TypeOK
    <3> QED
      BY <1>1, <3>1, <3>4, CreateStep
  <2> QED
    BY <2>1, <2>2
<1>2. ASSUME NEW k \in Key, RequestDeploy(k) PROVE IInv'
  BY <1>1, <1>2 DEF RequestDeploy, Action, Target
<1>3. ASSUME NEW k \in Key, RequestTeardown(k) PROVE IInv'
  BY <1>1, <1>3 DEF RequestTeardown, Action, Target
<1>4. ASSUME NEW s \in Slug, RequestPurge(s) PROVE IInv'
  BY <1>1, <1>4 DEF RequestPurge, Action, Target
<1>5. ASSUME NEW r \in OpId, RequestRollback(r) PROVE IInv'
  BY <1>5, CreateStep DEF RequestRollback, Move, Action, Target
<1>6. ASSUME NEW w \in Workflow, RequestLaunch(w) PROVE IInv'
  BY <1>6, CreateStep DEF RequestLaunch, Move, Action, Target, WatchedAction
<1> QED
  BY <1>2, <1>3, <1>4, <1>5, <1>6 DEF Request

\* The deploy request between its operation and its task.
LEMMA PreflightKeeps ==
  ASSUME IInv, NEW o \in OpId, Preflight(o) PROVE IInv'
<1>1. CASE PreflightPass(o)
  BY <1>1, StillStep
  DEF PreflightPass, Move, IInv, TypeOK, Phase, PhaseFits, PhaseStates
<1>2. CASE PreflightRaise(o)
  BY <1>2, StillStep
  DEF PreflightRaise, Move, IInv, TypeOK, Phase, PhaseFits
<1>3. CASE PreflightRefuse(o)
  BY <1>3, EndStep DEF PreflightRefuse, Move
<1> QED
  BY <1>1, <1>2, <1>3 DEF Preflight

\* The place of a coroutine and what IInv says of its operation.
LEMMA PlaceOf ==
  ASSUME IInv, NEW o \in OpId
  PROVE  PhaseFits(pc[o], op[o]) /\ pc[o] \in Phase /\ DirtFits(op[o])
BY DEF IInv, TypeOK, PhaseStates, PhaseFits, DirtKinds, DirtFits, IsDirty

\* The operation a task hands to its watcher (or to nobody) is well formed.
LEMMA LaunchedShape ==
  ASSUME NEW x \in Operation, NEW j \in OpId, NEW r \in OpId \cup {None}
  PROVE  /\ [x EXCEPT !.state = "launched", !.job = j] \in Operation
         /\ [x EXCEPT !.state = "launched", !.job = j, !.run = r]
              \in Operation
<1>1. "launched" \in OperationState
  BY DEF OperationState
<1>2. [x EXCEPT !.state = "launched", !.job = j] \in Operation
  BY <1>1 DEF Operation
<1>3. [x EXCEPT !.state = "launched", !.job = j, !.run = r] \in Operation
  BY <1>1 DEF Operation
<1> QED
  BY <1>2, <1>3

\* FindActiveJob, LaunchJob: the operation becomes LAUNCHED under job j, and
\* is watched if its action is tracked.
LEMMA LaunchedStep ==
  ASSUME IInv, NEW o \in OpId, NEW j \in OpId, NEW r \in OpId \cup {None},
         pc[o] \in {"lookup", "launch"}, JobsFit({o}),
         \/ /\ Update(o, [op[o] EXCEPT !.state = "launched", !.job = j])
            /\ pc' = [pc EXCEPT ![o] = "idle"]
         \/ /\ op[o].action # "launch"
            /\ Update(o, [op[o] EXCEPT !.state = "launched", !.job = j,
                                       !.run = r])
            /\ pc' = [pc EXCEPT ![o] = "watch"],
         seen' = seen, recheck' = recheck, restarts' = restarts
  PROVE  IInv'
<1>1. op[o] \in Operation
  BY MovingIsActive
<1>2. seen' \in [OpId -> BOOLEAN] /\ "idle" \in Phase /\ "watch" \in Phase
  BY DEF IInv, TypeOK, Phase
<1>3. ASSUME NEW new \in Operation, NEW ph \in {"idle", "watch"},
             new.state = "launched", new.action = op[o].action,
             new.target = op[o].target,
             ph = "watch" => op[o].action # "launch",
             Update(o, new), pc' = [pc EXCEPT ![o] = ph]
      PROVE  IInv'
  <2>1. op[o].action # "launch" => op[o].action \in WatchedAction
    BY <1>1 DEF Operation, Action, WatchedAction
  <2>2. PhaseFits(ph, new)
    BY <1>3, <2>1 DEF PhaseFits
  <2>3. DirtFits(new)
    BY <1>3 DEF DirtFits, DirtyStates
  <2> QED
    BY <1>2, <1>3, <2>2, <2>3, TaskStep
<1>4. CASE /\ Update(o, [op[o] EXCEPT !.state = "launched", !.job = j])
           /\ pc' = [pc EXCEPT ![o] = "idle"]
  <2> DEFINE new == [op[o] EXCEPT !.state = "launched", !.job = j]
  <2>1. new \in Operation
    BY <1>1, LaunchedShape
  <2>2. /\ new.state = "launched" /\ new.action = op[o].action
        /\ new.target = op[o].target
    BY <1>1 DEF Operation
  <2> HIDE DEF new
  <2> QED
    BY <1>3, <1>4, <2>1, <2>2 DEF new
<1>5. CASE /\ op[o].action # "launch"
           /\ Update(o, [op[o] EXCEPT !.state = "launched", !.job = j,
                                      !.run = r])
           /\ pc' = [pc EXCEPT ![o] = "watch"]
  <2> DEFINE new == [op[o] EXCEPT !.state = "launched", !.job = j, !.run = r]
  <2>1. new \in Operation
    BY <1>1, LaunchedShape
  <2>2. /\ new.state = "launched" /\ new.action = op[o].action
        /\ new.target = op[o].target
    BY <1>1 DEF Operation
  <2> HIDE DEF new
  <2> QED
    BY <1>3, <1>5, <2>1, <2>2 DEF new
<1> QED
  BY <1>4, <1>5

\* What a launch request of o may become in AWX.
Launches(o) == {LaunchedJob(o), StrayLaunch(o)}

LEMMA LaunchFields ==
  ASSUME NEW o \in OpId, NEW l \in Launches(o)
  PROVE  /\ l.action = op[o].action /\ l.target = op[o].target
         /\ op[o].action = "deploy" => l.run = o
         /\ l.marker = "none" /\ l.status \in {"posted", "pending"}
<1>1. CASE l = LaunchedJob(o)
  BY <1>1 DEF LaunchedJob
<1>2. CASE l = StrayLaunch(o)
  BY <1>2 DEF LaunchedJob, StrayLaunch
<1> QED
  BY <1>1, <1>2 DEF Launches

LEMMA LaunchShape ==
  ASSUME NEW o \in OpId, op[o] \in Operation, NEW l \in Launches(o)
  PROVE  l \in Job
<1>1. LaunchedJob(o) \in Job
  <2>1. /\ op[o].action \in Action /\ op[o].target \in Target
        /\ \A r \in OpId \cup {None} :
             [action |-> op[o].action, target |-> op[o].target, run |-> r,
              by |-> "console", status |-> "pending", marker |-> "none"] \in Job
    BY DEF Operation, Job
  <2>2. (IF op[o].action = "deploy" THEN o ELSE None) \in OpId \cup {None}
    OBVIOUS
  <2> QED
    BY <2>1, <2>2, Zenon DEF LaunchedJob
<1>2. StrayLaunch(o) \in Job
  BY <1>1 DEF StrayLaunch, Job
<1> QED
  BY <1>1, <1>2 DEF Launches

\* A console launch is a job at the launching operation's own id.
LEMMA LaunchFits ==
  ASSUME IInv, NEW o \in OpId, op[o] \in Operation, NEW l \in Launches(o),
         job' = [job EXCEPT ![o] = l]
  PROVE  JobsFit({o})
  BY LaunchShape DEF JobsFit, IInv, TypeOK

\* The background task, from its first await to the launch.
LEMMA DispatchKeeps ==
  ASSUME IInv, NEW o \in OpId, Dispatch(o) PROVE IInv'
<1>1. JobsFit({o}) \/ job' # job
  BY DEF JobsFit, IInv, TypeOK
<1>2. CASE EnsureAwake(o)
  <2> DEFINE ph == IF op[o].action \in {"rollback", "finalise-purge"}
                     THEN "launch" ELSE "lookup"
             new == [op[o] EXCEPT !.state = "launching"]
  <2>1. /\ pc[o] = "wake" /\ SetState(o, "launching")
        /\ pc' = [pc EXCEPT ![o] = ph]
        /\ seen' = seen /\ recheck' = recheck /\ job' = job
        /\ restarts' = restarts
    BY <1>2 DEF EnsureAwake, Move
  <2>2. op[o] \in Operation
    BY <2>1, MovingIsActive
  <2>3. new.state = "launching" /\ new.action = op[o].action
    BY <2>2 DEF Operation
  <2>4. PhaseFits(ph, new)
    <3>1. op[o].action \in Action
      BY <2>2 DEF Operation
    <3> HIDE DEF new
    <3> QED
      BY <2>3, <3>1 DEF PhaseFits, Action
  <2>5. DirtFits(new)
    BY <2>3 DEF DirtFits, DirtyStates
  <2>6. /\ "launching" \in OperationState /\ ph \in Phase
        /\ seen' \in [OpId -> BOOLEAN]
    BY <2>1 DEF OperationState, Phase, IInv, TypeOK
  <2> HIDE DEF ph
  <2> QED
    BY <2>1, <2>4, <2>5, <2>6, StateStep
<1>3. CASE TaskFails(o)
  BY <1>3, EndStep DEF TaskFails, Move
<1>4. CASE FindActiveJob(o)
  <2>1. /\ pc[o] = "lookup" /\ op[o].state = "launching"
        /\ op[o].action \in {"launch", "deploy", "teardown"}
        /\ seen' = seen /\ recheck' = recheck /\ job' = job
        /\ restarts' = restarts
    BY <1>4 DEF FindActiveJob, IInv, PhaseStates
  <2>2. CASE /\ UNCHANGED storeVars
             /\ Move(o, IF op[o].action = "launch" THEN "launch"
                                                   ELSE "opposite")
    <3> DEFINE ph == IF op[o].action = "launch" THEN "launch" ELSE "opposite"
    <3>1. PhaseFits(ph, op[o]) /\ ph \in Phase
      BY <2>1 DEF PhaseFits, Phase
    <3>2. pc' = [pc EXCEPT ![o] = ph] /\ seen' \in [OpId -> BOOLEAN]
      BY <2>1, <2>2 DEF Move, IInv, TypeOK
    <3> HIDE DEF ph
    <3> QED
      BY <2>1, <2>2, <3>1, <3>2, StillStep
  <2>3. CASE \E j \in OpId, r \in OpId \cup {None} :
               \/ /\ Update(o, [op[o] EXCEPT !.state = "launched", !.job = j])
                  /\ pc' = [pc EXCEPT ![o] = "idle"]
               \/ /\ op[o].action # "launch"
                  /\ Update(o, [op[o] EXCEPT !.state = "launched",
                                             !.job = j, !.run = r])
                  /\ pc' = [pc EXCEPT ![o] = "watch"]
    <3>1. JobsFit({o})
      BY <1>1, <2>1
    <3> QED
      BY <2>1, <2>3, <3>1, LaunchedStep
  <2>4. \A j \in ActiveJobs(op[o].action, op[o].target) :
          j \in OpId /\ job[j].run \in OpId \cup {None}
    BY DEF ActiveJobs, IInv, TypeOK, Job, NoJob
  <2> QED
    BY <1>4, <2>2, <2>3, <2>4 DEF FindActiveJob, Move
<1>5. CASE CheckOpposite(o)
  <2>1. pc[o] = "opposite" /\ op[o].state = "launching"
    BY <1>5 DEF CheckOpposite, IInv, PhaseStates
  <2>2. CASE Move(o, "launch") /\ UNCHANGED storeVars
    BY <1>5, <2>1, <2>2, StillStep
    DEF CheckOpposite, Move, PhaseFits, Phase, IInv, TypeOK
  <2>3. CASE SetState(o, "error") /\ Move(o, "idle")
    BY <1>5, <2>1, <2>3, EndStep DEF CheckOpposite, Move
  <2> QED
    BY <1>5, <2>2, <2>3 DEF CheckOpposite
<1>6. CASE LaunchJob(o)
  <2>1. op[o] \in Operation /\ pc[o] = "launch"
    BY <1>6, MovingIsActive DEF LaunchJob
  <2>2. JobsFit({o})
    BY <1>6, <2>1, LaunchFits DEF LaunchJob, Launches
  <2> QED
    BY <1>6, <2>1, <2>2, LaunchedStep DEF LaunchJob, Move
<1>7. CASE LaunchAnswerLost(o)
  <2>1. op[o] \in Operation /\ pc[o] = "launch"
    BY <1>7, MovingIsActive DEF LaunchAnswerLost
  <2>2. JobsFit({o})
    BY <1>7, <2>1, LaunchFits DEF LaunchAnswerLost, Launches
  <2> DEFINE new == [op[o] EXCEPT !.state = "error"]
  <2>3. Update(o, new)
    BY <1>7 DEF LaunchAnswerLost, SetState
  <2>4. new \in Operation
    BY <2>1, OperationShape, Zenon DEF OperationState, WatchedTerminal
  <2>5. /\ new.state = "error" /\ new.action = op[o].action
        /\ new.target = op[o].target
    BY <2>1 DEF Operation
  <2> HIDE DEF new
  <2>6. PhaseFits("idle", new) /\ DirtFits(new)
    BY <2>5 DEF PhaseFits, DirtFits, DirtyStates
  <2>7. /\ "idle" \in Phase /\ seen' \in [OpId -> BOOLEAN]
        /\ pc' = [pc EXCEPT ![o] = "idle"]
        /\ recheck' = recheck /\ restarts' = restarts
    BY <1>7 DEF LaunchAnswerLost, Move, Phase, IInv, TypeOK
  <2> QED
    BY <2>1, <2>2, <2>3, <2>4, <2>5, <2>6, <2>7, TaskStep
<1> QED
  BY <1>2, <1>3, <1>4, <1>5, <1>6, <1>7 DEF Dispatch

\* A watched operation may end in any state its action knows.
LEMMA WatchEndStep ==
  ASSUME IInv, NEW o \in OpId, NEW s \in WatchedTerminal,
         NEW ph \in {"idle", "drain"}, pc[o] = "watch",
         s = "rollback_incomplete" => op[o].action = "rollback",
         SetState(o, s), pc' = [pc EXCEPT ![o] = ph],
         seen' = seen, job' = job, recheck' = recheck, restarts' = restarts
  PROVE  IInv'
<1>1. op[o] \in Operation /\ op[o].action \in WatchedAction
  BY MovingIsActive DEF IInv, PhaseStates
<1> DEFINE new == [op[o] EXCEPT !.state = s]
<1>2. new.state = s /\ new.action = op[o].action
  BY <1>1 DEF Operation
<1>3. PhaseFits(ph, new)
  BY DEF PhaseFits
<1>4. DirtFits(new)
  <2> HIDE DEF new
  <2> QED
    BY <1>1, <1>2 DEF DirtFits
<1>5. /\ s \in OperationState /\ ph \in Phase /\ seen' \in [OpId -> BOOLEAN]
  BY DEF OperationState, Phase, IInv, TypeOK
<1> QED
  BY <1>3, <1>4, <1>5, StateStep

\* A failed deploy for which no rollback is dispatched.
LEMMA FailedDeployStep ==
  ASSUME IInv, NEW o \in OpId,
         NEW status \in {"identity-unknown", "disabled",
                         "already-in-progress"},
         pc[o] = "watch", op[o].action = "deploy",
         Update(o, [op[o] EXCEPT !.state = "failed_rollback_required",
                                 !.autoStatus = status]),
         pc' = [pc EXCEPT ![o] = "idle"],
         seen' = seen, job' = job, recheck' = recheck, restarts' = restarts
  PROVE  IInv'
<1>1. op[o] \in Operation
  BY MovingIsActive
<1> DEFINE new == [op[o] EXCEPT !.state = "failed_rollback_required",
                                !.autoStatus = status]
<1>2. new \in Operation
  BY <1>1 DEF Operation, OperationState, WatchedTerminal, DirtyStates
<1>3. /\ new.state = "failed_rollback_required" /\ new.action = op[o].action
      /\ new.target = op[o].target
  BY <1>1 DEF Operation
<1> HIDE DEF new
<1>4. PhaseFits("idle", new) /\ DirtFits(new)
  BY <1>3 DEF PhaseFits, DirtFits, WatchedAction
<1>5. JobsFit({o}) /\ "idle" \in Phase /\ seen' \in [OpId -> BOOLEAN]
  BY DEF JobsFit, IInv, TypeOK, Phase
<1> QED
  BY <1>2, <1>3, <1>4, <1>5, TaskStep DEF new

\* The watcher.
LEMMA WatchKeeps == ASSUME IInv, NEW o \in OpId, Watch(o) PROVE IInv'
<1>1. CASE PollLive(o)
  <2>1. /\ pc[o] = "watch" /\ pc' = [pc EXCEPT ![o] = "watch"]
        /\ seen' \in [OpId -> BOOLEAN] /\ "watch" \in Phase
        /\ recheck' = recheck /\ job' = job /\ restarts' = restarts
        /\ PhaseFits("watch", op[o])
    <3>1. seen[o] \in BOOLEAN /\ Started(op[o].job) \in BOOLEAN
      BY DEF IInv, TypeOK, Started
    <3>2. seen' \in [OpId -> BOOLEAN]
      BY <1>1, <3>1 DEF PollLive, IInv, TypeOK
    <3> QED
      BY <1>1, <3>2, PlaceOf DEF PollLive, Watching, IInv, TypeOK
  <2>2. CASE UNCHANGED storeVars
    BY <2>1, <2>2, StillStep
  <2>3. CASE SetState(o, "running")
    <3> DEFINE new == [op[o] EXCEPT !.state = "running"]
    <3>1. op[o] \in Operation
      BY <2>1, MovingIsActive
    <3>2. new.state = "running" /\ new.action = op[o].action
      BY <3>1 DEF Operation
    <3>3. PhaseFits("watch", new) /\ DirtFits(new)
      <4> HIDE DEF new
      <4> QED
        BY <2>1, <3>2 DEF PhaseFits, DirtFits, DirtyStates
    <3>4. "running" \in OperationState
      BY DEF OperationState
    <3> QED
      BY <2>1, <2>3, <3>3, <3>4, StateStep
  <2> QED
    BY <1>1, <2>2, <2>3 DEF PollLive
<1>2. CASE WatchGivesUp(o)
  BY <1>2, WatchEndStep
  DEF WatchGivesUp, Watching, Move, LostTerminalState, WatchedTerminal,
      DirtyStates
<1>3. CASE DeployEnds(o)
  <2>1. /\ pc[o] = "watch" /\ op[o].action = "deploy"
        /\ seen' = seen /\ recheck' = recheck /\ job' = job
        /\ restarts' = restarts
    BY <1>3 DEF DeployEnds, Watching
  <2>2. CASE AutoTrigger(o)
    <3> DEFINE none == op[o].run = None
               taken == FindActive("rollback", op[o].run) # {}
    <3>1. CASE none
      BY <2>1, <2>2, <3>1, FailedDeployStep DEF AutoTrigger, Move
    <3>2. CASE ~none /\ ~AutoRollback
      BY <2>1, <2>2, <3>2, FailedDeployStep DEF AutoTrigger, Move
    <3>3. CASE ~none /\ AutoRollback /\ taken
      BY <2>1, <2>2, <3>3, FailedDeployStep DEF AutoTrigger, Move
    <3>4. CASE ~none /\ AutoRollback /\ ~taken
      <4>1. /\ next <= MaxOps
            /\ op' = [op EXCEPT
                  ![o] = [op[o] EXCEPT !.state = "failed_rollback_required",
                                       !.autoStatus = "triggered"],
                  ![next] = NewOperation("rollback", op[o].run, "waking",
                                         TRUE)]
            /\ next' = next + 1 /\ Touch({o, next})
            /\ pc' = [pc EXCEPT ![o] = "idle", ![next] = "wake"]
        BY <2>2, <3>4, Zenon DEF AutoTrigger
      <4> QED
        BY <2>1, <3>4, <4>1, TriggerStep, Zenon
    <3> QED
      BY <3>1, <3>2, <3>3, <3>4
  <2>3. CASE \E s \in {"run_complete", "run_failed"} :
               SetState(o, s) /\ Move(o, "idle")
    BY <2>1, <2>3, EndStep DEF Move
  <2> QED
    BY <1>3, <2>2, <2>3 DEF DeployEnds, DeployEnd
<1>4. CASE TeardownEnds(o)
  BY <1>4, EndStep DEF TeardownEnds, Watching, Move
<1>5. CASE RollbackEnds(o)
  BY <1>5, WatchEndStep
  DEF RollbackEnds, Watching, Move, RollbackEnd, WatchedTerminal, DirtyStates
<1>6. CASE PurgeEnds(o)
  BY <1>6, WatchEndStep
  DEF PurgeEnds, Watching, Move, WatchedTerminal, DirtyStates
<1> QED
  BY <1>1, <1>2, <1>3, <1>4, <1>5, <1>6 DEF Watch

\* Marking an operation pending or verified cleans.
LEMMA MarksClean ==
  ASSUME IInv, NEW o \in OpId, NEW r,
         MarkPending(o) \/ MarkVerified(o, r) \/ UNCHANGED storeVars
  PROVE  Cleans(o)
<1>1. StoreTypeOK
  BY DEF IInv, TypeOK
<1>2. CASE UNCHANGED storeVars
  BY <1>1, <1>2 DEF storeVars, StoreTypeOK, Cleans
<1>3. CASE MarkPending(o)
  BY <1>1, <1>3, MarkPendingEffect, Zenon DEF Cleans
<1>4. CASE MarkVerified(o, r)
  BY <1>1, <1>4, MarkVerifiedEffect, Zenon DEF Cleans
<1> QED
  BY <1>2, <1>3, <1>4

\* The drain verification of a rollback's own task.
LEMMA DrainKeeps == ASSUME IInv, NEW o \in OpId, Drain(o) PROVE IInv'
<1>1. /\ pc[o] \in {"drain", "draining"}
      /\ seen' = seen /\ recheck' = recheck /\ job' = job
      /\ restarts' = restarts
  BY DEF Drain, DrainBegins, DrainGivesUp, DrainGone, DrainVerified
<1>2. CASE UNCHANGED storeVars /\ Move(o, "draining")
  BY <1>1, <1>2, StillStep DEF Move, PhaseFits, Phase, IInv, TypeOK
<1>3. CASE /\ \/ MarkPending(o) \/ MarkVerified(o, RunOf(o))
              \/ UNCHANGED storeVars
           /\ Move(o, "idle")
  <2>1. Cleans(o)
    BY <1>3, MarksClean, Zenon
  <2> QED
    BY <1>1, <1>3, <2>1, CleaningStep DEF Move
<1> QED
  BY <1>2, <1>3
  DEF Drain, DrainBegins, DrainGivesUp, DrainGone, DrainVerified

\* The drain verification an operator asks for.
LEMMA RecheckKeeps == ASSUME IInv, Recheck PROVE IInv'
<1>1. ASSUME NEW u \in Operator, NEW o \in OpId, RecheckBegins(u, o)
      PROVE  IInv'
  <2>1. /\ recheck' = [recheck EXCEPT ![u] = o]
        /\ UNCHANGED <<storeVars, pc, seen, job, restarts>>
        /\ op[o].state = "rollback_incomplete"
    BY <1>1 DEF RecheckBegins
  <2>2. o < next /\ pc[o] \in {"idle", "drain", "draining"}
    <3>1. op[o] # Absent
      BY <2>1 DEF Absent
    <3>2. ~(o >= next)
      BY <3>1 DEF IInv, Allocated
    <3>3. o \in Nat /\ next \in Nat
      BY StoreAssumption DEF OpId, IInv, TypeOK, StoreTypeOK
    <3> QED
      BY <2>1, <3>2, <3>3 DEF IInv, PhaseStates, TypeOK, Phase
  <2>3. TypeOK'
    BY <2>1 DEF IInv, TypeOK, StoreTypeOK, storeVars
  <2>4. Allocated' /\ PhaseStates' /\ DirtKinds'
    BY <2>1 DEF IInv, Allocated, PhaseStates, DirtKinds, IsDirty, storeVars
  <2>5. RecheckSettled'
    BY <2>1, <2>2 DEF IInv, TypeOK, RecheckSettled, storeVars
  <2>6. OneRunAtATime' /\ CleanUnderRun'
    BY <2>1 DEF IInv, OneRunAtATime, CleanUnderRun, InFlight, IsActive,
                InStore, IsTerminal, IsDirty, DirtOf, storeVars
  <2> QED
    BY <2>3, <2>4, <2>5, <2>6 DEF IInv
<1>2. ASSUME NEW u \in Operator, RecheckEnds(u) PROVE IInv'
  <2>1. PICK o \in OpId : o = recheck[u]
    BY <1>2 DEF RecheckEnds, IInv, TypeOK
  <2>2. pc[o] \in {"idle", "drain", "draining"}
    BY <1>2, <2>1 DEF RecheckEnds, IInv, RecheckSettled
  <2>3. Cleans(o)
    BY <1>2, <2>1, MarksClean, Zenon DEF RecheckEnds
  <2>4. /\ recheck' = [recheck EXCEPT ![u] = None]
        /\ pc' = pc /\ seen' = seen /\ job' = job /\ restarts' = restarts
    BY <1>2 DEF RecheckEnds
  <2> QED
    BY <2>2, <2>3, <2>4, CleaningStep
<1> QED
  BY <1>1, <1>2 DEF Recheck

\* Expiry, restarts and AWX change nothing the lock is computed from, but to
\* forget it.
LEMMA ExpireKeeps == ASSUME IInv, NEW o \in OpId, Expire(o) PROVE IInv'
<1>1. /\ InStore(o) /\ IsTerminal(o)
      /\ op' = [op EXCEPT ![o] = Absent]
      /\ older' \in SUBSET (OpId \X OpId) /\ next' = next
      /\ UNCHANGED <<pc, seen, recheck, job, restarts>>
  BY DEF Expire, Collect, IInv, TypeOK, StoreTypeOK
<1>2. pc[o] \in {"idle", "drain", "draining"}
  BY <1>1, MovingIsActive DEF IsActive
<1>3. \A p \in OpId : op'[p] = Absent => pc[p] \in {"idle", "drain", "draining"}
  <2> SUFFICES ASSUME NEW p \in OpId, op[p] = Absent, p # o
               PROVE  pc[p] \in {"idle", "drain", "draining"}
    BY <1>1, <1>2 DEF IInv, TypeOK, StoreTypeOK
  <2>1. ~IsActive(p)
    BY DEF IsActive, InStore, Absent
  <2> QED
    BY <2>1, MovingIsActive
<1>4. \A p \in OpId : op'[p] \in {op[p], Absent}
  BY <1>1 DEF IInv, TypeOK, StoreTypeOK
<1>5. /\ op' \in [OpId -> Operation \cup {Absent}]
      /\ next' \in 1..(MaxOps + 1) /\ next <= next'
      /\ seen' \in [OpId -> BOOLEAN] /\ restarts' \in 0..MaxRestarts
      /\ job' \in [OpId -> Job \cup {NoJob}]
  BY <1>1 DEF IInv, TypeOK, StoreTypeOK
<1> QED
  BY <1>1, <1>3, <1>4, <1>5, OutsideStep

\* A restart may leave the launches that were under way to AWX.
LEMMA RestartLaunches ==
  ASSUME Restart
  PROVE  /\ job' = [j \in OpId |-> job'[j]]
         /\ \A j \in OpId : \/ job'[j] = job[j]
                            \/ pc[j] = "launch" /\ job'[j] \in Launches(j)
<1>1. PICK sent \in SUBSET {o \in OpId : pc[o] = "launch"},
           stray \in SUBSET {o \in OpId : pc[o] = "launch"} :
        job' = [j \in OpId |-> IF j \in sent THEN LaunchedJob(j)
                              ELSE IF j \in stray THEN StrayLaunch(j)
                              ELSE job[j]]
  BY Zenon DEF Restart
<1>2. \A j \in OpId : job'[j] = IF j \in sent THEN LaunchedJob(j)
                                ELSE IF j \in stray THEN StrayLaunch(j)
                                ELSE job[j]
  BY <1>1
<1>3. job' = [j \in OpId |-> job'[j]]
  BY <1>1
<1> QED
  BY <1>2, <1>3 DEF Launches

LEMMA RestartKeeps == ASSUME IInv, Restart PROVE IInv'
<1>1. /\ op' = [o \in OpId |-> Absent] /\ older' = {} /\ next' = next
      /\ pc' = [o \in OpId |-> "idle"]
      /\ seen' = [o \in OpId |-> FALSE]
      /\ recheck' = [u \in Operator |-> None]
      /\ restarts' = restarts + 1 /\ restarts < MaxRestarts
  BY DEF Restart
<1>2. /\ job' = [j \in OpId |-> job'[j]]
      /\ \A j \in OpId : \/ job'[j] = job[j]
                         \/ pc[j] = "launch" /\ job'[j] \in Launches(j)
  BY RestartLaunches
<1>3. \A j \in OpId : pc[j] = "launch" => op[j] \in Operation /\ j < next
  BY MovingIsActive
<1>4. job' \in [OpId -> Job \cup {NoJob}]
  <2>1. \A j \in OpId : job'[j] \in Job \cup {NoJob}
    BY <1>2, <1>3, LaunchShape DEF IInv, TypeOK
  <2> QED
    BY <1>2, <2>1
<1>5. \A j \in OpId : j >= next' => job'[j] = job[j]
  BY <1>1, <1>2, <1>3 DEF OpId, IInv, TypeOK, StoreTypeOK
<1>6. /\ next' \in 1..(MaxOps + 1) /\ next <= next'
      /\ seen' \in [OpId -> BOOLEAN] /\ restarts' \in 0..MaxRestarts
      /\ op' \in [OpId -> Operation \cup {Absent}]
      /\ \A p \in OpId : op'[p] \in {op[p], Absent} /\ pc'[p] = "idle"
      /\ older' \in SUBSET (OpId \X OpId)
  BY <1>1, RunControlAssumption DEF IInv, TypeOK, StoreTypeOK
<1> QED
  BY <1>1, <1>4, <1>5, <1>6, OutsideStep

LEMMA AWXKeeps == ASSUME IInv, AWX PROVE IInv'
<1>1. ASSUME op' = op, older' = older, next' \in 1..(MaxOps + 1),
             next <= next', UNCHANGED <<pc, seen, recheck, restarts>>,
             job' \in [OpId -> Job \cup {NoJob}],
             \A j \in OpId : j >= next' => job'[j] = job[j]
      PROVE  IInv'
  <2>1. \A p \in OpId : op[p] = Absent => pc[p] \in {"idle", "drain", "draining"}
    <3>1. \A p \in OpId : op[p] = Absent => ~IsActive(p)
      BY DEF IsActive, InStore, Absent
    <3> QED
      BY <3>1, MovingIsActive
  <2>2. /\ op' \in [OpId -> Operation \cup {Absent}]
        /\ older' \in SUBSET (OpId \X OpId)
        /\ seen' \in [OpId -> BOOLEAN] /\ restarts' \in 0..MaxRestarts
    BY <1>1 DEF IInv, TypeOK, StoreTypeOK
  <2> QED
    BY <1>1, <2>1, <2>2, OutsideStep
<1>2. ASSUME NEW j \in OpId, job[j] # NoJob,
             NEW s \in {"running", "successful", "failed", "canceled"},
             NEW m \in {"none", "refused", "complete", "monitoring"},
             JobTo(j, s, m)
      PROVE  IInv'
  <2>1. job[j] \in Job /\ j < next
    BY <1>2, StoreAssumption DEF IInv, TypeOK, Allocated, OpId, StoreTypeOK
  <2>2. [job[j] EXCEPT !.status = s, !.marker = m] \in Job
    BY <2>1 DEF Job
  <2>3. job' = [job EXCEPT ![j] = [job[j] EXCEPT !.status = s, !.marker = m]]
    BY <1>2, <2>1 DEF JobTo, IInv, TypeOK
  <2>4. /\ job' \in [OpId -> Job \cup {NoJob}]
        /\ \A i \in OpId : i # j => job'[i] = job[i]
    BY <2>2, <2>3 DEF IInv, TypeOK
  <2>5. /\ op' = op /\ older' = older /\ next' = next
        /\ UNCHANGED <<pc, seen, recheck, restarts>>
    BY <1>2 DEF JobTo, storeVars
  <2>6. next' \in 1..(MaxOps + 1) /\ next <= next'
    BY <2>5 DEF IInv, TypeOK, StoreTypeOK
  <2>7. \A i \in OpId : i >= next' => job'[i] = job[i]
    BY <2>1, <2>4, <2>5 DEF OpId, IInv, TypeOK, StoreTypeOK
  <2> QED
    BY <1>1, <2>4, <2>5, <2>6, <2>7
<1>3. ASSUME NEW k \in Key, NEW r \in OpId \cup {None}, JobForeign(k, r)
      PROVE  IInv'
  <2>1. PICK n \in OpId : n = next
    BY <1>3, StoreAssumption DEF JobForeign, IInv, TypeOK, StoreTypeOK, OpId
  <2> DEFINE new == [action |-> "deploy", target |-> k, run |-> r,
                     by |-> "awx", status |-> "pending", marker |-> "none"]
  <2>3. new \in Job
    BY DEF Job, Action, Target
  <2>4. job' = [job EXCEPT ![n] = new]
    BY <1>3, <2>1, Zenon DEF JobForeign
  <2> HIDE DEF new
  <2>5. /\ job' \in [OpId -> Job \cup {NoJob}]
        /\ \A i \in OpId : i # n => job'[i] = job[i]
    BY <2>3, <2>4 DEF IInv, TypeOK
  <2>6. /\ op' = op /\ older' = older /\ next' = n + 1
        /\ UNCHANGED <<pc, seen, recheck, restarts>>
    BY <1>3, <2>1 DEF JobForeign
  <2>7. next' \in 1..(MaxOps + 1) /\ next <= next'
    BY <2>1, <2>6, StoreAssumption DEF OpId
  <2>8. \A i \in OpId : i >= next' => job'[i] = job[i]
    BY <2>1, <2>5, <2>6 DEF OpId
  <2> QED
    BY <1>1, <2>5, <2>6, <2>7, <2>8
<1>4. NoJob.status = "absent"
  BY DEF NoJob
<1>5. ASSUME NEW j \in OpId,
             \/ JobAccepted(j) \/ JobStarts(j) \/ JobSucceeds(j)
             \/ JobFails(j) \/ JobCanceled(j)
      PROVE  IInv'
  <2>5. CASE JobAccepted(j)
    <3>1. job[j] \in Job /\ j < next
      BY <1>4, <2>5, StoreAssumption
      DEF JobAccepted, IInv, TypeOK, Allocated, OpId, StoreTypeOK
    <3> DEFINE new == [job[j] EXCEPT !.status = "pending", !.by = "late"]
    <3>2. new \in Job
      BY <3>1 DEF Job
    <3>3. job' = [job EXCEPT ![j] = new]
      BY <2>5, <3>1 DEF JobAccepted, IInv, TypeOK
    <3> HIDE DEF new
    <3>4. /\ job' \in [OpId -> Job \cup {NoJob}]
          /\ \A i \in OpId : i # j => job'[i] = job[i]
      BY <3>2, <3>3 DEF IInv, TypeOK
    <3>5. /\ op' = op /\ older' = older /\ next' = next
          /\ UNCHANGED <<pc, seen, recheck, restarts>>
      BY <2>5 DEF JobAccepted, storeVars
    <3>6. next' \in 1..(MaxOps + 1) /\ next <= next'
      BY <3>5 DEF IInv, TypeOK, StoreTypeOK
    <3>7. \A i \in OpId : i >= next' => job'[i] = job[i]
      BY <3>1, <3>4, <3>5 DEF OpId, IInv, TypeOK, StoreTypeOK
    <3> QED
      BY <1>1, <3>4, <3>5, <3>6, <3>7
  <2>1. CASE JobStarts(j)
    BY <1>2, <1>4, <2>1 DEF JobStarts
  <2>2. CASE JobSucceeds(j)
    BY <1>2, <1>4, <2>2 DEF JobSucceeds
  <2>3. CASE JobFails(j)
    <3>1. PICK m \in {"none", "refused", "complete", "monitoring"} :
            JobTo(j, "failed", m)
      BY <2>3 DEF JobFails
    <3> QED
      BY <1>2, <1>4, <2>3, <3>1 DEF JobFails
  <2>4. CASE JobCanceled(j)
    BY <1>2, <1>4, <2>4 DEF JobCanceled
  <2> QED
    BY <1>5, <2>1, <2>2, <2>3, <2>4, <2>5
<1> QED
  BY <1>3, <1>5 DEF AWX

-----------------------------------------------------------------------------
(* The theorems.                                                           *)

LEMMA InitKeeps == Init => IInv
<1> SUFFICES ASSUME Init PROVE IInv
  OBVIOUS
<1>1. \A o \in OpId : op[o] = Absent /\ pc[o] = "idle" /\ job[o] = NoJob
  BY DEF Init, StoreInit
<1>2. TypeOK
  BY StoreAssumption, RunControlAssumption
  DEF Init, StoreInit, TypeOK, StoreTypeOK, Phase
<1>3. Allocated /\ PhaseStates
  BY <1>1 DEF Allocated, PhaseStates
<1>4. \A o \in OpId : ~IsDirty(o) /\ ~InFlight(o)
  BY <1>1 DEF IsDirty, DirtyStates, InFlight, IsActive, InStore, Absent
<1>5. DirtKinds
  BY <1>1, <1>4 DEF DirtKinds, Absent
<1>6. RecheckSettled
  BY DEF Init, RecheckSettled
<1>7. OneRunAtATime /\ CleanUnderRun
  BY <1>4 DEF OneRunAtATime, CleanUnderRun
<1> QED
  BY <1>2, <1>3, <1>5, <1>6, <1>7 DEF IInv

LEMMA NextKeeps == IInv /\ [Next]_vars => IInv'
<1> SUFFICES ASSUME IInv, [Next]_vars PROVE IInv'
  OBVIOUS
<1>1. CASE Request
  BY <1>1, RequestKeeps
<1>2. ASSUME NEW o \in OpId, Coroutine(o) PROVE IInv'
  BY <1>2, PreflightKeeps, DispatchKeeps, WatchKeeps, DrainKeeps
  DEF Coroutine
<1>3. CASE Recheck
  BY <1>3, RecheckKeeps
<1>4. ASSUME NEW o \in OpId, Expire(o) PROVE IInv'
  BY <1>4, ExpireKeeps
<1>5. CASE Restart
  BY <1>5, RestartKeeps
<1>6. CASE AWX
  BY <1>6, AWXKeeps
<1>7. CASE UNCHANGED vars
  BY <1>7
  DEF vars, IInv, TypeOK, StoreTypeOK, Allocated, PhaseStates, DirtKinds,
      RecheckSettled, OneRunAtATime, CleanUnderRun, InFlight, IsActive,
      InStore, IsTerminal, IsDirty, DirtOf
<1> QED
  BY <1>1, <1>2, <1>3, <1>4, <1>5, <1>6, <1>7 DEF Next

\* The inductive invariant: the facility lock, and what ties the place of
\* every coroutine to the state of its operation, hold throughout.
THEOREM Inductive == Spec => []IInv
<1> QED
  BY InitKeeps, NextKeeps, PTL DEF Spec

\* Type correctness: the store, the coroutines and AWX's jobs stay well
\* formed; in particular an automatic rollback always names a run.
THEOREM TypeCorrect == Spec => []TypeOK
<1>1. IInv => TypeOK
  BY DEF IInv
<1> QED
  BY <1>1, Inductive, PTL

\* The facility lock excludes: of the deploys, teardowns, rollbacks and
\* purges the console tracks, at most one is in flight, whatever operators
\* request, watchers dispatch and AWX does.
THEOREM OneRun == Spec => []OneRunAtATime
<1>1. IInv => OneRunAtATime
  BY DEF IInv
<1> QED
  BY <1>1, Inductive, PTL

\* The facility lock respects dirt: what is in flight is the rollback of
\* every dirty run there is, or nothing is dirty.
THEOREM CleanRun == Spec => []CleanUnderRun
<1>1. IInv => CleanUnderRun
  BY DEF IInv
<1> QED
  BY <1>1, Inductive, PTL

-----------------------------------------------------------------------------
(***************************************************************************)
(* What the console says of AWX's jobs, proved on top of the facility      *)
(* lock: a rollback shown complete has a job that says so, an automatic    *)
(* rollback has a failed deploy, and no two jobs the console launched and  *)
(* waited for compete for one catalog entry.                               *)
(***************************************************************************)

\* Where a coroutine has not launched its job yet.
Early == {"preflight", "wake", "lookup", "opposite", "launch"}

\* o is a rollback whose own job left nothing but monitoring, unless the
\* store has forgotten it.
Drainable(o) ==
  /\ job[o].status = "successful" /\ job[o].marker = "monitoring"
  /\ InStore(o) => op[o].action = "rollback" /\ op[o].job = o

Justified(o) ==
  \E j \in OpId : /\ job[j].action = "deploy" /\ job[j].status = "failed"
                  /\ job[j].run = op[o].target

\* An operation agrees with the jobs it stands for.
Coherent(o) ==
  /\ pc[o] \in Early => job[o] = NoJob
  /\ pc[o] = "watch" /\ op[o].action = "rollback" => op[o].job = o
  /\ pc[o] = "watch" /\ op[o].action = "deploy" =>
       /\ op[o].job \in OpId /\ job[op[o].job].action = "deploy"
       /\ op[o].run \in {None, job[op[o].job].run}
  /\ pc[o] \in {"drain", "draining"} => Drainable(o)
  /\ op[o].action = "rollback" /\ op[o].state = "run_complete" =>
       /\ op[o].job = o /\ job[o].status = "successful"
       /\ job[o].marker \in {"complete", "monitoring"}
  /\ op[o].action = "rollback" /\ op[o].pending => Drainable(o)
  /\ op[o].auto => Justified(o)

\* AWX's live jobs of the console for one catalog entry.
ChangeJobs(k) ==
  {j \in OpId : /\ Live(j) /\ job[j].by = "console" /\ job[j].target = k
                /\ job[j].action \in {"deploy", "teardown"}}

\* What a coroutine has found out about them still holds when it launches.
Looked(o) ==
  /\ pc[o] = "opposite" =>
       \A j \in ChangeJobs(op[o].target) : job[j].action # op[o].action
  /\ pc[o] = "launch" /\ op[o].action \in {"deploy", "teardown"} =>
       ChangeJobs(op[o].target) = {}

\* The inductive invariant, relative to that of the lock.
JobInv ==
  /\ \A o \in OpId : Coherent(o)
  /\ \A u \in Operator : recheck[u] # None => Drainable(recheck[u])

RivalInv == NoCompetingJobs /\ \A o \in OpId : Looked(o)

-----------------------------------------------------------------------------
(* Kinds of change to one operation and to AWX's jobs.                     *)

\* Neither at its end nor unknown to AWX.
Unended(j) == job[j].status \in {"posted", "pending", "running"}

\* AWX moves jobs on towards their end and takes new ones.
JobsGrow ==
  \A j \in OpId :
    \/ job'[j] = job[j]
    \/ /\ Unended(j) /\ job'[j].action = job[j].action
       /\ job'[j].run = job[j].run
    \/ job[j] = NoJob /\ pc'[j] \notin Early

\* o is forgotten, or is still the operation on the same job.
SameOp(o) ==
  \/ op'[o] = Absent
  \/ /\ op'[o].action = op[o].action /\ op'[o].target = op[o].target
     /\ op'[o].job = op[o].job /\ op'[o].run = op[o].run
     /\ op'[o].auto = op[o].auto /\ InStore(o)

\* Nothing new is claimed of it.
Rests(o) ==
  /\ SameOp(o)
  /\ op'[o] # Absent =>
       /\ op'[o].pending => op[o].pending
       /\ op'[o].state = "run_complete" =>
            op[o].state = "run_complete" \/ op[o].action # "rollback"
  /\ \/ pc'[o] \in {"idle", pc[o]}
     \/ pc[o] \in Early /\ pc'[o] \in Early

LEMMA AbsentFields ==
  /\ Absent.action = "none" /\ Absent.state = "absent" /\ Absent.auto = FALSE
  /\ Absent.pending = FALSE /\ NoJob.status = "absent" /\ NoJob.action = "none"
  BY DEF Absent, NoJob

LEMMA DeployStays ==
  ASSUME JobsGrow, NEW o \in OpId, Justified(o), op'[o].target = op[o].target
  PROVE  Justified(o)'
  BY AbsentFields DEF JobsGrow, Justified, Unended

LEMMA DrainableStays ==
  ASSUME JobsGrow, NEW o \in OpId, Drainable(o), SameOp(o)
  PROVE  Drainable(o)'
<1>1. job'[o] = job[o]
  BY AbsentFields DEF JobsGrow, Drainable, Unended
<1> QED BY <1>1, AbsentFields DEF Drainable, SameOp, InStore

LEMMA RestsKeeps ==
  ASSUME JobsGrow, NEW o \in OpId, Coherent(o), Rests(o)
  PROVE  Coherent(o)'
<1>1. pc'[o] \in Early => job'[o] = NoJob
  BY AbsentFields DEF Coherent, Rests, JobsGrow, Early, Unended
<1>2. Drainable(o) => Drainable(o)'
  BY DrainableStays DEF Rests
<1>3. pc'[o] \in {"drain", "draining"} => Drainable(o)'
  BY <1>2 DEF Coherent, Rests, Early
<1>4. op'[o].auto => Justified(o)'
  BY AbsentFields, DeployStays DEF Coherent, Rests, SameOp
<1>5. CASE op'[o] = Absent
  BY <1>1, <1>3, <1>5, AbsentFields DEF Coherent
<1>6. CASE op'[o] # Absent
  <2>1. pc'[o] = "watch" => pc[o] = "watch"
    BY DEF Rests, Early
  <2>2. /\ op'[o].action = op[o].action /\ op'[o].target = op[o].target
        /\ op'[o].job = op[o].job /\ op'[o].run = op[o].run
    BY <1>6 DEF Rests, SameOp
  <2>3. pc'[o] = "watch" /\ op'[o].action = "deploy" =>
         /\ op'[o].job \in OpId /\ job'[op'[o].job].action = "deploy"
         /\ op'[o].run \in {None, job'[op'[o].job].run}
    BY <2>1, <2>2, AbsentFields DEF Coherent, JobsGrow
  <2>4. op'[o].action = "rollback" /\ op'[o].state = "run_complete" =>
         /\ op'[o].job = o /\ job'[o].status = "successful"
         /\ job'[o].marker \in {"complete", "monitoring"}
    BY <1>6, <2>2, AbsentFields DEF Coherent, Rests, JobsGrow, Unended
  <2>5. op'[o].action = "rollback" /\ op'[o].pending => Drainable(o)'
    BY <1>2, <1>6, <2>2 DEF Coherent, Rests
  <2>7. pc'[o] = "watch" /\ op'[o].action = "rollback" => op'[o].job = o
    BY <2>1, <2>2 DEF Coherent
  <2> QED BY <1>1, <1>3, <2>3, <2>4, <2>5, <1>4, <2>7 DEF Coherent
<1> QED BY <1>5, <1>6

\* Whatever is said of a drainable rollback, its job said it.
LEMMA DrainedKeeps ==
  ASSUME JobsGrow, NEW o \in OpId, Coherent(o), Drainable(o), SameOp(o),
         pc'[o] \in {"idle", "drain", "draining"}
  PROVE  Coherent(o)'
<1>1. Drainable(o)'
  BY DrainableStays
<1>2. op'[o].auto => Justified(o)'
  BY AbsentFields, DeployStays DEF Coherent, SameOp
<1>3. op'[o].action = "rollback" => op'[o].job = o
  BY <1>1, AbsentFields DEF Drainable, SameOp, InStore
<1> QED BY <1>1, <1>2, <1>3 DEF Coherent, Drainable, Early

\* An operation just created claims nothing and has no job.
LEMMA NewKeeps ==
  ASSUME NEW o \in OpId, NEW a, NEW t, NEW s,
         NEW auto \in BOOLEAN,
         op'[o] = NewOperation(a, t, s, auto), s # "run_complete",
         job'[o] = NoJob, pc'[o] \in Early \cup {"idle"},
         auto => Justified(o)'
  PROVE  Coherent(o)'
<1>1. /\ op'[o].state = s /\ op'[o].pending = FALSE /\ op'[o].auto = auto
  BY DEF NewOperation
<1>2. pc'[o] \notin {"watch", "drain", "draining"}
  BY DEF Early
<1> QED BY <1>1, <1>2 DEF Coherent

-----------------------------------------------------------------------------
(* Steps that move one operation.                                          *)

LEMMA StillRests ==
  ASSUME StoreTypeOK, NEW p \in OpId, op'[p] = op[p], pc'[p] = pc[p]
  PROVE  Rests(p)
<1>1. op[p] = Absent \/ InStore(p)
  BY StoreEntries
<1> QED BY <1>1 DEF Rests, SameOp

LEMMA OneMoves ==
  ASSUME IInv, JobInv, JobsGrow, NEW o \in OpId, Coherent(o)',
         Drainable(o) => Drainable(o)',
         \A p \in OpId : p # o => op'[p] = op[p] /\ pc'[p] = pc[p],
         recheck' = recheck
  PROVE  JobInv'
<1>0. StoreTypeOK
  BY DEF IInv, TypeOK
<1>1. ASSUME NEW p \in OpId PROVE Coherent(p)'
  <2>1. CASE p = o
    BY <2>1
  <2>2. CASE p # o
    BY <1>0, <2>2, StillRests, RestsKeeps DEF JobInv
  <2> QED BY <2>1, <2>2
<1>2. ASSUME NEW u \in Operator, recheck[u] # None
      PROVE  Drainable(recheck[u])'
  <2>1. PICK p \in OpId : p = recheck[u]
    BY <1>2 DEF IInv, TypeOK
  <2>2. Drainable(p)
    BY <1>2, <2>1 DEF JobInv
  <2>3. Drainable(p)'
    <3>1. CASE p = o
      BY <2>2, <3>1
    <3>2. CASE p # o
      BY <1>0, <2>2, <3>2, StillRests, DrainableStays DEF Rests
    <3> QED BY <3>1, <3>2
  <2> QED BY <2>1, <2>3
<1> QED BY <1>1, <1>2 DEF JobInv

\* The operation changes its state to one that claims nothing.
LEMMA SettleStep ==
  ASSUME IInv, JobInv, JobsGrow, NEW o \in OpId, NEW s \in OperationState, NEW ph,
         SetState(o, s), s = "run_complete" => op[o].action # "rollback",
         pc' = [pc EXCEPT ![o] = ph], recheck' = recheck,
         ph \in {"idle", pc[o]} \/ (pc[o] \in Early /\ ph \in Early)
  PROVE  JobInv'
<1>1. StoreTypeOK /\ pc \in [OpId -> Phase]
  BY DEF IInv, TypeOK
<1>2. /\ op'[o] = IF InStore(o) THEN [op[o] EXCEPT !.state = s] ELSE Absent
      /\ \A p \in OpId : p # o => op'[p] = op[p]
  BY <1>1, SetStateEffect
<1>3. SameOp(o) /\ Rests(o)
  <2>1. CASE ~ InStore(o)
    BY <1>1, <1>2, <2>1 DEF SameOp, Rests
  <2>2. CASE InStore(o)
    <3>1. op[o] \in Operation
      BY <1>1, <2>2, StoreEntries
    <3>2. /\ op'[o].action = op[o].action /\ op'[o].target = op[o].target
          /\ op'[o].job = op[o].job /\ op'[o].run = op[o].run
          /\ op'[o].auto = op[o].auto /\ op'[o].pending = op[o].pending
          /\ op'[o].state = s
      BY <1>2, <2>2, <3>1 DEF Operation
    <3> QED BY <1>1, <2>2, <3>2 DEF SameOp, Rests
  <2> QED BY <2>1, <2>2
<1>4. Coherent(o)'
  BY <1>3, RestsKeeps DEF JobInv
<1>5. Drainable(o) => Drainable(o)'
  BY <1>3, DrainableStays
<1> QED BY <1>1, <1>2, <1>4, <1>5, OneMoves

\* Only the place of its coroutine changes.
LEMMA PlaceStep ==
  ASSUME IInv, JobInv, JobsGrow, NEW o \in OpId, NEW ph,
         UNCHANGED <<storeVars, recheck>>, pc' = [pc EXCEPT ![o] = ph],
         \/ ph \in {"idle", pc[o]} \/ (pc[o] \in Early /\ ph \in Early)
         \/ pc[o] = "drain" /\ ph = "draining"
  PROVE  JobInv'
<1>1. StoreTypeOK /\ pc \in [OpId -> Phase] /\ op' = op
  BY DEF IInv, TypeOK, storeVars
<1>2. SameOp(o)
  BY <1>1, StoreEntries DEF SameOp
<1>3. CASE pc[o] = "drain" /\ ph = "draining"
  <2>1. Coherent(o) /\ Drainable(o)
    BY <1>3 DEF JobInv, Coherent
  <2>2. Coherent(o)' /\ Drainable(o)'
    BY <1>1, <1>2, <1>3, <2>1, DrainedKeeps, DrainableStays
  <2> QED BY <1>1, <2>2, OneMoves
<1>4. CASE \/ ph \in {"idle", pc[o]} \/ (pc[o] \in Early /\ ph \in Early)
  <2>1. Rests(o)
    BY <1>1, <1>2, <1>4 DEF Rests
  <2>2. Coherent(o)' /\ (Drainable(o) => Drainable(o)')
    BY <1>2, <2>1, RestsKeeps, DrainableStays DEF JobInv
  <2> QED BY <1>1, <2>2, OneMoves
<1> QED BY <1>3, <1>4

\* A request's operation takes the next id.
LEMMA CreatedStep ==
  ASSUME IInv, JobInv, NEW a \in Action, NEW t \in Target,
         NEW s \in {"waking", "error"}, NEW ph \in {"idle", "preflight", "wake"},
         Insert(a, t, s, FALSE), pc' = [pc EXCEPT ![next] = ph],
         job' = job, recheck' = recheck
  PROVE  JobInv'
<1>1. StoreTypeOK /\ pc \in [OpId -> Phase]
  BY DEF IInv, TypeOK
<1>2. s \in OperationState
  BY DEF OperationState, WatchedTerminal
<1>3. PICK n \in OpId : /\ n = next /\ op'[n] = NewOperation(a, t, s, FALSE)
                        /\ \A p \in OpId : p # n => op'[p] = op[p]
  BY <1>1, <1>2, InsertEffect
<1>4. job[n] = NoJob
  BY <1>3 DEF IInv, Allocated, OpId
<1>5. JobsGrow
  BY DEF JobsGrow
<1>6. Coherent(n)'
  BY <1>1, <1>3, <1>4, NewKeeps DEF Early
<1>7. ~ Drainable(n)
  BY <1>4, AbsentFields DEF Drainable
<1> QED BY <1>1, <1>3, <1>5, <1>6, <1>7, OneMoves

-----------------------------------------------------------------------------
(* The actions.                                                            *)

LEMMA SameJobs == ASSUME job' = job PROVE JobsGrow
  BY DEF JobsGrow

LEMMA RequestJobs == ASSUME IInv, JobInv, Request PROVE JobInv'
<1>1. ASSUME NEW a \in Action, NEW t \in Target,
             NEW ph \in {"preflight", "wake"}, Admit(a, t, ph),
             UNCHANGED <<seen, recheck, job, restarts>>
      PROVE  JobInv'
  <2>1. CASE Blockers(a, t) = {}
    BY <1>1, <2>1, CreatedStep DEF Admit, Move
  <2>2. CASE Blockers(a, t) # {}
    <3>1. Insert(a, t, "error", FALSE) /\ pc' = pc
      BY <1>1, <2>2 DEF Admit
    <3>2. PICK n \in OpId : n = next
      BY <3>1, StoreAssumption DEF Insert, IInv, TypeOK, StoreTypeOK, OpId
    <3>3. pc[n] = "idle"
      BY <3>2 DEF IInv, Allocated, OpId
    <3>4. pc' = [pc EXCEPT ![next] = "idle"]
      BY <3>1, <3>2, <3>3 DEF IInv, TypeOK
    <3> QED BY <1>1, <3>1, <3>4, CreatedStep
  <2> QED BY <2>1, <2>2
<1>2. ASSUME NEW k \in Key, RequestDeploy(k) PROVE JobInv'
  BY <1>1, <1>2 DEF RequestDeploy, Action, Target
<1>3. ASSUME NEW k \in Key, RequestTeardown(k) PROVE JobInv'
  BY <1>1, <1>3 DEF RequestTeardown, Action, Target
<1>4. ASSUME NEW s \in Slug, RequestPurge(s) PROVE JobInv'
  BY <1>1, <1>4 DEF RequestPurge, Action, Target
<1>5. ASSUME NEW r \in OpId, RequestRollback(r) PROVE JobInv'
  BY <1>5, CreatedStep DEF RequestRollback, Move, Action, Target
<1>6. ASSUME NEW w \in Workflow, RequestLaunch(w) PROVE JobInv'
  BY <1>6, CreatedStep DEF RequestLaunch, Move, Action, Target
<1> QED BY <1>2, <1>3, <1>4, <1>5, <1>6 DEF Request

LEMMA PreflightJobs ==
  ASSUME IInv, JobInv, NEW o \in OpId, Preflight(o) PROVE JobInv'
<1>1. CASE PreflightPass(o)
  BY <1>1, SameJobs, PlaceStep DEF PreflightPass, Move, Early
<1>2. CASE PreflightRaise(o)
  BY <1>2, SameJobs, PlaceStep DEF PreflightRaise, Move
<1>3. CASE PreflightRefuse(o)
  <2>1. "error" \in OperationState
    BY DEF OperationState, WatchedTerminal
  <2> QED BY <1>3, <2>1, SameJobs, SettleStep DEF PreflightRefuse, Move
<1> QED BY <1>1, <1>2, <1>3 DEF Preflight

\* A task's operation becomes LAUNCHED under a job of its own action.
LEMMA AttachedStep ==
  ASSUME IInv, JobInv, JobsGrow, NEW o \in OpId, NEW j \in OpId,
         NEW r \in OpId \cup {None}, NEW ph \in {"idle", "watch"},
         pc[o] \in {"lookup", "launch"},
         \/ ph = "idle" /\ Update(o, [op[o] EXCEPT !.state = "launched", !.job = j])
         \/ Update(o, [op[o] EXCEPT !.state = "launched", !.job = j, !.run = r]),
         ph = "idle" => op[o].action = "launch",
         op[o].action = "rollback" => j = o,
         op[o].action = "deploy" =>
           job'[j].action = "deploy" /\ r \in {None, job'[j].run},
         pc' = [pc EXCEPT ![o] = ph], recheck' = recheck
  PROVE  JobInv'
<1>1. StoreTypeOK /\ pc \in [OpId -> Phase]
  BY DEF IInv, TypeOK
<1>2. op[o] \in Operation /\ InStore(o)
  BY MovingIsActive DEF IsActive
<1>3. PICK new \in Operation :
        /\ op'[o] = new /\ \A p \in OpId : p # o => op'[p] = op[p]
        /\ new.action = op[o].action /\ new.target = op[o].target
        /\ new.job = j /\ new.state = "launched"
        /\ ph = "watch" => new.run = r
        /\ new.pending = op[o].pending /\ new.auto = op[o].auto
  <2>1. CASE ph = "idle" /\ Update(o, [op[o] EXCEPT !.state = "launched", !.job = j])
    <3> DEFINE new == [op[o] EXCEPT !.state = "launched", !.job = j]
    <3>1. new \in Operation
      BY <1>2, LaunchedShape
    <3>2. /\ new.action = op[o].action /\ new.target = op[o].target
          /\ new.job = j /\ new.state = "launched"
          /\ new.pending = op[o].pending /\ new.auto = op[o].auto
      BY <1>2 DEF Operation
    <3> HIDE DEF new
    <3>3. op'[o] = new /\ \A p \in OpId : p # o => op'[p] = op[p]
      BY <1>1, <1>2, <2>1, <3>1, UpdateEffect DEF new
    <3> QED BY <2>1, <3>1, <3>2, <3>3
  <2>2. CASE Update(o, [op[o] EXCEPT !.state = "launched", !.job = j, !.run = r])
    <3> DEFINE new == [op[o] EXCEPT !.state = "launched", !.job = j, !.run = r]
    <3>1. new \in Operation
      BY <1>2, LaunchedShape
    <3>2. /\ new.action = op[o].action /\ new.target = op[o].target
          /\ new.job = j /\ new.state = "launched" /\ new.run = r
          /\ new.pending = op[o].pending /\ new.auto = op[o].auto
      BY <1>2 DEF Operation
    <3> HIDE DEF new
    <3>3. op'[o] = new /\ \A p \in OpId : p # o => op'[p] = op[p]
      BY <1>1, <1>2, <2>2, <3>1, UpdateEffect DEF new
    <3> QED BY <3>1, <3>2, <3>3
  <2> QED BY <2>1, <2>2
<1>4. job[o] = NoJob
  BY DEF JobInv, Coherent, Early
<1>5. ~ Drainable(o)
  BY <1>4, AbsentFields DEF Drainable
<1>6. op'[o].auto => Justified(o)'
  BY <1>3, DeployStays DEF JobInv, Coherent
<1>7. ~ (op'[o].action = "rollback" /\ op'[o].pending)
  BY <1>3, <1>5 DEF JobInv, Coherent
<1>8. Coherent(o)'
  <2>1. pc'[o] = ph
    BY <1>1
  <2>2. pc'[o] \notin Early \cup {"drain", "draining"}
    BY <2>1 DEF Early
  <2>3. op'[o].state # "run_complete"
    BY <1>3
  <2>4. pc'[o] = "watch" /\ op'[o].action = "rollback" => op'[o].job = o
    BY <1>3
  <2>5. pc'[o] = "watch" /\ op'[o].action = "deploy" =>
          /\ op'[o].job \in OpId /\ job'[op'[o].job].action = "deploy"
          /\ op'[o].run \in {None, job'[op'[o].job].run}
    BY <1>3, <2>1
  <2> QED BY <1>6, <1>7, <2>2, <2>3, <2>4, <2>5 DEF Coherent
<1> QED BY <1>1, <1>3, <1>5, <1>8, OneMoves

\* A launch makes a job where there was none.
LEMMA LaunchGrows ==
  ASSUME IInv, JobInv, NEW o \in OpId, pc[o] = "launch",
         NEW l \in Launches(o), job' = [job EXCEPT ![o] = l],
         pc'[o] \in {"idle", "watch"}
  PROVE  /\ JobsGrow
         /\ job'[o].action = op[o].action
         /\ op[o].action = "deploy" => job'[o].run = o
<1>1. job[o] = NoJob
  BY DEF JobInv, Coherent, Early
<1>2. /\ job'[o] = l
      /\ \A j \in OpId : j # o => job'[j] = job[j]
  BY DEF IInv, TypeOK
<1>3. pc'[o] \notin Early
  BY DEF Early
<1>4. JobsGrow
  BY <1>1, <1>2, <1>3 DEF JobsGrow
<1>5. l.action = op[o].action /\ (op[o].action = "deploy" => l.run = o)
  BY LaunchFields
<1> QED BY <1>2, <1>4, <1>5

LEMMA DispatchJobs ==
  ASSUME IInv, JobInv, NEW o \in OpId, Dispatch(o) PROVE JobInv'
<1>0. {"error", "launching"} \subseteq OperationState /\ pc \in [OpId -> Phase]
  BY DEF OperationState, WatchedTerminal, IInv, TypeOK
<1>1. CASE EnsureAwake(o)
  BY <1>0, <1>1, SameJobs, SettleStep DEF EnsureAwake, Move, Early
<1>2. CASE TaskFails(o)
  BY <1>0, <1>2, SameJobs, SettleStep DEF TaskFails, Move
<1>3. CASE FindActiveJob(o)
  <2>1. /\ pc[o] = "lookup" /\ op[o].action \in {"launch", "deploy", "teardown"}
        /\ JobsGrow /\ recheck' = recheck /\ job' = job
    BY <1>3, SameJobs DEF FindActiveJob, IInv, PhaseStates
  <2>2. CASE /\ UNCHANGED storeVars
             /\ Move(o, IF op[o].action = "launch" THEN "launch"
                                                   ELSE "opposite")
    BY <2>1, <2>2, PlaceStep DEF Move, Early
  <2>3. ASSUME op[o].action = "launch",
               NEW j \in ActiveJobs(op[o].action, op[o].target),
               Update(o, [op[o] EXCEPT !.state = "launched", !.job = j]),
               Move(o, "idle")
        PROVE  JobInv'
    <3>1. j \in OpId
      BY DEF ActiveJobs
    <3> QED BY <2>1, <2>3, <3>1, AttachedStep DEF Move
  <2>4. ASSUME op[o].action # "launch",
               NEW j \in ActiveJobs(op[o].action, op[o].target),
               NEW r \in {job[j].run, None},
               Update(o, [op[o] EXCEPT !.state = "launched", !.job = j,
                                       !.run = r]),
               Move(o, "watch")
        PROVE  JobInv'
    <3>1. /\ j \in OpId /\ job[j].action = op[o].action
          /\ r \in OpId \cup {None}
      BY DEF ActiveJobs, IInv, TypeOK, Job, NoJob
    <3> QED BY <2>1, <2>4, <3>1, AttachedStep DEF Move
  <2> QED BY <1>3, <2>2, <2>3, <2>4 DEF FindActiveJob
<1>4. CASE CheckOpposite(o)
  <2>1. CASE Move(o, "launch") /\ UNCHANGED storeVars
    BY <1>4, <2>1, SameJobs, PlaceStep DEF CheckOpposite, Move, Early
  <2>2. CASE SetState(o, "error") /\ Move(o, "idle")
    BY <1>0, <1>4, <2>2, SameJobs, SettleStep DEF CheckOpposite, Move
  <2> QED BY <1>4, <2>1, <2>2 DEF CheckOpposite
<1>5. CASE LaunchJob(o)
  <2>1. /\ pc[o] = "launch" /\ job' = [job EXCEPT ![o] = LaunchedJob(o)]
        /\ recheck' = recheck /\ pc'[o] \in {"idle", "watch"}
    BY <1>0, <1>5 DEF LaunchJob, Move
  <2>2. /\ JobsGrow /\ job'[o].action = op[o].action
        /\ op[o].action = "deploy" => job'[o].run = o
    BY <2>1, LaunchGrows DEF Launches
  <2> QED BY <1>5, <2>1, <2>2, AttachedStep DEF LaunchJob, Move
<1>6. CASE LaunchAnswerLost(o)
  <2>1. /\ pc[o] = "launch" /\ recheck' = recheck
        /\ \E l \in Launches(o) : job' = [job EXCEPT ![o] = l]
        /\ pc'[o] \in {"idle", "watch"}
    BY <1>0, <1>6 DEF LaunchAnswerLost, Launches, Move
  <2>2. JobsGrow
    BY <2>1, LaunchGrows
  <2> QED BY <1>0, <1>6, <2>1, <2>2, SettleStep DEF LaunchAnswerLost, Move
<1> QED BY <1>1, <1>2, <1>3, <1>4, <1>5, <1>6 DEF Dispatch

LEMMA AllCohere ==
  ASSUME IInv, JobInv, \A p \in OpId : Coherent(p)',
         \A p \in OpId : Drainable(p) => Drainable(p)', recheck' = recheck
  PROVE  JobInv'
<1>1. \A u \in Operator : recheck[u] # None => recheck[u] \in OpId
  BY DEF IInv, TypeOK
<1> QED BY <1>1 DEF JobInv

\* A failed deploy for which no rollback is created.
LEMMA FailedDeployJobs ==
  ASSUME IInv, JobInv, NEW o \in OpId, NEW status, pc[o] = "watch",
         status \in {"identity-unknown", "disabled", "already-in-progress"},
         Update(o, [op[o] EXCEPT !.state = "failed_rollback_required",
                                 !.autoStatus = status]),
         pc' = [pc EXCEPT ![o] = "idle"], job' = job, recheck' = recheck
  PROVE  JobInv'
<1>1. StoreTypeOK /\ pc \in [OpId -> Phase]
  BY DEF IInv, TypeOK
<1>2. op[o] \in Operation /\ InStore(o)
  BY MovingIsActive DEF IsActive
<1> DEFINE new == [op[o] EXCEPT !.state = "failed_rollback_required",
                                !.autoStatus = status]
<1>3. new \in Operation
  BY <1>2 DEF Operation, OperationState, WatchedTerminal, DirtyStates
<1>4. /\ new.state = "failed_rollback_required" /\ new.action = op[o].action
      /\ new.target = op[o].target /\ new.job = op[o].job /\ new.run = op[o].run
      /\ new.auto = op[o].auto /\ new.pending = op[o].pending
  BY <1>2 DEF Operation
<1> HIDE DEF new
<1>5. op'[o] = new /\ \A p \in OpId : p # o => op'[p] = op[p]
  BY <1>1, <1>2, <1>3, UpdateEffect DEF new
<1>6. SameOp(o) /\ Rests(o)
  BY <1>1, <1>2, <1>4, <1>5 DEF SameOp, Rests
<1>7. Coherent(o)' /\ (Drainable(o) => Drainable(o)')
  BY <1>6, SameJobs, RestsKeeps, DrainableStays DEF JobInv
<1> QED BY <1>1, <1>5, <1>7, SameJobs, OneMoves

\* The automatic rollback names the run whose deploy AWX reported failed.
LEMMA TriggerJobs ==
  ASSUME IInv, JobInv, NEW o \in OpId, pc[o] = "watch",
         op[o].action = "deploy", job[op[o].job].status = "failed",
         op[o].run # None, next <= MaxOps,
         op' = [op EXCEPT
                  ![o] = [op[o] EXCEPT !.state = "failed_rollback_required",
                                       !.autoStatus = "triggered"],
                  ![next] = NewOperation("rollback", op[o].run, "waking", TRUE)],
         pc' = [pc EXCEPT ![o] = "idle", ![next] = "wake"],
         job' = job, recheck' = recheck
  PROVE  JobInv'
<1>1. StoreTypeOK /\ pc \in [OpId -> Phase]
  BY DEF IInv, TypeOK
<1>2. op[o] \in Operation /\ InStore(o) /\ o < next
  BY MovingIsActive DEF IsActive
<1>3. PICK n \in OpId : n = next
  BY <1>1, StoreAssumption DEF StoreTypeOK, OpId
<1>4. n # o
  BY <1>2, <1>3, StoreAssumption DEF OpId
<1>5. job[n] = NoJob
  BY <1>3 DEF IInv, Allocated, OpId
<1> DEFINE new == [op[o] EXCEPT !.state = "failed_rollback_required",
                                !.autoStatus = "triggered"]
<1>6. /\ new.state = "failed_rollback_required" /\ new.action = op[o].action
      /\ new.target = op[o].target /\ new.job = op[o].job /\ new.run = op[o].run
      /\ new.auto = op[o].auto /\ new.pending = op[o].pending
  BY <1>2 DEF Operation
<1>7. /\ op'[o] = new /\ op'[n] = NewOperation("rollback", op[o].run, "waking", TRUE)
      /\ \A p \in OpId : p \notin {o, n} => op'[p] = op[p]
  BY <1>1, <1>3, <1>4 DEF StoreTypeOK
<1> HIDE DEF new
<1>8. /\ pc'[o] = "idle" /\ pc'[n] = "wake"
      /\ \A p \in OpId : p \notin {o, n} => pc'[p] = pc[p]
  BY <1>1, <1>3, <1>4
<1>9. Rests(o)
  BY <1>2, <1>6, <1>7, <1>8 DEF SameOp, Rests
<1>10. Justified(n)'
  <2>1. /\ op[o].job \in OpId /\ job[op[o].job].action = "deploy"
        /\ job[op[o].job].run = op[o].run
    BY DEF JobInv, Coherent
  <2>2. op'[n].target = op[o].run
    BY <1>7 DEF NewOperation
  <2> QED BY <2>1, <2>2 DEF Justified
<1>11. Coherent(n)'
  <2>1. job'[n] = NoJob /\ pc'[n] \in Early \cup {"idle"} /\ "waking" # "run_complete"
    BY <1>5, <1>8 DEF Early
  <2>2. TRUE \in BOOLEAN
    OBVIOUS
  <2> QED BY <1>7, <1>10, <2>1, <2>2, NewKeeps, Zenon
<1>12. \A p \in OpId : p # n => Rests(p)
  BY <1>1, <1>7, <1>8, <1>9, StillRests
<1>13. \A p \in OpId : Coherent(p)'
  BY <1>11, <1>12, SameJobs, RestsKeeps DEF JobInv
<1>14. \A p \in OpId : Drainable(p) => Drainable(p)'
  BY <1>5, <1>12, AbsentFields, SameJobs, DrainableStays DEF Rests, Drainable
<1> QED BY <1>13, <1>14, AllCohere

\* A rollback ends as its job says.
LEMMA RollbackEndJobs ==
  ASSUME IInv, JobInv, NEW o \in OpId, RollbackEnds(o) PROVE JobInv'
<1>1. StoreTypeOK /\ pc \in [OpId -> Phase]
  BY DEF IInv, TypeOK
<1>2. /\ pc[o] = "watch" /\ op[o].action = "rollback" /\ op[o].job = o
      /\ job' = job /\ recheck' = recheck
  BY DEF RollbackEnds, Watching, JobInv, Coherent
<1>3. op[o] \in Operation /\ InStore(o)
  BY <1>2, MovingIsActive DEF IsActive
<1>4. PICK token \in Token(o) :
        /\ SetState(o, RollbackEnd(job[o].status, token))
        /\ Move(o, IF EligibleForDrain(job[o].status, token)
                     THEN "drain" ELSE "idle")
  BY <1>2 DEF RollbackEnds
<1>5. token \in {job[o].marker, "none"}
  BY <1>2 DEF Token
<1>6. PICK s \in {"run_complete", "rollback_incomplete"}, ph \in {"idle", "drain"} :
        /\ SetState(o, s) /\ pc' = [pc EXCEPT ![o] = ph]
        /\ s = "run_complete" =>
             job[o].status = "successful" /\ job[o].marker = "complete"
        /\ ph = "drain" =>
             job[o].status = "successful" /\ job[o].marker = "monitoring"
  BY <1>4, <1>5 DEF RollbackEnd, EligibleForDrain, Move
<1>7. s \in OperationState
  BY DEF OperationState, WatchedTerminal, DirtyStates
<1>8. /\ op'[o] = [op[o] EXCEPT !.state = s]
      /\ \A p \in OpId : p # o => op'[p] = op[p]
  BY <1>1, <1>3, <1>6, <1>7, SetStateEffect
<1>9. /\ op'[o].action = op[o].action /\ op'[o].target = op[o].target
      /\ op'[o].job = op[o].job /\ op'[o].run = op[o].run
      /\ op'[o].auto = op[o].auto /\ op'[o].pending = op[o].pending
      /\ op'[o].state = s
  BY <1>3, <1>8 DEF Operation
<1>10. SameOp(o) /\ pc'[o] = ph
  BY <1>1, <1>3, <1>6, <1>9 DEF SameOp
<1>11. Drainable(o) => Drainable(o)'
  BY <1>2, <1>10, SameJobs, DrainableStays
<1>12. Coherent(o)'
  <2>1. op'[o].auto => Justified(o)'
    BY <1>2, <1>9, SameJobs, DeployStays DEF JobInv, Coherent
  <2>2. op'[o].pending => Drainable(o)'
    BY <1>2, <1>9, <1>11 DEF JobInv, Coherent
  <2>3. ph = "drain" => Drainable(o)'
    BY <1>2, <1>6, <1>9 DEF Drainable
  <2>4. s = "run_complete" =>
          /\ op'[o].job = o /\ job'[o].status = "successful"
          /\ job'[o].marker \in {"complete", "monitoring"}
    BY <1>2, <1>6, <1>9
  <2>5. pc'[o] \notin Early \cup {"watch"}
    BY <1>10 DEF Early
  <2> QED BY <1>9, <1>10, <2>1, <2>2, <2>3, <2>4, <2>5 DEF Coherent
<1> QED BY <1>1, <1>2, <1>6, <1>8, <1>11, <1>12, SameJobs, OneMoves

LEMMA WatchJobs ==
  ASSUME IInv, JobInv, NEW o \in OpId, Watch(o) PROVE JobInv'
<1>0. WatchedTerminal \cup {"running"} \subseteq OperationState
  BY DEF OperationState
<1>1. CASE PollLive(o)
  <2>1. /\ pc' = [pc EXCEPT ![o] = pc[o]] /\ recheck' = recheck /\ JobsGrow
    BY <1>1, SameJobs DEF PollLive, IInv, TypeOK
  <2>2. CASE UNCHANGED storeVars
    BY <2>1, <2>2, PlaceStep
  <2>3. CASE SetState(o, "running")
    BY <1>0, <2>1, <2>3, SettleStep
  <2> QED BY <1>1, <2>2, <2>3 DEF PollLive
<1>2. CASE WatchGivesUp(o)
  <2>1. PICK s \in {"run_failed", "rollback_incomplete", "run_status_unknown"} :
          SetState(o, s)
    BY <1>2 DEF WatchGivesUp, LostTerminalState
  <2>2. s \in OperationState
    BY <1>0 DEF WatchedTerminal, DirtyStates
  <2> QED BY <1>2, <2>1, <2>2, SameJobs, SettleStep DEF WatchGivesUp, Move
<1>3. CASE DeployEnds(o)
  <2>1. /\ pc[o] = "watch" /\ op[o].action = "deploy" /\ Ended(op[o].job)
        /\ recheck' = recheck /\ job' = job
    BY <1>3 DEF DeployEnds, Watching
  <2>2. CASE AutoTrigger(o) /\ job[op[o].job].status = "failed"
    <3> DEFINE none == op[o].run = None
               taken == FindActive("rollback", op[o].run) # {}
    <3>1. CASE none
      BY <2>1, <2>2, <3>1, FailedDeployJobs DEF AutoTrigger, Move
    <3>2. CASE ~none /\ ~AutoRollback
      BY <2>1, <2>2, <3>2, FailedDeployJobs DEF AutoTrigger, Move
    <3>3. CASE ~none /\ AutoRollback /\ taken
      BY <2>1, <2>2, <3>3, FailedDeployJobs DEF AutoTrigger, Move
    <3>4. CASE ~none /\ AutoRollback /\ ~taken
      <4>1. /\ next <= MaxOps
            /\ op' = [op EXCEPT
                  ![o] = [op[o] EXCEPT !.state = "failed_rollback_required",
                                       !.autoStatus = "triggered"],
                  ![next] = NewOperation("rollback", op[o].run, "waking",
                                         TRUE)]
            /\ pc' = [pc EXCEPT ![o] = "idle", ![next] = "wake"]
        BY <2>2, <3>4, Zenon DEF AutoTrigger
      <4> QED
        BY <2>1, <2>2, <3>4, <4>1, TriggerJobs, Zenon
    <3> QED
      BY <3>1, <3>2, <3>3, <3>4
  <2>3. CASE \E s \in {"run_complete", "run_failed"} :
               SetState(o, s) /\ Move(o, "idle")
    BY <1>0, <2>1, <2>3, SameJobs, SettleStep DEF Move, WatchedTerminal
  <2> QED
    BY <1>3, <2>1, <2>2, <2>3 DEF DeployEnds, DeployEnd, Ended
<1>4. CASE TeardownEnds(o)
  <2>1. PICK s \in {"run_complete", "run_failed"} : SetState(o, s)
    BY <1>4 DEF TeardownEnds
  <2> QED
    BY <1>0, <1>4, <2>1, SameJobs, SettleStep
    DEF TeardownEnds, Move, WatchedTerminal
<1>5. CASE RollbackEnds(o)
  BY <1>5, RollbackEndJobs
<1>6. CASE PurgeEnds(o)
  <2>1. PICK s \in {"run_complete", "run_failed", "run_status_unknown"} :
          SetState(o, s)
    BY <1>6 DEF PurgeEnds
  <2>2. s \in OperationState
    BY <1>0 DEF WatchedTerminal, DirtyStates
  <2> QED BY <1>6, <2>1, <2>2, SameJobs, SettleStep DEF PurgeEnds, Move
<1> QED
  BY <1>1, <1>2, <1>3, <1>4, <1>5, <1>6 DEF Watch

\* _mark_drain_pending and _mark_drain_verified claim something of the
\* rollback they are for, and of no other operation.
LEMMA MarkEffect ==
  ASSUME StoreTypeOK, NEW o \in OpId, NEW r,
         MarkPending(o) \/ MarkVerified(o, r) \/ UNCHANGED storeVars
  PROVE  /\ SameOp(o)
         /\ \A p \in OpId : p # o =>
              /\ SameOp(p)
              /\ op'[p] # Absent =>
                   /\ op'[p].pending => op[p].pending
                   /\ op'[p].state = "run_complete" => op[p].state = "run_complete"
<1>1. \A p \in OpId : /\ InStore(p) => op[p] \in Operation
                      /\ ~ InStore(p) => op[p] = Absent
  BY StoreEntries
<1>2. CASE UNCHANGED storeVars
  BY <1>1, <1>2 DEF storeVars, SameOp
<1>3. CASE MarkPending(o)
  <2>1. CASE op[o].pending
    BY <1>2, <1>3, <2>1 DEF MarkPending
  <2>2. CASE ~ op[o].pending
    <3> DEFINE new == [op[o] EXCEPT !.pending = TRUE]
    <3>1. \A x \in Operation : [x EXCEPT !.pending = TRUE] \in Operation
      BY OperationShape, Zenon DEF OperationState
    <3>2. InStore(o) => new \in Operation
      BY <1>1, <3>1, Zenon
    <3>3. Update(o, new)
      BY <1>3, <2>2, Zenon DEF MarkPending
    <3>4. InStore(o) =>
            /\ new.action = op[o].action /\ new.target = op[o].target
            /\ new.job = op[o].job /\ new.run = op[o].run
            /\ new.auto = op[o].auto
      BY <1>1 DEF Operation
    <3> HIDE DEF new
    <3>5. /\ op'[o] = IF InStore(o) THEN new ELSE Absent
          /\ \A p \in OpId : p # o => op'[p] = op[p]
      BY <3>2, <3>3, UpdateEffect, Zenon
    <3> QED BY <1>1, <3>4, <3>5 DEF SameOp
  <2> QED BY <2>1, <2>2
<1>4. CASE MarkVerified(o, r) /\ Correlated(r)
  <2> DEFINE failed == RecoveredDeploys(r)
             others == Superseded(o, r)
             self   == {o} \cap {p \in OpId : InStore(p)}
             clean(p) == [op[p] EXCEPT !.state = "run_complete",
                                       !.pending = FALSE]
             fail(p) == [op[p] EXCEPT !.state = "run_failed"]
             over(p) == [op[p] EXCEPT !.state = "run_failed",
                                      !.pending = FALSE]
  <2>1. op' = [p \in OpId |->
               CASE p \in self -> clean(p)
                 [] p \in failed -> fail(p)
                 [] p \in others -> over(p)
                 [] OTHER -> op[p]]
    BY <1>4, Zenon DEF MarkVerified
  <2>2. \A p \in failed \cup others : p \in OpId /\ InStore(p)
    BY DEF RecoveredDeploys, Superseded, DeployOpsFor, InStore
  <2>3. \A p \in self : p = o /\ InStore(p)
    OBVIOUS
  <2>4. ASSUME NEW p \in OpId, InStore(p),
               NEW x \in {clean(p), fail(p), over(p)}
        PROVE  /\ x.action = op[p].action /\ x.target = op[p].target
               /\ x.job = op[p].job /\ x.run = op[p].run /\ x.auto = op[p].auto
    BY <1>1, <2>4 DEF Operation
  <2>5. ASSUME NEW p \in OpId, InStore(p),
               NEW x \in {fail(p), over(p)}
        PROVE  x.state = "run_failed" /\ (x.pending => op[p].pending)
    BY <1>1, <2>5 DEF Operation
  <2> HIDE DEF failed, others, self, clean, fail, over
  <2>6. \A p \in OpId :
          \/ op'[p] = op[p]
          \/ p \in self /\ op'[p] = clean(p)
          \/ p \in failed /\ op'[p] = fail(p)
          \/ p \in others /\ op'[p] = over(p)
    BY <2>1
  <2>7. \A p \in OpId : SameOp(p)
    BY <1>1, <2>2, <2>3, <2>4, <2>6 DEF SameOp
  <2>8. ASSUME NEW p \in OpId, p # o
        PROVE  /\ op'[p].pending => op[p].pending
               /\ op'[p].state = "run_complete" => op[p].state = "run_complete"
    BY <2>2, <2>3, <2>5, <2>6, <2>8
  <2> QED BY <2>7, <2>8
<1> QED BY <1>2, <1>3, <1>4 DEF MarkVerified

LEMMA MarkJobs ==
  ASSUME IInv, JobInv, NEW o \in OpId, NEW r, Drainable(o),
         MarkPending(o) \/ MarkVerified(o, r) \/ UNCHANGED storeVars,
         pc'[o] \in {"idle", "drain", "draining"},
         \A p \in OpId : p # o => pc'[p] = pc[p], job' = job
  PROVE  \A p \in OpId : Coherent(p)' /\ (Drainable(p) => Drainable(p)')
<1>1. /\ SameOp(o)
      /\ \A p \in OpId : p # o => Rests(p)
  BY MarkEffect DEF IInv, TypeOK, Rests
<1>2. Coherent(o)' /\ (Drainable(o) => Drainable(o)')
  BY <1>1, SameJobs, DrainedKeeps, DrainableStays DEF JobInv
<1>3. ASSUME NEW p \in OpId, p # o
      PROVE  Coherent(p)' /\ (Drainable(p) => Drainable(p)')
  BY <1>1, <1>3, SameJobs, RestsKeeps, DrainableStays DEF JobInv, Rests
<1> QED BY <1>2, <1>3

LEMMA DrainJobs ==
  ASSUME IInv, JobInv, NEW o \in OpId, Drain(o) PROVE JobInv'
<1>1. /\ pc[o] \in {"drain", "draining"} /\ recheck' = recheck /\ job' = job
      /\ pc \in [OpId -> Phase]
  BY DEF Drain, DrainBegins, DrainGivesUp, DrainGone, DrainVerified, IInv, TypeOK
<1>2. Drainable(o)
  BY <1>1 DEF JobInv, Coherent
<1>3. /\ MarkPending(o) \/ MarkVerified(o, RunOf(o)) \/ UNCHANGED storeVars
      /\ Move(o, "idle") \/ Move(o, "draining")
  BY DEF Drain, DrainBegins, DrainGivesUp, DrainGone, DrainVerified
<1>4. /\ pc'[o] \in {"idle", "drain", "draining"}
      /\ \A p \in OpId : p # o => pc'[p] = pc[p]
  BY <1>1, <1>3 DEF Move
<1>5. \A p \in OpId : Coherent(p)' /\ (Drainable(p) => Drainable(p)')
  BY <1>1, <1>2, <1>3, <1>4, MarkJobs
<1> QED BY <1>1, <1>5, AllCohere

\* The drain verification an operator asks for is of a rollback whose job
\* left only monitoring.
LEMMA RecheckJobs == ASSUME IInv, JobInv, Recheck PROVE JobInv'
<1>1. ASSUME NEW u \in Operator, NEW o \in OpId, RecheckBegins(u, o)
      PROVE  JobInv'
  <2>1. /\ recheck' = [recheck EXCEPT ![u] = o]
        /\ UNCHANGED <<storeVars, pc, seen, job, restarts>>
        /\ op[o].action = "rollback" /\ op[o].pending
    BY <1>1 DEF RecheckBegins
  <2>2. Drainable(o)
    BY <2>1 DEF JobInv, Coherent
  <2>3. \A p \in OpId : Coherent(p)' /\ Drainable(p)' = Drainable(p)
    BY <2>1 DEF JobInv, Coherent, Drainable, InStore, Justified, storeVars
  <2>4. \A v \in Operator : recheck'[v] # None => recheck'[v] \in OpId /\ Drainable(recheck'[v])
    BY <2>1, <2>2 DEF JobInv, IInv, TypeOK
  <2> QED BY <2>3, <2>4 DEF JobInv
<1>2. ASSUME NEW u \in Operator, RecheckEnds(u) PROVE JobInv'
  <2>1. PICK o \in OpId : o = recheck[u] /\ recheck[u] # None
    BY <1>2 DEF RecheckEnds, IInv, TypeOK
  <2>2. pc[o] \in {"idle", "drain", "draining"} /\ Drainable(o)
    BY <2>1 DEF IInv, RecheckSettled, JobInv
  <2>3. /\ MarkPending(o) \/ MarkVerified(o, RunOf(o)) \/ UNCHANGED storeVars
        /\ recheck' = [recheck EXCEPT ![u] = None]
        /\ pc' = pc /\ job' = job
    BY <1>2, <2>1 DEF RecheckEnds
  <2>4. \A p \in OpId : Coherent(p)' /\ (Drainable(p) => Drainable(p)')
    BY <2>2, <2>3, MarkJobs
  <2>5. \A v \in Operator : recheck'[v] # None => recheck'[v] = recheck[v] /\ recheck[v] \in OpId
    BY <2>3 DEF IInv, TypeOK
  <2> QED BY <2>4, <2>5 DEF JobInv
<1> QED BY <1>1, <1>2 DEF Recheck

LEMMA ExpireJobs == ASSUME IInv, JobInv, NEW o \in OpId, Expire(o) PROVE JobInv'
<1>1. /\ op' = [op EXCEPT ![o] = Absent] /\ StoreTypeOK
      /\ UNCHANGED <<pc, seen, recheck, job, restarts>>
  BY DEF Expire, Collect, IInv, TypeOK
<1>2. op'[o] = Absent /\ \A p \in OpId : p # o => op'[p] = op[p]
  BY <1>1 DEF StoreTypeOK
<1>3. Rests(o)
  BY <1>1, <1>2 DEF Rests, SameOp
<1>4. Coherent(o)' /\ (Drainable(o) => Drainable(o)')
  BY <1>1, <1>3, SameJobs, RestsKeeps, DrainableStays DEF JobInv, Rests
<1> QED BY <1>1, <1>2, <1>4, SameJobs, OneMoves

LEMMA RestartJobs == ASSUME IInv, JobInv, Restart PROVE JobInv'
<1>1. /\ \A p \in OpId : op'[p] = Absent /\ pc'[p] = "idle"
      /\ \A u \in Operator : recheck'[u] = None
  BY DEF Restart
<1> QED BY <1>1, AbsentFields DEF JobInv, Coherent, Early

\* AWX moves one of its jobs on.
JobMoves(j) ==
  JobStarts(j) \/ JobSucceeds(j) \/ JobFails(j) \/ JobCanceled(j)

LEMMA AcceptedFields ==
  ASSUME IInv, NEW j \in OpId, JobAccepted(j)
  PROVE  /\ Unended(j) /\ ~ Live(j)
         /\ job'[j].action = job[j].action /\ job'[j].target = job[j].target
         /\ job'[j].run = job[j].run /\ job'[j].marker = job[j].marker
         /\ job'[j].by = "late"
         /\ \A i \in OpId : i # j => job'[i] = job[i]
         /\ op' = op /\ pc' = pc /\ recheck' = recheck
<1>1. job[j] \in Job /\ job \in [OpId -> Job \cup {NoJob}]
  BY AbsentFields DEF IInv, TypeOK, JobAccepted
<1>2. /\ job[j].status = "posted"
      /\ job' = [job EXCEPT ![j] = [job[j] EXCEPT !.status = "pending",
                                                !.by = "late"]]
  BY <1>1 DEF JobAccepted
<1>3. op' = op /\ pc' = pc /\ recheck' = recheck
  BY DEF JobAccepted, storeVars
<1> QED
  BY <1>1, <1>2, <1>3 DEF Job, Unended, Live

LEMMA AWXJobs == ASSUME IInv, JobInv, AWX PROVE JobInv'
<1>1. StoreTypeOK /\ job \in [OpId -> Job \cup {NoJob}]
  BY DEF IInv, TypeOK
<1>2. ASSUME JobsGrow, op' = op, pc' = pc, recheck' = recheck
      PROVE  JobInv'
  <2>1. \A p \in OpId : Rests(p)
    BY <1>1, <1>2, StillRests
  <2>2. \A p \in OpId : Coherent(p)'
    BY <1>2, <2>1, RestsKeeps DEF JobInv
  <2>3. \A p \in OpId : Drainable(p) => Drainable(p)'
    BY <1>2, <2>1, DrainableStays DEF Rests
  <2> QED BY <1>2, <2>2, <2>3, AllCohere
<1>3. ASSUME NEW j \in OpId, Unended(j), NEW s, NEW m, JobTo(j, s, m)
      PROVE  JobInv'
  <2>1. job[j] \in Job
    BY <1>1, <1>3, AbsentFields DEF Unended
  <2>2. /\ job'[j].action = job[j].action /\ job'[j].run = job[j].run
        /\ \A i \in OpId : i # j => job'[i] = job[i]
    BY <1>1, <1>3, <2>1 DEF JobTo, Job
  <2>3. JobsGrow
    BY <1>3, <2>2 DEF JobsGrow
  <2> QED BY <1>2, <1>3, <2>3 DEF JobTo, storeVars
<1>4. ASSUME NEW j \in OpId, JobMoves(j)
      PROVE  Unended(j) /\ \E s, m : JobTo(j, s, m)
  BY <1>4 DEF JobMoves, JobStarts, JobSucceeds, JobFails, JobCanceled, Unended
<1>6. ASSUME NEW j \in OpId, JobAccepted(j) PROVE JobInv'
  <2>1. JobsGrow
    BY <1>6, AcceptedFields DEF JobsGrow
  <2> QED BY <1>2, <1>6, <2>1, AcceptedFields
<1>5. ASSUME NEW k \in Key, NEW r \in OpId \cup {None}, JobForeign(k, r)
      PROVE  JobInv'
  <2>1. PICK n \in OpId : n = next
    BY <1>1, <1>5, StoreAssumption DEF JobForeign, StoreTypeOK, OpId
  <2>2. job[n] = NoJob /\ pc[n] = "idle"
    BY <2>1 DEF IInv, Allocated, OpId
  <2>3. /\ \A i \in OpId : i # n => job'[i] = job[i]
        /\ op' = op /\ pc' = pc /\ recheck' = recheck
    BY <1>1, <1>5, <2>1 DEF JobForeign
  <2>4. JobsGrow
    BY <2>2, <2>3 DEF JobsGrow, Early
  <2> QED BY <1>2, <2>3, <2>4
<1> QED BY <1>3, <1>4, <1>5, <1>6 DEF AWX, JobMoves

-----------------------------------------------------------------------------
(* Theorems about what is claimed.                                         *)

LEMMA InitJobs == Init => JobInv
<1> SUFFICES ASSUME Init PROVE JobInv
  OBVIOUS
<1>1. /\ \A o \in OpId : op[o] = Absent /\ pc[o] = "idle" /\ job[o] = NoJob
      /\ \A u \in Operator : recheck[u] = None
  BY DEF Init, StoreInit
<1> QED BY <1>1, AbsentFields DEF JobInv, Coherent, Early

LEMMA NextJobs == IInv /\ JobInv /\ [Next]_vars => JobInv'
<1> SUFFICES ASSUME IInv, JobInv, [Next]_vars PROVE JobInv'
  OBVIOUS
<1>1. ASSUME NEW o \in OpId, Coroutine(o) PROVE JobInv'
  BY <1>1, PreflightJobs, DispatchJobs, WatchJobs, DrainJobs DEF Coroutine
<1>2. CASE UNCHANGED vars
  BY <1>2 DEF vars, JobInv, Coherent, Drainable, Justified, InStore
<1> QED
  BY <1>1, <1>2, RequestJobs, RecheckJobs, ExpireJobs, RestartJobs, AWXJobs
  DEF Next

\* What the store says of jobs and what AWX knows of them agree throughout.
THEOREM JobsInductive == Spec => []JobInv
<1> QED BY InitJobs, NextJobs, Inductive, PTL DEF Spec

\* A rollback is shown complete only if its own job succeeded and said that all
\* is clean or that only monitoring is left, whoever verifies it and whenever.
THEOREM ClaimsHold == Spec => []RollbackClaims
<1>1. IInv /\ JobInv => RollbackClaims
  <2> SUFFICES ASSUME IInv, JobInv, NEW o \in OpId, op[o].action = "rollback"
               PROVE  /\ op[o].state = "run_complete" =>
                           /\ job[op[o].job].status = "successful"
                           /\ job[op[o].job].marker \in {"complete", "monitoring"}
                      /\ op[o].pending =>
                           /\ job[op[o].job].status = "successful"
                           /\ job[op[o].job].marker = "monitoring"
    BY DEF RollbackClaims
  <2>1. Coherent(o)
    BY DEF JobInv
  <2>2. op[o].action # Absent.action
    BY AbsentFields
  <2>3. op[o].state = "run_complete" =>
          /\ job[op[o].job].status = "successful"
          /\ job[op[o].job].marker \in {"complete", "monitoring"}
    BY <2>1 DEF Coherent
  <2>4. op[o].pending => Drainable(o)
    BY <2>1 DEF Coherent
  <2>5. InStore(o)
    BY <2>2, StoreEntries DEF IInv, TypeOK
  <2> QED BY <2>3, <2>4, <2>5 DEF Drainable
<1> QED BY <1>1, Inductive, JobsInductive, PTL

\* An automatic rollback exists only for a run whose deploy job AWX reported
\* failed after a start.
THEOREM TriggersJustified == Spec => []AutoRollbackJustified
<1>1. JobInv => AutoRollbackJustified
  BY DEF JobInv, Coherent, Justified, AutoRollbackJustified
<1> QED BY <1>1, JobsInductive, PTL

-----------------------------------------------------------------------------
(* No competing jobs.                                                      *)

\* No live job appears or changes hands, and no coroutine comes to where it
\* relies on what it found.
Quiet ==
  /\ \A j \in OpId :
       Live(j)' => /\ Live(j) \/ job'[j].by # "console"
                             \/ job'[j].action \notin {"deploy", "teardown"}
                   /\ Live(j) => /\ job'[j].action = job[j].action
                                 /\ job'[j].target = job[j].target
                                 /\ job'[j].by = job[j].by
  /\ \A o \in OpId :
       pc'[o] = "opposite" \/
       (pc'[o] = "launch" /\ op'[o].action \in {"deploy", "teardown"})
         => /\ pc'[o] = pc[o]
            /\ op'[o].action = op[o].action /\ op'[o].target = op[o].target

LEMMA QuietKeeps == ASSUME RivalInv, Quiet PROVE RivalInv'
<1>1. \A j \in OpId :
        /\ Live(j)' /\ job'[j].by = "console" /\ job'[j].action \in {"deploy", "teardown"}
        => /\ Live(j) /\ job[j].by = "console"
           /\ job'[j].action = job[j].action /\ job'[j].target = job[j].target
  BY DEF Quiet
<1>2. NoCompetingJobs'
  BY <1>1 DEF RivalInv, NoCompetingJobs
<1>3. ASSUME NEW o \in OpId, pc'[o] = "opposite",
             NEW j \in OpId, Live(j)', job'[j].by = "console",
             job'[j].target = op'[o].target,
             job'[j].action \in {"deploy", "teardown"}
      PROVE  job'[j].action # op'[o].action
  BY <1>1, <1>3 DEF Quiet, RivalInv, Looked, ChangeJobs
<1>4. ASSUME NEW o \in OpId, pc'[o] = "launch",
             op'[o].action \in {"deploy", "teardown"},
             NEW j \in OpId, Live(j)', job'[j].by = "console",
             job'[j].target = op'[o].target,
             job'[j].action \in {"deploy", "teardown"}
      PROVE  FALSE
  BY <1>1, <1>4 DEF Quiet, RivalInv, Looked, ChangeJobs
<1>5. \A o \in OpId : Looked(o)'
  <2> SUFFICES ASSUME NEW o \in OpId PROVE Looked(o)'
    OBVIOUS
  <2>1. pc'[o] = "opposite" =>
          \A j \in ChangeJobs(op[o].target)' : job'[j].action # op'[o].action
    BY <1>3 DEF ChangeJobs
  <2>2. pc'[o] = "launch" /\ op'[o].action \in {"deploy", "teardown"} =>
          ChangeJobs(op[o].target)' = {}
    BY <1>4 DEF ChangeJobs
  <2> QED BY <2>1, <2>2 DEF Looked
<1> QED BY <1>2, <1>5 DEF RivalInv

\* The actions that look for a competing job before they launch.
Changes == {"deploy", "teardown"}

\* A coroutine that comes to rely on what it found does so for other jobs, or
\* was there already.
Relies(p) == pc'[p] = "opposite" \/ (pc'[p] = "launch" /\ op'[p].action \in Changes)

LEMMA QuietTask ==
  ASSUME IInv', RivalInv,
         \A j \in OpId :
           Live(j)' => /\ Live(j) \/ job'[j].by # "console" \/ job'[j].action \notin Changes
                       /\ Live(j) => /\ job'[j].action = job[j].action
                                     /\ job'[j].target = job[j].target
                                     /\ job'[j].by = job[j].by,
         \A p \in OpId : ~ Relies(p) \/ (pc'[p] = pc[p] /\ SameOp(p))
  PROVE  RivalInv'
<1>1. ASSUME NEW p \in OpId, Relies(p)
      PROVE  op'[p].action = op[p].action /\ op'[p].target = op[p].target
  <2>1. op'[p].state = "launching"
    BY <1>1 DEF Relies, IInv, PhaseStates
  <2> QED BY <1>1, <2>1, AbsentFields DEF SameOp
<1>2. Quiet
  BY <1>1 DEF Quiet, Relies, Changes
<1> QED BY <1>2, QuietKeeps

\* One operation is written or none, and its coroutine moves.
LEMMA UpdateQuiet ==
  ASSUME IInv, IInv', RivalInv, NEW o \in OpId, NEW ph,
         UNCHANGED storeVars \/ \E new : Update(o, new),
         pc' = [pc EXCEPT ![o] = ph], job' = job,
         ph \notin {"opposite", "launch"}
           \/ (ph = "launch" /\ op'[o].action \notin Changes)
  PROVE  RivalInv'
<1>1. StoreTypeOK /\ pc \in [OpId -> Phase]
  BY DEF IInv, TypeOK
<1>2. \A p \in OpId : p # o => op'[p] = op[p] /\ pc'[p] = pc[p]
  BY <1>1 DEF Update, storeVars, StoreTypeOK
<1>3. \A p \in OpId : p # o => pc'[p] = pc[p] /\ SameOp(p)
  BY <1>1, <1>2, StoreEntries DEF SameOp
<1>4. ~ Relies(o)
  BY <1>1 DEF Relies
<1>5. \A j \in OpId :
           Live(j)' => /\ Live(j) \/ job'[j].by # "console"
                       /\ Live(j) => /\ job'[j].action = job[j].action
                                     /\ job'[j].target = job[j].target
                                     /\ job'[j].by = job[j].by
  BY DEF Live
<1> QED BY <1>3, <1>4, <1>5, QuietTask

LEMMA RequestRivals ==
  ASSUME IInv, IInv', RivalInv, Request PROVE RivalInv'
<1>1. ASSUME NEW a, NEW t, NEW s, NEW ph \in {"idle", "preflight", "wake"},
             Insert(a, t, s, FALSE), pc' = [pc EXCEPT ![next] = ph] \/ pc' = pc,
             job' = job
      PROVE  RivalInv'
  <2>1. StoreTypeOK /\ pc \in [OpId -> Phase]
    BY DEF IInv, TypeOK
  <2>2. PICK n \in OpId : n = next
    BY <1>1, <2>1, StoreAssumption DEF Insert, StoreTypeOK, OpId
  <2>3. \A p \in OpId : p # n => op'[p] = op[p] /\ pc'[p] = pc[p]
    BY <1>1, <2>1, <2>2 DEF Insert, StoreTypeOK
  <2>4. \A p \in OpId : p # n => pc'[p] = pc[p] /\ SameOp(p)
    BY <2>1, <2>3, StoreEntries DEF SameOp
  <2>5. pc'[n] \in {"idle", "preflight", "wake"}
    <3>1. pc[n] = "idle"
      BY <2>2 DEF IInv, Allocated, OpId
    <3> QED BY <1>1, <2>1, <2>2, <3>1
  <2>6. ~ Relies(n)
    BY <2>5 DEF Relies
  <2> QED BY <1>1, <2>4, <2>6, QuietTask DEF Live
<1>2. ASSUME NEW a, NEW t, NEW ph \in {"preflight", "wake"}, Admit(a, t, ph),
             job' = job
      PROVE  RivalInv'
  BY <1>1, <1>2 DEF Admit, Move
<1> QED
  BY <1>1, <1>2 DEF Request, RequestDeploy, RequestTeardown, RequestPurge,
     RequestRollback, RequestLaunch, Move

LEMMA PreflightRivals ==
  ASSUME IInv, IInv', RivalInv, NEW o \in OpId, Preflight(o) PROVE RivalInv'
  BY UpdateQuiet DEF Preflight, PreflightPass, PreflightRaise, PreflightRefuse,
     SetState, Move

\* find_active_job_for_template found no job of the operation's own template,
\* then none of the opposite one.
LEMMA LookedStep ==
  ASSUME IInv, RivalInv, NEW o \in OpId, NEW ph \in {"opposite", "launch"},
         op' = op, job' = job, pc' = [pc EXCEPT ![o] = ph],
         \A j \in ChangeJobs(op[o].target) :
           ph = "launch" \/ job[j].action # op[o].action,
         ph = "launch" => ChangeJobs(op[o].target) = {}
  PROVE  RivalInv'
<1>1. pc \in [OpId -> Phase]
  BY DEF IInv, TypeOK
<1>2. \A k : ChangeJobs(k)' = ChangeJobs(k)
  BY DEF ChangeJobs, Live
<1>3. NoCompetingJobs'
  BY DEF RivalInv, NoCompetingJobs, Live
<1>4. ASSUME NEW p \in OpId PROVE Looked(p)'
  <2>1. /\ p # o => pc'[p] = pc[p] /\ Looked(p)
        /\ pc'[o] = ph
    BY <1>1 DEF RivalInv
  <2>2. ChangeJobs(op[p].target)' = ChangeJobs(op[p].target)
    BY <1>2
  <2> QED BY <2>1, <2>2 DEF Looked
<1> QED BY <1>3, <1>4 DEF RivalInv

\* The task of a deploy or a teardown on its way to the launch holds the
\* facility.
LEMMA ReliesInFlight ==
  ASSUME IInv, NEW o \in OpId,
         pc[o] = "opposite" \/ (pc[o] = "launch" /\ op[o].action \in Changes)
  PROVE  InFlight(o)
<1>1. op[o].action \in Changes
  BY DEF IInv, PhaseStates, Changes
<1> QED BY <1>1, MovingIsActive DEF Changes, WatchedAction

LEMMA LaunchRivals ==
  ASSUME IInv, IInv', RivalInv, NEW o \in OpId, pc[o] = "launch",
         NEW l \in Launches(o), job' = [job EXCEPT ![o] = l],
         NEW ph \in {"idle", "watch"}, pc' = [pc EXCEPT ![o] = ph],
         \E new : Update(o, new), job[o] = NoJob
  PROVE  RivalInv'
<1>1. StoreTypeOK /\ pc \in [OpId -> Phase] /\ job \in [OpId -> Job \cup {NoJob}]
  BY DEF IInv, TypeOK
<1>2. \A p \in OpId : p # o => op'[p] = op[p] /\ pc'[p] = pc[p] /\ job'[p] = job[p]
  BY <1>1 DEF Update, StoreTypeOK
<1>3. /\ job'[o].action = op[o].action /\ job'[o].target = op[o].target
      /\ pc'[o] = ph /\ ~ Live(o)
  BY <1>1, AbsentFields, LaunchFields DEF Live
<1>4. CASE op[o].action \notin Changes
  <2>1. \A p \in OpId : p # o => pc'[p] = pc[p] /\ SameOp(p)
    BY <1>1, <1>2, StoreEntries DEF SameOp
  <2>2. ~ Relies(o)
    BY <1>3 DEF Relies
  <2>3. \A j \in OpId :
           Live(j)' => /\ Live(j) \/ job'[j].by # "console" \/ job'[j].action \notin Changes
                       /\ Live(j) => /\ job'[j].action = job[j].action
                                     /\ job'[j].target = job[j].target
                                     /\ job'[j].by = job[j].by
    BY <1>2, <1>3, <1>4 DEF Live
  <2> QED BY <2>1, <2>2, <2>3, QuietTask
<1>5. CASE op[o].action \in Changes
  <2>1. InFlight(o) /\ ChangeJobs(op[o].target) = {}
    BY <1>5, ReliesInFlight DEF RivalInv, Looked, Changes
  <2>2. ASSUME NEW i \in OpId, NEW j \in OpId, i # j,
               Live(i)', job'[i].by = "console", job'[i].action \in {"deploy", "teardown"},
               Live(j)', job'[j].by = "console", job'[j].action \in {"deploy", "teardown"},
               job'[i].target = job'[j].target
        PROVE  FALSE
    <3>1. CASE i # o /\ j # o
      BY <1>2, <2>2, <3>1 DEF RivalInv, NoCompetingJobs, Live
    <3>2. CASE i = o
      <4>1. j \in ChangeJobs(op[o].target)
        BY <1>2, <1>3, <2>2, <3>2 DEF ChangeJobs, Live
      <4> QED BY <2>1, <4>1
    <3>3. CASE j = o
      <4>1. i \in ChangeJobs(op[o].target)
        BY <1>2, <1>3, <2>2, <3>3 DEF ChangeJobs, Live
      <4> QED BY <2>1, <4>1
    <3> QED BY <3>1, <3>2, <3>3
  <2>3. NoCompetingJobs'
    BY <2>2 DEF NoCompetingJobs
  <2>4. ASSUME NEW p \in OpId PROVE Looked(p)'
    <3>1. ~ Relies(p)
      <4>1. CASE p = o
        BY <1>3, <4>1 DEF Relies
      <4>2. CASE p # o
        BY <1>2, <2>1, <4>2, ReliesInFlight DEF Relies, IInv, OneRunAtATime
      <4> QED BY <4>1, <4>2
    <3> QED BY <3>1 DEF Looked, Relies, Changes
  <2> QED BY <2>3, <2>4 DEF RivalInv
<1> QED BY <1>4, <1>5

LEMMA DispatchRivals ==
  ASSUME IInv, IInv', JobInv, RivalInv, NEW o \in OpId, Dispatch(o)
  PROVE  RivalInv'
<1>1. CASE EnsureAwake(o)
  <2>1. op[o] \in Operation /\ InStore(o) /\ StoreTypeOK
    BY <1>1, MovingIsActive DEF EnsureAwake, IsActive, IInv, TypeOK
  <2>2. op'[o].action = op[o].action
    <3>1. op'[o] = [op[o] EXCEPT !.state = "launching"]
      BY <1>1, <2>1, SetStateEffect DEF EnsureAwake, OperationState
    <3> QED BY <2>1, <3>1 DEF Operation
  <2>3. \E new : Update(o, new)
    BY <1>1 DEF EnsureAwake, SetState
  <2>4. PICK ph \in {"lookup", "launch"} :
          /\ pc' = [pc EXCEPT ![o] = ph] /\ job' = job
          /\ ph = "launch" => op[o].action \in {"rollback", "finalise-purge"}
    BY <1>1 DEF EnsureAwake, Move
  <2> QED BY <2>2, <2>3, <2>4, UpdateQuiet DEF Changes
<1>2. CASE TaskFails(o)
  BY <1>2, UpdateQuiet DEF TaskFails, SetState, Move
<1>3. CASE FindActiveJob(o)
  <2>1. pc[o] = "lookup" /\ job' = job
    BY <1>3 DEF FindActiveJob
  <2>2. CASE /\ op[o].action = "launch"
             /\ Move(o, "launch") /\ UNCHANGED storeVars
    BY <2>1, <2>2, UpdateQuiet DEF Move, storeVars, Changes
  <2>3. CASE /\ ActiveJobs(op[o].action, op[o].target) = {}
             /\ Move(o, "opposite") /\ UNCHANGED storeVars
    <3>1. \A j \in ChangeJobs(op[o].target) : job[j].action # op[o].action
      BY <2>3 DEF ActiveJobs, ChangeJobs
    <3> QED BY <2>1, <2>3, <3>1, LookedStep DEF Move, storeVars
  <2>4. CASE /\ \E new : Update(o, new)
             /\ Move(o, "idle") \/ Move(o, "watch")
    BY <2>1, <2>4, UpdateQuiet DEF Move
  <2> QED BY <1>3, <2>2, <2>3, <2>4 DEF FindActiveJob
<1>4. CASE CheckOpposite(o)
  <2>1. CASE /\ ActiveJobs(Opposite(op[o].action), op[o].target) = {}
             /\ Move(o, "launch") /\ UNCHANGED storeVars
    <3>1. pc[o] = "opposite" /\ op[o].action \in {"deploy", "teardown"} /\ job' = job
      BY <1>4 DEF CheckOpposite, IInv, PhaseStates
    <3>2. ChangeJobs(op[o].target) = {}
      BY <2>1, <3>1 DEF RivalInv, Looked, ActiveJobs, ChangeJobs, Opposite
    <3> QED BY <2>1, <3>1, <3>2, LookedStep DEF Move, storeVars
  <2>2. CASE SetState(o, "error") /\ Move(o, "idle")
    BY <1>4, <2>2, UpdateQuiet DEF CheckOpposite, SetState, Move
  <2> QED BY <1>4, <2>1, <2>2 DEF CheckOpposite
<1>5. CASE LaunchJob(o) \/ LaunchAnswerLost(o)
  <2>1. /\ pc[o] = "launch"
        /\ \E l \in Launches(o) : job' = [job EXCEPT ![o] = l]
        /\ \E new : Update(o, new)
        /\ \E ph \in {"idle", "watch"} : pc' = [pc EXCEPT ![o] = ph]
    BY <1>5 DEF LaunchJob, LaunchAnswerLost, Launches, SetState, Move
  <2>2. job[o] = NoJob
    BY <2>1 DEF JobInv, Coherent, Early
  <2> QED BY <2>1, <2>2, LaunchRivals
<1> QED BY <1>1, <1>2, <1>3, <1>4, <1>5 DEF Dispatch

LEMMA WatchRivals ==
  ASSUME IInv, IInv', RivalInv, NEW o \in OpId, Watch(o) PROVE RivalInv'
<1>1. pc[o] = "watch" /\ job' = job /\ StoreTypeOK /\ pc \in [OpId -> Phase]
  BY DEF Watch, PollLive, WatchGivesUp, DeployEnds, TeardownEnds, RollbackEnds,
     PurgeEnds, Watching, IInv, TypeOK
<1>2. CASE PollLive(o)
  <2>1. pc' = [pc EXCEPT ![o] = "watch"]
    BY <1>1, <1>2 DEF PollLive
  <2> QED BY <1>1, <1>2, <2>1, UpdateQuiet DEF PollLive, SetState
<1>3. CASE /\ \E new : Update(o, new)
           /\ Move(o, "idle") \/ Move(o, "drain")
  BY <1>1, <1>3, UpdateQuiet DEF Move
<1>4. CASE /\ next <= MaxOps
           /\ \E x, y : op' = [op EXCEPT ![o] = x, ![next] = y]
           /\ pc' = [pc EXCEPT ![o] = "idle", ![next] = "wake"]
  <2>1. PICK n \in OpId : n = next
    BY <1>1, <1>4, StoreAssumption DEF StoreTypeOK, OpId
  <2>2. \A p \in OpId : p \notin {o, n} => op'[p] = op[p] /\ pc'[p] = pc[p]
    BY <1>1, <1>4, <2>1 DEF StoreTypeOK
  <2>3. pc'[o] \in {"idle", "wake"} /\ pc'[n] = "wake"
    BY <1>1, <1>4, <2>1
  <2>4. \A p \in OpId : ~ Relies(p) \/ (pc'[p] = pc[p] /\ SameOp(p))
    BY <1>1, <2>2, <2>3, StoreEntries DEF Relies, SameOp
  <2> QED BY <1>1, <2>4, QuietTask DEF Live
<1>5. CASE DeployEnds(o)
  <2>1. CASE AutoTrigger(o)
    <3> DEFINE failed(status) == [op[o] EXCEPT !.state = "failed_rollback_required",
                                              !.autoStatus = status]
               new == NewOperation("rollback", op[o].run, "waking", TRUE)
    <3>1. \/ \E status : Update(o, failed(status)) /\ Move(o, "idle")
          \/ /\ next <= MaxOps
             /\ op' = [op EXCEPT ![o] = failed("triggered"), ![next] = new]
             /\ pc' = [pc EXCEPT ![o] = "idle", ![next] = "wake"]
      BY <2>1, Zenon DEF AutoTrigger
    <3> HIDE DEF failed, new
    <3> QED BY <1>3, <1>4, <3>1
  <2>2. CASE \E s : SetState(o, s) /\ Move(o, "idle")
    BY <1>3, <2>2 DEF SetState
  <2> QED BY <1>5, <2>1, <2>2 DEF DeployEnds
<1>6. CASE WatchGivesUp(o) \/ TeardownEnds(o) \/ RollbackEnds(o) \/ PurgeEnds(o)
  BY <1>3, <1>6 DEF WatchGivesUp, TeardownEnds, RollbackEnds, PurgeEnds, SetState, Move
<1> QED BY <1>2, <1>5, <1>6 DEF Watch

\* Verifying a drain writes the store, but no operation with a task on its way.
LEMMA MarkRivals ==
  ASSUME IInv, IInv', RivalInv, NEW o \in OpId, NEW r,
         MarkPending(o) \/ MarkVerified(o, r) \/ UNCHANGED storeVars,
         pc'[o] \in {"idle", "drain", "draining"},
         \A p \in OpId : p # o => pc'[p] = pc[p], job' = job
  PROVE  RivalInv'
<1>1. \A p \in OpId : SameOp(p)
  BY MarkEffect DEF IInv, TypeOK
<1>2. ~ Relies(o)
  BY DEF Relies
<1> QED BY <1>1, <1>2, QuietTask DEF Live

LEMMA DrainRivals ==
  ASSUME IInv, IInv', RivalInv, NEW o \in OpId, Drain(o) PROVE RivalInv'
<1>1. /\ MarkPending(o) \/ MarkVerified(o, RunOf(o)) \/ UNCHANGED storeVars
      /\ Move(o, "idle") \/ Move(o, "draining")
      /\ job' = job /\ pc \in [OpId -> Phase]
  BY DEF Drain, DrainBegins, DrainGivesUp, DrainGone, DrainVerified, IInv, TypeOK
<1>2. /\ pc'[o] \in {"idle", "drain", "draining"}
      /\ \A p \in OpId : p # o => pc'[p] = pc[p]
  BY <1>1 DEF Move
<1> QED BY <1>1, <1>2, MarkRivals

LEMMA RecheckRivals ==
  ASSUME IInv, IInv', RivalInv, Recheck PROVE RivalInv'
<1>1. CASE UNCHANGED <<op, pc, job>>
  BY <1>1 DEF RivalInv, NoCompetingJobs, Looked, ChangeJobs, Live
<1>2. ASSUME NEW u \in Operator, RecheckEnds(u) PROVE RivalInv'
  <2>1. PICK o \in OpId : o = recheck[u] /\ recheck[u] # None
    BY <1>2 DEF RecheckEnds, IInv, TypeOK
  <2>2. pc[o] \in {"idle", "drain", "draining"}
    BY <2>1 DEF IInv, RecheckSettled
  <2> QED BY <1>2, <2>1, <2>2, MarkRivals DEF RecheckEnds
<1> QED BY <1>1, <1>2 DEF Recheck, RecheckBegins, storeVars

LEMMA ExpireRivals ==
  ASSUME IInv, IInv', RivalInv, NEW o \in OpId, Expire(o) PROVE RivalInv'
<1>1. /\ op' = [op EXCEPT ![o] = Absent] /\ StoreTypeOK /\ pc' = pc /\ job' = job
  BY DEF Expire, Collect, IInv, TypeOK
<1>2. \A p \in OpId : SameOp(p)
  BY <1>1, StoreEntries DEF StoreTypeOK, SameOp
<1> QED BY <1>1, <1>2, QuietTask DEF Live

\* A restart may carry out the launches that were under way: of these, one at
\* most is a deploy's or a teardown's.
LEMMA RestartRivals ==
  ASSUME IInv, RivalInv, Restart PROVE RivalInv'
<1> DEFINE sent == {j \in OpId : pc[j] = "launch" /\ job'[j] \in Launches(j)}
<1>2. \A o \in OpId : pc'[o] = "idle"
  BY DEF Restart
<1>3. \A j \in OpId :
        /\ j \in sent => /\ job'[j].action = op[j].action
                         /\ job'[j].target = op[j].target /\ pc[j] = "launch"
        /\ j \notin sent => job'[j] = job[j]
  BY RestartLaunches, LaunchFields
<1> HIDE DEF sent
<1>4. ASSUME NEW i \in OpId, NEW j \in OpId, i # j,
             Live(i)', job'[i].by = "console", job'[i].action \in {"deploy", "teardown"},
             Live(j)', job'[j].by = "console", job'[j].action \in {"deploy", "teardown"},
             job'[i].target = job'[j].target
      PROVE  FALSE
  <2>1. ASSUME NEW k \in OpId, NEW l \in OpId, k \in sent, l \notin sent,
               Live(l)', job'[l].by = "console",
               job'[l].action \in {"deploy", "teardown"},
               job'[k].action \in {"deploy", "teardown"},
               job'[k].target = job'[l].target
        PROVE  FALSE
    <3>1. ChangeJobs(op[k].target) = {}
      BY <1>3, <2>1 DEF RivalInv, Looked
    <3>2. l \in ChangeJobs(op[k].target)
      BY <1>3, <2>1 DEF ChangeJobs, Live
    <3> QED BY <3>1, <3>2
  <2>2. CASE i \in sent /\ j \in sent
    BY <1>3, <1>4, <2>2, ReliesInFlight DEF Changes, IInv, OneRunAtATime
  <2>3. CASE i \notin sent /\ j \notin sent
    BY <1>3, <1>4, <2>3 DEF RivalInv, NoCompetingJobs, Live
  <2> QED BY <1>4, <2>1, <2>2, <2>3
<1>5. NoCompetingJobs'
  BY <1>4 DEF NoCompetingJobs
<1>6. \A o \in OpId : Looked(o)'
  BY <1>2 DEF Looked
<1> QED BY <1>5, <1>6 DEF RivalInv

LEMMA AWXRivals ==
  ASSUME IInv, IInv', RivalInv, AWX PROVE RivalInv'
<1>1. /\ StoreTypeOK /\ job \in [OpId -> Job \cup {NoJob}]
      /\ \A p \in OpId : op[p] = Absent \/ InStore(p)
  BY StoreEntries DEF IInv, TypeOK
<1>2. ASSUME NEW j \in OpId, Live(j), NEW s, NEW m, JobTo(j, s, m)
      PROVE  RivalInv'
  <2>1. job[j] \in Job
    BY <1>1, <1>2, AbsentFields DEF Live
  <2>2. /\ job'[j].action = job[j].action /\ job'[j].target = job[j].target
        /\ job'[j].by = job[j].by
        /\ \A i \in OpId : i # j => job'[i] = job[i]
    BY <1>1, <1>2, <2>1 DEF JobTo, Job
  <2>3. op' = op /\ pc' = pc
    BY <1>2 DEF JobTo, storeVars
  <2>4. \A p \in OpId : pc'[p] = pc[p] /\ SameOp(p)
    BY <1>1, <2>3 DEF SameOp
  <2>5. \A i \in OpId :
          Live(i)' => /\ Live(i)
                      /\ job'[i].action = job[i].action
                      /\ job'[i].target = job[i].target
                      /\ job'[i].by = job[i].by
    BY <1>2, <2>2 DEF Live
  <2> QED BY <2>4, <2>5, QuietTask
<1>3. ASSUME NEW j \in OpId, JobMoves(j)
      PROVE  Live(j) /\ \E s, m : JobTo(j, s, m)
  BY <1>3 DEF JobMoves, JobStarts, JobSucceeds, JobFails, JobCanceled, Live
<1>5. ASSUME NEW j \in OpId, JobAccepted(j) PROVE RivalInv'
  <2>1. \A p \in OpId : pc'[p] = pc[p] /\ SameOp(p)
    BY <1>1, <1>5, AcceptedFields DEF SameOp
  <2>2. \A i \in OpId :
          Live(i)' => /\ Live(i) \/ job'[i].by # "console"
                      /\ Live(i) => job'[i] = job[i]
    BY <1>5, AcceptedFields DEF Live
  <2> QED BY <2>1, <2>2, QuietTask
<1>4. ASSUME NEW k \in Key, NEW r \in OpId \cup {None}, JobForeign(k, r)
      PROVE  RivalInv'
  <2>1. PICK n \in OpId : n = next
    BY <1>1, <1>4, StoreAssumption DEF JobForeign, StoreTypeOK, OpId
  <2>2. job[n] = NoJob /\ ~ Live(n)
    BY <2>1, AbsentFields DEF IInv, Allocated, OpId, Live
  <2>3. /\ \A i \in OpId : i # n => job'[i] = job[i]
        /\ job'[n].by = "awx" /\ op' = op /\ pc' = pc
    BY <1>1, <1>4, <2>1 DEF JobForeign
  <2>4. \A p \in OpId : pc'[p] = pc[p] /\ SameOp(p)
    BY <1>1, <2>3 DEF SameOp
  <2>5. \A i \in OpId :
          Live(i)' => /\ Live(i) \/ job'[i].by # "console"
                      /\ Live(i) => job'[i] = job[i]
    BY <2>2, <2>3 DEF Live
  <2> QED BY <2>4, <2>5, QuietTask
<1> QED BY <1>2, <1>3, <1>4, <1>5 DEF AWX, JobMoves

LEMMA InitRivals == Init => RivalInv
<1> SUFFICES ASSUME Init PROVE RivalInv
  OBVIOUS
<1>1. \A o \in OpId : pc[o] = "idle" /\ job[o] = NoJob
  BY DEF Init
<1> QED BY <1>1, AbsentFields DEF RivalInv, NoCompetingJobs, Looked, Live

LEMMA NextRivals == IInv /\ IInv' /\ JobInv /\ RivalInv /\ [Next]_vars => RivalInv'
<1> SUFFICES ASSUME IInv, IInv', JobInv, RivalInv, [Next]_vars PROVE RivalInv'
  OBVIOUS
<1>1. ASSUME NEW o \in OpId, Coroutine(o) PROVE RivalInv'
  BY <1>1, PreflightRivals, DispatchRivals, WatchRivals, DrainRivals DEF Coroutine
<1>2. CASE UNCHANGED vars
  BY <1>2 DEF vars, RivalInv, NoCompetingJobs, Looked, ChangeJobs, Live
<1> QED
  BY <1>1, <1>2, RequestRivals, RecheckRivals, ExpireRivals, RestartRivals,
     AWXRivals DEF Next

\* Of the console's jobs for one catalog entry at most one is live, through
\* restarts, watchers that gave up and launches whose answer was lost, unless
\* AWX took one up after its sender had given up: those and the launches made
\* in AWX itself are all that can stand beside it.
THEOREM NoCompetition == Spec => []NoCompetingJobs
<1>1. RivalInv => NoCompetingJobs
  BY DEF RivalInv
<1> QED
  BY <1>1, InitRivals, NextRivals, Inductive, JobsInductive, PTL DEF Spec

-----------------------------------------------------------------------------
(***************************************************************************)
(* What may happen to an operation that has ended, proved from the         *)
(* agreement of the store with AWX's jobs: only a drain verification       *)
(* changes it, and that is the word of a rollback job of its run.          *)
(***************************************************************************)

\* A rollback's own job is a rollback of the same run; nothing but a rollback
\* job says what a rollback left.
Own(o) ==
  op[o].action = "rollback" /\ op[o].job = o =>
    job[o].action = "rollback" /\ job[o].target = op[o].target

Speaks(j) ==
  job[j].marker \in {"complete", "monitoring"} => job[j].action = "rollback"

OwnInv == \A o \in OpId : Own(o) /\ Speaks(o)

\* No task moves o: it has ended, or was left behind.
Resting(o) == pc[o] \in {"idle", "drain", "draining"}

Elsewhere(S) == \A p \in OpId \ S : op'[p] = op[p] /\ pc'[p] = pc[p]

\* A new operation, on its way or refused.
Fresh(n) ==
  /\ n = next /\ op'[n].job = None
  /\ op'[n].action = "rollback" => op'[n].target \in OpId
  /\ \/ op'[n].state = "error" /\ pc'[n] = pc[n]
     \/ op'[n].state = "waking" /\ pc'[n] \in {"preflight", "wake"}
  /\ pc'[n] = "preflight" => op'[n].action = "deploy"

\* The task or the watcher of o writes o, and does not leave before its end.
TaskWrites(o) ==
  /\ ~ Resting(o)
  /\ op'[o].action = op[o].action /\ op'[o].target = op[o].target
  /\ \/ op'[o].job = op[o].job \/ op[o].action # "rollback"
     \/ \E l \in Launches(o) : job' = [job EXCEPT ![o] = l]
  /\ pc'[o] # "preflight"
  /\ Resting(o)' => op'[o].state \in TerminalStates(op[o].action)

\* A failed deploy hands over to the rollback of its run.
HandsOver(o, n) ==
  /\ TaskWrites(o) /\ Fresh(n) /\ Elsewhere({o, n})
  /\ op[o].action = "deploy" /\ op'[o].state = "failed_rollback_required"
  /\ op'[n].action = "rollback" /\ op'[n].state = "waking"
  /\ op'[n].target = op'[o].run

\* A drain verification of rollback o writes the store.
Marks(o) ==
  /\ Drainable(o) /\ job' = job /\ Resting(o) /\ Resting(o)'
  /\ \A p \in OpId \ {o} : pc'[p] = pc[p]
  /\ MarkPending(o) \/ MarkVerified(o, RunOf(o))

\* Nothing is written.
Moves ==
  /\ op' = op
  /\ \A p \in OpId : /\ Resting(p)' => Resting(p) \/ pc[p] = "preflight"
                     /\ pc'[p] = "preflight" => pc[p] = "preflight"

Collects(o) == InStore(o) /\ IsTerminal(o) /\ op'[o] = Absent /\ pc'[o] = pc[o]

Forgets == \A p \in OpId : op'[p] = Absent /\ pc'[p] = "idle"

\* All that a step may do to the store.
StoreStep ==
  \/ \E n \in OpId : Fresh(n) /\ Elsewhere({n})
  \/ \E o \in OpId : TaskWrites(o) /\ Elsewhere({o})
  \/ \E o, n \in OpId : o # n /\ HandsOver(o, n)
  \/ \E o \in OpId : Marks(o)
  \/ \E o \in OpId : Collects(o) /\ Elsewhere({o})
  \/ Moves \/ Forgets

\* All that a step may do to AWX's job j.
JobStep(j) ==
  \/ job'[j] = job[j]
  \/ /\ job'[j].action = job[j].action /\ job'[j].target = job[j].target
     /\ Unended(j) /\ (Speaks(j) => Speaks(j)')
  \/ job[j] = NoJob /\ Speaks(j)'

-----------------------------------------------------------------------------
(* What each action does to the store.                                     *)

LEMMA MoveOf ==
  ASSUME IInv, NEW o \in OpId, NEW ph, Move(o, ph)
  PROVE  pc'[o] = ph /\ \A p \in OpId \ {o} : pc'[p] = pc[p]
  BY DEF Move, IInv, TypeOK

LEMMA StoreStill ==
  ASSUME IInv, UNCHANGED storeVars,
         \/ pc' = pc
         \/ \E o \in OpId : \E ph :
              /\ Move(o, ph) /\ ph # "preflight"
              /\ ph \in {"idle", "drain", "draining"} =>
                   Resting(o) \/ pc[o] = "preflight"
  PROVE  StoreStep
<1>1. op' = op
  BY DEF storeVars
<1>2. CASE pc' = pc
  BY <1>1, <1>2 DEF StoreStep, Moves, Resting
<1>3. ASSUME NEW o \in OpId, NEW ph, Move(o, ph), ph # "preflight",
             ph \in {"idle", "drain", "draining"} =>
               Resting(o) \/ pc[o] = "preflight"
      PROVE  StoreStep
  BY <1>1, <1>3, MoveOf DEF StoreStep, Moves, Resting
<1> QED BY <1>2, <1>3

\* A task writes a new state.
LEMMA StateWrite ==
  ASSUME IInv, NEW o \in OpId, ~ Resting(o), NEW s \in OperationState,
         SetState(o, s),
         \/ pc' = pc /\ pc[o] # "preflight"
         \/ \E ph : /\ Move(o, ph) /\ ph # "preflight"
                    /\ \/ ph \notin {"idle", "drain", "draining"}
                       \/ s \in TerminalStates(op[o].action)
  PROVE  StoreStep
<1>1. op[o] \in Operation /\ InStore(o) /\ StoreTypeOK
  BY MovingIsActive DEF Resting, IsActive, IInv, TypeOK
<1>2. /\ op'[o] = [op[o] EXCEPT !.state = s]
      /\ \A p \in OpId : p # o => op'[p] = op[p]
  BY <1>1, SetStateEffect
<1>3. /\ op'[o].action = op[o].action /\ op'[o].target = op[o].target
      /\ op'[o].job = op[o].job /\ op'[o].state = s
  BY <1>1, <1>2 DEF Operation
<1>4. /\ \A p \in OpId \ {o} : pc'[p] = pc[p]
      /\ pc'[o] # "preflight"
      /\ Resting(o)' => s \in TerminalStates(op[o].action)
  BY MoveOf DEF Resting
<1>5. TaskWrites(o) /\ Elsewhere({o})
  BY <1>2, <1>3, <1>4 DEF TaskWrites, Elsewhere
<1> QED BY <1>5 DEF StoreStep

\* A launched operation: a rollback only ever takes its own launch.
LEMMA LaunchWrite ==
  ASSUME IInv, NEW o \in OpId, NEW j \in OpId, NEW r \in OpId \cup {None},
         ~ Resting(o),
         \/ op[o].action # "rollback"
         \/ \E l \in Launches(o) : job' = [job EXCEPT ![o] = l],
         \/ /\ op[o].action = "launch" /\ Move(o, "idle")
            /\ Update(o, [op[o] EXCEPT !.state = "launched", !.job = j])
         \/ /\ Move(o, "watch")
            /\ Update(o, [op[o] EXCEPT !.state = "launched", !.job = j, !.run = r])
  PROVE  StoreStep
<1>1. op[o] \in Operation /\ InStore(o) /\ StoreTypeOK
  BY MovingIsActive DEF Resting, IsActive, IInv, TypeOK
<1>2. ASSUME NEW new \in Operation, Update(o, new), new.state = "launched",
             new.action = op[o].action, new.target = op[o].target,
             \/ op[o].action = "launch" /\ Move(o, "idle")
             \/ Move(o, "watch")
      PROVE  StoreStep
  <2>1. /\ op'[o] = new
        /\ \A p \in OpId : p # o => op'[p] = op[p]
    BY <1>1, <1>2, UpdateEffect
  <2>2. /\ \A p \in OpId \ {o} : pc'[p] = pc[p]
        /\ pc'[o] # "preflight"
        /\ Resting(o)' => op[o].action = "launch"
    BY <1>2, MoveOf DEF Resting
  <2>3. "launched" \in TerminalStates("launch")
    BY DEF TerminalStates, WatchedAction
  <2>4. TaskWrites(o) /\ Elsewhere({o})
    BY <1>2, <2>1, <2>2, <2>3 DEF TaskWrites, Elsewhere
  <2> QED BY <2>4 DEF StoreStep
<1>3. CASE /\ op[o].action = "launch" /\ Move(o, "idle")
           /\ Update(o, [op[o] EXCEPT !.state = "launched", !.job = j])
  <2> DEFINE new == [op[o] EXCEPT !.state = "launched", !.job = j]
  <2>1. new \in Operation
    BY <1>1, LaunchedShape
  <2>2. /\ new.action = op[o].action /\ new.target = op[o].target
        /\ new.state = "launched"
    BY <1>1 DEF Operation
  <2> QED BY <1>2, <1>3, <2>1, <2>2
<1>4. CASE /\ Move(o, "watch")
           /\ Update(o, [op[o] EXCEPT !.state = "launched", !.job = j, !.run = r])
  <2> DEFINE new == [op[o] EXCEPT !.state = "launched", !.job = j, !.run = r]
  <2>1. new \in Operation
    BY <1>1, LaunchedShape
  <2>2. /\ new.action = op[o].action /\ new.target = op[o].target
        /\ new.state = "launched"
    BY <1>1 DEF Operation
  <2> QED BY <1>2, <1>4, <2>1, <2>2
<1> QED BY <1>3, <1>4

LEMMA RequestWrites == ASSUME IInv, Request PROVE StoreStep
<1>1. ASSUME NEW a, NEW t, NEW s \in {"waking", "error"},
             Insert(a, t, s, FALSE), a = "rollback" => t \in OpId,
             \/ s = "error" /\ pc' = pc
             \/ s = "waking" /\ Move(next, "wake")
             \/ s = "waking" /\ Move(next, "preflight") /\ a = "deploy"
      PROVE  StoreStep
  <2>1. PICK n \in OpId : n = next
    BY <1>1, StoreAssumption DEF Insert, IInv, TypeOK, StoreTypeOK, OpId
  <2>2. /\ op'[n].job = None /\ op'[n].action = a /\ op'[n].target = t
        /\ op'[n].state = s
        /\ \A p \in OpId : p # n => op'[p] = op[p]
    BY <1>1, <2>1 DEF Insert, NewOperation, IInv, TypeOK, StoreTypeOK
  <2>3. pc[n] = "idle" /\ \A p \in OpId \ {n} : pc'[p] = pc[p]
    BY <1>1, <2>1, MoveOf DEF IInv, Allocated, OpId
  <2>4. Fresh(n) /\ Elsewhere({n})
    BY <1>1, <2>1, <2>2, <2>3, MoveOf DEF Fresh, Elsewhere
  <2> QED BY <2>4 DEF StoreStep
<1> QED
  BY <1>1 DEF Request, RequestDeploy, RequestTeardown, RequestPurge,
     RequestRollback, RequestLaunch, Admit

LEMMA TaskWritesOnly ==
  ASSUME IInv, NEW o \in OpId, Preflight(o) \/ Dispatch(o)
  PROVE  StoreStep
<1>1. /\ {"error", "launching"} \subseteq OperationState
      /\ \A a : "error" \in TerminalStates(a)
  BY DEF OperationState, WatchedTerminal, TerminalStates
<1>2. ~ Resting(o)
  BY DEF Preflight, Dispatch, PreflightPass, PreflightRefuse, PreflightRaise,
     EnsureAwake, TaskFails, FindActiveJob, CheckOpposite, LaunchJob,
     LaunchAnswerLost, Resting
<1>3. ASSUME SetState(o, "error"), Move(o, "idle") PROVE StoreStep
  BY <1>1, <1>2, <1>3, StateWrite
<1>4. ASSUME UNCHANGED storeVars, NEW ph \in {"wake", "launch", "opposite"},
             Move(o, ph)
      PROVE  StoreStep
  BY <1>4, StoreStill
<1>5. CASE Preflight(o)
  BY <1>3, <1>4, <1>5, StoreStill DEF Preflight, PreflightPass,
     PreflightRefuse, PreflightRaise
<1>6. CASE EnsureAwake(o)
  <2>1. PICK ph \in {"launch", "lookup"} : Move(o, ph)
    BY <1>6 DEF EnsureAwake
  <2> QED BY <1>1, <1>2, <1>6, <2>1, StateWrite DEF EnsureAwake
<1>7. CASE TaskFails(o) \/ CheckOpposite(o) \/ LaunchAnswerLost(o)
  BY <1>3, <1>4, <1>7 DEF TaskFails, CheckOpposite, LaunchAnswerLost
<1>8. CASE FindActiveJob(o)
  <2>1. op[o].action # "rollback"
    BY <1>8 DEF FindActiveJob, IInv, PhaseStates
  <2>2. \A j \in ActiveJobs(op[o].action, op[o].target) :
          j \in OpId /\ job[j].run \in OpId \cup {None}
    BY DEF ActiveJobs, IInv, TypeOK, Job, NoJob
  <2>3. \/ /\ UNCHANGED storeVars
           /\ \E ph \in {"launch", "opposite"} : Move(o, ph)
        \/ \E j \in OpId :
             /\ op[o].action = "launch" /\ Move(o, "idle")
             /\ Update(o, [op[o] EXCEPT !.state = "launched", !.job = j])
        \/ \E j \in OpId, r \in OpId \cup {None} :
             /\ Move(o, "watch")
             /\ Update(o, [op[o] EXCEPT !.state = "launched", !.job = j, !.run = r])
    BY <1>8, <2>2 DEF FindActiveJob
  <2> QED BY <1>2, <1>4, <2>1, <2>3, LaunchWrite
<1>9. CASE LaunchJob(o)
  <2>1. \E l \in Launches(o) : job' = [job EXCEPT ![o] = l]
    BY <1>9 DEF LaunchJob, Launches
  <2> QED BY <1>2, <1>9, <2>1, LaunchWrite DEF LaunchJob
<1> QED BY <1>5, <1>6, <1>7, <1>8, <1>9 DEF Dispatch

\* The deploy's watcher found it failed.
LEMMA TriggerWrites ==
  ASSUME IInv, NEW o \in OpId, pc[o] = "watch", op[o].action = "deploy",
         AutoTrigger(o)
  PROVE  StoreStep
<1>1. op[o] \in Operation /\ InStore(o) /\ o < next /\ StoreTypeOK /\ ~ Resting(o)
  BY MovingIsActive DEF IsActive, IInv, TypeOK, Resting
<1>2. "failed_rollback_required" \in TerminalStates("deploy")
  BY DEF TerminalStates, WatchedAction, WatchedTerminal, DirtyStates
<1>3. ASSUME NEW status \in {"identity-unknown", "disabled",
                             "already-in-progress", "triggered"},
             NEW x, x = [op[o] EXCEPT !.state = "failed_rollback_required",
                                      !.autoStatus = status]
      PROVE  /\ x \in Operation /\ x.action = op[o].action
             /\ x.target = op[o].target /\ x.job = op[o].job
             /\ x.run = op[o].run /\ x.state = "failed_rollback_required"
  BY <1>1, <1>3 DEF Operation, OperationState, WatchedTerminal, DirtyStates
<1>4. ASSUME NEW status \in {"identity-unknown", "disabled", "already-in-progress"},
             Update(o, [op[o] EXCEPT !.state = "failed_rollback_required",
                                     !.autoStatus = status]),
             Move(o, "idle")
      PROVE  StoreStep
  <2> DEFINE x == [op[o] EXCEPT !.state = "failed_rollback_required",
                                !.autoStatus = status]
  <2>1. /\ x \in Operation /\ x.action = op[o].action
        /\ x.target = op[o].target /\ x.job = op[o].job
        /\ x.state = "failed_rollback_required"
    BY <1>3
  <2> HIDE DEF x
  <2>2. op'[o] = x /\ \A p \in OpId : p # o => op'[p] = op[p]
    BY <1>1, <1>4, <2>1, UpdateEffect DEF x
  <2>3. pc'[o] = "idle" /\ \A p \in OpId \ {o} : pc'[p] = pc[p]
    BY <1>4, MoveOf
  <2>4. TaskWrites(o) /\ Elsewhere({o})
    BY <1>1, <1>2, <2>1, <2>2, <2>3 DEF TaskWrites, Elsewhere
  <2> QED BY <2>4 DEF StoreStep
<1>5. ASSUME op[o].run # None, next <= MaxOps,
             op' = [op EXCEPT
                     ![o] = [op[o] EXCEPT !.state = "failed_rollback_required",
                                          !.autoStatus = "triggered"],
                     ![next] = NewOperation("rollback", op[o].run, "waking", TRUE)],
             pc' = [pc EXCEPT ![o] = "idle", ![next] = "wake"]
      PROVE  StoreStep
  <2> DEFINE x == [op[o] EXCEPT !.state = "failed_rollback_required",
                                !.autoStatus = "triggered"]
             y == NewOperation("rollback", op[o].run, "waking", TRUE)
  <2>1. /\ x.action = op[o].action /\ x.target = op[o].target /\ x.job = op[o].job
        /\ x.run = op[o].run /\ x.state = "failed_rollback_required"
    BY <1>3
  <2>2. /\ y.job = None /\ y.action = "rollback" /\ y.target = op[o].run
        /\ y.state = "waking"
    BY DEF NewOperation
  <2>3. op[o].run \in OpId
    BY <1>1, <1>5 DEF Operation
  <2>4. PICK n \in OpId : n = next
    BY <1>1, <1>5, StoreAssumption DEF StoreTypeOK, OpId
  <2>5. o # n
    BY <1>1, <2>4, StoreAssumption DEF OpId
  <2> HIDE DEF x, y
  <2>6. /\ op'[o] = x /\ op'[n] = y
        /\ \A p \in OpId \ {o, n} : op'[p] = op[p]
    BY <1>1, <1>5, <2>4, <2>5 DEF x, y, StoreTypeOK
  <2>7. /\ pc'[o] = "idle" /\ pc'[n] = "wake"
        /\ \A p \in OpId \ {o, n} : pc'[p] = pc[p]
    BY <1>5, <2>4, <2>5 DEF IInv, TypeOK
  <2>8. HandsOver(o, n)
    BY <1>1, <1>2, <2>1, <2>2, <2>3, <2>4, <2>6, <2>7
    DEF HandsOver, TaskWrites, Fresh, Elsewhere
  <2> QED BY <2>5, <2>8 DEF StoreStep
<1>6. CASE op[o].run = None
  BY <1>4, <1>6 DEF AutoTrigger
<1>7. CASE op[o].run # None /\ ~ AutoRollback
  BY <1>4, <1>7 DEF AutoTrigger
<1>8. CASE op[o].run # None /\ AutoRollback /\ FindActive("rollback", op[o].run) # {}
  BY <1>4, <1>8 DEF AutoTrigger
<1>9. CASE op[o].run # None /\ AutoRollback /\ FindActive("rollback", op[o].run) = {}
  BY <1>5, <1>9, Zenon DEF AutoTrigger
<1> QED BY <1>6, <1>7, <1>8, <1>9

LEMMA WatchWrites == ASSUME IInv, NEW o \in OpId, Watch(o) PROVE StoreStep
<1>1. pc[o] = "watch" /\ ~ Resting(o)
  BY DEF Watch, PollLive, WatchGivesUp, DeployEnds, TeardownEnds, RollbackEnds,
     PurgeEnds, Watching, Resting
<1>2. /\ WatchedTerminal \cup {"running"} \subseteq OperationState
      /\ TerminalStates(op[o].action) = WatchedTerminal
  BY <1>1 DEF OperationState, TerminalStates, IInv, PhaseStates
<1>3. ASSUME NEW s \in WatchedTerminal, NEW ph \in {"idle", "drain"},
             SetState(o, s), Move(o, ph)
      PROVE  StoreStep
  BY <1>1, <1>2, <1>3, StateWrite
<1>4. CASE DeployEnds(o)
  <2>1. CASE \E s \in {"run_complete", "run_failed"} :
               SetState(o, s) /\ Move(o, "idle")
    BY <1>3, <2>1 DEF WatchedTerminal
  <2> QED BY <1>1, <1>4, <2>1, TriggerWrites DEF DeployEnds, DeployEnd
<1>5. CASE PollLive(o)
  BY <1>1, <1>2, <1>5, StateWrite, StoreStill DEF PollLive
<1>6. CASE WatchGivesUp(o) \/ TeardownEnds(o) \/ RollbackEnds(o) \/ PurgeEnds(o)
  <2>1. PICK s \in WatchedTerminal, ph \in {"idle", "drain"} :
          SetState(o, s) /\ Move(o, ph)
    BY <1>6 DEF WatchGivesUp, TeardownEnds, RollbackEnds, PurgeEnds,
       LostTerminalState, RollbackEnd, WatchedTerminal, DirtyStates
  <2> QED BY <1>3, <2>1
<1> QED BY <1>4, <1>5, <1>6 DEF Watch

LEMMA DrainWrites ==
  ASSUME IInv, JobInv, NEW o \in OpId, Drain(o) PROVE StoreStep
<1>1. Drainable(o) /\ job' = job /\ Resting(o)
  BY DEF Drain, DrainBegins, DrainGivesUp, DrainGone, DrainVerified,
     JobInv, Coherent, Resting
<1>2. PICK ph \in {"idle", "draining"} : Move(o, ph)
  BY DEF Drain, DrainBegins, DrainGivesUp, DrainGone, DrainVerified
<1>3. Resting(o)' /\ \A p \in OpId \ {o} : pc'[p] = pc[p]
  BY <1>2, MoveOf DEF Resting
<1>4. MarkPending(o) \/ MarkVerified(o, RunOf(o)) \/ UNCHANGED storeVars
  BY DEF Drain, DrainBegins, DrainGivesUp, DrainGone, DrainVerified
<1>5. CASE UNCHANGED storeVars
  BY <1>1, <1>2, <1>5, StoreStill
<1> QED BY <1>1, <1>3, <1>4, <1>5 DEF StoreStep, Marks

LEMMA RecheckWrites == ASSUME IInv, JobInv, Recheck PROVE StoreStep
<1>1. ASSUME NEW u \in Operator, RecheckEnds(u) PROVE StoreStep
  <2>1. PICK o \in OpId : o = recheck[u] /\ recheck[u] # None
    BY <1>1 DEF RecheckEnds, IInv, TypeOK
  <2>2. Drainable(o) /\ Resting(o) /\ job' = job /\ pc' = pc
    BY <1>1, <2>1 DEF JobInv, IInv, RecheckSettled, Resting, RecheckEnds
  <2>3. CASE UNCHANGED storeVars
    BY <2>2, <2>3, StoreStill
  <2>4. MarkPending(o) \/ MarkVerified(o, RunOf(o)) \/ UNCHANGED storeVars
    BY <1>1, <2>1 DEF RecheckEnds
  <2> QED BY <2>2, <2>3, <2>4 DEF StoreStep, Marks, Resting
<1>2. ASSUME NEW u \in Operator, NEW o \in OpId, RecheckBegins(u, o) PROVE StoreStep
  BY <1>2, StoreStill DEF RecheckBegins
<1> QED BY <1>1, <1>2 DEF Recheck

LEMMA StoreSteps == ASSUME IInv, JobInv, [Next]_vars PROVE StoreStep
<1>1. ASSUME NEW o \in OpId, Expire(o) PROVE StoreStep
  <2>1. Collects(o) /\ Elsewhere({o})
    BY <1>1 DEF Expire, Collect, Collects, Elsewhere, IInv, TypeOK, StoreTypeOK
  <2> QED BY <2>1 DEF StoreStep
<1>2. CASE Restart
  BY <1>2 DEF Restart, StoreStep, Forgets
<1>3. CASE AWX \/ UNCHANGED vars
  <2>1. op' = op /\ pc' = pc
    BY <1>3 DEF AWX, JobAccepted, JobStarts, JobSucceeds, JobFails, JobCanceled, JobTo,
       JobForeign, vars, storeVars
  <2> QED BY <2>1 DEF StoreStep, Moves, Resting
<1>4. ASSUME NEW o \in OpId, Coroutine(o) PROVE StoreStep
  BY <1>4, TaskWritesOnly, WatchWrites, DrainWrites DEF Coroutine
<1> QED BY <1>1, <1>2, <1>3, <1>4, RequestWrites, RecheckWrites DEF Next

\* The same seen from one operation.
LEMMA OneStep ==
  ASSUME StoreStep, NEW p \in OpId
  PROVE  \/ op'[p] \in {op[p], Absent}
         \/ p = next /\ op'[p].job = None
         \/ TaskWrites(p)
         \/ \E o \in OpId : Marks(o)
  BY DEF StoreStep, Elsewhere, Fresh, HandsOver, Moves, Forgets, Collects

LEMMA JobSteps ==
  ASSUME IInv, JobInv, [Next]_vars PROVE \A j \in OpId : JobStep(j)
<1>1. job \in [OpId -> Job \cup {NoJob}] /\ StoreTypeOK
  BY DEF IInv, TypeOK
<1>2. CASE job' = job
  BY <1>2 DEF JobStep
<1>3. ASSUME NEW S \in SUBSET {o \in OpId : pc[o] = "launch"},
             \A j \in OpId : \/ job'[j] = job[j]
                             \/ j \in S /\ job'[j] \in Launches(j)
      PROVE  \A j \in OpId : JobStep(j)
  <2>1. \A j \in S : job[j] = NoJob
    BY DEF JobInv, Coherent, Early
  <2>2. \A j \in S : \A l \in Launches(j) : l.marker = "none"
    BY LaunchFields
  <2> QED BY <1>3, <2>1, <2>2 DEF JobStep, Speaks
<1>4. ASSUME NEW j \in OpId, Unended(j), NEW s, NEW m, JobTo(j, s, m),
             m \in {"complete", "monitoring"} => job[j].action = "rollback"
      PROVE  \A i \in OpId : JobStep(i)
  <2>1. job[j] \in Job
    BY <1>1, <1>4, AbsentFields DEF Unended
  <2>2. /\ job'[j].action = job[j].action /\ job'[j].target = job[j].target
        /\ job'[j].marker = m
        /\ \A i \in OpId : i # j => job'[i] = job[i]
    BY <1>1, <1>4, <2>1 DEF JobTo, Job
  <2> QED BY <1>4, <2>2 DEF JobStep, Speaks
<1>5. ASSUME NEW j \in OpId,
             JobAccepted(j) \/ JobMoves(j)
      PROVE  \A i \in OpId : JobStep(i)
  <2>5. CASE JobAccepted(j)
    <3>1. Speaks(j) => Speaks(j)'
      BY <2>5, AcceptedFields DEF Speaks
    <3> QED BY <2>5, <3>1, AcceptedFields DEF JobStep
  <2>1. CASE JobStarts(j)
    BY <1>4, <2>1 DEF JobStarts, Unended
  <2>2. CASE JobSucceeds(j)
    BY <1>4, <2>2 DEF JobSucceeds, Unended
  <2>3. CASE JobFails(j)
    BY <1>4, <2>3 DEF JobFails, Unended
  <2>4. CASE JobCanceled(j)
    BY <1>4, <2>4 DEF JobCanceled, Unended
  <2> QED BY <1>5, <2>1, <2>2, <2>3, <2>4, <2>5 DEF JobMoves
<1>6. ASSUME NEW k \in Key, NEW r \in OpId \cup {None}, JobForeign(k, r)
      PROVE  \A i \in OpId : JobStep(i)
  <2>1. PICK n \in OpId : n = next
    BY <1>1, <1>6, StoreAssumption DEF JobForeign, StoreTypeOK, OpId
  <2>2. job[n] = NoJob
    BY <2>1 DEF IInv, Allocated, OpId
  <2>3. job'[n].marker = "none" /\ \A i \in OpId : i # n => job'[i] = job[i]
    BY <1>1, <1>6, <2>1 DEF JobForeign
  <2> QED BY <2>2, <2>3 DEF JobStep, Speaks
<1>7. ASSUME NEW o \in OpId, LaunchJob(o) \/ LaunchAnswerLost(o)
      PROVE  \A j \in OpId : JobStep(j)
  <2>1. /\ pc[o] = "launch"
        /\ \E l \in Launches(o) : job' = [job EXCEPT ![o] = l]
    BY <1>7 DEF LaunchJob, LaunchAnswerLost, Launches
  <2>2. \A j \in OpId : \/ job'[j] = job[j]
                        \/ j \in {o} /\ job'[j] \in Launches(j)
    BY <1>1, <2>1
  <2> QED BY <1>3, <2>1, <2>2
<1>8. CASE Restart
  <2> DEFINE S == {o \in OpId : pc[o] = "launch"}
  <2>1. \A j \in OpId : job'[j] = job[j] \/ (j \in S /\ job'[j] \in Launches(j))
    BY <1>8, RestartLaunches
  <2> QED BY <1>3, <2>1
<1>9. ASSUME NEW o \in OpId, Coroutine(o)
      PROVE  job' = job \/ LaunchJob(o) \/ LaunchAnswerLost(o)
  BY <1>9 DEF Coroutine, Preflight, PreflightPass, PreflightRefuse,
     PreflightRaise, Dispatch, EnsureAwake, TaskFails, FindActiveJob,
     CheckOpposite, Watch, PollLive, WatchGivesUp, DeployEnds, TeardownEnds,
     RollbackEnds, PurgeEnds, Drain, DrainBegins, DrainGivesUp, DrainGone,
     DrainVerified
<1>10. ASSUME NEW o \in OpId, Request \/ Recheck \/ Expire(o) \/ UNCHANGED vars
       PROVE  job' = job
  BY <1>10 DEF Request, RequestDeploy, RequestTeardown, RequestPurge,
     RequestRollback, RequestLaunch, Recheck, RecheckBegins, RecheckEnds,
     Expire, vars
<1> QED BY <1>2, <1>5, <1>6, <1>7, <1>8, <1>9, <1>10 DEF Next, AWX, JobMoves

-----------------------------------------------------------------------------
(* The agreement is inductive.                                             *)

LEMMA MarkedFields ==
  ASSUME StoreTypeOK, NEW o \in OpId, Marks(o)
  PROVE  \A p \in OpId : SameOp(p)
<1>1. MarkPending(o) \/ MarkVerified(o, RunOf(o))
  BY DEF Marks
<1> QED BY <1>1, MarkEffect

LEMMA NextOwn == ASSUME IInv, JobInv, OwnInv, [Next]_vars PROVE OwnInv'
<1>1. StoreTypeOK /\ StoreStep /\ \A p \in OpId : JobStep(p)
  BY StoreSteps, JobSteps DEF IInv, TypeOK
<1>2. ASSUME NEW p \in OpId PROVE Speaks(p)'
  BY <1>1, <1>2 DEF OwnInv, JobStep, Speaks
<1>3. ASSUME NEW p \in OpId, op[p].action = "rollback", op[p].job = p,
             op'[p].target = op[p].target
      PROVE  job'[p].action = "rollback" /\ job'[p].target = op'[p].target
  <2>1. job[p].action = "rollback" /\ job[p].target = op[p].target
    BY <1>3 DEF OwnInv, Own
  <2>2. job[p] # NoJob
    BY <2>1, AbsentFields
  <2> QED BY <1>1, <1>3, <2>1, <2>2 DEF JobStep
<1>4. ASSUME NEW p \in OpId, op'[p].action = "rollback", op'[p].job = p
      PROVE  job'[p].action = "rollback" /\ job'[p].target = op'[p].target
  <2>1. op'[p] # Absent
    BY <1>4, AbsentFields
  <2>2. CASE op'[p] = op[p]
    BY <1>3, <1>4, <2>2
  <2>3. CASE op'[p].job = None
    BY <1>4, <2>3, StoreAssumption DEF OpId
  <2>4. CASE TaskWrites(p)
    <3>1. CASE op'[p].job = op[p].job
      BY <1>3, <1>4, <2>4, <3>1 DEF TaskWrites
    <3>2. CASE \E l \in Launches(p) : job' = [job EXCEPT ![p] = l]
      <4>1. job'[p] \in Launches(p)
        BY <3>2 DEF IInv, TypeOK
      <4> QED BY <1>4, <2>4, <4>1, LaunchFields DEF TaskWrites
    <3> QED BY <1>4, <2>4, <3>1, <3>2 DEF TaskWrites
  <2>5. CASE \E o \in OpId : Marks(o)
    <3>1. SameOp(p)
      BY <1>1, <2>5, MarkedFields
    <3> QED BY <1>3, <1>4, <2>1, <3>1 DEF SameOp
  <2> QED BY <1>1, <2>1, <2>2, <2>3, <2>4, <2>5, OneStep
<1> QED BY <1>2, <1>4 DEF OwnInv, Own

LEMMA InitOwn == Init => OwnInv
  BY AbsentFields DEF Init, StoreInit, OwnInv, Own, Speaks, NoJob

THEOREM OwnInductive == Spec => []OwnInv
<1> QED BY InitOwn, NextOwn, Inductive, JobsInductive, PTL DEF Spec

-----------------------------------------------------------------------------
(* What a drain verification may change.                                   *)

\* Rollback o is shown complete; what it stood for is shown failed.
LEMMA MarkOutcome ==
  ASSUME StoreTypeOK, NEW o \in OpId, NEW r, NEW p \in OpId,
         MarkPending(o) \/ MarkVerified(o, r)
  PROVE  \/ op'[p].state = op[p].state
         \/ p = o /\ op'[p].state = "run_complete"
         \/ p \in RecoveredDeploys(r) \cup Superseded(o, r)
              /\ op'[p].state = "run_failed"
<1>1. InStore(p) => op[p] \in Operation
  BY StoreEntries
<1>2. CASE MarkPending(o)
  <2>1. \A q \in OpId :
          \/ op'[q] = op[q]
          \/ InStore(q) /\ op'[q] = [op[q] EXCEPT !.pending = TRUE]
    BY <1>2, MarkPendingEffect, Zenon
  <2> QED BY <1>1, <2>1 DEF Operation
<1>3. CASE MarkVerified(o, r) /\ Correlated(r)
  <2> DEFINE failed == RecoveredDeploys(r)
             others == Superseded(o, r)
             self   == {o} \cap {q \in OpId : InStore(q)}
             clean(q) == [op[q] EXCEPT !.state = "run_complete",
                                       !.pending = FALSE]
             fail(q) == [op[q] EXCEPT !.state = "run_failed"]
             over(q) == [op[q] EXCEPT !.state = "run_failed",
                                      !.pending = FALSE]
  <2>1. op' = [q \in OpId |-> CASE q \in self -> clean(q)
                                [] q \in failed -> fail(q)
                                [] q \in others -> over(q)
                                [] OTHER -> op[q]]
    BY <1>3, Zenon DEF MarkVerified
  <2>2. p \in failed \cup others => InStore(p)
    BY DEF RecoveredDeploys, Superseded, DeployOpsFor, InStore
  <2>3. InStore(p) => /\ clean(p).state = "run_complete"
                      /\ fail(p).state = "run_failed"
                      /\ over(p).state = "run_failed"
    BY <1>1 DEF Operation
  <2>4. p \in self => p = o /\ InStore(p)
    OBVIOUS
  <2> HIDE DEF failed, others, self, clean, fail, over
  <2>5. \/ op'[p] = op[p]
        \/ p \in self /\ op'[p] = clean(p)
        \/ p \in failed /\ op'[p] = fail(p)
        \/ p \in others /\ op'[p] = over(p)
    BY <2>1
  <2> QED BY <2>2, <2>3, <2>4, <2>5, Zenon DEF failed, others
<1>4. MarkVerified(o, r) /\ ~ Correlated(r) => MarkPending(o)
  BY Zenon DEF MarkVerified
<1> QED BY <1>2, <1>3, <1>4

\* A change of state of an ended operation is a drain verification's.
LEMMA EndedStep ==
  ASSUME IInv, JobInv, [Next]_vars, NEW p \in OpId, InStore(p), IsTerminal(p),
         op'[p] # Absent, op'[p].state # op[p].state
  PROVE  /\ op'[p].action = op[p].action
         /\ \E o \in OpId : /\ Drainable(o)
              /\ \/ p = o /\ op'[p].state = "run_complete"
                 \/ /\ p \in RecoveredDeploys(RunOf(o)) \cup Superseded(o, RunOf(o))
                    /\ op'[p].state = "run_failed"
<1>1. StoreStep
  BY StoreSteps
<1>2. ~ TaskWrites(p)
  BY MovingIsActive DEF TaskWrites, Resting, IsActive
<1>3. p # next
  <2>1. op[p] # Absent
    BY AbsentFields DEF InStore
  <2>2. ~ (p >= next)
    BY <2>1 DEF IInv, Allocated
  <2> QED BY <2>2 DEF OpId
<1>4. PICK o \in OpId : Marks(o)
  BY <1>1, <1>2, <1>3, OneStep
<1>5. StoreTypeOK
  BY DEF IInv, TypeOK
<1>6. SameOp(p)
  BY <1>4, <1>5, MarkedFields
<1> QED BY <1>4, <1>5, <1>6, MarkOutcome DEF Marks, SameOp

-----------------------------------------------------------------------------

\* Short of expiry or restart, a dirty operation changes to a clean state only
\* after a rollback job of its run succeeded with nothing but monitoring left.
THEOREM DirtRule == Spec => DirtNeedsCleanRollback
<1>1. ASSUME IInv, JobInv, OwnInv, [Next]_vars, NEW d \in OpId, IsDirty(d),
             op'[d].state \notin DirtyStates \cup {"absent"}
      PROVE  \E j \in OpId : /\ job[j].action = "rollback"
                             /\ job[j].target = DirtOf(d)
                             /\ job[j].status = "successful"
                             /\ job[j].marker = "monitoring"
  <2>1. InStore(d) /\ op'[d] # Absent /\ op'[d].state # op[d].state
    BY <1>1, AbsentFields DEF IsDirty, DirtyStates, InStore
  <2>2. IsTerminal(d)
    BY <1>1 DEF IInv, DirtKinds, IsDirty, IsTerminal, TerminalStates, WatchedTerminal
  <2>3. PICK o \in OpId :
          /\ Drainable(o)
          /\ d = o \/ d \in RecoveredDeploys(RunOf(o)) \cup Superseded(o, RunOf(o))
    BY <1>1, <2>1, <2>2, EndedStep
  <2>4. /\ job[o].action = "rollback" /\ job[o].status = "successful"
        /\ job[o].marker = "monitoring"
    BY <1>1, <2>3 DEF Drainable, OwnInv, Speaks
  <2>5. DirtOf(d) = job[o].target
    <3>1. CASE d = o
      BY <1>1, <2>1, <2>3, <3>1 DEF Drainable, OwnInv, Own, DirtOf
    <3>2. CASE d \in RecoveredDeploys(RunOf(o))
      BY <3>2 DEF RecoveredDeploys, DeployOpsFor, DirtOf, RunOf
    <3>3. CASE d \in Superseded(o, RunOf(o))
      BY <3>3 DEF Superseded, DirtOf, RunOf
    <3> QED BY <2>3, <3>1, <3>2, <3>3
  <2> QED BY <2>4, <2>5
<1>2. IInv /\ JobInv /\ OwnInv /\ [Next]_vars =>
        [\A d \in OpId :
           IsDirty(d) /\ op'[d].state \notin (DirtyStates \cup {"absent"}) =>
             \E j \in OpId : /\ job[j].action = "rollback"
                             /\ job[j].target = DirtOf(d)
                             /\ job[j].status = "successful"
                             /\ job[j].marker = "monitoring"]_vars
  BY <1>1
<1> QED
  BY <1>2, Inductive, JobsInductive, OwnInductive, PTL DEF Spec, DirtNeedsCleanRollback

\* A terminal operation stays terminal or goes away, and only a rollback turns
\* into a success after its end.
THEOREM Finality == Spec => TerminalIsFinal
<1>1. ASSUME IInv, JobInv, [Next]_vars, NEW o \in OpId, IsTerminal(o)
      PROVE  /\ op'[o] # Absent => op'[o].state \in TerminalStates(op[o].action)
             /\ op'[o].state = "run_complete" =>
                  op[o].state = "run_complete" \/ op[o].action = "rollback"
  <2>1. InStore(o)
    BY <1>1, AbsentFields, StoreEntries
    DEF IInv, TypeOK, IsTerminal, TerminalStates, WatchedTerminal, DirtyStates, InStore
  <2>2. CASE op'[o] = Absent
    BY <2>2, AbsentFields
  <2>3. CASE op'[o] # Absent /\ op'[o].state = op[o].state
    BY <1>1, <2>3 DEF IsTerminal
  <2>4. CASE op'[o] # Absent /\ op'[o].state # op[o].state
    <3>1. PICK r \in OpId :
            /\ Drainable(r)
            /\ \/ o = r /\ op'[o].state = "run_complete"
               \/ /\ o \in RecoveredDeploys(RunOf(r)) \cup Superseded(r, RunOf(r))
                  /\ op'[o].state = "run_failed"
      BY <1>1, <2>1, <2>4, EndedStep
    <3>2. op[o].action \in WatchedAction
      BY <2>1, <3>1 DEF Drainable, RecoveredDeploys, DeployOpsFor, Superseded,
         WatchedAction
    <3>3. op'[o].state = "run_complete" => op[o].action = "rollback"
      BY <2>1, <3>1 DEF Drainable
    <3> QED BY <3>1, <3>2, <3>3 DEF TerminalStates, WatchedTerminal
  <2> QED BY <2>2, <2>3, <2>4
<1>2. IInv /\ JobInv /\ [Next]_vars =>
        [\A o \in OpId :
           IsTerminal(o) =>
             /\ op'[o] # Absent => op'[o].state \in TerminalStates(op[o].action)
             /\ op'[o].state = "run_complete" =>
                  op[o].state = "run_complete" \/ op[o].action = "rollback"]_vars
  BY <1>1
<1> QED
  BY <1>2, Inductive, JobsInductive, PTL DEF Spec, TerminalIsFinal

-----------------------------------------------------------------------------
(***************************************************************************)
(* The store and the tasks implement the facility lock: whatever a request, *)
(* a task, a watcher, a drain verification, the expiry of operations or a  *)
(* restart does to the store is one step of FacilityLock, or none.         *)
(***************************************************************************)

\* What the lock needs to know beyond IInv: a recovery has a run to recover,
\* and one that no task moves has ended.
Settled(o) ==
  /\ op[o].action = "rollback" =>
       op[o].target \in OpId /\ (Resting(o) => ~ IsActive(o))
  /\ pc[o] = "preflight" => op[o].action = "deploy"

SettledInv == \A o \in OpId : Settled(o)

\* The name the lock has for what o does to the facility.
Holding(o) ==
  IF op[o].action = "rollback" THEN <<"recovery", op[o].target>>
                               ELSE <<"change">>

LEMMA HolderOf ==
  /\ (\A o \in OpId : ~ InFlight(o)) => Holder = {}
  /\ \A o \in OpId : InFlight(o) /\ OneRunAtATime => Holder = {Holding(o)}
  BY DEF Holder, Holding, OneRunAtATime

-----------------------------------------------------------------------------
(* SettledInv is inductive.                                                *)

\* Nothing of what Settled speaks of gets worse.
LEMMA SameSettled ==
  ASSUME NEW p \in OpId, Settled(p), op'[p] = op[p],
         Resting(p)' => Resting(p) \/ pc[p] = "preflight",
         pc'[p] = "preflight" => pc[p] = "preflight"
  PROVE  Settled(p)'
  BY DEF Settled, IsActive, InStore, IsTerminal

LEMMA FreshSettled == ASSUME NEW n \in OpId, Fresh(n) PROVE Settled(n)'
  BY DEF Fresh, Settled, Resting, IsActive, IsTerminal, TerminalStates, WatchedTerminal

LEMMA WrittenSettled ==
  ASSUME NEW o \in OpId, Settled(o), TaskWrites(o) PROVE Settled(o)'
  BY DEF TaskWrites, Settled, IsActive, IsTerminal

LEMMA MarkSettled ==
  ASSUME StoreTypeOK, SettledInv, NEW o \in OpId, Marks(o), NEW p \in OpId
  PROVE  Settled(p)'
<1>1. SameOp(p)
  BY MarkedFields
<1>2. /\ pc'[p] = "preflight" => pc[p] = "preflight"
      /\ Resting(p)' => Resting(p)
  <2>1. /\ Resting(o) /\ pc'[o] \in {"idle", "drain", "draining"}
        /\ p # o => pc'[p] = pc[p]
    BY DEF Marks, Resting
  <2> QED BY <2>1 DEF Resting
<1>3. CASE op'[p] = Absent
  <2>1. InStore(p) => op'[p] # Absent
    <3>1. InStore(p) => op[p] \in Operation
      BY StoreEntries
    <3>2. op'[p].state \in {op[p].state, "run_complete", "run_failed"}
      BY MarkOutcome DEF Marks
    <3> QED BY <3>2, AbsentFields DEF InStore
  <2>2. ~ InStore(p) => op[p] = Absent
    BY StoreEntries
  <2> QED BY <1>2, <1>3, <2>1, <2>2, SameSettled DEF SettledInv
<1>4. CASE op'[p] # Absent
  <2>1. op'[p].action = op[p].action /\ op'[p].target = op[p].target /\ InStore(p)
    BY <1>1, <1>4 DEF SameOp
  <2>2. op'[p].state \in {op[p].state, "run_complete", "run_failed"}
    BY MarkOutcome DEF Marks
  <2>3. ~ IsActive(p) => ~ IsActive(p)'
    BY <2>1, <2>2, AbsentFields, MarkOutcome
    DEF IsActive, InStore, IsTerminal, TerminalStates, WatchedTerminal, Marks,
        Drainable, RecoveredDeploys, Superseded, DeployOpsFor, WatchedAction
  <2> QED BY <1>2, <2>1, <2>3 DEF SettledInv, Settled
<1> QED BY <1>3, <1>4

LEMMA NextSettled == ASSUME IInv, JobInv, SettledInv, [Next]_vars PROVE SettledInv'
<1> SUFFICES ASSUME NEW p \in OpId PROVE Settled(p)'
  BY DEF SettledInv
<1>1. StoreStep /\ StoreTypeOK /\ Settled(p)
  BY StoreSteps DEF IInv, TypeOK, SettledInv
<1>2. op'[p] = op[p] /\ pc'[p] = pc[p] => Settled(p)'
  BY <1>1, SameSettled DEF Resting
<1>3. CASE \E n \in OpId : Fresh(n) /\ Elsewhere({n})
  BY <1>2, <1>3, FreshSettled DEF Elsewhere
<1>4. CASE \E o \in OpId : TaskWrites(o) /\ Elsewhere({o})
  BY <1>1, <1>2, <1>4, WrittenSettled DEF Elsewhere
<1>5. CASE \E o, n \in OpId : o # n /\ HandsOver(o, n)
  BY <1>1, <1>2, <1>5, FreshSettled, WrittenSettled DEF HandsOver, Elsewhere
<1>6. CASE \E o \in OpId : Marks(o)
  BY <1>1, <1>6, MarkSettled
<1>7. CASE \E o \in OpId : Collects(o) /\ Elsewhere({o})
  <2>1. PICK o \in OpId : Collects(o) /\ Elsewhere({o})
    BY <1>7
  <2>2. CASE p = o
    <3>1. pc[o] # "preflight"
      BY <2>1, MovingIsActive DEF Collects, IsActive
    <3> QED BY <2>1, <2>2, <3>1, AbsentFields DEF Collects, Settled
  <2> QED BY <1>2, <2>1, <2>2 DEF Elsewhere
<1>8. CASE Moves
  BY <1>1, <1>8, SameSettled DEF Moves
<1>9. CASE Forgets
  BY <1>9, AbsentFields DEF Forgets, Settled
<1> QED BY <1>1, <1>3, <1>4, <1>5, <1>6, <1>7, <1>8, <1>9 DEF StoreStep

LEMMA InitSettled == Init => SettledInv
  BY AbsentFields DEF Init, StoreInit, SettledInv, Settled

\* A recovery has a run to recover, and ends when its task leaves it.
THEOREM SettledInductive == Spec => []SettledInv
<1> QED BY InitSettled, NextSettled, Inductive, JobsInductive, PTL DEF Spec

-----------------------------------------------------------------------------
(* The kinds of step as steps of the lock.                                 *)

LockStep == [Lock!Next]_(Lock!lockVars)

LEMMA DirtFields ==
  ASSUME NEW o \in OpId
  PROVE  /\ op[o].action = "rollback" => DirtOf(o) = op[o].target
         /\ op[o].action = "deploy" => DirtOf(o) = op[o].run
         /\ op[o].action \notin {"rollback", "deploy"} => DirtOf(o) = None
         /\ op'[o].action = "rollback" => DirtOf(o)' = op'[o].target
         /\ op'[o].action = "deploy" => DirtOf(o)' = op'[o].run
         /\ op'[o].action \notin {"rollback", "deploy"} => DirtOf(o)' = None
  BY DEF DirtOf

\* The lock sees no more of an operation than this.
SameDirt(p) == IsDirty(p)' /\ DirtOf(p)' = DirtOf(p) /\ IsDirty(p)

LEMMA UntouchedDirt ==
  ASSUME NEW p \in OpId, op'[p] = op[p]
  PROVE  /\ DirtOf(p)' = DirtOf(p) /\ IsDirty(p)' = IsDirty(p)
         /\ InFlight(p)' = InFlight(p) /\ Holding(p)' = Holding(p)
  BY DEF DirtOf, IsDirty, InFlight, IsActive, InStore, IsTerminal, Holding

\* Nothing starts or ends, nothing gets dirty.
LEMMA QuietLock ==
  ASSUME \A p \in OpId : InFlight(p)' <=> InFlight(p),
         \A p \in OpId : InFlight(p) => Holding(p)' = Holding(p),
         \A p \in OpId : IsDirty(p)' => IsDirty(p) /\ DirtOf(p)' = DirtOf(p)
  PROVE  LockStep
<1>1. Holder' = Holder
  BY DEF Holder, Holding
<1>2. Dirt' \subseteq Dirt
  BY DEF Dirt
<1> QED BY <1>1, <1>2 DEF LockStep, Lock!Next, Lock!Clean, Lock!lockVars

\* What is in flight says what may be dirty.
LEMMA DirtUnder ==
  ASSUME CleanUnderRun, NEW o \in OpId, InFlight(o)
  PROVE  /\ op[o].action # "rollback" => Dirt = {}
         /\ op[o].action = "rollback" => Dirt \subseteq {op[o].target}
  BY DEF CleanUnderRun, Dirt

\* A run starts, on what the busy check left of the store.
LEMMA TakesLock ==
  ASSUME OneRunAtATime', CleanUnderRun', SettledInv', NEW n \in OpId,
         ~ InFlight(n), InFlight(n)', ~ IsDirty(n), ~ IsDirty(n)',
         \A p \in OpId \ {n} : op'[p] = op[p]
  PROVE  LockStep
<1>1. /\ \A p \in OpId : ~ InFlight(p)
      /\ Holder' = {Holding(n)'}
  <2>1. \A p \in OpId : InFlight(p) => p = n
    BY UntouchedDirt DEF OneRunAtATime
  <2>2. Holder' = {Holding(n)'}
    BY DEF Holder, Holding, OneRunAtATime
  <2> QED BY <2>1, <2>2
<1>2. Holder = {}
  BY <1>1, HolderOf
<1>3. Dirt' = Dirt
  BY UntouchedDirt DEF Dirt
<1>4. /\ op'[n].action # "rollback" => Dirt' = {}
      /\ op'[n].action = "rollback" => Dirt' \subseteq {op'[n].target}
  BY DEF CleanUnderRun, Dirt
<1>5. CASE op'[n].action = "rollback"
  <2>1. op'[n].target \in OpId
    BY <1>5 DEF SettledInv, Settled
  <2>2. Holder' = {<<"recovery", op'[n].target>>}
    BY <1>1, <1>5 DEF Holding
  <2> QED
    BY <1>2, <1>3, <1>4, <1>5, <2>1, <2>2
    DEF LockStep, Lock!Next, Lock!TakeRecovery, Lock!Recovery
<1>6. CASE op'[n].action # "rollback"
  <2>1. Holder' = {<<"change">>}
    BY <1>1, <1>6 DEF Holding
  <2> QED
    BY <1>2, <1>3, <1>4, <1>6, <2>1
    DEF LockStep, Lock!Next, Lock!TakeChange, Lock!Change
<1> QED BY <1>5, <1>6

\* The run in flight ends, clean or dirty.
LEMMA EndsLock ==
  ASSUME TypeOK', OneRunAtATime, CleanUnderRun, SettledInv, NEW o \in OpId,
         InFlight(o), ~ InFlight(o)', InStore(o)',
         op'[o].action = op[o].action, op'[o].target = op[o].target,
         \A p \in OpId \ {o} : op'[p] = op[p]
  PROVE  LockStep
<1>1. Holder = {Holding(o)} /\ \A p \in OpId \ {o} : ~ InFlight(p)
  BY HolderOf DEF OneRunAtATime
<1>2. Holder' = {}
  <2>1. \A p \in OpId : ~ InFlight(p)'
    BY <1>1, UntouchedDirt
  <2> QED BY <2>1 DEF Holder
<1>3. ASSUME NEW p \in OpId, IsDirty(p)', p # o
      PROVE  IsDirty(p) /\ DirtOf(p)' = DirtOf(p)
  BY <1>3, UntouchedDirt
<1>4. \A p \in OpId : IsDirty(p) => p # o /\ IsDirty(p)' /\ DirtOf(p)' = DirtOf(p)
  BY UntouchedDirt, DirtyIsNotInFlight
<1>5. Dirt' = Dirt \cup (IF IsDirty(o)' THEN {DirtOf(o)'} ELSE {})
  BY <1>3, <1>4 DEF Dirt
<1>6. CASE op[o].action = "rollback"
  <2> DEFINE t == op[o].target
  <2>1. t \in OpId
    BY <1>6 DEF SettledInv, Settled
  <2>2. Holder = {<<"recovery", t>>} /\ Dirt \subseteq {t}
    BY <1>1, <1>6, DirtUnder DEF Holding
  <2>3. DirtOf(o)' = t
    BY <1>6, DirtFields
  <2>4. Dirt' \in {Dirt, {t}}
    BY <1>5, <2>2, <2>3
  <2> QED
    BY <1>2, <2>1, <2>2, <2>4
    DEF LockStep, Lock!Next, Lock!EndRecovery, Lock!Recovery
<1>7. CASE op[o].action # "rollback"
  <2>1. Holder = {<<"change">>} /\ Dirt = {}
    BY <1>1, <1>7, DirtUnder DEF Holding
  <2>2. DirtOf(o)' \in OpId \cup {None}
    <3>1. op'[o] \in Operation
      BY StoreEntries DEF TypeOK, StoreTypeOK, InStore, Absent
    <3>2. op'[o].run \in OpId \cup {None}
      BY <3>1 DEF Operation
    <3> QED BY <1>7, <3>2, DirtFields
  <2>3. Dirt' = {} \/ \E r \in OpId \cup {None} : Dirt' = {r}
    BY <1>5, <2>1, <2>2
  <2> QED
    BY <1>2, <2>1, <2>3 DEF LockStep, Lock!Next, Lock!EndChange, Lock!Change
<1> QED BY <1>6, <1>7

\* A failed deploy hands the lock to the rollback of its run.
LEMMA HandsLock ==
  ASSUME IInv, IInv', NEW o \in OpId, NEW n \in OpId, o # n, HandsOver(o, n)
  PROVE  LockStep
<1> DEFINE r == op'[n].target
<1>1. /\ op[o].action = "deploy" /\ op'[o].action = "deploy" /\ op'[o].run = r
      /\ op'[n].action = "rollback" /\ r \in OpId
      /\ op'[o].state = "failed_rollback_required" /\ op'[n].state = "waking"
      /\ \A p \in OpId \ {o, n} : op'[p] = op[p]
  BY DEF HandsOver, TaskWrites, Fresh, Elsewhere
<1>2. InFlight(o)
  BY <1>1, MovingIsActive DEF HandsOver, TaskWrites, Resting, WatchedAction
<1>3. Holder = {<<"change">>} /\ Dirt = {} /\ \A p \in OpId : ~ IsDirty(p)
  BY <1>1, <1>2, HolderOf, DirtUnder DEF IInv, Holding, CleanUnderRun
<1>4. InFlight(n)'
  BY <1>1 DEF InFlight, IsActive, InStore, IsTerminal, TerminalStates,
     WatchedAction, WatchedTerminal, DirtyStates
<1>5. Holder' = {<<"recovery", r>>}
  BY <1>1, <1>4 DEF IInv, Holder, OneRunAtATime
<1>6. Dirt' = {r}
  <2>1. DirtOf(o)' = r /\ IsDirty(o)' /\ ~ IsDirty(n)'
    BY <1>1, DirtFields DEF IsDirty, DirtyStates
  <2>2. \A p \in OpId : IsDirty(p)' => p = o
    BY <1>1, <1>3, <2>1, UntouchedDirt
  <2> QED BY <2>1, <2>2 DEF Dirt
<1> QED
  BY <1>1, <1>3, <1>5, <1>6
  DEF LockStep, Lock!Next, Lock!HandOver, Lock!Change, Lock!Recovery

\* A drain verification only ever cleans.
LEMMA MarksLock ==
  ASSUME StoreTypeOK, SettledInv, NEW o \in OpId, Marks(o) PROVE LockStep
<1>1. ASSUME NEW p \in OpId
      PROVE  /\ InFlight(p)' <=> InFlight(p)
             /\ InFlight(p) => Holding(p)' = Holding(p)
             /\ IsDirty(p)' => IsDirty(p) /\ DirtOf(p)' = DirtOf(p)
  <2>1. CASE ~ InStore(p)
    <3>1. op[p] = Absent /\ op'[p] = Absent
      BY <1>1, <2>1, StoreEntries, MarkOutcome, MarkedFields DEF SameOp
    <3> QED BY <3>1, UntouchedDirt
  <2>2. CASE InStore(p)
    <3>1. /\ op'[p].state \in {op[p].state, "run_complete", "run_failed"}
          /\ op'[p].state # op[p].state =>
               \/ p = o
               \/ p \in RecoveredDeploys(RunOf(o)) \cup Superseded(o, RunOf(o))
      BY <1>1, MarkOutcome DEF Marks
    <3>2. op[p] \in Operation
      BY <2>2, StoreEntries
    <3>3. /\ op'[p].action = op[p].action /\ op'[p].target = op[p].target
          /\ op'[p].run = op[p].run
      BY <1>1, <2>2, <3>1, MarkedFields, AbsentFields DEF SameOp, InStore
    <3>4. Holding(p)' = Holding(p) /\ DirtOf(p)' = DirtOf(p)
      BY <3>3, DirtFields DEF Holding
    <3>5. CASE op'[p].state = op[p].state
      BY <3>3, <3>4, <3>5 DEF InFlight, IsActive, InStore, IsTerminal, IsDirty
    <3>6. CASE op'[p].state # op[p].state
      <4>1. op[p].action \in WatchedAction
        BY <2>2, <3>1, <3>6 DEF Marks, Drainable, RecoveredDeploys,
           DeployOpsFor, Superseded, WatchedAction
      <4>2. ~ InFlight(p)
        <5>1. CASE p = o
          BY <2>2, <5>1 DEF Marks, Drainable, SettledInv, Settled, InFlight
        <5>2. CASE p # o
          BY <3>1, <3>6, <5>2, <4>1 DEF RecoveredDeploys, DeployOpsFor, Superseded,
             InFlight, IsActive, IsTerminal, TerminalStates, WatchedTerminal,
             DirtyStates
        <5> QED BY <5>1, <5>2
      <4>3. op'[p].state \in {"run_complete", "run_failed"}
        BY <3>1, <3>6
      <4>4. ~ InFlight(p)' /\ ~ IsDirty(p)'
        BY <3>3, <4>1, <4>3 DEF InFlight, IsActive, IsTerminal, TerminalStates,
           WatchedTerminal, IsDirty, DirtyStates
      <4> QED BY <3>4, <4>2, <4>4
    <3> QED BY <3>5, <3>6
  <2> QED BY <2>1, <2>2
<1> QED BY <1>1, QuietLock

-----------------------------------------------------------------------------
(* Every step is a step of the lock.                                       *)

LEMMA NextLock ==
  ASSUME IInv, IInv', JobInv, SettledInv, SettledInv', [Next]_vars
  PROVE  LockStep
<1>1. StoreStep /\ StoreTypeOK
  BY StoreSteps DEF IInv, TypeOK
<1>2. CASE \E n \in OpId : Fresh(n) /\ Elsewhere({n})
  <2>1. PICK n \in OpId : Fresh(n) /\ Elsewhere({n})
    BY <1>2
  <2>2. op[n] = Absent
    BY <2>1 DEF Fresh, IInv, Allocated, OpId
  <2>3. ~ InFlight(n) /\ ~ IsDirty(n) /\ ~ IsDirty(n)'
    BY <2>1, <2>2, AbsentFields DEF Fresh, InFlight, IsActive, InStore, IsDirty,
       DirtyStates
  <2>4. \A p \in OpId \ {n} : op'[p] = op[p]
    BY <2>1 DEF Elsewhere
  <2>5. CASE InFlight(n)'
    BY <2>3, <2>4, <2>5, TakesLock DEF IInv
  <2>6. CASE ~ InFlight(n)'
    BY <2>3, <2>4, <2>6, UntouchedDirt, QuietLock
  <2> QED BY <2>5, <2>6
<1>3. CASE \E o \in OpId : TaskWrites(o) /\ Elsewhere({o})
  <2>1. PICK o \in OpId : TaskWrites(o) /\ Elsewhere({o})
    BY <1>3
  <2>2. /\ op'[o].action = op[o].action /\ op'[o].target = op[o].target
        /\ \A p \in OpId \ {o} : op'[p] = op[p]
    BY <2>1 DEF TaskWrites, Elsewhere
  <2>3. op[o].action \in WatchedAction => InFlight(o)
    BY <2>1, MovingIsActive DEF TaskWrites, Resting
  <2>4. CASE op[o].action \notin WatchedAction
    <3>1. ~ InFlight(o) /\ ~ InFlight(o)' /\ ~ IsDirty(o)'
      BY <2>2, <2>4 DEF InFlight, IInv, DirtKinds
    <3> QED BY <2>2, <3>1, UntouchedDirt, QuietLock
  <2>5. CASE InFlight(o) /\ InFlight(o)'
    <3>1. ~ IsDirty(o)'
      BY <2>5 DEF IsDirty, InFlight, IsActive, IsTerminal, TerminalStates,
         WatchedTerminal
    <3>2. Holding(o)' = Holding(o)
      BY <2>2 DEF Holding
    <3> QED BY <2>2, <2>5, <3>1, <3>2, UntouchedDirt, QuietLock
  <2>6. CASE InFlight(o) /\ ~ InFlight(o)'
    <3>1. InStore(o)'
      <4>1. op'[o].action \in WatchedAction
        BY <2>2, <2>6 DEF InFlight
      <4>2. op'[o] # Absent
        BY <4>1, AbsentFields DEF WatchedAction
      <4> QED BY <4>2, StoreEntries DEF IInv, TypeOK, StoreTypeOK, InStore,
             Operation, OperationState, WatchedTerminal, DirtyStates
    <3> QED BY <2>2, <2>6, <3>1, EndsLock DEF IInv
  <2> QED BY <2>3, <2>4, <2>5, <2>6
<1>4. CASE \E o \in OpId : Collects(o) /\ Elsewhere({o})
  <2>1. PICK o \in OpId : Collects(o) /\ Elsewhere({o})
    BY <1>4
  <2>2. ~ InFlight(o) /\ ~ InFlight(o)' /\ ~ IsDirty(o)'
    BY <2>1, AbsentFields DEF Collects, InFlight, IsActive, InStore, IsDirty,
       DirtyStates
  <2>3. \A p \in OpId \ {o} : op'[p] = op[p]
    BY <2>1 DEF Elsewhere
  <2> QED BY <2>2, <2>3, UntouchedDirt, QuietLock
<1>5. CASE Forgets
  <2>1. \A p \in OpId : ~ InFlight(p)' /\ ~ IsDirty(p)'
    BY <1>5, AbsentFields DEF Forgets, InFlight, IsActive, InStore, IsDirty,
       DirtyStates
  <2>2. Holder' = {} /\ Dirt' = {}
    BY <2>1 DEF Holder, Dirt
  <2> QED BY <2>2 DEF LockStep, Lock!Next, Lock!Crash
<1>6. CASE Moves
  BY <1>6, UntouchedDirt, QuietLock DEF Moves
<1> QED BY <1>1, <1>2, <1>3, <1>4, <1>5, <1>6, HandsLock, MarksLock DEF StoreStep

LEMMA InitLock == Init => Lock!Init
<1> SUFFICES ASSUME Init PROVE Lock!Init
  OBVIOUS
<1>1. \A o \in OpId : ~ InFlight(o) /\ ~ IsDirty(o)
  BY AbsentFields DEF Init, StoreInit, InFlight, IsActive, InStore, IsDirty,
     DirtyStates
<1>2. Holder = {} /\ Dirt = {}
  BY <1>1 DEF Holder, Dirt
<1> QED BY <1>2 DEF Lock!Init

\* The store and the tasks implement the facility lock, for any entries, requests,
\* jobs launched in AWX itself, lost answers, expiry and restarts.
THEOREM LockImplemented == Spec => LockSpec
<1>1. IInv /\ IInv' /\ JobInv /\ SettledInv /\ SettledInv' /\ [Next]_vars
        => [Lock!Next]_(Lock!lockVars)
  BY NextLock DEF LockStep
<1> QED
  BY <1>1, InitLock, Inductive, JobsInductive, SettledInductive, PTL
  DEF Spec, LockSpec, Lock!Spec
=============================================================================
