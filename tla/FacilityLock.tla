---------------------------- MODULE FacilityLock ----------------------------
(***************************************************************************)
(* What the advisory facility lock promises, without the store, the tasks   *)
(* and AWX: at most one holder, which either changes the facility or       *)
(* recovers one run; changes start from a clean facility only; a recovery  *)
(* starts when nothing but the run it recovers is dirty.                   *)
(***************************************************************************)
EXTENDS Naturals

CONSTANTS
  Run,      \* identities of runs
  Unknown   \* the identity of a run that has none to recover it by

VARIABLES
  holder,  \* {}, {<<"change">>} or {<<"recovery", r>>}
  dirty    \* the runs the facility may be dirty from

lockVars == <<holder, dirty>>

Change == {<<"change">>}
Recovery(r) == {<<"recovery", r>>}

Init == holder = {} /\ dirty = {}

TakeChange == holder = {} /\ dirty = {} /\ holder' = Change /\ dirty' = dirty

TakeRecovery(r) ==
  /\ holder = {} /\ dirty \subseteq {r}
  /\ holder' = Recovery(r) /\ dirty' = dirty

\* A change ends clean, or leaves its own run dirty.
EndChange ==
  /\ holder = Change
  /\ holder' = {}
  /\ dirty' = {} \/ \E r \in Run \cup {Unknown} : dirty' = {r}

\* A failed change hands the lock over to the recovery of its run, without
\* a moment in which anything else could take it.
HandOver(r) ==
  holder = Change /\ holder' = Recovery(r) /\ dirty' = {r}

EndRecovery(r) ==
  /\ holder = Recovery(r)
  /\ holder' = {}
  /\ dirty' \in {dirty, {r}}

\* Verified clean, or forgotten.
Clean ==
  /\ dirty' \in SUBSET dirty /\ dirty' # dirty
  /\ holder' = holder

Crash == holder' = {} /\ dirty' = {}

Next ==
  \/ TakeChange \/ EndChange
  \/ \E r \in Run : TakeRecovery(r) \/ HandOver(r) \/ EndRecovery(r)
  \/ Clean \/ Crash

Spec == Init /\ [][Next]_lockVars
=============================================================================
