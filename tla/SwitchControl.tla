---------------------------- MODULE SwitchControl ----------------------------
(***************************************************************************)
(* The control that switches the source of one viewer, on the Configure    *)
(* step (stages/ConfigureStage.tsx), over the polled topology read it      *)
(* shares with the workload's home (useInstanceTopology in hooks.ts,       *)
(* ActiveSourceSection in WorkloadHome.tsx), under src/frontend/src.       *)
(*                                                                         *)
(* Time passes in units of the 5 s poll.  What the control shows is        *)
(* rendered: a reading may grow too old between two renders.               *)
(***************************************************************************)
EXTENDS Naturals

CONSTANTS
  Source,   \* the sources a topology may declare
  Topology, \* bound: what may be true of the viewer
  Stale     \* OBSERVED_SOURCE_STALE_MS, in polls

NoSource == "no source"

\* 404, a payload that is not one, or the declared sources and the active one.
ASSUME ControlAssumption ==
  /\ NoSource \notin Source /\ Stale \in Nat \ {0}
  /\ \A t \in Topology :
       /\ t.kind \in {"none", "malformed", "topology"}
       /\ t.sources \subseteq Source /\ t.active \in t.sources \cup {NoSource}
       /\ t.kind # "topology" => t.sources = {}

VARIABLES
  truth,    \* what the catalog declares and the sidecar reports
  up,       \* whether the console is answered
  read,     \* the topology query
  reply,    \* the read on its way
  at,       \* where the viewer is on screen
  row,      \* what the control holds of its own
  fresh,    \* whether the last render found the observation fresh
  call,     \* the switch request the control waits for
  gates     \* what the rest of the console allows

vars == <<truth, up, read, reply, at, row, fresh, call, gates>>

Unread == [kind |-> "unread", sources |-> {}, active |-> NoSource]

Reply == [phase : {"idle"}] \cup [phase : {"asked"}, retried : BOOLEAN]
           \cup [phase : {"observed"}, retried : BOOLEAN, data : Topology,
                 age : 0..(Stale - 1)]

Idle == [phase |-> "idle"]
Asked == [phase |-> "asked", retried |-> FALSE]

\* What is said of the last request that ended is left out.
Row == [arming : BOOLEAN, target : Source \cup {NoSource}]

FreshRow == [arming |-> FALSE, target |-> NoSource]

NoCall == [target |-> NoSource, options |-> {}]

Call == {NoCall} \cup [target : Source, options : SUBSET Source]

\* hasTopology is not false; the stage's actions have the switch; no write gate.
Gates == [enabled : BOOLEAN, allowed : BOOLEAN, blocked : BOOLEAN]

TypeOK ==
  /\ truth \in Topology /\ up \in BOOLEAN
  /\ read \in [data : Topology \cup {Unread}, age : 0..Stale, failed : BOOLEAN]
  /\ reply \in Reply
  /\ at \in {"control", "home", "away"}
  /\ row \in Row /\ fresh \in BOOLEAN
  /\ call \in Call /\ gates \in Gates
  /\ at # "control" => row = FreshRow /\ call = NoCall
  /\ call # NoCall => row.arming

-----------------------------------------------------------------------------
(* What the reader sees.                                                   *)

\* A disabled query says "no topology" whatever the cache holds.
HasValidSources(r, g) == g.enabled /\ ~ r.failed /\ r.data.kind = "topology"

ObservedFresh(r, g) ==
  HasValidSources(r, g) /\ r.data.active # NoSource /\ r.age < Stale

Pending == call # NoCall

OtherSources == IF fresh THEN read.data.sources \ {read.data.active} ELSE {}

\* Mutant for PendingPanelSteady: the reads decide, request or not.
MutantRendered ==
  at = "control" /\ HasValidSources(read, gates) /\ ~ (fresh /\ OtherSources = {})

\* While a request is out the panel is what was submitted.
Rendered ==
  \/ Pending
  \/ at = "control" /\ HasValidSources(read, gates) /\ ~ (fresh /\ OtherSources = {})

OffersSwitch ==
  Rendered /\ ~ row.arming /\ gates.allowed /\ OtherSources # {}

Panel ==
  IF ~ (Rendered /\ row.arming) THEN [shown |-> FALSE]
  ELSE [shown |-> TRUE, pending |-> Pending,
        target |-> IF Pending THEN call.target ELSE row.target,
        options |-> IF Pending THEN call.options ELSE OtherSources]

MayConfirm ==
  /\ Panel.shown /\ ~ Pending /\ ~ gates.blocked
  /\ row.target \in OtherSources

\* The row of the workload's home: no age is asked of it.
ActiveSourceRow ==
  IF at = "home" /\ HasValidSources(read, gates) THEN {read.data.active} ELSE {}

-----------------------------------------------------------------------------

Init ==
  /\ truth \in Topology /\ up = TRUE
  /\ read = [data |-> Unread, age |-> Stale, failed |-> FALSE]
  /\ reply = Idle /\ at = "away"
  /\ row = FreshRow /\ fresh = FALSE
  /\ call = NoCall /\ gates \in Gates

\* Every step but the clock's renders.
Render == fresh' = (at' = "control" /\ ObservedFresh(read', gates'))

Observing == at # "away" /\ gates.enabled

\* Mutant for Recovers: a null answer stops the poll.
MutantPoll ==
  /\ Observing /\ reply = Idle /\ read.data.kind # "none"
  /\ reply' = Asked
  /\ UNCHANGED <<truth, up, read, at, row, call, gates>> /\ Render

\* The interval of an enabled query, which a null answer slows and never stops.
Poll ==
  /\ Observing /\ reply = Idle
  /\ reply' = Asked
  /\ read' = [read EXCEPT !.failed = @ /\ read.data # Unread]
  /\ UNCHANGED <<truth, up, at, row, call, gates>> /\ Render

Observe ==
  /\ reply.phase = "asked" /\ up
  /\ reply' = [phase |-> "observed", retried |-> reply.retried, data |-> truth,
               age |-> 0]
  /\ UNCHANGED <<truth, up, read, at, row, call, gates>> /\ Render

\* A reading has no age unless it names an active source.
AgeOf(data, age) == IF data.active = NoSource THEN Stale ELSE age

Answered ==
  /\ reply.phase = "observed" /\ up
  /\ reply' = Idle
  /\ read' = [data |-> reply.data, age |-> AgeOf(reply.data, reply.age), failed |-> FALSE]
  /\ UNCHANGED <<truth, up, at, row, call, gates>> /\ Render

\* One retry; then the error, with the last data kept.
ReadFails ==
  /\ reply.phase # "idle" /\ ~ up
  /\ IF reply.retried
       THEN reply' = Idle /\ read' = [read EXCEPT !.failed = TRUE]
       ELSE reply' = [phase |-> "asked", retried |-> TRUE] /\ UNCHANGED read
  /\ UNCHANGED <<truth, up, at, row, call, gates>> /\ Render

\* Nothing renders because time passes.  Bound: an answer takes less than Stale.
Tick ==
  /\ reply.phase = "observed" => reply.age + 1 < Stale
  /\ read' = [read EXCEPT !.age = IF @ < Stale THEN @ + 1 ELSE @]
  /\ reply' = IF reply.phase = "observed" THEN [reply EXCEPT !.age = @ + 1] ELSE reply
  /\ <<read, reply>>' # <<read, reply>>
  /\ UNCHANGED <<truth, up, at, row, fresh, call, gates>>

\* The 1 s interval of an armed panel, or a render of the page around it.
Rerender ==
  /\ at = "control"
  /\ UNCHANGED <<truth, up, read, reply, at, row, call, gates>> /\ Render

-----------------------------------------------------------------------------
(* The operator.                                                           *)

Arm ==
  /\ at = "control" /\ OffersSwitch
  /\ row' = [row EXCEPT !.arming = TRUE]
  /\ UNCHANGED <<truth, up, read, reply, at, call, gates>> /\ Render

Choose(s) ==
  /\ Panel.shown /\ ~ Pending /\ s \in OtherSources
  /\ row' = [row EXCEPT !.target = s]
  /\ UNCHANGED <<truth, up, read, reply, at, call, gates>> /\ Render

Cancel ==
  /\ Panel.shown /\ ~ Pending
  /\ row' = [row EXCEPT !.arming = FALSE, !.target = NoSource]
  /\ UNCHANGED <<truth, up, read, reply, at, call, gates>> /\ Render

\* Mutant for SentOnEvidence: the clock is not asked again.
MutantStillFresh == HasValidSources(read, gates)

\* submit asks the clock again; what it knows of the sources is what was shown.
StillFresh == ObservedFresh(read, gates)

Submit ==
  /\ MayConfirm /\ StillFresh
  /\ call' = [target |-> row.target, options |-> OtherSources]
  /\ UNCHANGED <<truth, up, read, reply, at, row, gates>> /\ Render

\* The row leaves with the inventory's instance, or the operator goes: the
\* control is forgotten, and nobody is told how its request ends.
Go(place) ==
  /\ place # at /\ at' = place
  /\ row' = FreshRow /\ call' = NoCall
  /\ UNCHANGED <<truth, up, read, reply, gates>> /\ Render

\* An unobserved query is dropped from the cache after a while.
Forget ==
  /\ at = "away" /\ reply = Idle /\ read.data # Unread
  /\ read' = [data |-> Unread, age |-> Stale, failed |-> FALSE]
  /\ UNCHANGED <<truth, up, reply, at, row, call, gates>> /\ Render

-----------------------------------------------------------------------------
(* The request ends at the console.                                        *)

\* A read on its way is dropped for a new one.
Refetch == reply' = Asked

SwitchSucceeds ==
  /\ Pending /\ up /\ call.target \in truth.sources
  /\ truth' = [truth EXCEPT !.active = call.target] /\ truth' \in Topology
  /\ row' = FreshRow /\ call' = NoCall /\ Refetch
  /\ UNCHANGED <<up, read, at, gates>> /\ Render

\* The command failed: the request itself was answered.
SwitchFails ==
  /\ Pending /\ up
  /\ row' = FreshRow /\ call' = NoCall /\ Refetch
  /\ UNCHANGED <<truth, up, read, at, gates>> /\ Render

\* Refused, or its answer lost: the panel stays, with its target.
RequestFails ==
  /\ Pending
  /\ call' = NoCall
  /\ UNCHANGED <<truth, up, read, reply, at, row, gates>> /\ Render

-----------------------------------------------------------------------------
(* The rest of the world.                                                  *)

\* A switch asked for elsewhere or by a control now gone, a sidecar lost or back,
\* a catalog edit.
TruthChanges ==
  /\ truth' \in Topology \ {truth}
  /\ UNCHANGED <<up, read, reply, at, row, call, gates>> /\ Render

NetworkChanges ==
  /\ up' = ~ up
  /\ UNCHANGED <<truth, read, reply, at, row, call, gates>> /\ Render

GatesChange ==
  /\ gates' \in Gates \ {gates}
  /\ UNCHANGED <<truth, up, read, reply, at, row, call>> /\ Render

Next ==
  \/ Poll \/ Observe \/ Answered \/ ReadFails \/ Tick \/ Rerender
  \/ Arm \/ Cancel \/ Submit
  \/ \E s \in Source : Choose(s)
  \/ \E place \in {"control", "home", "away"} : Go(place)
  \/ Forget
  \/ SwitchSucceeds \/ SwitchFails \/ RequestFails
  \/ TruthChanges \/ NetworkChanges \/ GatesChange

\* The interval fires, the console answers while it is up.
Fairness == WF_vars(Poll) /\ WF_vars(Observe) /\ WF_vars(Answered)

Spec == Init /\ [][Next]_vars /\ Fairness

-----------------------------------------------------------------------------
(* Properties.                                                             *)

\* A switch is asked for only against an observation that is recent at that
\* moment and names another source than the one asked for, out of the sources
\* declared with it, while the inventory is confirmed: whatever polls landed,
\* failed or were disabled between arming, choosing and confirming, and however
\* long ago the panel was last rendered.
SentOnEvidence ==
  [][ ~ Pending /\ call' # NoCall
      => /\ at = "control" /\ ~ gates.blocked /\ gates.enabled
         /\ ~ read.failed /\ read.age < Stale
         /\ read.data.active # NoSource
         /\ call'.target \in read.data.sources \ {read.data.active} ]_vars

\* #861: while the request is out nothing a poll brings, or fails to bring,
\* removes the pending panel or changes what it says was asked for.
PendingPanelSteady ==
  [][ Pending /\ call' = call => Panel.shown /\ Panel' = Panel ]_vars

\* #402: a control withdrawn because the reading grew old, failed, was a 404 or
\* was no topology comes back by itself once the console answers again and the
\* viewer's source is observed; and home comes to name that source, or none where
\* there is none, whatever was read or was on its way before.
Switchable ==
  /\ at = "control" /\ up /\ gates.enabled /\ gates.allowed
  /\ truth.active # NoSource /\ truth.sources # {truth.active}

Readable == at = "home" /\ up /\ gates.enabled

Recovers ==
  /\ <>[]Switchable => []<>(OffersSwitch \/ Panel.shown)
  /\ \A t \in Topology :
       <>[](Readable /\ truth = t)
         => <>[](ActiveSourceRow = IF t.kind = "topology" THEN {t.active} ELSE {})
=============================================================================
