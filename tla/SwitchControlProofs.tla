------------------------ MODULE SwitchControlProofs ------------------------
(***************************************************************************)
(* Proofs about the control that switches a viewer's source, for every set *)
(* of sources, every topology and every age at which a reading is stale.   *)
(* What is sent and what stays on screen both follow from the types once   *)
(* those say that a request lives in an armed panel on the Configure step. *)
(***************************************************************************)
EXTENDS SwitchControl, TLAPS

ReadType ==
  read \in [data : Topology \cup {Unread}, age : 0..Stale, failed : BOOLEAN]

\* What the control holds.
HeldType ==
  /\ at \in {"control", "home", "away"}
  /\ row \in Row /\ call \in Call
  /\ at # "control" => row = FreshRow /\ call = NoCall
  /\ call # NoCall => row.arming

RestType ==
  /\ truth \in Topology /\ up \in BOOLEAN /\ reply \in Reply
  /\ fresh \in BOOLEAN /\ gates \in Gates

LEMMA TypeParts == TypeOK <=> ReadType /\ HeldType /\ RestType
  BY DEF TypeOK, ReadType, HeldType, RestType

LEMMA TypeInit == Init => TypeOK
<1> SUFFICES ASSUME Init PROVE TypeOK
  OBVIOUS
<1>1. ReadType
  BY ControlAssumption DEF Init, ReadType
<1>2. HeldType
  BY DEF Init, HeldType, Row, FreshRow, Call, NoCall
<1>3. RestType
  BY DEF Init, RestType, Reply, Idle
<1> QED BY <1>1, <1>2, <1>3, TypeParts

\* The sources a switch may be asked for are of those declared.
LEMMA OthersDeclared ==
  ASSUME ReadType
  PROVE  /\ OtherSources \subseteq read.data.sources \ {read.data.active}
         /\ OtherSources \subseteq Source
<1>1. read.data.sources \subseteq Source
  BY ControlAssumption DEF ReadType, Unread
<1> QED BY <1>1 DEF OtherSources

LEMMA AskedType == Asked \in Reply /\ Idle \in Reply
  BY DEF Asked, Idle, Reply

\* A panel on screen with no request out is an armed one on the Configure step.
LEMMA ShownPanel ==
  ASSUME Panel.shown, ~ Pending
  PROVE  at = "control" /\ row.arming
<1>1. Rendered /\ row.arming
  BY DEF Panel
<1> QED BY <1>1 DEF Rendered

LEMMA ReadStep == ReadType /\ RestType /\ [Next]_vars => ReadType' /\ RestType'
<1> SUFFICES ASSUME ReadType, RestType, [Next]_vars PROVE ReadType' /\ RestType'
  OBVIOUS
<1>0. Asked \in Reply /\ Idle \in Reply /\ Stale \in Nat \ {0}
  BY AskedType, ControlAssumption
<1>1. fresh' \in BOOLEAN \/ UNCHANGED fresh
  BY DEF Next, Poll, Observe, Answered, ReadFails, Tick, Rerender, Arm, Cancel,
         Submit, Choose, Go, Forget, SwitchSucceeds, SwitchFails, RequestFails,
         TruthChanges, NetworkChanges, GatesChange, Render, vars
<1>2. fresh' \in BOOLEAN
  BY <1>1 DEF RestType
<1>3. CASE Poll
  <2>1. ReadType'
    BY <1>3 DEF Poll, ReadType
  <2> QED BY <1>0, <1>2, <1>3, <2>1 DEF Poll, RestType
<1>4. CASE Observe
  <2>1. reply' \in Reply
    <3>1. reply.retried \in BOOLEAN
      BY <1>4 DEF Observe, RestType, Reply
    <3>2. 0 \in 0..(Stale - 1)
      BY <1>0
    <3> QED BY <1>4, <3>1, <3>2 DEF Observe, RestType, Reply
  <2> QED BY <1>2, <1>4, <2>1 DEF Observe, RestType, ReadType
<1>5. CASE Answered
  <2>1. reply.data \in Topology /\ reply.age \in 0..(Stale - 1)
    BY <1>5 DEF Answered, RestType, Reply
  <2>2. AgeOf(reply.data, reply.age) \in 0..Stale
    BY <1>0, <2>1 DEF AgeOf
  <2> QED BY <1>0, <1>2, <1>5, <2>1, <2>2 DEF Answered, RestType, ReadType
<1>6. CASE ReadFails
  <2>1. [phase |-> "asked", retried |-> TRUE] \in Reply
    BY DEF Reply
  <2> QED BY <1>0, <1>2, <1>6, <2>1 DEF ReadFails, RestType, ReadType
<1>7. CASE Tick
  <2>1. ReadType'
    BY <1>0, <1>7 DEF Tick, ReadType
  <2>2. reply' \in Reply
    <3>1. CASE reply.phase = "observed"
      <4>1. /\ reply \in [phase : {"observed"}, retried : BOOLEAN,
                          data : Topology, age : 0..(Stale - 1)]
            /\ reply.age + 1 < Stale
        BY <1>7, <3>1 DEF Tick, RestType, Reply
      <4>2. reply' = [reply EXCEPT !.age = @ + 1] /\ reply.age + 1 \in 0..(Stale - 1)
        BY <1>0, <1>7, <3>1, <4>1 DEF Tick
      <4> QED BY <4>1, <4>2 DEF Reply
    <3>2. CASE reply.phase # "observed"
      BY <1>7, <3>2 DEF Tick, RestType
    <3> QED BY <3>1, <3>2
  <2> QED BY <1>7, <2>1, <2>2 DEF Tick, RestType
<1>8. CASE Rerender \/ Arm \/ Cancel \/ Submit \/ RequestFails
           \/ (\E s \in Source : Choose(s))
           \/ (\E place \in {"control", "home", "away"} : Go(place))
  BY <1>2, <1>8 DEF Rerender, Arm, Cancel, Submit, RequestFails, Choose, Go,
                    ReadType, RestType
<1>9. CASE Forget
  BY <1>0, <1>2, <1>9 DEF Forget, ReadType, RestType
<1>10. CASE SwitchSucceeds \/ SwitchFails
  BY <1>0, <1>2, <1>10 DEF SwitchSucceeds, SwitchFails, Refetch, ReadType, RestType
<1>11. CASE TruthChanges \/ NetworkChanges \/ GatesChange
  BY <1>2, <1>11 DEF TruthChanges, NetworkChanges, GatesChange, ReadType, RestType
<1>12. CASE UNCHANGED vars
  BY <1>12 DEF vars, ReadType, RestType
<1> QED
  BY <1>3, <1>4, <1>5, <1>6, <1>7, <1>8, <1>9, <1>10, <1>11, <1>12 DEF Next

LEMMA HeldStep == ReadType /\ HeldType /\ [Next]_vars => HeldType'
<1> SUFFICES ASSUME ReadType, HeldType, [Next]_vars PROVE HeldType'
  OBVIOUS
<1>1. CASE UNCHANGED <<at, row, call>>
  BY <1>1 DEF HeldType
<1>2. CASE Arm
  BY <1>2 DEF Arm, HeldType, Row
<1>3. ASSUME NEW s \in Source, Choose(s) PROVE HeldType'
  <2>1. at = "control" /\ row.arming
    BY <1>3, ShownPanel DEF Choose
  <2> QED BY <1>3, <2>1 DEF Choose, HeldType, Row, Pending
<1>4. CASE Cancel
  <2>1. at = "control"
    BY <1>4, ShownPanel DEF Cancel
  <2> QED BY <1>4, <2>1 DEF Cancel, HeldType, Row, Pending
<1>5. CASE Submit
  <2>1. at = "control" /\ row.arming
    BY <1>5, ShownPanel DEF Submit, MayConfirm
  <2>2. call' \in Call
    BY <1>5, OthersDeclared DEF Submit, MayConfirm, Call
  <2> QED BY <1>5, <2>1, <2>2 DEF Submit, HeldType
<1>6. ASSUME NEW place \in {"control", "home", "away"}, Go(place) PROVE HeldType'
  BY <1>6 DEF Go, HeldType, FreshRow, Row, Call
<1>7. CASE SwitchSucceeds \/ SwitchFails \/ RequestFails
  <2>1. FreshRow \in Row /\ NoCall \in Call
    BY DEF FreshRow, Row, Call
  <2>2. at' = at /\ call' = NoCall /\ (row' = FreshRow \/ row' = row)
    BY <1>7 DEF SwitchSucceeds, SwitchFails, RequestFails
  <2> QED BY <2>1, <2>2 DEF HeldType
<1>8. CASE \/ Poll \/ Observe \/ Answered \/ ReadFails \/ Tick \/ Rerender \/ Forget
           \/ TruthChanges \/ NetworkChanges \/ GatesChange \/ UNCHANGED vars
  BY <1>1, <1>8 DEF Poll, Observe, Answered, ReadFails, Tick, Rerender, Forget,
                    TruthChanges, NetworkChanges, GatesChange, vars
<1> QED BY <1>2, <1>3, <1>4, <1>5, <1>6, <1>7, <1>8 DEF Next

\* The control and the query it reads stay well formed, and a request is only
\* ever out from an armed panel of a mounted control.
THEOREM ControlTypeCorrect == Spec => []TypeOK
<1>1. TypeOK /\ [Next]_vars => TypeOK'
  <2> SUFFICES ASSUME TypeOK, [Next]_vars PROVE TypeOK'
    OBVIOUS
  <2>1. ReadType /\ HeldType /\ RestType
    BY TypeParts
  <2>2. ReadType' /\ HeldType' /\ RestType'
    BY <2>1, ReadStep, HeldStep
  <2> QED BY <2>2 DEF TypeOK, ReadType, HeldType, RestType
<1> QED BY TypeInit, <1>1, PTL DEF Spec

\* A switch is sent only on a reading that is recent when it is sent.
THEOREM SwitchesOnEvidence == Spec => SentOnEvidence
<1> DEFINE Evidence ==
      ~ Pending /\ call' # NoCall
        => /\ at = "control" /\ ~ gates.blocked /\ gates.enabled
           /\ ~ read.failed /\ read.age < Stale
           /\ read.data.active # NoSource
           /\ call'.target \in read.data.sources \ {read.data.active}
<1>1. TypeOK /\ [Next]_vars => [Evidence]_vars
  <2> SUFFICES ASSUME TypeOK, [Next]_vars, ~ Pending, call' # NoCall
               PROVE  /\ at = "control" /\ ~ gates.blocked /\ gates.enabled
                      /\ ~ read.failed /\ read.age < Stale
                      /\ read.data.active # NoSource
                      /\ call'.target \in read.data.sources \ {read.data.active}
    OBVIOUS
  <2>1. Submit
    BY DEF Next, Poll, Observe, Answered, ReadFails, Tick, Rerender, Arm, Cancel,
           Choose, Go, Forget, SwitchSucceeds, SwitchFails, RequestFails,
           TruthChanges, NetworkChanges, GatesChange, Pending, vars
  <2>2. at = "control" /\ ~ gates.blocked
    BY <2>1, ShownPanel DEF Submit, MayConfirm
  <2>3. /\ gates.enabled /\ ~ read.failed /\ read.age < Stale
        /\ read.data.active # NoSource
    BY <2>1 DEF Submit, StillFresh, ObservedFresh, HasValidSources
  <2>4. call'.target \in read.data.sources \ {read.data.active}
    BY <2>1, OthersDeclared, TypeParts DEF Submit, MayConfirm
  <2> QED BY <2>2, <2>3, <2>4
<1>2. SentOnEvidence <=> [][Evidence]_vars
  BY DEF SentOnEvidence
<1> QED BY ControlTypeCorrect, <1>1, <1>2, PTL DEF Spec

\* While the request is out the panel on screen is what was asked for.
THEOREM PanelStays == Spec => PendingPanelSteady
<1> DEFINE Steady == Pending /\ call' = call => Panel.shown /\ Panel' = Panel
<1>1. ASSUME HeldType, Pending
      PROVE  Panel = [shown |-> TRUE, pending |-> TRUE,
                      target |-> call.target, options |-> call.options]
  <2>1. Rendered /\ row.arming
    BY <1>1 DEF HeldType, Rendered, Pending
  <2> QED BY <1>1, <2>1 DEF Panel
<1>2. ASSUME HeldType', Pending'
      PROVE  Panel' = [shown |-> TRUE, pending |-> TRUE,
                       target |-> call'.target, options |-> call'.options]
  <2>1. Rendered' /\ row'.arming
    BY <1>2 DEF HeldType, Rendered, Pending
  <2> QED BY <1>2, <2>1 DEF Panel
<1>3. TypeOK /\ [Next]_vars => [Steady]_vars
  <2> SUFFICES ASSUME TypeOK, [Next]_vars, Pending, call' = call
               PROVE  Panel.shown /\ Panel' = Panel
    OBVIOUS
  <2>1. HeldType /\ HeldType'
    BY TypeParts, HeldStep
  <2>2. Pending'
    BY DEF Pending
  <2>3. Panel = [shown |-> TRUE, pending |-> TRUE,
                 target |-> call.target, options |-> call.options]
    BY <1>1, <2>1
  <2>4. Panel' = [shown |-> TRUE, pending |-> TRUE,
                  target |-> call'.target, options |-> call'.options]
    BY <1>2, <2>1, <2>2
  <2> QED BY <2>3, <2>4
<1>4. PendingPanelSteady <=> [][Steady]_vars
  BY DEF PendingPanelSteady
<1> QED BY ControlTypeCorrect, <1>3, <1>4, PTL DEF Spec
=============================================================================
