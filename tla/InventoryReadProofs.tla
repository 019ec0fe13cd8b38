------------------------ MODULE InventoryReadProofs ------------------------
(***************************************************************************)
(* Proofs about the inventory reads, for any number of reads and writers    *)
(* and any grace window.  A read touches the record of its own kind only,   *)
(* so the argument is two lemmas, one per way a read can report, and the    *)
(* observation that no other step touches a reported read or a record.     *)
(* The episode of failures a record tells of is the exact one: it is the   *)
(* one its reported reads make, and every report keeps the two together.   *)
(***************************************************************************)
EXTENDS InventoryRead, FiniteSetTheorems, TLAPS

\* The record of a read state after a success keeps the type.
LEMMA SuccessType ==
  ASSUME TypeOK, NEW s \in ReadState, NEW t \in Ticket
  PROVE  AfterSuccess(s, t) \in ReadState
BY ReadAssumption DEF TypeOK, ReadState, AfterSuccess, Newer, Ticket, Read, Clock

\* And after a failure.
LEMMA FailureType ==
  ASSUME NEW s \in ReadState, NEW t \in Ticket
  PROVE  AfterFailure(s, t) \in ReadState
BY ReadAssumption DEF ReadState, AfterFailure, Newer, Ticket

\* Starting a read takes an unborn ticket and leaves every other read alone.
LEMMA BeginType ==
  ASSUME TypeOK, NEW k \in Kind, NEW w \in Writer \cup {None}, Begin(k, w)
  PROVE  read' \in [Ticket -> Read]
BY ReadAssumption DEF TypeOK, Begin, Read, Clock

\* A read ending keeps the types of reads and threads.
LEMMA EndsType ==
  ASSUME TypeOK, NEW t \in Ticket,
         NEW o \in {"success", "failure", "raised"}, Ends(t, o)
  PROVE  /\ read' \in [Ticket -> Read]
         /\ thread' \in [Writer -> Thread]
         /\ UNCHANGED <<now, cold, request>>
<1>1. read' \in [Ticket -> Read]
  BY DEF TypeOK, Ends, Read
<1>2. thread' \in [Writer -> Thread]
  <2>1. CASE read[t].by = None
    BY <2>1 DEF TypeOK, Ends
  <2>2. CASE read[t].by \in Writer
    <3> DEFINE w == read[t].by
    <3>1. thread' = [thread EXCEPT ![w].at = "finish"]
      BY <2>2, ReadAssumption DEF Ends
    <3>2. [thread[w] EXCEPT !.at = "finish"] \in Thread
      BY <2>2 DEF TypeOK, Thread
    <3> QED BY <2>2, <3>1, <3>2 DEF TypeOK
  <2> QED BY <2>1, <2>2 DEF TypeOK, Read
<1> QED BY <1>1, <1>2 DEF Ends

\* What a read state means survives a success: the cases are whether the
\* success is newer than every recorded failure, and if not, whether it
\* splits the open episode.
LEMMA SuccessMeans ==
  ASSUME NEW s \in ReadState, NEW n \in ReadState, NEW t \in Ticket,
         NEW S \in SUBSET Ticket, NEW F \in SUBSET Ticket,
         t \notin F, Means(s, S, F), n = AfterSuccess(s, t)
  PROVE  Means(n, S \cup {t}, F)
<1>1. /\ n.present = TRUE
      /\ n.newestFailure = s.newestFailure
      /\ n.seenSuccess = IF t > s.seenSuccess THEN t ELSE s.seenSuccess
  BY DEF AfterSuccess, Newer
<1>2. CASE t > s.newestFailure
  <2>1. /\ n.good = IF t > s.good THEN t ELSE s.good
        /\ n.since = 0 /\ n.diagnosis = 0
    BY <1>2 DEF AfterSuccess
  <2> QED BY <1>1, <1>2, <2>1, ReadAssumption DEF Means, ReadState, Ticket
<1>3. CASE ~(t > s.newestFailure)
  <2>1. /\ n.good = s.good /\ n.diagnosis = s.diagnosis
        /\ n.since = IF s.since # 0 /\ t > s.since THEN s.newestFailure ELSE s.since
    BY <1>3 DEF AfterSuccess
  <2> QED BY <1>1, <1>3, <2>1, ReadAssumption DEF Means, ReadState, Ticket
<1> QED BY <1>2, <1>3

\* And a failure, which counts only if it started after every success.
LEMMA FailureMeans ==
  ASSUME NEW s \in ReadState, NEW n \in ReadState, NEW t \in Ticket,
         NEW S \in SUBSET Ticket, NEW F \in SUBSET Ticket,
         t \notin S, Means(s, S, F), n = AfterFailure(s, t)
  PROVE  Means(n, S, F \cup {t})
<1>1. /\ n.present = TRUE
      /\ n.seenSuccess = s.seenSuccess /\ n.good = s.good
  BY DEF AfterFailure
<1>2. CASE t > s.seenSuccess
  <2>1. /\ n.newestFailure = IF t > s.newestFailure THEN t ELSE s.newestFailure
        /\ n.since = IF s.since = 0 \/ s.since <= s.seenSuccess \/ t < s.since
                     THEN t ELSE s.since
        /\ n.diagnosis = IF t > s.newestFailure THEN t ELSE s.diagnosis
    BY <1>2 DEF AfterFailure, Newer
  <2> QED BY <1>1, <1>2, <2>1, ReadAssumption DEF Means, ReadState, Ticket
<1>3. CASE ~(t > s.seenSuccess)
  <2>1. /\ n.newestFailure = s.newestFailure
        /\ n.since = s.since /\ n.diagnosis = s.diagnosis
    BY <1>3 DEF AfterFailure
  <2> QED BY <1>1, <1>3, <2>1, ReadAssumption DEF Means, ReadState, Ticket
<1> QED BY <1>2, <1>3

\* A kind none of whose reads reports, and whose state stays, keeps its
\* record.
LEMMA RecordFrame ==
  ASSUME NEW k \in Kind, Record(k), state'[k] = state[k],
         \A u \in Ticket : \/ read'[u] = read[u]
                           \/ /\ read[u].outcome \notin {"success", "failure"}
                              /\ read'[u].outcome \notin {"success", "failure"}
                           \/ /\ read[u].outcome \notin {"success", "failure"}
                              /\ read'[u].kind # k
  PROVE  Record(k)'
<1>1. Succeeded(k)' = Succeeded(k) /\ Failed(k)' = Failed(k)
  BY DEF Succeeded, Failed
<1> QED BY <1>1 DEF Record, Reported

\* A success keeps the meaning of its kind's record.
LEMMA RecordSuccess ==
  ASSUME TypeOK, NEW k \in Kind, Record(k), NEW t \in Ticket,
         ReadSucceeds(t), read[t].kind = k
  PROVE  Record(k)'
<1> DEFINE s == state[k]
           n == AfterSuccess(s, t)
<1>1. s \in ReadState /\ n \in ReadState /\ state'[k] = n
  BY SuccessType DEF TypeOK, ReadSucceeds
<1>2. Succeeded(k)' = Succeeded(k) \cup {t}
  BY DEF TypeOK, ReadSucceeds, Ends, Succeeded, Read
<1>3. Failed(k)' = Failed(k) /\ t \notin Failed(k)
  BY DEF TypeOK, ReadSucceeds, Ends, Failed, Read
<1>4. Succeeded(k) \in SUBSET Ticket /\ Failed(k) \in SUBSET Ticket
  BY DEF Succeeded, Failed
<1>5. Means(n, Succeeded(k) \cup {t}, Failed(k))
  BY <1>1, <1>3, <1>4, SuccessMeans DEF Record
<1> QED BY <1>1, <1>2, <1>3, <1>5 DEF Record

\* A failure keeps it too.
LEMMA RecordFailure ==
  ASSUME TypeOK, NEW k \in Kind, Record(k), NEW t \in Ticket,
         ReadFails(t), read[t].kind = k
  PROVE  Record(k)'
<1> DEFINE s == state[k]
           n == AfterFailure(s, t)
<1>1. s \in ReadState /\ n \in ReadState /\ state'[k] = n
  BY FailureType DEF TypeOK, ReadFails
<1>2. Failed(k)' = Failed(k) \cup {t}
  BY DEF TypeOK, ReadFails, Ends, Failed, Read
<1>3. Succeeded(k)' = Succeeded(k) /\ t \notin Succeeded(k)
  BY DEF TypeOK, ReadFails, Ends, Succeeded, Read
<1>4. Succeeded(k) \in SUBSET Ticket /\ Failed(k) \in SUBSET Ticket
  BY DEF Succeeded, Failed
<1>5. Means(n, Succeeded(k), Failed(k) \cup {t})
  BY <1>1, <1>3, <1>4, FailureMeans DEF Record
<1> QED BY <1>1, <1>2, <1>3, <1>5 DEF Record

\* The invariant holds initially: no read has reported.
LEMMA InitEstablishes == Init => IInv
<1> SUFFICES ASSUME Init PROVE IInv
  OBVIOUS
<1>1. TypeOK
  <2>1. Unborn \in Read
    BY ReadAssumption DEF Unborn, Read, Clock
  <2>2. Fresh \in ReadState
    BY ReadAssumption DEF Fresh, ReadState, Clock
  <2>3. thread \in [Writer -> Thread]
    BY DEF Init, Thread
  <2> QED BY <2>1, <2>2, <2>3, ReadAssumption DEF Init, TypeOK, Clock, Request
<1>2. ASSUME NEW k \in Kind PROVE Record(k)
  <2>1. state[k] = Fresh /\ Succeeded(k) = {} /\ Failed(k) = {}
    BY DEF Init, Succeeded, Failed, Unborn
  <2>2. /\ Fresh.present = FALSE /\ Fresh.good = 0 /\ Fresh.seenSuccess = 0
        /\ Fresh.newestFailure = 0 /\ Fresh.since = 0 /\ Fresh.diagnosis = 0
    BY DEF Fresh
  <2> QED BY <2>1, <2>2 DEF Record, Means
<1>3. Ownership
  <2>1. cold = None /\ (\A w \in Writer : thread[w].at = "none" /\ None # w)
        /\ \A t \in Ticket : read[t].outcome = "unborn"
    BY ReadAssumption DEF Init, Unborn
  <2> QED BY <2>1 DEF Ownership
<1>4. Arrived
  BY DEF Init, Arrived
<1> QED BY <1>1, <1>2, <1>3, <1>4 DEF IInv

\* A thread that moves on keeps its type.
LEMMA ThreadMoves ==
  ASSUME TypeOK, NEW w \in Writer,
         NEW a \in {"queued", "own", "read", "finish", "popped", "wait", "done"},
         \/ thread' = [thread EXCEPT ![w].at = a]
         \/ \E v \in Writer : thread' = [thread EXCEPT ![w].at = a, ![w].on = v]
  PROVE  thread' \in [Writer -> Thread]
BY DEF TypeOK, Thread

\* Every step keeps the types.
LEMMA NextType == TypeOK /\ [Next]_vars => TypeOK'
<1> SUFFICES ASSUME TypeOK, [Next]_vars PROVE TypeOK'
  OBVIOUS
<1>1. CASE Tick
  BY <1>1, ReadAssumption DEF TypeOK, Tick, Clock
<1>2. ASSUME NEW k \in Kind, Poll(k) PROVE TypeOK'
  <2>1. read' \in [Ticket -> Read]
    BY <1>2, BeginType DEF Poll
  <2> QED BY <1>2, <2>1 DEF TypeOK, Poll
<1>3. ASSUME NEW t \in Ticket, ReadSucceeds(t) PROVE TypeOK'
  <2>1. /\ read' \in [Ticket -> Read] /\ thread' \in [Writer -> Thread]
        /\ UNCHANGED <<now, cold, request>>
    BY <1>3, EndsType DEF ReadSucceeds
  <2>2. state' \in [Kind -> ReadState]
    BY <1>3, SuccessType DEF TypeOK, ReadSucceeds
  <2> QED BY <2>1, <2>2 DEF TypeOK
<1>4. ASSUME NEW t \in Ticket, ReadFails(t) PROVE TypeOK'
  <2>1. /\ read' \in [Ticket -> Read] /\ thread' \in [Writer -> Thread]
        /\ UNCHANGED <<now, cold, request>>
    BY <1>4, EndsType DEF ReadFails
  <2>2. state' \in [Kind -> ReadState]
    BY <1>4, FailureType DEF TypeOK, ReadFails
  <2> QED BY <2>1, <2>2 DEF TypeOK
<1>5. ASSUME NEW t \in Ticket, ReadRaises(t) PROVE TypeOK'
  <2>1. /\ read' \in [Ticket -> Read] /\ thread' \in [Writer -> Thread]
        /\ UNCHANGED <<now, cold, request>>
    BY <1>5, EndsType DEF ReadRaises
  <2> QED BY <1>5, <2>1 DEF TypeOK, ReadRaises
<1>6. ASSUME NEW w \in Writer, WriteArrives(w) PROVE TypeOK'
  <2>1. thread' \in [Writer -> Thread]
    BY <1>6, ThreadMoves DEF WriteArrives
  <2> QED BY <1>6, <2>1 DEF TypeOK, WriteArrives, Request
<1>7. ASSUME NEW w \in Writer, ThreadStarts(w) PROVE TypeOK'
  <2>1. CASE cold = None
    <3>1. thread' \in [Writer -> Thread]
      BY <1>7, <2>1, ThreadMoves DEF ThreadStarts
    <3> QED BY <1>7, <3>1 DEF TypeOK, ThreadStarts
  <2>2. CASE cold \in Writer
    <3>1. thread' \in [Writer -> Thread]
      BY <1>7, <2>2, ThreadMoves, ReadAssumption DEF ThreadStarts
    <3> QED BY <1>7, <3>1 DEF TypeOK, ThreadStarts
  <2> QED BY <2>1, <2>2 DEF TypeOK
<1>8. ASSUME NEW w \in Writer, Owner(w) PROVE TypeOK'
  <2>1. thread' \in [Writer -> Thread]
    BY <1>8, ThreadMoves
    DEF Owner, OwnerReads, OwnerCannotRead, OwnerPops, OwnerReleases
  <2>2. CASE OwnerReads(w)
    <3>1. "grouped" \in Kind /\ w \in Writer \cup {None}
      BY DEF Kind
    <3>2. read' \in [Ticket -> Read]
      BY <2>2, <3>1, BeginType DEF OwnerReads
    <3> QED BY <2>1, <2>2, <3>2 DEF TypeOK, OwnerReads
  <2>3. CASE OwnerCannotRead(w) \/ OwnerPops(w) \/ OwnerReleases(w)
    BY <2>1, <2>3 DEF TypeOK, OwnerCannotRead, OwnerPops, OwnerReleases
  <2> QED BY <1>8, <2>2, <2>3 DEF Owner
<1>9. ASSUME NEW w \in Writer, WaiterWakes(w) PROVE TypeOK'
  <2>1. thread' \in [Writer -> Thread]
    BY <1>9, ThreadMoves DEF WaiterWakes
  <2> QED BY <1>9, <2>1 DEF TypeOK, WaiterWakes
<1>10. ASSUME NEW w \in Writer, Guard(w) PROVE TypeOK'
  <2>1. GuardCode \in Request
    BY DEF GuardCode, Request
  <2> QED BY <1>10, <2>1 DEF TypeOK, Guard
<1>11. ASSUME NEW w \in Writer, TimesOut(w) PROVE TypeOK'
  <2>1. thread' \in [Writer -> Thread]
    BY <1>11, ThreadMoves DEF TimesOut, TypeOK
  <2> QED BY <1>11, <2>1 DEF TypeOK, TimesOut, Request
<1>12. CASE UNCHANGED vars
  BY <1>12 DEF TypeOK, vars
<1> QED
  BY <1>1, <1>2, <1>3, <1>4, <1>5, <1>6, <1>7, <1>8, <1>9, <1>10, <1>11, <1>12
  DEF Next, ReadEnds

\* Every step keeps every record: reporting by the two lemmas above, every
\* other step because it neither reports nor touches a read state.
LEMMA NextRecord ==
  ASSUME TypeOK, NEW k \in Kind, Record(k), [Next]_vars
  PROVE  Record(k)'
<1> DEFINE Silent(u) ==
             \/ read'[u] = read[u]
             \/ /\ read[u].outcome \notin {"success", "failure"}
                /\ read'[u].outcome \notin {"success", "failure"}
             \/ /\ read[u].outcome \notin {"success", "failure"}
                /\ read'[u].kind # k
<1>1. ASSUME NEW t \in Ticket, ReadSucceeds(t) PROVE Record(k)'
  <2>1. CASE read[t].kind = k
    BY <1>1, <2>1, RecordSuccess
  <2>2. CASE read[t].kind # k
    <3>1. state'[k] = state[k]
      BY <1>1, <2>2 DEF ReadSucceeds, TypeOK
    <3>2. \A u \in Ticket : Silent(u)
      BY <1>1, <2>2 DEF ReadSucceeds, Ends, TypeOK, Read
    <3> QED BY <3>1, <3>2, RecordFrame
  <2> QED BY <2>1, <2>2
<1>2. ASSUME NEW t \in Ticket, ReadFails(t) PROVE Record(k)'
  <2>1. CASE read[t].kind = k
    BY <1>2, <2>1, RecordFailure
  <2>2. CASE read[t].kind # k
    <3>1. state'[k] = state[k]
      BY <1>2, <2>2 DEF ReadFails, TypeOK
    <3>2. \A u \in Ticket : Silent(u)
      BY <1>2, <2>2 DEF ReadFails, Ends, TypeOK, Read
    <3> QED BY <3>1, <3>2, RecordFrame
  <2> QED BY <2>1, <2>2
<1>3. ASSUME NEW t \in Ticket, ReadRaises(t) PROVE Record(k)'
  <2>1. \A u \in Ticket : Silent(u)
    BY <1>3 DEF ReadRaises, Ends, TypeOK, Read
  <2> QED BY <1>3, <2>1, RecordFrame DEF ReadRaises
<1>4. ASSUME NEW j \in Kind, NEW w \in Writer \cup {None}, Begin(j, w),
             UNCHANGED state
      PROVE  Record(k)'
  <2>1. \A u \in Ticket : Silent(u)
    BY <1>4 DEF Begin, TypeOK, Read
  <2> QED BY <1>4, <2>1, RecordFrame
<1>5. CASE UNCHANGED <<read, state>>
  BY <1>5, RecordFrame
<1>6. ASSUME NEW w \in Writer, Owner(w) PROVE Record(k)'
  <2>1. "grouped" \in Kind
    BY DEF Kind
  <2> QED BY <1>4, <1>5, <1>6, <2>1
          DEF Owner, OwnerReads, OwnerCannotRead, OwnerPops, OwnerReleases
<1>7. ASSUME NEW j \in Kind, Poll(j) PROVE Record(k)'
  BY <1>4, <1>7 DEF Poll
<1>8. ASSUME NEW w \in Writer,
             \/ WriteArrives(w) \/ ThreadStarts(w) \/ WaiterWakes(w)
             \/ Guard(w) \/ TimesOut(w)
      PROVE  Record(k)'
  BY <1>5, <1>8 DEF WriteArrives, ThreadStarts, WaiterWakes, Guard, TimesOut
<1> QED
  BY <1>1, <1>2, <1>3, <1>5, <1>6, <1>7, <1>8 DEF Next, ReadEnds, Tick, vars

\* A step that moves one thread from outside the owner's places to outside
\* them disturbs no ownership.
LEMMA OwnershipFrame ==
  ASSUME TypeOK, Ownership, UNCHANGED <<read, cold>>,
         \A w \in Writer :
           \/ thread'[w].at = thread[w].at
           \/ /\ thread[w].at \notin {"own", "read", "finish"}
              /\ thread'[w].at \notin {"own", "read", "finish"}
  PROVE  Ownership'
BY DEF Ownership, TypeOK, Read

\* Only an arriving request starts its thread, and no step makes a request
\* idle again.
LEMMA NextArrived ==
  ASSUME TypeOK, Arrived, Ownership, [Next]_vars
  PROVE  Arrived'
<1> DEFINE Fine(w) == \/ request'[w] = request[w] /\ thread'[w].at = thread[w].at
                      \/ request'[w] = request[w] /\ thread[w].at # "none"
                      \/ request'[w] # "idle"
<1> SUFFICES \A w \in Writer : Fine(w)
  BY DEF Arrived
<1>1. ASSUME NEW t \in Ticket, NEW o, Ends(t, o), NEW w \in Writer PROVE Fine(w)
  <2>1. CASE read[t].by = None
    BY <1>1, <2>1 DEF Ends
  <2>2. CASE read[t].by # None
    BY <1>1, <2>2 DEF Ends, Ownership, TypeOK, Read, Thread
  <2> QED BY <2>1, <2>2
<1>2. ASSUME NEW v \in Writer, NEW w \in Writer,
             \/ WriteArrives(v) \/ ThreadStarts(v) \/ Owner(v)
             \/ WaiterWakes(v) \/ Guard(v) \/ TimesOut(v)
      PROVE  Fine(w)
  <2>1. CASE WriteArrives(v)
    BY <2>1 DEF WriteArrives, TypeOK, Thread
  <2>2. CASE ThreadStarts(v)
    BY <2>2 DEF ThreadStarts, TypeOK, Thread
  <2>3. CASE Owner(v)
    BY <2>3 DEF Owner, OwnerReads, OwnerCannotRead, OwnerPops, OwnerReleases,
                TypeOK, Thread
  <2>4. CASE WaiterWakes(v)
    BY <2>4 DEF WaiterWakes, TypeOK, Thread
  <2>5. CASE Guard(v)
    <3>1. GuardCode # "idle"
      BY DEF GuardCode
    <3> QED BY <2>5, <3>1 DEF Guard, TypeOK
  <2>6. CASE TimesOut(v)
    BY <2>6 DEF TimesOut, TypeOK, Thread
  <2> QED BY <1>2, <2>1, <2>2, <2>3, <2>4, <2>5, <2>6
<1> QED
  BY <1>1, <1>2 DEF Next, ReadEnds, ReadSucceeds, ReadFails, ReadRaises, Poll,
                    Tick, vars

\* Every step keeps the ownership of the cold read.
LEMMA NextOwnership ==
  ASSUME TypeOK, Arrived, Ownership, [Next]_vars
  PROVE  Ownership'
<1>1. ASSUME NEW t \in Ticket, NEW o \in {"success", "failure", "raised"},
             Ends(t, o)
      PROVE  Ownership'
  <2>1. /\ read'[t].outcome = o
        /\ \A u \in Ticket \ {t} : read'[u] = read[u]
        /\ read[t].outcome = "pending" /\ cold' = cold
    BY <1>1 DEF Ends, TypeOK, Read
  <2>2. CASE read[t].by = None
    BY <2>1, <2>2, <1>1 DEF Ends, Ownership
  <2>3. CASE read[t].by # None
    <3>1. read[t].by \in Writer /\ thread[read[t].by].at = "read"
      BY <2>1, <2>3 DEF TypeOK, Read, Ownership
    <3>2. \A w \in Writer : thread'[w].at = IF w = read[t].by THEN "finish"
                                          ELSE thread[w].at
      BY <1>1, <2>3, <3>1 DEF Ends, TypeOK, Thread
    <3>3. \A w \in Writer : thread'[w].at \in {"own", "read", "finish"} <=> cold' = w
      BY <2>1, <3>1, <3>2 DEF Ownership
    <3>4. \A u \in Ticket : read'[u].outcome = "pending" /\ read'[u].by # None
                            => thread'[read'[u].by].at = "read"
      BY <2>1, <3>1, <3>2 DEF Ownership, TypeOK, Read
    <3>5. \A u, v \in Ticket :
            /\ read'[u].outcome = "pending" /\ read'[u].by # None
            /\ read'[v].outcome = "pending" /\ read'[v].by = read'[u].by
            => u = v
      BY <2>1 DEF Ownership
    <3> QED BY <3>3, <3>4, <3>5 DEF Ownership
  <2> QED BY <2>2, <2>3
<1>2. ASSUME NEW k \in Kind, Poll(k) PROVE Ownership'
  BY <1>2, ReadAssumption DEF Poll, Begin, Ownership, TypeOK, Read
<1>3. ASSUME NEW w \in Writer, ThreadStarts(w) PROVE Ownership'
  <2>1. CASE cold' = w /\ thread' = [thread EXCEPT ![w].at = "own"]
             /\ cold = None /\ read' = read /\ thread[w].at = "queued"
    <3>1. \A v \in Writer : thread'[v].at = IF v = w THEN "own" ELSE thread[v].at
      BY <2>1 DEF TypeOK, Thread
    <3> QED BY <2>1, <3>1, ReadAssumption DEF Ownership, TypeOK, Read
  <2>2. CASE UNCHANGED cold
    <3>1. thread[w].at = "queued" /\ UNCHANGED read
      BY <1>3 DEF ThreadStarts
    <3>2. CASE thread' = [thread EXCEPT ![w].at = "done"]
      BY <2>2, <3>1, <3>2, OwnershipFrame DEF TypeOK, Thread
    <3>3. CASE thread' = [thread EXCEPT ![w].at = "wait", ![w].on = cold]
      BY <2>2, <3>1, <3>3, OwnershipFrame DEF TypeOK, Thread
    <3>4. CASE cold' = w /\ cold = None
      BY <2>2, <3>4, ReadAssumption
    <3> QED BY <1>3, <3>2, <3>3, <3>4 DEF ThreadStarts
  <2> QED BY <1>3, <2>1, <2>2 DEF ThreadStarts
<1>4. ASSUME NEW w \in Writer, OwnerReads(w) PROVE Ownership'
  <2>1. \A v \in Writer : thread'[v].at = IF v = w THEN "read" ELSE thread[v].at
    BY <1>4 DEF OwnerReads, TypeOK, Thread
  <2>2. PICK t \in Ticket :
          /\ read[t].outcome = "unborn" /\ read'[t].by = w
          /\ \A u \in Ticket \ {t} : read'[u] = read[u]
    BY <1>4 DEF OwnerReads, Begin, TypeOK, Read
  <2>3. thread[w].at = "own" /\ cold' = cold
    BY <1>4 DEF OwnerReads
  <2>4. \A v \in Writer : thread'[v].at \in {"own", "read", "finish"} <=> cold' = v
    BY <2>1, <2>3 DEF Ownership
  <2>5. \A u \in Ticket : read[u].outcome = "pending" => read[u].by # w
    BY <2>3, ReadAssumption DEF Ownership
  <2>6. \A u \in Ticket : read'[u].outcome = "pending" /\ read'[u].by # None
                          => thread'[read'[u].by].at = "read"
    BY <2>1, <2>2, <2>5 DEF Ownership, TypeOK, Read
  <2>7. \A u, v \in Ticket :
          /\ read'[u].outcome = "pending" /\ read'[u].by # None
          /\ read'[v].outcome = "pending" /\ read'[v].by = read'[u].by
          => u = v
    BY <2>2, <2>5 DEF Ownership
  <2> QED BY <2>4, <2>6, <2>7 DEF Ownership
<1>5. ASSUME NEW w \in Writer, OwnerCannotRead(w) PROVE Ownership'
  <2>1. \A v \in Writer : thread'[v].at = IF v = w THEN "finish" ELSE thread[v].at
    BY <1>5 DEF OwnerCannotRead, TypeOK, Thread
  <2> QED BY <1>5, <2>1 DEF OwnerCannotRead, Ownership, TypeOK, Read
<1>6. ASSUME NEW w \in Writer, OwnerPops(w) PROVE Ownership'
  <2>1. \A v \in Writer : thread'[v].at = IF v = w THEN "popped" ELSE thread[v].at
    BY <1>6 DEF OwnerPops, TypeOK, Thread
  <2>2. cold = w /\ cold' = None /\ read' = read /\ thread[w].at = "finish"
    BY <1>6 DEF OwnerPops, Ownership
  <2> QED BY <2>1, <2>2, ReadAssumption DEF Ownership, TypeOK, Read
<1>7. ASSUME NEW w \in Writer,
             \/ WriteArrives(w) \/ OwnerReleases(w) \/ WaiterWakes(w) \/ TimesOut(w)
      PROVE  Ownership'
  <2>1. CASE WriteArrives(w)
    BY <2>1, OwnershipFrame DEF WriteArrives, Arrived, TypeOK, Thread
  <2>2. CASE OwnerReleases(w)
    BY <2>2, OwnershipFrame DEF OwnerReleases, TypeOK, Thread
  <2>3. CASE WaiterWakes(w)
    BY <2>3, OwnershipFrame DEF WaiterWakes, TypeOK, Thread
  <2>4. CASE TimesOut(w)
    BY <2>4, OwnershipFrame DEF TimesOut, TypeOK, Thread
  <2> QED BY <1>7, <2>1, <2>2, <2>3, <2>4
<1>8. CASE UNCHANGED <<read, cold, thread>>
  BY <1>8, OwnershipFrame
<1> QED
  BY <1>1, <1>2, <1>3, <1>4, <1>5, <1>6, <1>7, <1>8
  DEF Next, ReadEnds, ReadSucceeds, ReadFails, ReadRaises, Owner, Tick, Guard, vars

\* Whatever order the reads of an inventory complete in, its read state
\* means what Record says.
THEOREM ReadsInductive == Spec => []IInv
<1>1. IInv /\ [Next]_vars => IInv'
  <2> SUFFICES ASSUME IInv, [Next]_vars PROVE IInv'
    OBVIOUS
  <2>1. TypeOK'
    BY NextType DEF IInv
  <2>2. \A k \in Kind : Record(k)'
    BY NextRecord DEF IInv
  <2>3. Ownership' /\ Arrived'
    BY NextOwnership, NextArrived DEF IInv
  <2> QED BY <2>1, <2>2, <2>3 DEF IInv
<1> QED BY InitEstablishes, <1>1, PTL DEF Spec

\* An answer calls for no more than the record of its kind.
LEMMA RecordAnswers == IInv => AnswerIsTrue
<1> SUFFICES ASSUME IInv, NEW k \in Kind, state[k].present,
                    NEW a, a = Answer(state[k])
             PROVE  /\ a.how = "fresh" => /\ a.from \in Succeeded(k)
                                          /\ IsLatest(a.from, Reported(k))
                    /\ a.how = "stale" => /\ a.from \in Succeeded(k)
                                          /\ \E f \in Failed(k) : IsLatest(f, Reported(k))
                    /\ a.how = "degraded" => /\ a.from \in Failed(k)
                                             /\ IsLatest(a.from, Reported(k))
  BY DEF AnswerIsTrue
<1> DEFINE s == state[k]
<1>1. s \in ReadState /\ Means(s, Succeeded(k), Failed(k))
  BY DEF IInv, TypeOK, Record
<1>2. Succeeded(k) \in SUBSET Ticket /\ Failed(k) \in SUBSET Ticket
  BY DEF Succeeded, Failed
<1>3. CASE s.since = 0
  <2>1. s.good # 0 /\ s.good \in Succeeded(k) /\ IsLatest(s.good, Reported(k))
    BY <1>1, <1>2, <1>3, ReadAssumption DEF Means, ReadState, Ticket, IsLatest, Reported
  <2>2. a = [how |-> "fresh", from |-> s.good]
    BY <1>3, <2>1 DEF Answer
  <2> QED BY <2>1, <2>2
<1>4. CASE s.since # 0
  <2>1. /\ s.diagnosis \in Failed(k) /\ IsLatest(s.diagnosis, Reported(k))
        /\ s.good # 0 => s.good \in Succeeded(k)
    BY <1>1, <1>2, <1>4, ReadAssumption DEF Means, ReadState, Ticket, IsLatest, Reported
  <2>2. CASE InGrace(s)
    <3>1. a = [how |-> "stale", from |-> s.good] /\ s.good # 0
      BY <1>4, <2>2 DEF Answer, InGrace
    <3> QED BY <2>1, <3>1
  <2>3. CASE ~InGrace(s)
    <3>1. a = [how |-> "degraded", from |-> s.diagnosis]
      BY <1>4, <2>3 DEF Answer
    <3> QED BY <2>1, <3>1
  <2> QED BY <2>2, <2>3
<1> QED BY <1>3, <1>4

\* Every answer is the truth of the reads that have reported.
THEOREM AnswersTrue == Spec => []AnswerIsTrue
BY ReadsInductive, RecordAnswers, PTL

\* A success reports to LatestObservation or changes nothing there.
LEMMA SuccessReports ==
  ASSUME NEW s \in ReadState, NEW t \in Ticket, NEW n, n = AfterSuccess(s, t),
         NEW S, NEW F, Means(s, S, F), t \notin F
  PROVE  \/ t > NewestOf(s) /\ NewestOf(n) = t /\ n.since = 0
         \/ NewestOf(n) = NewestOf(s) /\ (n.since # 0 <=> s.since # 0)
<1>1. /\ n.newestFailure = s.newestFailure
      /\ n.seenSuccess = IF t > s.seenSuccess THEN t ELSE s.seenSuccess
  BY DEF AfterSuccess, Newer
<1>2. n.since = IF t > s.newestFailure THEN 0
                ELSE IF s.since # 0 /\ t > s.since THEN s.newestFailure
                ELSE s.since
  BY DEF AfterSuccess
<1> QED BY <1>1, <1>2, ReadAssumption DEF Means, NewestOf, ReadState, Ticket

\* So does a failure.
LEMMA FailureReports ==
  ASSUME NEW s \in ReadState, NEW t \in Ticket, NEW n, n = AfterFailure(s, t),
         NEW S, NEW F, Means(s, S, F), t \notin S
  PROVE  \/ t > NewestOf(s) /\ NewestOf(n) = t /\ n.since # 0
         \/ NewestOf(n) = NewestOf(s) /\ (n.since # 0 <=> s.since # 0)
<1>1. n.seenSuccess = s.seenSuccess
  BY DEF AfterFailure
<1>2. /\ n.newestFailure = IF t > s.seenSuccess /\ t > s.newestFailure THEN t
                           ELSE s.newestFailure
      /\ n.since = IF /\ t > s.seenSuccess
                      /\ s.since = 0 \/ s.since <= s.seenSuccess \/ t < s.since
                   THEN t ELSE s.since
  BY DEF AfterFailure, Newer
<1> QED BY <1>1, <1>2, ReadAssumption DEF Means, NewestOf, ReadState, Ticket

\* A step that changes one read state in one of these two ways is a step of
\* LatestObservation or leaves it alone.
LEMMA StateReports ==
  ASSUME TypeOK, NEW k \in Kind, NEW t \in Ticket, NEW n, NEW ok \in BOOLEAN,
         state' = [state EXCEPT ![k] = n],
         \/ t > NewestOf(state[k]) /\ NewestOf(n) = t /\ (n.since # 0 <=> ~ok)
         \/ /\ NewestOf(n) = NewestOf(state[k])
            /\ n.since # 0 <=> state[k].since # 0
  PROVE  \/ Truth!Report(k, t, ok)
         \/ UNCHANGED <<[j \in Kind |-> NewestOf(state[j])],
                        [j \in Kind |-> state[j].since # 0]>>
<1> DEFINE newest == [j \in Kind |-> NewestOf(state[j])]
           newestNext == [j \in Kind |-> NewestOf(state'[j])]
           failing == [j \in Kind |-> state[j].since # 0]
           failingNext == [j \in Kind |-> state'[j].since # 0]
<1>1. \A j \in Kind : state'[j] = IF j = k THEN n ELSE state[j]
  BY DEF TypeOK
<1>2. CASE /\ t > NewestOf(state[k]) /\ NewestOf(n) = t
           /\ n.since # 0 <=> ~ok
  <2>1. \A j \in Kind : NewestOf(state'[j]) = IF j = k THEN t ELSE NewestOf(state[j])
    BY <1>1, <1>2
  <2>4. newestNext = [newest EXCEPT ![k] = t]
    BY <2>1, Zenon
  <2>2. failingNext = [failing EXCEPT ![k] = ~ok]
    BY <1>1, <1>2, Zenon
  <2>3. t > newest[k]
    BY <1>2
  <2> QED BY <2>2, <2>3, <2>4 DEF Truth!Report, NewestOf
<1>3. CASE /\ NewestOf(n) = NewestOf(state[k])
           /\ n.since # 0 <=> state[k].since # 0
  <2>1. newestNext = newest
    BY <1>1, <1>3
  <2>2. failingNext = failing
    BY <1>1, <1>3, Zenon
  <2> QED BY <2>1, <2>2 DEF NewestOf
<1> QED BY <1>2, <1>3

\* Reads that overlap and finish in any order behave as if each were applied
\* at its ticket.
THEOREM LatestWinsAlways == Spec => LatestWins
<1>1. Init => Truth!TruthInit
  <2> SUFFICES ASSUME Init PROVE Truth!TruthInit
    OBVIOUS
  <2>1. \A k \in Kind : NewestOf(state[k]) = 0 /\ (state[k].since # 0) = FALSE
    BY DEF Init, NewestOf, Fresh
  <2> QED BY <2>1, Zenon DEF Truth!TruthInit
<1>2. IInv /\ [Next]_vars
        => [Truth!TruthNext]_<<[k \in Kind |-> NewestOf(state[k])],
                               [k \in Kind |-> state[k].since # 0]>>
  <2> SUFFICES ASSUME IInv, [Next]_vars
               PROVE  \/ Truth!TruthNext
                      \/ UNCHANGED <<[k \in Kind |-> NewestOf(state[k])],
                                     [k \in Kind |-> state[k].since # 0]>>
    OBVIOUS
  <2>0. TypeOK /\ \A k \in Kind : Means(state[k], Succeeded(k), Failed(k))
    BY DEF IInv, Record
  <2>1. CASE UNCHANGED state
    BY <2>1 DEF NewestOf
  <2>2. ASSUME NEW t \in Ticket, ReadSucceeds(t)
        PROVE  \/ Truth!TruthNext
               \/ UNCHANGED <<[k \in Kind |-> NewestOf(state[k])],
                              [k \in Kind |-> state[k].since # 0]>>
    <3> DEFINE scope == read[t].kind
               n == AfterSuccess(state[scope], t)
    <3>1. CASE scope \notin Kind
      <4>1. UNCHANGED state
        BY <2>0, <2>2, <3>1 DEF ReadSucceeds, TypeOK
      <4> QED BY <2>1, <4>1
    <3>2. CASE scope \in Kind
      <4>1. state' = [state EXCEPT ![scope] = n] /\ state[scope] \in ReadState
        BY <2>0, <2>2, <3>2 DEF ReadSucceeds, TypeOK
      <4>2. t \notin Failed(scope)
        BY <2>2 DEF ReadSucceeds, Ends, Failed
      <4>3. \/ t > NewestOf(state[scope]) /\ NewestOf(n) = t /\ n.since = 0
            \/ /\ NewestOf(n) = NewestOf(state[scope])
               /\ n.since # 0 <=> state[scope].since # 0
        BY <2>0, <3>2, <4>1, <4>2, SuccessReports
      <4>4. \/ Truth!Report(scope, t, TRUE)
            \/ UNCHANGED <<[k \in Kind |-> NewestOf(state[k])],
                           [k \in Kind |-> state[k].since # 0]>>
        BY <2>0, <3>2, <4>1, <4>3, StateReports, Zenon
      <4> QED BY <3>2, <4>4 DEF Truth!TruthNext, Truth!Ticket, Ticket
    <3> QED BY <3>1, <3>2
  <2>3. ASSUME NEW t \in Ticket, ReadFails(t)
        PROVE  \/ Truth!TruthNext
               \/ UNCHANGED <<[k \in Kind |-> NewestOf(state[k])],
                              [k \in Kind |-> state[k].since # 0]>>
    <3> DEFINE scope == read[t].kind
               n == AfterFailure(state[scope], t)
    <3>1. CASE scope \notin Kind
      <4>1. UNCHANGED state
        BY <2>0, <2>3, <3>1 DEF ReadFails, TypeOK
      <4> QED BY <2>1, <4>1
    <3>2. CASE scope \in Kind
      <4>1. state' = [state EXCEPT ![scope] = n] /\ state[scope] \in ReadState
        BY <2>0, <2>3, <3>2 DEF ReadFails, TypeOK
      <4>2. t \notin Succeeded(scope)
        BY <2>3 DEF ReadFails, Ends, Succeeded
      <4>3. \/ t > NewestOf(state[scope]) /\ NewestOf(n) = t /\ n.since # 0
            \/ /\ NewestOf(n) = NewestOf(state[scope])
               /\ n.since # 0 <=> state[scope].since # 0
        BY <2>0, <3>2, <4>1, <4>2, FailureReports
      <4>4. \/ Truth!Report(scope, t, FALSE)
            \/ UNCHANGED <<[k \in Kind |-> NewestOf(state[k])],
                           [k \in Kind |-> state[k].since # 0]>>
        BY <2>0, <3>2, <4>1, <4>3, StateReports, Zenon
      <4> QED BY <3>2, <4>4 DEF Truth!TruthNext, Truth!Ticket, Ticket
    <3> QED BY <3>1, <3>2
  <2> QED
    BY <2>1, <2>2, <2>3
    DEF Next, ReadEnds, ReadRaises, Tick, Poll, WriteArrives, ThreadStarts,
        Owner, OwnerReads, OwnerCannotRead, OwnerPops, OwnerReleases,
        WaiterWakes, Guard, TimesOut, vars
<1>3. LatestWins <=> /\ Truth!TruthInit
                     /\ [][Truth!TruthNext]_<<[k \in Kind |-> NewestOf(state[k])],
                                              [k \in Kind |-> state[k].since # 0]>>
  BY DEF LatestWins, Truth!TruthSpec
<1> QED
  BY <1>1, <1>2, <1>3, ReadsInductive, PTL DEF Spec

\* At most one read is made for the first writes of a scope at a time.
THEOREM OneRead == Spec => []OneColdRead
<1>1. IInv => OneColdRead
  BY DEF IInv, Ownership, OneColdRead
<1> QED BY ReadsInductive, <1>1, PTL

\* The guard admits only when some inventory has been read and no failure of
\* either is on record.
LEMMA GuardAdmits ==
  ASSUME IInv, GuardCode = "admitted"
  PROVE  /\ \E k \in Kind : Reported(k) # {}
         /\ \A k \in Kind : Reported(k) # {} =>
              \E t \in Succeeded(k) : IsLatest(t, Reported(k))
<1>1. \A k \in Kind : state[k].present => state[k].since = 0
  BY DEF GuardCode
<1>2. \E k \in Kind : state[k].present
  BY <1>1 DEF GuardCode
<1>3. ASSUME NEW k \in Kind
      PROVE  state[k] \in ReadState /\ Means(state[k], Succeeded(k), Failed(k))
  BY DEF IInv, TypeOK, Record
<1>4. ASSUME NEW k \in Kind, state[k].present
      PROVE  state[k].seenSuccess \in Succeeded(k)
             /\ IsLatest(state[k].seenSuccess, Reported(k))
  <2> DEFINE s == state[k]
  <2>1. s.since = 0 /\ s \in ReadState /\ Means(s, Succeeded(k), Failed(k))
    BY <1>1, <1>3, <1>4
  <2>2. Succeeded(k) \in SUBSET Ticket /\ Failed(k) \in SUBSET Ticket
    BY DEF Succeeded, Failed
  <2> QED BY <1>4, <2>1, <2>2, ReadAssumption
          DEF Means, ReadState, Ticket, IsLatest, Reported
<1>5. ASSUME NEW k \in Kind, Reported(k) # {} PROVE state[k].present
  <2>1. PICK t \in Ticket : t \in Succeeded(k) \/ t \in Failed(k)
    BY <1>5 DEF Reported, Succeeded, Failed
  <2>2. t # 0 /\ Means(state[k], Succeeded(k), Failed(k)) /\ state[k] \in ReadState
    BY <1>3, ReadAssumption DEF Ticket
  <2>3. state[k].seenSuccess # 0 \/ state[k].newestFailure # 0
    BY <2>1, <2>2, ReadAssumption DEF Means, ReadState, Ticket
  <2>4. state[k] # Fresh
    BY <2>3 DEF Fresh
  <2> QED BY <2>2, <2>4, Zenon DEF Means, ReadState
<1> QED BY <1>2, <1>4, <1>5 DEF Reported

\* No write passes the guard on a cold start, an unresolved failure or a
\* success that a newer failure has overtaken.
THEOREM WritesOnEvidence == Spec => AdmittedOnEvidence
<1> DEFINE Evidence ==
      \A w \in Writer : request[w] = "pending" /\ request'[w] = "admitted" =>
        /\ \E k \in Kind : Reported(k) # {}
        /\ \A k \in Kind : Reported(k) # {} =>
             \E t \in Succeeded(k) : IsLatest(t, Reported(k))
<1>1. IInv /\ [Next]_vars => [Evidence]_vars
  <2> SUFFICES ASSUME IInv, [Next]_vars, NEW w \in Writer,
                      request[w] = "pending", request'[w] = "admitted"
               PROVE  GuardCode = "admitted"
    BY GuardAdmits
  <2>1. ASSUME NEW v \in Writer, Guard(v) PROVE GuardCode = "admitted"
    BY <2>1 DEF Guard, IInv, TypeOK
  <2>2. ASSUME NEW v \in Writer, WriteArrives(v) \/ TimesOut(v) PROVE FALSE
    BY <2>2 DEF WriteArrives, TimesOut, IInv, TypeOK
  <2>3. CASE UNCHANGED request
    BY <2>3
  <2> QED
    BY <2>1, <2>2, <2>3
    DEF Next, ReadEnds, ReadSucceeds, ReadFails, ReadRaises, Ends, Tick, Poll,
        ThreadStarts, Owner, OwnerReads, OwnerCannotRead, OwnerPops,
        OwnerReleases, WaiterWakes, vars
<1>2. AdmittedOnEvidence <=> [][Evidence]_vars
  BY DEF AdmittedOnEvidence
<1> QED BY ReadsInductive, <1>1, <1>2, PTL DEF Spec

\* The outage in which reads S have succeeded and reads F have failed, and
\* what it is for a start to be exact.
OutageOf(S, F) == {t \in F : \A u \in S : u < t}
Exact(since, S, F) ==
  IF OutageOf(S, F) = {} THEN since = 0
  ELSE since \in OutageOf(S, F) /\ \A t \in OutageOf(S, F) : since <= t

\* Two members make a finite set larger than one.
LEMMA TwoMembers ==
  ASSUME NEW T, IsFiniteSet(T), NEW a \in T, NEW b \in T, a # b
  PROVE  Cardinality(T) > 1
<1> DEFINE A == {a}
<1>1. IsFiniteSet(A) /\ Cardinality(A) = 1 /\ b \notin A
  BY FS_Singleton
<1>2. A \cup {b} \subseteq T
  OBVIOUS
<1> HIDE DEF A
<1>3. /\ IsFiniteSet(A \cup {b})
      /\ Cardinality(A \cup {b}) =
           IF b \in A THEN Cardinality(A) ELSE Cardinality(A) + 1
  BY <1>1, FS_AddElement
<1>4. Cardinality(A \cup {b}) = 2
  BY <1>1, <1>3
<1>5. Cardinality(A \cup {b}) <= Cardinality(T)
  BY <1>2, FS_Subset
<1> QED BY <1>4, <1>5, FS_CardinalityType

\* The outage, seen from the scalars: the failures after the newest success.
LEMMA OutageIs ==
  ASSUME NEW s \in ReadState, NEW S \in SUBSET Ticket, NEW F \in SUBSET Ticket,
         Means(s, S, F)
  PROVE  OutageOf(S, F) = {f \in F : s.seenSuccess < f}
<1>1. ASSUME NEW f \in F
      PROVE  (\A u \in S : u < f) <=> s.seenSuccess < f
  <2>1. /\ f \in Nat \ {0} /\ s.seenSuccess \in Nat
        /\ \A u \in S : u \in Nat /\ u <= s.seenSuccess
        /\ s.seenSuccess # 0 => s.seenSuccess \in S
    BY ReadAssumption DEF Means, ReadState, Ticket
  <2> QED BY <2>1
<1> QED BY <1>1 DEF OutageOf

\* A success keeps the start exact unless two failures started after it: a
\* success newer than every failure ends the outage, one older than its
\* start leaves it alone, and one inside it splits it at the only failure
\* left, which is the newest.
LEMMA SuccessExact ==
  ASSUME NEW s \in ReadState, NEW t \in Ticket,
         NEW S \in SUBSET Ticket, NEW F \in SUBSET Ticket, t \notin F,
         Means(s, S, F), Exact(s.since, S, F),
         ~(Cardinality({f \in F : f > t}) > 1)
  PROVE  Exact(AfterSuccess(s, t).since, S \cup {t}, F)
<1> DEFINE later == {f \in F : f > t}
<1>1. OutageOf(S, F) = {f \in F : s.seenSuccess < f}
  BY OutageIs
<1>2. OutageOf(S \cup {t}, F) = {f \in OutageOf(S, F) : f > t}
  BY ReadAssumption DEF OutageOf, Ticket
<1>3. CASE t > s.newestFailure
  <2>1. AfterSuccess(s, t).since = 0
    BY <1>3 DEF AfterSuccess
  <2>2. \A f \in F : ~(f > t) \/ ~(s.seenSuccess < f)
    BY <1>3, ReadAssumption DEF Means, ReadState, Ticket
  <2>3. OutageOf(S \cup {t}, F) = {}
    BY <1>1, <1>2, <2>2
  <2> QED BY <2>1, <2>3 DEF Exact
<1>4. CASE ~(t > s.newestFailure) /\ s.since # 0 /\ t > s.since
  <2> DEFINE last == s.newestFailure
  <2>1. AfterSuccess(s, t).since = last
    BY <1>4 DEF AfterSuccess
  <2>2. last \in F /\ last > t /\ last > s.seenSuccess
    BY <1>4, ReadAssumption DEF Means, ReadState, Ticket
  <2>3. IsFiniteSet(later)
    <3>1. IsFiniteSet(Ticket)
      BY ReadAssumption, FS_Interval DEF Ticket
    <3> QED BY <3>1, FS_Subset
  <2>4. later = {last}
    BY <2>2, <2>3, TwoMembers
  <2>5. OutageOf(S \cup {t}, F) = {last}
    BY <1>1, <1>2, <2>2, <2>4
  <2>6. last <= last
    BY DEF ReadState
  <2> QED BY <2>1, <2>5, <2>6 DEF Exact
<1>5. CASE ~(t > s.newestFailure) /\ s.since # 0 /\ ~(t > s.since)
  <2>1. AfterSuccess(s, t).since = s.since
    BY <1>5 DEF AfterSuccess
  <2>2. s.since \in F /\ s.since > t
    BY <1>5, ReadAssumption DEF Means, ReadState, Ticket
  <2>3. \A f \in OutageOf(S, F) : s.since <= f /\ f \in Ticket
    BY <1>5 DEF Exact, OutageOf
  <2>4. OutageOf(S \cup {t}, F) = OutageOf(S, F)
    BY SMTT(30), <1>2, <2>2, <2>3, ReadAssumption DEF Ticket, ReadState
  <2> QED BY <2>1, <2>4 DEF Exact
<1>6. CASE ~(t > s.newestFailure) /\ s.since = 0
  <2>1. AfterSuccess(s, t).since = 0
    BY <1>6 DEF AfterSuccess
  <2>2. OutageOf(S, F) = {}
    <3>1. \A f \in OutageOf(S, F) : f # 0
      BY DEF OutageOf, Ticket
    <3> QED BY <1>6, <3>1 DEF Exact
  <2> QED BY <1>2, <2>1, <2>2 DEF Exact
<1> QED BY <1>3, <1>4, <1>5, <1>6

\* A failure always keeps it exact: one older than the newest success is no
\* part of the outage, and an earlier one that counts moves the start back.
LEMMA FailureExact ==
  ASSUME NEW s \in ReadState, NEW t \in Ticket,
         NEW S \in SUBSET Ticket, NEW F \in SUBSET Ticket, t \notin S,
         Means(s, S, F), Exact(s.since, S, F)
  PROVE  Exact(AfterFailure(s, t).since, S, F \cup {t})
<1>1. OutageOf(S, F) = {f \in F : s.seenSuccess < f}
  BY OutageIs
<1>2. CASE ~(t > s.seenSuccess)
  <2>1. AfterFailure(s, t).since = s.since
    BY <1>2 DEF AfterFailure
  <2>2. s.seenSuccess \in S /\ ~(s.seenSuccess < t)
    BY <1>2, ReadAssumption DEF Means, ReadState, Ticket
  <2>3. OutageOf(S, F \cup {t}) = OutageOf(S, F)
    BY <2>2 DEF OutageOf
  <2> QED BY <2>1, <2>3 DEF Exact
<1>3. CASE t > s.seenSuccess
  <2>1. \A u \in S : u < t
    BY <1>3, ReadAssumption DEF Means, ReadState, Ticket
  <2>2. OutageOf(S, F \cup {t}) = OutageOf(S, F) \cup {t}
    BY <2>1 DEF OutageOf
  <2>3. CASE s.since = 0
    <3>1. OutageOf(S, F) = {}
      <4>1. \A f \in OutageOf(S, F) : f # 0
        BY DEF OutageOf, Ticket
      <4> QED BY <2>3, <4>1 DEF Exact
    <3>2. AfterFailure(s, t).since = t /\ t <= t
      BY <1>3, <2>3 DEF AfterFailure, Ticket
    <3> QED BY <2>2, <3>1, <3>2 DEF Exact
  <2>4. CASE s.since # 0
    <3>1. /\ s.since \in OutageOf(S, F) /\ s.since > s.seenSuccess
          /\ \A f \in OutageOf(S, F) : s.since <= f /\ f \in Ticket
      BY <2>4, ReadAssumption DEF Exact, OutageOf, Means, ReadState, Ticket
    <3>2. AfterFailure(s, t).since = IF t < s.since THEN t ELSE s.since
      BY <1>3, <2>4, <3>1, ReadAssumption DEF AfterFailure, ReadState, Ticket
    <3> QED BY <2>2, <3>1, <3>2, ReadAssumption DEF Exact, Ticket, ReadState
  <2> QED BY <2>3, <2>4
<1> QED BY <1>2, <1>3

\* The start of an outage is the first failure since the last success, and
\* only a success that completes after two failures that started later can
\* spoil that.
THEOREM EpisodesHonest == Spec => EpisodeHonest
<1> DEFINE Honest == \A k \in Kind : ExactSince(k) => ExactSince(k)' \/ LateSuccess(k)
<1>1. ASSUME NEW k \in Kind
      PROVE  /\ ExactSince(k) <=> Exact(state[k].since, Succeeded(k), Failed(k))
             /\ ExactSince(k)' <=> Exact(state'[k].since, Succeeded(k)', Failed(k)')
  BY DEF ExactSince, Exact, Outage, OutageOf
<1>2. IInv /\ [Next]_vars => [Honest]_vars
  <2> SUFFICES ASSUME IInv, [Next]_vars, NEW k \in Kind, ExactSince(k), ~LateSuccess(k)
               PROVE  ExactSince(k)'
    OBVIOUS
  <2> DEFINE S == Succeeded(k)
             F == Failed(k)
  <2>1. /\ state[k] \in ReadState /\ Means(state[k], S, F) /\ TypeOK
        /\ S \in SUBSET Ticket /\ F \in SUBSET Ticket
    BY DEF IInv, TypeOK, Record, Succeeded, Failed
  <2>2. Exact(state[k].since, S, F)
    BY <1>1
  <2>3. CASE state'[k] = state[k] /\ Succeeded(k)' = S /\ Failed(k)' = F
    BY <1>1, <2>2, <2>3
  <2>4. ASSUME NEW t \in Ticket, ReadSucceeds(t) PROVE ExactSince(k)'
    <3>1. CASE read[t].kind = k
      <4>1. /\ t \notin F /\ Failed(k)' = F /\ Succeeded(k)' = S \cup {t}
            /\ state'[k] = AfterSuccess(state[k], t)
        BY <2>1, <2>4, <3>1 DEF ReadSucceeds, Ends, TypeOK, Read, Succeeded, Failed
      <4>2. ~(Cardinality({f \in F : f > t}) > 1)
        BY <2>1, <2>4, <3>1 DEF LateSuccess, ReadSucceeds, Ends, TypeOK, Read
      <4>3. Exact(AfterSuccess(state[k], t).since, S \cup {t}, F)
        BY <2>1, <2>2, <4>1, <4>2, SuccessExact
      <4> QED BY <1>1, <4>1, <4>3
    <3>2. CASE read[t].kind # k
      <4>1. state'[k] = state[k] /\ Succeeded(k)' = S /\ Failed(k)' = F
        BY <2>1, <2>4, <3>2 DEF ReadSucceeds, Ends, TypeOK, Read, Succeeded, Failed
      <4> QED BY <2>3, <4>1
    <3> QED BY <3>1, <3>2
  <2>5. ASSUME NEW t \in Ticket, ReadFails(t) PROVE ExactSince(k)'
    <3>1. CASE read[t].kind = k
      <4>1. /\ t \notin S /\ Succeeded(k)' = S /\ Failed(k)' = F \cup {t}
            /\ state'[k] = AfterFailure(state[k], t)
        BY <2>1, <2>5, <3>1 DEF ReadFails, Ends, TypeOK, Read, Succeeded, Failed
      <4>2. Exact(AfterFailure(state[k], t).since, S, F \cup {t})
        BY <2>1, <2>2, <4>1, FailureExact
      <4> QED BY <1>1, <4>1, <4>2
    <3>2. CASE read[t].kind # k
      <4>1. state'[k] = state[k] /\ Succeeded(k)' = S /\ Failed(k)' = F
        BY <2>1, <2>5, <3>2 DEF ReadFails, Ends, TypeOK, Read, Succeeded, Failed
      <4> QED BY <2>3, <4>1
    <3> QED BY <3>1, <3>2
  <2>6. ASSUME NEW t \in Ticket, ReadRaises(t) PROVE ExactSince(k)'
    <3>1. state'[k] = state[k] /\ Succeeded(k)' = S /\ Failed(k)' = F
      BY <2>1, <2>6 DEF ReadRaises, Ends, TypeOK, Read, Succeeded, Failed
    <3> QED BY <2>3, <3>1
  <2>7. ASSUME NEW j \in Kind, NEW w \in Writer \cup {None}, Begin(j, w), UNCHANGED state
        PROVE  ExactSince(k)'
    <3>1. state'[k] = state[k] /\ Succeeded(k)' = S /\ Failed(k)' = F
      BY <2>1, <2>7 DEF Begin, TypeOK, Read, Succeeded, Failed
    <3> QED BY <2>3, <3>1
  <2>8. CASE UNCHANGED <<read, state>>
    BY <2>3, <2>8 DEF Succeeded, Failed
  <2>9. ASSUME NEW j \in Kind, Poll(j) PROVE ExactSince(k)'
    BY <2>7, <2>9 DEF Poll
  <2>10. ASSUME NEW w \in Writer, OwnerReads(w) PROVE ExactSince(k)'
    <3>1. "grouped" \in Kind
      BY DEF Kind
    <3> QED BY <2>7, <2>10, <3>1 DEF OwnerReads
  <2>11. ASSUME NEW w \in Writer,
                \/ WriteArrives(w) \/ ThreadStarts(w) \/ OwnerCannotRead(w)
                \/ OwnerPops(w) \/ OwnerReleases(w) \/ WaiterWakes(w)
                \/ Guard(w) \/ TimesOut(w)
         PROVE  ExactSince(k)'
    BY <2>8, <2>11
    DEF WriteArrives, ThreadStarts, OwnerCannotRead, OwnerPops, OwnerReleases,
        WaiterWakes, Guard, TimesOut
  <2> QED
    BY <2>4, <2>5, <2>6, <2>8, <2>9, <2>10, <2>11
    DEF Next, ReadEnds, Owner, Tick, vars
<1>3. EpisodeHonest <=> [][Honest]_vars
  BY DEF EpisodeHonest
<1> QED BY ReadsInductive, <1>2, <1>3, PTL DEF Spec
=============================================================================
