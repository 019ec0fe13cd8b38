--------------------------- MODULE InventoryRead ---------------------------
(***************************************************************************)
(* The inventory reads of the media-workloads pages and the guard they put  *)
(* before every write (src/src/dmf_cms/media_workloads.py, and              *)
(* _inventory_write_refusal in src/src/dmf_cms/main.py).                    *)
(*                                                                         *)
(* Reads run in threads and overlap.  Each takes a ticket when it starts    *)
(* and what it may change is decided by tickets, never by who finishes      *)
(* last.  A failed read within a grace window of the last good one is       *)
(* answered with that one, marked stale; writes are refused meanwhile.      *)
(* The first write of a scope reads for itself, and concurrent first        *)
(* writes share that read.                                                  *)
(*                                                                         *)
(* One tenant scope and one process: scopes share the ticket counter and    *)
(* nothing else, processes and their restarts share nothing.                *)
(***************************************************************************)
EXTENDS Naturals, FiniteSets

CONSTANTS Writer,   \* requests of the five mutating routes
          None,     \* Python's None
          Grace,    \* READ_GRACE_SECONDS, in clock ticks
          MaxReads, \* bound: reads a behaviour may start
          MaxClock  \* bound: ticks of the monotonic clock

ASSUME ReadAssumption == /\ MaxReads \in Nat /\ MaxClock \in Nat
                         /\ Grace \in Nat
                         /\ None \notin Writer

\* _WRITE_GUARD_KINDS, each with its own read state.
Kind == {"instances", "grouped"}

\* A read is identified by its ticket.
Ticket == 1..MaxReads

VARIABLES
  now,     \* the monotonic clock
  read,    \* ticket -> the read holding it
  state,   \* kind -> _ReadState
  cold,    \* _cold_reads for this scope: the writer whose read is shared
  thread,  \* writer -> its ensure_inventory_read
  request  \* writer -> its _inventory_write_refusal

vars == <<now, read, state, cold, thread, request>>

Clock == 0..MaxClock

Read == [kind : Kind \cup {"none"}, at : Clock, by : Writer \cup {None},
         outcome : {"unborn", "pending", "success", "failure", "raised"}]

Unborn == [kind |-> "none", at |-> 0, by |-> None, outcome |-> "unborn"]

\* _ReadState, each scalar by the ticket of the read it came from, 0 for
\* None: good is last_good with last_success and success_ticket, goodAt is
\* last_success_mono, since is failure_since with failure_since_ticket,
\* newestFailure is failure_ticket with failure_started, diagnosis is
\* failure_degraded.  present: the key is in _read_states.
ReadState ==
  [present : BOOLEAN, good : 0..MaxReads, goodAt : Clock,
   seenSuccess : 0..MaxReads, newestFailure : 0..MaxReads,
   since : 0..MaxReads, diagnosis : 0..MaxReads]

Fresh == [present |-> FALSE, good |-> 0, goodAt |-> 0, seenSuccess |-> 0,
          newestFailure |-> 0, since |-> 0, diagnosis |-> 0]

\* at: where the writer's thread is ("done" means for an owner that its
\* Future has a result); on: the owner of the read it waits for.
Thread == [at : {"none", "queued", "own", "read", "finish", "popped",
                 "wait", "done"},
           on : Writer \cup {None}]

Request == {"idle", "pending", "admitted", "inventory-stale",
            "inventory-degraded"}

Init ==
  /\ now = 0
  /\ read = [t \in Ticket |-> Unborn]
  /\ state = [k \in Kind |-> Fresh]
  /\ cold = None
  /\ thread = [w \in Writer |-> [at |-> "none", on |-> None]]
  /\ request = [w \in Writer |-> "idle"]

----------------------------------------------------------------------------
(* The read state *)

\* Inside the window: there is a last good inventory young enough to serve.
InGrace(s) == s.good # 0 /\ now - s.goodAt <= Grace

\* _current_response: how the caller is answered, and from which read.
Answer(s) ==
  IF s.good # 0 /\ s.since = 0 THEN [how |-> "fresh", from |-> s.good]
  ELSE IF InGrace(s) THEN [how |-> "stale", from |-> s.good]
  ELSE [how |-> "degraded", from |-> s.diagnosis]

\* _begin_read: tickets are handed out in order.
Begin(k, w) ==
  \E t \in Ticket :
    /\ read[t].outcome = "unborn"
    /\ \A u \in 1..(t - 1) : read[u].outcome # "unborn"
    /\ read' = [read EXCEPT ![t] =
                  [kind |-> k, at |-> now, by |-> w, outcome |-> "pending"]]

Newer(t, u) == IF t > u THEN t ELSE u

\* Mutant: a success always clears the failure and becomes the snapshot
\* unless a newer one has.
MutantAfterSuccess(s, t) ==
  [s EXCEPT !.present = TRUE,
            !.good = Newer(t, @),
            !.goodAt = IF t > s.good THEN read[t].at ELSE @,
            !.seenSuccess = Newer(t, @),
            !.since = 0,
            !.diagnosis = 0]

\* _remember_success: the snapshot is replaced only by a read that started
\* after it and after every recorded failure; a success that is older than a
\* recorded failure at most splits the failure episode, at the only later
\* start the state still holds.
AfterSuccess(s, t) ==
  LET latest == t > s.newestFailure
      replaces == latest /\ t > s.good
  IN [present |-> TRUE,
      good |-> IF replaces THEN t ELSE s.good,
      goodAt |-> IF replaces THEN read[t].at ELSE s.goodAt,
      seenSuccess |-> Newer(t, s.seenSuccess),
      newestFailure |-> s.newestFailure,
      since |-> IF latest THEN 0
                ELSE IF s.since # 0 /\ t > s.since THEN s.newestFailure
                ELSE s.since,
      diagnosis |-> IF latest THEN 0 ELSE s.diagnosis]

\* Mutant: an earlier failure that completes late does not move the start.
MutantEpisode(s, t) ==
  IF t <= s.seenSuccess THEN [s EXCEPT !.present = TRUE]
  ELSE [s EXCEPT !.present = TRUE,
                 !.since = IF @ = 0 THEN t ELSE @,
                 !.newestFailure = Newer(t, @),
                 !.diagnosis = IF t > s.newestFailure THEN t ELSE @]

\* _on_read_failure: a failure that started before the newest success is
\* outdated; otherwise the episode keeps its first start and the newest
\* diagnosis.
AfterFailure(s, t) ==
  LET counts == t > s.seenSuccess
      opens == s.since = 0 \/ s.since <= s.seenSuccess \/ t < s.since
  IN [present |-> TRUE,
      good |-> s.good,
      goodAt |-> s.goodAt,
      seenSuccess |-> s.seenSuccess,
      newestFailure |-> IF counts THEN Newer(t, s.newestFailure)
                        ELSE s.newestFailure,
      since |-> IF counts /\ opens THEN t ELSE s.since,
      diagnosis |-> IF counts /\ t > s.newestFailure THEN t
                    ELSE s.diagnosis]

\* The read with ticket t ends; a thread that ran it for a write goes on to
\* its finally clause.
Ends(t, outcome) ==
  /\ read[t].outcome = "pending"
  /\ read' = [read EXCEPT ![t].outcome = outcome]
  /\ thread' = IF read[t].by = None THEN thread
               ELSE [thread EXCEPT ![read[t].by].at = "finish"]
  /\ UNCHANGED <<now, cold, request>>

ReadSucceeds(t) ==
  /\ Ends(t, "success")
  /\ state' = [state EXCEPT ![read[t].kind] = AfterSuccess(@, t)]

ReadFails(t) ==
  /\ Ends(t, "failure")
  /\ state' = [state EXCEPT ![read[t].kind] = AfterFailure(@, t)]

\* The projection of the services or the catalog read raises: nothing is
\* recorded.
ReadRaises(t) ==
  /\ Ends(t, "raised")
  /\ UNCHANGED state

\* A page asks for an inventory.
Poll(k) ==
  /\ Begin(k, None)
  /\ UNCHANGED <<now, state, cold, thread, request>>

Tick ==
  /\ now < MaxClock
  /\ now' = now + 1
  /\ UNCHANGED <<read, state, cold, thread, request>>

----------------------------------------------------------------------------
(* The guard before a write *)

\* Mutant: the guard looks at the inventory the cold read reads, only.
MutantGuardCode ==
  IF ~state["grouped"].present THEN "inventory-degraded"
  ELSE IF state["grouped"].since = 0 THEN "admitted"
  ELSE IF InGrace(state["grouped"]) THEN "inventory-stale"
  ELSE "inventory-degraded"

\* inventory_write_block with require_read: the kinds in their order.
GuardCode ==
  LET blocked == {k \in Kind : state[k].present /\ state[k].since # 0}
      first == IF "instances" \in blocked THEN "instances" ELSE "grouped"
  IN IF blocked # {}
     THEN IF InGrace(state[first]) THEN "inventory-stale"
                                   ELSE "inventory-degraded"
     ELSE IF \A k \in Kind : ~state[k].present THEN "inventory-degraded"
     ELSE "admitted"

\* A mutating route calls _inventory_write_refusal, which hands
\* ensure_inventory_read to the thread pool.
WriteArrives(w) ==
  /\ request[w] = "idle"
  /\ request' = [request EXCEPT ![w] = "pending"]
  /\ thread' = [thread EXCEPT ![w].at = "queued"]
  /\ UNCHANGED <<now, read, state, cold>>

\* Mutant: every first write reads for itself.
MutantThreadStarts(w) ==
  /\ thread[w].at = "queued"
  /\ IF \E k \in Kind : state[k].present
     THEN /\ thread' = [thread EXCEPT ![w].at = "done"]
          /\ UNCHANGED cold
     ELSE /\ cold' = w
          /\ thread' = [thread EXCEPT ![w].at = "own"]
  /\ UNCHANGED <<now, read, state, request>>

\* The first locked section of ensure_inventory_read: a scope already read
\* needs nothing, else the thread owns the cold read or waits for its owner.
ThreadStarts(w) ==
  /\ thread[w].at = "queued"
  /\ \/ /\ \E k \in Kind : state[k].present
        /\ thread' = [thread EXCEPT ![w].at = "done"]
        /\ UNCHANGED cold
     \/ /\ \A k \in Kind : ~state[k].present
        /\ cold = None
        /\ cold' = w
        /\ thread' = [thread EXCEPT ![w].at = "own"]
     \/ /\ \A k \in Kind : ~state[k].present
        /\ cold # None
        /\ thread' = [thread EXCEPT ![w].at = "wait", ![w].on = cold]
        /\ UNCHANGED cold
  /\ UNCHANGED <<now, read, state, request>>

OwnerReads(w) ==
  /\ thread[w].at = "own"
  /\ Begin("grouped", w)
  /\ thread' = [thread EXCEPT ![w].at = "read"]
  /\ UNCHANGED <<now, state, cold, request>>

\* The read raises before it has a ticket.
OwnerCannotRead(w) ==
  /\ thread[w].at = "own"
  /\ thread' = [thread EXCEPT ![w].at = "finish"]
  /\ UNCHANGED <<now, read, state, cold, request>>

\* The finally clause: _cold_reads.pop under the lock, then, outside it, the
\* Future's result.
OwnerPops(w) ==
  /\ thread[w].at = "finish"
  /\ cold' = None
  /\ thread' = [thread EXCEPT ![w].at = "popped"]
  /\ UNCHANGED <<now, read, state, request>>

\* Mutant: the cleanup ends with the request that owned the read.
MutantOwnerReleases(w) ==
  /\ thread[w].at = "popped"
  /\ request[w] = "pending"
  /\ thread' = [thread EXCEPT ![w].at = "done"]
  /\ UNCHANGED <<now, read, state, cold, request>>

OwnerReleases(w) ==
  /\ thread[w].at = "popped"
  /\ thread' = [thread EXCEPT ![w].at = "done"]
  /\ UNCHANGED <<now, read, state, cold, request>>

WaiterWakes(w) ==
  /\ thread[w].at = "wait"
  /\ thread[thread[w].on].at = "done"
  /\ thread' = [thread EXCEPT ![w].at = "done"]
  /\ UNCHANGED <<now, read, state, cold, request>>

\* Back on the event loop, the guard reads the state as it is now.
Guard(w) ==
  /\ request[w] = "pending"
  /\ thread[w].at = "done"
  /\ request' = [request EXCEPT ![w] = GuardCode]
  /\ UNCHANGED <<now, read, state, cold, thread>>

\* The wait of the request or of its thread times out.  A thread that has
\* not started is never run; one that owns the read goes on without it.
TimesOut(w) ==
  /\ request[w] = "pending"
  /\ request' = [request EXCEPT ![w] = "inventory-degraded"]
  /\ thread' = IF thread[w].at \in {"queued", "wait"}
               THEN [thread EXCEPT ![w].at = "done"] ELSE thread
  /\ UNCHANGED <<now, read, state, cold>>

Owner(w) == \/ OwnerReads(w) \/ OwnerCannotRead(w)
            \/ OwnerPops(w) \/ OwnerReleases(w)

ReadEnds(t) == ReadSucceeds(t) \/ ReadFails(t) \/ ReadRaises(t)

Next ==
  \/ Tick
  \/ \E k \in Kind : Poll(k)
  \/ \E t \in Ticket : ReadEnds(t)
  \/ \E w \in Writer : \/ WriteArrives(w) \/ ThreadStarts(w) \/ Owner(w)
                       \/ WaiterWakes(w) \/ Guard(w) \/ TimesOut(w)

Spec == Init /\ [][Next]_vars

\* Threads and the event loop are scheduled, and a NetBox request ends
\* (netbox._request has a timeout).  Nothing is assumed of TimesOut.
Fairness ==
  /\ \A t \in Ticket : WF_vars(ReadEnds(t))
  /\ \A w \in Writer : /\ WF_vars(ThreadStarts(w)) /\ WF_vars(Owner(w))
                       /\ WF_vars(WaiterWakes(w)) /\ WF_vars(Guard(w))

FairSpec == Spec /\ Fairness

----------------------------------------------------------------------------
(* Properties *)

Succeeded(k) == {t \in Ticket : read[t].kind = k /\ read[t].outcome = "success"}
Failed(k) == {t \in Ticket : read[t].kind = k /\ read[t].outcome = "failure"}
Reported(k) == Succeeded(k) \cup Failed(k)

\* t is the last-started of the reads in S.
IsLatest(t, S) == t \in S /\ \A u \in S : u <= t

\* Clock, reads, read states, threads and requests are well formed.
TypeOK ==
  /\ now \in Clock
  /\ read \in [Ticket -> Read]
  /\ state \in [Kind -> ReadState]
  /\ cold \in Writer \cup {None}
  /\ thread \in [Writer -> Thread]
  /\ request \in [Writer -> Request]

\* What the scalars of a _ReadState mean when reads S have succeeded and
\* reads F have failed, in whatever order they reported: no failure is on
\* record exactly when the last-started success is newer than every recorded
\* failure, and the snapshot is then that success; an open failure episode
\* lies after it.
Means(s, S, F) ==
  /\ s.present = FALSE => s = Fresh
  /\ s.present => s.seenSuccess # 0 \/ s.newestFailure # 0
  /\ \A t \in S : t <= s.seenSuccess
  /\ \A t \in F : t <= s.newestFailure \/ t < s.seenSuccess
  /\ s.seenSuccess # 0 => s.seenSuccess \in S
  /\ s.good # 0 => s.good \in S
  /\ s.newestFailure # 0 => s.newestFailure \in F
  /\ s.good <= s.seenSuccess
  /\ s.since = 0 => /\ s.good = s.seenSuccess
                    /\ s.diagnosis = 0
                    /\ s.newestFailure <= s.seenSuccess
  /\ s.since # 0 => /\ s.since \in F
                    /\ s.seenSuccess < s.since
                    /\ s.since <= s.newestFailure
                    /\ s.diagnosis = s.newestFailure

Record(k) == Means(state[k], Succeeded(k), Failed(k))

\* The registered writer is the one whose thread has not cleaned up yet, and
\* a read run for a write is its thread's only one.
Ownership ==
  /\ \A w \in Writer : thread[w].at \in {"own", "read", "finish"} <=> cold = w
  /\ \A t \in Ticket : read[t].outcome = "pending" /\ read[t].by # None
                        => thread[read[t].by].at = "read"
  /\ \A t, u \in Ticket :
       /\ read[t].outcome = "pending" /\ read[t].by # None
       /\ read[u].outcome = "pending" /\ read[u].by = read[t].by
       => t = u

\* A thread exists only for a request that has arrived.
Arrived == \A w \in Writer : request[w] = "idle" => thread[w].at = "none"

\* The inductive invariant behind the theorems of InventoryReadProofs.
IInv == TypeOK /\ (\A k \in Kind : Record(k)) /\ Arrived /\ Ownership

\* Whatever order reads complete in, every caller of an inventory is told
\* the truth of the reads so far: "fresh" only with the payload of the
\* last-started read that reported, "stale" only with the payload of a
\* success and while the last-started one failed, "degraded" only with the
\* reason of that last-started failure (and never with nothing to send).
AnswerIsTrue ==
  \A k \in Kind : state[k].present =>
    LET a == Answer(state[k]) IN
    /\ a.how = "fresh" => a.from \in Succeeded(k) /\ IsLatest(a.from, Reported(k))
    /\ a.how = "stale" => /\ a.from \in Succeeded(k)
                          /\ \E f \in Failed(k) : IsLatest(f, Reported(k))
    /\ a.how = "degraded" => a.from \in Failed(k) /\ IsLatest(a.from, Reported(k))

\* The failures since the last success: the current outage.
Outage(k) == {t \in Failed(k) : \A u \in Succeeded(k) : u < t}

\* failure_since marks the first failure of the current outage.
ExactSince(k) ==
  IF Outage(k) = {} THEN state[k].since = 0
  ELSE state[k].since \in Outage(k) /\ \A t \in Outage(k) : state[k].since <= t

\* A success reports after two failures that started after it.
LateSuccess(k) ==
  \E t \in Ticket :
    /\ read[t].kind = k /\ read[t].outcome = "pending"
    /\ read'[t].outcome = "success"
    /\ Cardinality({f \in Failed(k) : f > t}) > 1

\* failure_since is exact, and stops being so in the one case the comment on
\* _ReadState allows: a success completes later than two failures that
\* started after it.
EpisodeHonest == [][\A k \in Kind : ExactSince(k) => ExactSince(k)' \/ LateSuccess(k)]_vars

\* A write passes the guard only if this process has an inventory read of
\* the scope that reported, and of each inventory it has read the
\* last-started read to report succeeded: an outage nobody has resolved, a
\* slow old success or a cold start never licenses a write.
AdmittedOnEvidence ==
  [][\A w \in Writer : request[w] = "pending" /\ request'[w] = "admitted" =>
       /\ \E k \in Kind : Reported(k) # {}
       /\ \A k \in Kind : Reported(k) # {} =>
            \E t \in Succeeded(k) : IsLatest(t, Reported(k))]_vars

\* Concurrent first writes of a scope never run two reads at a time.
OneColdRead ==
  \A v, w \in Writer : thread[v].at \in {"own", "read"} /\ thread[w].at \in {"own", "read"}
                       => v = w

\* Every write is answered, without relying on a timeout: whoever shares a
\* cold read is released by its owner even when the read raises or the
\* owner's own request has gone.
EveryWriteAnswered ==
  \A w \in Writer : request[w] = "pending" ~> request[w] # "pending"

\* The last-started read that reported, as a read state knows it.
NewestOf(s) == IF s.since = 0 THEN s.seenSuccess ELSE s.newestFailure

\* The detailed reads implement the promise of LatestObservation.
Truth == INSTANCE LatestObservation WITH
  newest <- [k \in Kind |-> NewestOf(state[k])],
  failing <- [k \in Kind |-> state[k].since # 0]

\* Reads that overlap and finish in any order behave as if each were applied
\* at its ticket: only a read that started later than all that have reported
\* changes what the inventory is taken to be.
LatestWins == Truth!TruthSpec
=============================================================================
