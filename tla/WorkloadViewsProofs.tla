------------------------- MODULE WorkloadViewsProofs -------------------------
(***************************************************************************)
(* Proofs about the pages that show workloads, for any inventory the       *)
(* backend may answer: the pages agree on every cached read, what they     *)
(* show does not blink with a read on its way, an absence is claimed only  *)
(* by a read the inventory stood behind, and "live" is said of frames that *)
(* change.                                                                 *)
(*                                                                         *)
(* Most of it is about the cached read alone.  The lemmas first say what a *)
(* lifecycle input holds of a read, then what each page makes of it.       *)
(***************************************************************************)
EXTENDS WorkloadViews, TLAPS

\* The read an input may be believed by, and the one it may be acted on by.
Retained(r) ==
  /\ ~ Failed(r) /\ HasData(r) /\ ~ Unconfigured(r)
  /\ "degraded" \notin r.data.grade /\ "stale" \notin r.data.grade

RunsOne(ms) == \E i \in DOMAIN ms : ms[i].observed = "running"

-----------------------------------------------------------------------------
(* What an input holds.                                                    *)

LEMMA InputFlags ==
  ASSUME NEW r, NEW s
  PROVE  /\ InputOf(r, s).lifecycle = DeriveWorkloadLifecycle(Members(r, s))
         /\ InputOf(r, s).flags \cap JobFlag = {}
         /\ "inventoryStale" \in InputOf(r, s).flags <=> "stale" \in r.data.grade
         /\ "membersDataRetained" \in InputOf(r, s).flags <=> Retained(r)
         /\ "membersDataTrustworthy" \in InputOf(r, s).flags
              <=> Retained(r) /\ r.fetch # "fetching"
         /\ "anyMemberObservedRunning" \in InputOf(r, s).flags <=> RunsOne(Members(r, s))
         /\ "awaitingHealthResult" \in InputOf(r, s).flags
              <=> AwaitingHealthResult(Members(r, s))
<1> DEFINE ms == Members(r, s)
           cached == [isError |-> Failed(r), isFetching |-> r.fetch = "fetching",
                      configured |-> HasData(r) /\ ~ Unconfigured(r),
                      degraded |-> "degraded" \in r.data.grade,
                      stale |-> "stale" \in r.data.grade]
           user == [role |-> "operator", isError |-> FALSE, isFetching |-> FALSE]
           input == BuildWorkloadLifecycleInput(ms, TRUE, {}, cached, user)
<1>1. InputOf(r, s) = input
  BY Zenon DEF InputOf
<1>2. /\ cached.isError <=> Failed(r)
      /\ cached.isFetching <=> r.fetch = "fetching"
      /\ cached.configured <=> HasData(r) /\ ~ Unconfigured(r)
      /\ cached.degraded <=> "degraded" \in r.data.grade
      /\ cached.stale <=> "stale" \in r.data.grade
  BY Zenon
<1> HIDE DEF ms, cached, user
<1>3. input.lifecycle = DeriveWorkloadLifecycle(ms)
  BY Zenon DEF BuildWorkloadLifecycleInput
<1>4. /\ "inventoryStale" \in input.flags <=> cached.stale
      /\ "membersDataRetained" \in input.flags <=> GroupedReadRetained(cached)
      /\ "membersDataTrustworthy" \in input.flags <=> GroupedReadTrustworthy(cached)
      /\ "anyMemberObservedRunning" \in input.flags <=> RunsOne(ms)
      /\ "awaitingHealthResult" \in input.flags <=> AwaitingHealthResult(ms)
      /\ input.flags \cap JobFlag = {}
  BY DEF BuildWorkloadLifecycleInput, Flag, JobFlag, RunsOne
<1> QED
  BY <1>1, <1>2, <1>3, <1>4 DEF GroupedReadRetained, GroupedReadTrustworthy, Retained, ms

\* Started and not to be stopped is running.
LEMMA NotPending ==
  ASSUME NEW m, m.requested = "active", ~ ReconcilePending(m)
  PROVE  m.observed = "running"
<1> SUFFICES ASSUME m.observed # "running" PROVE FALSE
  OBVIOUS
<1>1. ReconcileDirection(m) = "start"
  <2>1. m.requested # "bootstrapped"
    OBVIOUS
  <2> QED BY <2>1, Zenon DEF ReconcileDirection
<1> QED BY <1>1 DEF ReconcilePending

LEMMA Positions ==
  ASSUME NEW ms
  PROVE  /\ DeriveWorkloadLifecycle(ms) \in Position
         /\ DOMAIN ms = {} => DeriveWorkloadLifecycle(ms) = "unknown"
         /\ DeriveWorkloadLifecycle(ms) = "operate" => RunsOne(ms)
<1> DEFINE asked == {ms[i].requested : i \in DOMAIN ms}
           up == asked = {"active"} /\ \A i \in DOMAIN ms : ~ ReconcilePending(ms[i])
<1>1. up => RunsOne(ms)
  <2> SUFFICES ASSUME up PROVE RunsOne(ms)
    OBVIOUS
  <2>1. PICK i \in DOMAIN ms : ms[i].requested = "active"
    OBVIOUS
  <2> QED BY <2>1, NotPending DEF RunsOne
<1>2. DeriveWorkloadLifecycle(ms) =
        IF DOMAIN ms = {} THEN "unknown"
        ELSE IF asked \subseteq {"bootstrapped", "unknown"} THEN "provision"
        ELSE IF up THEN "operate" ELSE "configure"
  BY DEF DeriveWorkloadLifecycle
<1> HIDE DEF up, asked
<1> QED BY <1>1, <1>2 DEF Position

\* What a page can rely on of an input: a position that is known only of a
\* workload the read lists, and a running member wherever it is "operate".
LEMMA InputPosition ==
  ASSUME NEW r, NEW s
  PROVE  /\ InputOf(r, s).lifecycle \in Position
         /\ ~ Listed(r, s) => InputOf(r, s).lifecycle = "unknown"
         /\ InputOf(r, s).lifecycle = "operate"
              => "anyMemberObservedRunning" \in InputOf(r, s).flags
<1>1. ~ Listed(r, s) => DOMAIN Members(r, s) = {}
  BY DEF Members
<1> QED BY <1>1, InputFlags, Positions

-----------------------------------------------------------------------------
(* What the flow makes of an input.                                        *)

LEMMA HomeStates ==
  ASSUME NEW input
  PROVE  LET at(stages) == input.lifecycle \in stages
             runs == "anyMemberObservedRunning" \in input.flags
             held == "membersDataRetained" \in input.flags
         IN  HomeState(input) =
               IF held /\ at({"operate"}) THEN "live"
               ELSE IF held /\ at({"provision", "configure"}) /\ ~ runs THEN "setup"
               ELSE "unresolved"
<1>1. CASE "membersDataRetained" \notin input.flags
  BY <1>1, Zenon DEF HomeState
<1>2. CASE "membersDataRetained" \in input.flags
  <2> DEFINE rest == CASE input.lifecycle = "operate" -> "live"
                       [] /\ input.lifecycle \in {"provision", "configure"}
                          /\ "anyMemberObservedRunning" \notin input.flags -> "setup"
                       [] OTHER -> "unresolved"
  <2>1. HomeState(input) = rest
    BY <1>2, Zenon DEF HomeState
  <2>2. CASE input.lifecycle = "operate"
    <3>1. input.lifecycle \notin {"provision", "configure"}
      BY <2>2
    <3>2. rest = "live"
      BY <2>2, <3>1, Zenon
    <3> QED BY <1>2, <2>1, <2>2, <3>2
  <2>3. CASE input.lifecycle \in {"provision", "configure"} /\ "anyMemberObservedRunning" \notin input.flags
    <3>1. input.lifecycle # "operate"
      BY <2>3
    <3>2. rest = "setup"
      BY <2>3, <3>1, Zenon
    <3> QED BY <1>2, <2>1, <2>3, <3>2
  <2>4. CASE /\ input.lifecycle # "operate"
             /\ ~ (input.lifecycle \in {"provision", "configure"} /\ "anyMemberObservedRunning" \notin input.flags)
    <3>1. rest = "unresolved"
      BY <2>4, Zenon
    <3> QED BY <1>2, <2>1, <2>4, <3>1
  <2> QED BY <2>2, <2>3, <2>4
<1> QED BY <1>1, <1>2

LEMMA Exits ==
  ASSUME NEW input
  PROVE  /\ ForwardExit(input) = "live"
              => "membersDataTrustworthy" \in input.flags /\ input.lifecycle = "operate"
         /\ ForwardExit(input) = "view-status"
              => /\ "membersDataTrustworthy" \in input.flags
                 /\ input.lifecycle = "configure"
                 /\ "anyMemberObservedRunning" \notin input.flags
<1>1. CASE "membersDataTrustworthy" \notin input.flags \/ Busy(input)
  BY <1>1, Zenon DEF ForwardExit
<1>2. CASE ~ ("membersDataTrustworthy" \notin input.flags \/ Busy(input))
  <2> DEFINE rest == CASE /\ input.lifecycle = "configure"
                          /\ "anyMemberObservedRunning" \notin input.flags -> "view-status"
                       [] input.lifecycle = "operate" -> "live"
                       [] OTHER -> "none"
  <2>1. ForwardExit(input) = rest
    BY <1>2, Zenon DEF ForwardExit
  <2>2. CASE input.lifecycle = "configure" /\ "anyMemberObservedRunning" \notin input.flags
    <3>1. input.lifecycle # "operate"
      BY <2>2
    <3>2. rest = "view-status"
      BY <2>2, <3>1, Zenon
    <3> QED BY <1>2, <2>1, <2>2, <3>2
  <2>3. CASE input.lifecycle = "operate"
    <3>1. input.lifecycle # "configure"
      BY <2>3
    <3>2. rest = "live"
      BY <2>3, <3>1, Zenon
    <3> QED BY <1>2, <2>1, <2>3, <3>2
  <2>4. CASE /\ input.lifecycle # "operate"
             /\ ~ (input.lifecycle = "configure" /\ "anyMemberObservedRunning" \notin input.flags)
    <3>1. rest = "none"
      BY <2>4, Zenon
    <3> QED BY <2>1, <3>1
  <2> QED BY <2>2, <2>3, <2>4
<1> QED BY <1>1, <1>2

\* The switch is a stage action wherever the workload runs and no write is
\* withheld, so the flow's Configure can be opened.
LEMMA ConfigureOpens ==
  ASSUME NEW input, ~ Withheld(input), Running(input)
  PROVE  IsStepOpenable(FlowSteps(input)["configure"])
<1>1. "switch-source" \in StageActions("configure", input)
  BY DEF StageActions, StageAction
<1>2. "configure" \in FlowStepId
  BY DEF FlowStepId, FlowStep
<1>3. FlowSteps(input)["configure"] = "open"
  BY <1>1, <1>2, Zenon DEF FlowSteps
<1> QED BY <1>3 DEF IsStepOpenable

-----------------------------------------------------------------------------
(* What a read may hold.                                                   *)

LEMMA ReadShape ==
  ASSUME NEW r \in Read, NEW s
  PROVE  /\ ~ HasData(r) => r.data.grade = {"pending"} /\ r.data.conflicts = {}
         /\ Listed(r, s) => HasData(r) /\ ~ Unconfigured(r)
         /\ Unconfigured(r) => HasData(r) /\ ~ Unconfirmed(r)
         /\ Unconfigured(r) => DOMAIN r.data.workloads = {} /\ r.data.conflicts = {}
         /\ r.status \in {"ok", "error"} /\ r.fetch \in Fetch
<1>1. r.data \in Payload \cup {NoData} /\ r.status \in {"ok", "error"} /\ r.fetch \in Fetch
  BY DEF Read
<1>2. CASE r.data = NoData
  <2>1. r.data.grade = {"pending"} /\ r.data.conflicts = {} /\ r.data.workloads = <<>>
    BY <1>2 DEF NoData
  <2>2. DOMAIN r.data.workloads = {}
    BY <2>1
  <2> QED BY <1>1, <1>2, <2>1, <2>2 DEF HasData, Listed, Unconfigured, Unconfirmed
<1>3. CASE r.data \in Payload /\ r.data # NoData
  BY <1>1, <1>3, ViewsAssumption DEF HasData, Listed, Unconfigured, Unconfirmed
<1> QED BY <1>1, <1>2, <1>3

\* What home says of a workload, by the read and the position alone.
LEMMA HomeStateOf ==
  ASSUME NEW r, NEW s
  PROVE  LET input == InputOf(r, s)
         IN  /\ HomeState(input) \in {"live", "setup", "unresolved"}
             /\ HomeState(input) = "live" <=> Retained(r) /\ input.lifecycle = "operate"
             /\ HomeState(input) = "setup" <=>
                  /\ Retained(r) /\ input.lifecycle \in {"provision", "configure"}
                  /\ ~ RunsOne(Members(r, s))
<1> DEFINE input == InputOf(r, s)
<1>1. /\ "membersDataRetained" \in input.flags <=> Retained(r)
      /\ "anyMemberObservedRunning" \in input.flags <=> RunsOne(Members(r, s))
  BY InputFlags
<1>2. HomeState(input) =
        IF Retained(r) /\ input.lifecycle = "operate" THEN "live"
        ELSE IF Retained(r) /\ input.lifecycle \in {"provision", "configure"}
                  /\ ~ RunsOne(Members(r, s)) THEN "setup"
        ELSE "unresolved"
  BY <1>1, HomeStates
<1> HIDE DEF input
<1> QED BY <1>2 DEF input

\* The list's badge is the position's word.
LEMMA BadgeOf ==
  ASSUME NEW r, NEW s
  PROVE  /\ TileBadge(r, s) = "configured" <=> InputOf(r, s).lifecycle = "operate"
         /\ InputOf(r, s).lifecycle = "provision" => TileBadge(r, s) = "planned"
         /\ InputOf(r, s).lifecycle = "configure" => TileBadge(r, s) = "provisioned"
<1> DEFINE at == InputOf(r, s).lifecycle
           input == [lifecycle |-> at, flags |-> {}]
<1>1. ~ Busy(input)
  BY DEF Busy
<1>2. TileBadge(r, s) = RestingGrammar[at]
  BY <1>1 DEF TileBadge, LifecycleBadge
<1>3. at \in Position
  BY InputPosition
<1> HIDE DEF at
<1>4. /\ RestingGrammar[at] = "configured" <=> at = "operate"
      /\ at = "provision" => RestingGrammar[at] = "planned"
      /\ at = "configure" => RestingGrammar[at] = "provisioned"
  BY <1>3 DEF RestingGrammar, Position
<1> QED BY <1>2, <1>4 DEF at

-----------------------------------------------------------------------------
(* The pages agree.                                                        *)

LEMMA Agree == read \in Read => PagesAgree
<1> SUFFICES ASSUME read \in Read, NEW s \in Slug
             PROVE  LET home == HomeBody(read, s)
                        setup == SetupBody(read, s)
                        at == [page |-> "home", slug |-> s]
                    IN  /\ ~ Listed(read, s) => Verdict(setup) = home
                        /\ SetupExit(read, s) = "live"
                             => home = "workload" /\ HomeOffer(read, s) = "configure"
                        /\ SetupExit(read, s) = "view-status"
                             => home = "workload" /\ HomeState(InputOf(read, s)) = "setup"
                        /\ ShowRail(read, at) => setup = "wizard"
                        /\ home = "workload" /\ HomeOffer(read, s) # "none"
                             => ShowRail(read, at)
                        /\ home = "workload" /\ HomeOffer(read, s) = "configure"
                             => RailKeys(read, at)["configure"] = "open"
                        /\ ListGrid(read) = "tiles" /\ Listed(read, s)
                             => /\ home = "workload"
                                /\ HomeOffer(read, s) = "configure" <=>
                                     TileBadge(read, s) = "configured"
                                       /\ HomeState(InputOf(read, s)) # "unresolved"
                                /\ HomeOffer(read, s) = "setup"
                                     => TileBadge(read, s) \in {"planned", "provisioned"}
  BY DEF PagesAgree
<1> DEFINE home == HomeBody(read, s)
           setup == SetupBody(read, s)
           at == [page |-> "home", slug |-> s]
           input == InputOf(read, s)
<1>1. /\ ~ HasData(read) => read.data.grade = {"pending"} /\ read.data.conflicts = {}
      /\ Listed(read, s) => HasData(read) /\ ~ Unconfigured(read)
      /\ Unconfigured(read) => HasData(read) /\ ~ Unconfirmed(read)
  BY ReadShape
<1>2. at.page = "home" /\ at.slug = s /\ s # NoSlug
  BY ViewsAssumption DEF NoSlug
<1>3. Listed(read, s) => home = "workload"
  BY <1>1 DEF HomeBody, IsLoading, Masked
<1>4. setup = "wizard" <=> Listed(read, s) /\ ~ Failed(read)
  BY <1>1 DEF SetupBody, IsLoading
<1>5. home = "workload" => Listed(read, s)
  BY DEF HomeBody
<1>6. /\ HomeOffer(read, s) = "configure" <=> HomeState(input) = "live"
      /\ HomeOffer(read, s) = "setup" => HomeState(input) = "setup"
      /\ HomeOffer(read, s) \in {"configure", "setup", "none"}
  BY DEF HomeOffer
<1>7. ~ Listed(read, s) => Verdict(setup) = home
  <2> SUFFICES ASSUME ~ Listed(read, s) PROVE Verdict(setup) = home
    OBVIOUS
  <2>1. ~ HasData(read) => ~ Unconfirmed(read)
    BY <1>1 DEF Unconfirmed
  <2> QED BY <1>1, <2>1 DEF Verdict, HomeBody, SetupBody, Masked
<1>8. SetupExit(read, s) \in {"live", "view-status"}
        => Listed(read, s) /\ Retained(read)
  <2>1. SetupExit(read, s) \in {"live", "view-status"}
          => setup = "wizard" /\ ForwardExit(input) \in {"live", "view-status"}
    BY DEF SetupExit
  <2>2. ForwardExit(input) \in {"live", "view-status"} => Retained(read)
    BY Exits, InputFlags
  <2> QED BY <1>4, <2>1, <2>2
<1>9. SetupExit(read, s) = "live" => home = "workload" /\ HomeOffer(read, s) = "configure"
  <2>1. SetupExit(read, s) = "live" => input.lifecycle = "operate"
    BY Exits DEF SetupExit
  <2> QED BY <1>3, <1>6, <1>8, <2>1, HomeStateOf
<1>10. SetupExit(read, s) = "view-status" => home = "workload" /\ HomeState(input) = "setup"
  <2>1. SetupExit(read, s) = "view-status"
          => input.lifecycle = "configure" /\ "anyMemberObservedRunning" \notin input.flags
    BY Exits DEF SetupExit
  <2>2. "anyMemberObservedRunning" \in input.flags <=> RunsOne(Members(read, s))
    BY InputFlags
  <2> QED BY <1>3, <1>8, <2>1, <2>2, HomeStateOf
<1>11. ShowRail(read, at) <=> Listed(read, s) /\ ~ Failed(read)
  BY <1>1, <1>2 DEF ShowRail, Registered
<1>12. HomeState(input) # "unresolved" => Retained(read)
  BY HomeStateOf
<1>13. home = "workload" /\ HomeOffer(read, s) # "none" => ShowRail(read, at)
  <2>1. HomeOffer(read, s) # "none" => Retained(read)
    BY <1>6, <1>12
  <2> QED BY <1>5, <1>11, <2>1 DEF Retained
<1>14. home = "workload" /\ HomeOffer(read, s) = "configure"
         => RailKeys(read, at)["configure"] = "open"
  <2> SUFFICES ASSUME HomeOffer(read, s) = "configure"
               PROVE  RailKeys(read, at)["configure"] = "open"
    OBVIOUS
  <2>1. Retained(read) /\ input.lifecycle = "operate"
    BY <1>6, HomeStateOf
  <2>2. /\ input.flags \cap JobFlag = {}
        /\ "inventoryStale" \in input.flags <=> "stale" \in read.data.grade
    BY InputFlags
  <2>3. ~ Withheld(input) /\ Running(input)
    BY <2>1, <2>2 DEF Withheld, Running, Busy, Retained
  <2>4. IsStepOpenable(RailSteps(read, at)["configure"])
    BY <1>2, <2>3, ConfigureOpens DEF RailSteps
  <2>5. "configure" \in FlowStepId
    BY DEF FlowStepId, FlowStep
  <2> QED BY <2>4, <2>5, Zenon DEF RailKeys
<1>15. Listed(read, s)
         => /\ HomeOffer(read, s) = "configure" <=>
                 TileBadge(read, s) = "configured" /\ HomeState(input) # "unresolved"
            /\ HomeOffer(read, s) = "setup"
                 => TileBadge(read, s) \in {"planned", "provisioned"}
  <2>1. /\ TileBadge(read, s) = "configured" <=> input.lifecycle = "operate"
        /\ input.lifecycle \in {"provision", "configure"}
             => TileBadge(read, s) \in {"planned", "provisioned"}
    BY BadgeOf
  <2>2. HomeState(input) = "live" <=> Retained(read) /\ input.lifecycle = "operate"
    BY HomeStateOf
  <2>3. HomeState(input) = "setup" => input.lifecycle \in {"provision", "configure"}
    BY HomeStateOf
  <2> HIDE DEF input
  <2> QED BY <1>6, <1>12, <2>1, <2>2, <2>3
<1> QED BY <1>3, <1>4, <1>7, <1>9, <1>10, <1>11, <1>13, <1>14, <1>15

-----------------------------------------------------------------------------
(* A live picture moves.                                                   *)

LEMMA Moving == LiveMeansMoving
<1> SUFFICES ASSUME NEW b \in Box
             PROVE  /\ Caption(Boxes[b]) = "live" => Ticks(Boxes[b], b) /\ ~ feed.failed
                    /\ LiveDot(Boxes[b]) => CanPoll(Boxes[b]) /\ ~ feed.failed
                    /\ b = "tile" /\ open # NoInstance => ~ CanPoll(Boxes[b])
  BY DEF LiveMeansMoving
<1>1. Caption(Boxes[b]) = "live" => Ticks(Boxes[b], b) /\ ~ feed.failed
  BY DEF Caption, Ticks, CanPoll
<1>2. LiveDot(Boxes[b]) => CanPoll(Boxes[b]) /\ ~ feed.failed
  BY DEF LiveDot, CanPoll
<1>3. open # NoInstance => ~ CanPoll(Boxes["tile"])
  <2> SUFFICES ASSUME open # NoInstance PROVE ~ Boxes["tile"].active
    BY DEF CanPoll
  <2> DEFINE mounted == [at |-> route, active |-> TileActive(open, visible),
                         motion |-> MayChurn(read, route) /\ ~ reduced]
  <2>1. Boxes["tile"] = IF ~ TileMounted(read, route) THEN NoBox ELSE mounted
    BY DEF Boxes, BoxesOf
  <2>2. ~ mounted.active
    BY DEF TileActive
  <2>3. ~ NoBox.active
    BY DEF NoBox
  <2> HIDE DEF mounted
  <2> QED BY <2>1, <2>2, <2>3
<1> QED BY <1>1, <1>2, <1>3

-----------------------------------------------------------------------------
(* What a read on its way leaves of the pages.                             *)

\* The two reads hold the same answer, good or failed.
SameAnswer(r, q) == HasData(r) /\ q.data = r.data /\ q.status = r.status

LEMMA SameInput ==
  ASSUME NEW r, NEW q, SameAnswer(r, q), NEW s
  PROVE  /\ InputOf(q, s).lifecycle = InputOf(r, s).lifecycle
         /\ HomeState(InputOf(q, s)) = HomeState(InputOf(r, s))
         /\ IsAwaitingHealthResult(InputOf(q, s)) <=> IsAwaitingHealthResult(InputOf(r, s))
         /\ ShowLiveGrid(q, s) <=> ShowLiveGrid(r, s)
<1>1. Members(q, s) = Members(r, s)
  BY DEF SameAnswer, Members, Listed
<1>2. Retained(q) <=> Retained(r)
  BY DEF SameAnswer, Retained, Failed, HasData, Unconfigured
<1>3. InputOf(q, s).lifecycle = InputOf(r, s).lifecycle
  BY <1>1, InputFlags
<1>4. HomeState(InputOf(q, s)) = HomeState(InputOf(r, s))
  BY <1>1, <1>2, <1>3, HomeStateOf
<1>5. /\ "membersDataRetained" \in InputOf(q, s).flags
           <=> "membersDataRetained" \in InputOf(r, s).flags
      /\ "awaitingHealthResult" \in InputOf(q, s).flags
           <=> "awaitingHealthResult" \in InputOf(r, s).flags
      /\ "anyMemberObservedRunning" \in InputOf(q, s).flags
           <=> "anyMemberObservedRunning" \in InputOf(r, s).flags
  BY <1>1, <1>2, InputFlags
<1>6. IsAwaitingHealthResult(InputOf(q, s)) <=> IsAwaitingHealthResult(InputOf(r, s))
  BY <1>3, <1>5 DEF IsAwaitingHealthResult
<1>7. ShowLiveGrid(q, s) <=> ShowLiveGrid(r, s)
  BY <1>4, <1>5 DEF ShowLiveGrid
<1> QED BY <1>3, <1>4, <1>6, <1>7

LEMMA SameBodies ==
  ASSUME NEW r, NEW q, SameAnswer(r, q), NEW s
  PROVE  HomeBody(q, s) = HomeBody(r, s) /\ SetupBody(q, s) = SetupBody(r, s)
<1>1. /\ HasData(q) /\ HasData(r) /\ Failed(q) = Failed(r)
      /\ Unconfigured(q) = Unconfigured(r) /\ Unconfirmed(q) = Unconfirmed(r)
      /\ Listed(q, s) = Listed(r, s) /\ q.data = r.data
  BY DEF SameAnswer, HasData, Failed, Unconfigured, Unconfirmed, Listed
<1>2. ~ IsLoading(q) /\ ~ IsLoading(r)
  BY <1>1 DEF IsLoading
<1>3. Masked(q, s) = Masked(r, s)
  BY <1>1 DEF Masked
<1> QED BY <1>1, <1>2, <1>3 DEF HomeBody, SetupBody

LEMMA SameHome ==
  ASSUME NEW r, NEW q, SameAnswer(r, q), NEW s
  PROVE  HomeView(q, s) = HomeView(r, s)
<1>1. HomeBody(q, s) = HomeBody(r, s)
  BY SameBodies
<1>2. /\ HomeState(InputOf(q, s)) = HomeState(InputOf(r, s))
      /\ IsAwaitingHealthResult(InputOf(q, s)) <=> IsAwaitingHealthResult(InputOf(r, s))
      /\ ShowLiveGrid(q, s) <=> ShowLiveGrid(r, s)
  BY SameInput
<1>3. HomeNotice(q, s) = HomeNotice(r, s)
  BY <1>2 DEF HomeNotice, SameAnswer, Failed
<1>4. HomeOffer(q, s) = HomeOffer(r, s)
  BY <1>2 DEF HomeOffer
<1>5. ShowLiveGrid(q, s) = ShowLiveGrid(r, s)
  BY <1>2 DEF ShowLiveGrid
<1> QED BY <1>1, <1>2, <1>3, <1>4, <1>5, Zenon DEF HomeView

LEMMA SameList ==
  ASSUME NEW r, NEW q, SameAnswer(r, q)
  PROVE  ListGrid(q) = ListGrid(r) /\ ListNotices(q) = ListNotices(r)
<1>1. /\ q.data = r.data /\ HasData(q) = HasData(r) /\ Failed(q) = Failed(r)
      /\ Unconfigured(q) = Unconfigured(r)
  BY DEF SameAnswer, HasData, Failed, Unconfigured
<1>2. CannotClaimNone(q) = CannotClaimNone(r)
  BY <1>1 DEF CannotClaimNone
<1> QED BY <1>1, <1>2 DEF ListGrid, ListNotices

LEMMA SameClaim ==
  ASSUME NEW r, NEW q, SameAnswer(r, q), NEW p
  PROVE  ClaimsAbsence(q, p) <=> ClaimsAbsence(r, p)
  BY ZenonT(40), SameBodies, SameList DEF ClaimsAbsence

-----------------------------------------------------------------------------
(* Typing.                                                                 *)

LEMMA StartedType ==
  ASSUME NEW r \in Read
  PROVE  /\ Started(r) \in Read
         /\ HasData(r) => SameAnswer(r, Started(r))
  BY DEF Started, Read, Fetch, SameAnswer

LEMMA ReadStep == read \in Read /\ [Next]_vars => read' \in Read
<1> SUFFICES ASSUME read \in Read, [Next]_vars PROVE read' \in Read
  OBVIOUS
<1>1. CASE UNCHANGED read
  BY <1>1
<1>2. CASE FetchStart
  BY <1>2, StartedType DEF FetchStart
<1>3. CASE FetchFail \/ FetchPauses \/ NetworkChanges
  BY <1>3 DEF FetchFail, FetchPauses, NetworkChanges, Read, Fetch
<1>4. CASE Forget
  BY <1>4 DEF Forget, Read, Fetch
<1>5. ASSUME NEW p \in Payload, FetchOk(p) PROVE read' \in Read
  BY <1>5 DEF FetchOk, Read, Fetch
<1>6. ASSUME NEW url \in Url, Visit(url) PROVE read' \in Read
  BY <1>6, StartedType DEF Visit
<1>7. CASE \/ \E i \in Instance : OpenTile(i)
           \/ CloseModal \/ VisibilityChanges \/ MotionPreferenceChanges
           \/ Preview \/ UNCHANGED vars
  BY <1>1, <1>7
  DEF OpenTile, CloseModal, VisibilityChanges, MotionPreferenceChanges, Preview, pages, vars
<1> QED BY <1>2, <1>3, <1>4, <1>5, <1>6, <1>7 DEF Next

\* A render keeps the page's own memory and the preview typed.
LEMMA RenderType ==
  ASSUME NEW o \in Instance \cup {NoInstance}, NEW g \in BOOLEAN, PreviewTypeOK, Render(o, g)
  PROVE  /\ open' = o /\ gone' \in BOOLEAN /\ (gone' => o # NoInstance)
         /\ PreviewTypeOK'
<1>1. open' = o /\ gone' = GoneAfter(read', route', o, g)
  BY DEF Render
<1>2. gone' \in BOOLEAN /\ (gone' => o # NoInstance)
  BY <1>1 DEF GoneAfter
<1>3. PICK old, new : Remount(old, new)
  BY DEF Render
<1>4. broken' \subseteq broken /\ (Ask \/ UNCHANGED <<feed, asking>>)
  BY <1>3 DEF Remount
<1>5. PreviewTypeOK'
  BY <1>4 DEF PreviewTypeOK, Ask
<1> QED BY <1>1, <1>2, <1>5

LEMMA PreviewStepType == PreviewTypeOK /\ Preview => PreviewTypeOK'
<1> SUFFICES ASSUME PreviewTypeOK, Preview PROVE PreviewTypeOK'
  OBVIOUS
<1>1. CASE Poll(Boxes)
  BY <1>1 DEF Poll, Ask, PreviewTypeOK
<1>2. ASSUME NEW seen \in Reading \ {"unread"}, PollAnswered(seen) PROVE PreviewTypeOK'
  BY <1>2 DEF PollAnswered, PreviewTypeOK
<1>3. CASE PollFails
  BY <1>3 DEF PollFails, PreviewTypeOK
<1>4. ASSUME NEW b \in Box, PictureFails(Boxes, b) \/ Tick(Boxes, b) \/ Refresh(Boxes, b)
      PROVE  PreviewTypeOK'
  BY <1>4 DEF PictureFails, Tick, Refresh, Ask, PreviewTypeOK
<1> QED BY <1>1, <1>2, <1>3, <1>4 DEF Preview

LEMMA RouteType ==
  ASSUME NEW url \in Url
  PROVE  Resolve(url) \in Route
<1>1. CASE url \in Route
  <2>1. url.page \in {"list", "away", "home", "setup"}
    BY <1>1 DEF Route
  <2> QED BY <1>1, <2>1 DEF Resolve
<1>2. CASE url \in [page : {"home at a step", "operate"}, slug : Slug]
  <2>1. Resolve(url) \in [page : {"home", "setup"}, slug : Slug]
    BY <1>2 DEF Resolve
  <2> QED BY <2>1 DEF Route
<1> QED BY <1>1, <1>2 DEF Url

LEMMA TypeStep == TypeOK /\ [Next]_vars => TypeOK'
<1> SUFFICES ASSUME TypeOK, [Next]_vars PROVE TypeOK'
  OBVIOUS
<1>0. /\ open \in Instance \cup {NoInstance} /\ gone \in BOOLEAN /\ PreviewTypeOK
      /\ NoInstance \in Instance \cup {NoInstance} /\ FALSE \in BOOLEAN
      /\ route \in Route /\ (open # NoInstance => route.page = "home")
      /\ visible \in BOOLEAN /\ reduced \in BOOLEAN /\ online \in BOOLEAN
  BY DEF TypeOK
<1>1. read' \in Read
  BY ReadStep DEF TypeOK
<1>2. ASSUME NEW o \in Instance \cup {NoInstance}, NEW g \in BOOLEAN, Render(o, g),
             route' \in Route, o # NoInstance => route'.page = "home",
             {visible', reduced', online'} \subseteq BOOLEAN
      PROVE  TypeOK'
  BY <1>1, <1>2, <1>0, RenderType DEF TypeOK
<1>3. CASE FetchStart \/ FetchFail \/ FetchPauses \/ Forget \/ NetworkChanges
           \/ (\E p \in Payload : FetchOk(p))
  <2>1. Rerender /\ UNCHANGED <<route, visible, reduced>> /\ online' \in BOOLEAN
    BY <1>0, <1>3 DEF FetchStart, FetchFail, FetchPauses, Forget, NetworkChanges, FetchOk
  <2> QED BY <1>0, <1>2, <2>1 DEF Rerender
<1>4. ASSUME NEW url \in Url, Visit(url) PROVE TypeOK'
  <2>1. route' \in Route /\ UNCHANGED <<visible, reduced, online>>
    BY <1>4, RouteType DEF Visit
  <2>2. CASE route'.page = "home" /\ route.page = "home"
    BY <1>0, <1>2, <1>4, <2>1, <2>2 DEF Visit, Rerender
  <2>3. CASE ~ (route'.page = "home" /\ route.page = "home")
    <3>1. Render(NoInstance, FALSE)
      BY <1>4, <2>3 DEF Visit
    <3> QED BY <1>0, <1>2, <2>1, <3>1
  <2> QED BY <2>2, <2>3
<1>5. ASSUME NEW i \in Instance, OpenTile(i) PROVE TypeOK'
  <2>1. Render(i, FALSE) /\ route.page = "home" /\ UNCHANGED <<route, visible, reduced, online>>
    BY <1>5 DEF OpenTile
  <2> QED BY <1>0, <1>2, <2>1
<1>6. CASE CloseModal
  <2>1. Render(NoInstance, FALSE) /\ UNCHANGED <<route, visible, reduced, online>>
    BY <1>6 DEF CloseModal
  <2> QED BY <1>0, <1>2, <2>1
<1>7. CASE VisibilityChanges \/ MotionPreferenceChanges
  <2>1. Rerender /\ UNCHANGED <<route, online>> /\ {visible', reduced'} \subseteq BOOLEAN
    BY <1>0, <1>7 DEF VisibilityChanges, MotionPreferenceChanges
  <2> QED BY <1>0, <1>2, <2>1 DEF Rerender
<1>8. CASE Preview
  <2>1. UNCHANGED pages
    BY <1>8 DEF Preview
  <2> QED BY <1>0, <1>8, <2>1, PreviewStepType DEF TypeOK, pages
<1>9. CASE UNCHANGED vars
  BY <1>9 DEF vars, previewVars, TypeOK, PreviewTypeOK
<1> QED BY <1>3, <1>4, <1>5, <1>6, <1>7, <1>8, <1>9 DEF Next

\* The cached read, the address, what home remembers and the preview keep
\* their types; a detail is open on a home page only.
THEOREM ViewsTypeCorrect == Spec => []TypeOK
<1>1. Init => TypeOK
  <2> SUFFICES ASSUME Init PROVE TypeOK
    OBVIOUS
  <2>1. read \in Read
    BY DEF Init, Read, Fetch
  <2>2. PreviewTypeOK
    BY DEF Init, PreviewInit, PreviewTypeOK, Reading
  <2> QED BY <2>1, <2>2 DEF Init, TypeOK
<1> QED BY <1>1, TypeStep, PTL DEF Spec

\* Home, the setup page, the header and the list agree on every read the cache
\* may come to hold (WorkloadHome.tsx, WorkloadSetup.tsx, Topbar.tsx, index.tsx).
THEOREM PagesAgreeAlways == Spec => []PagesAgree
<1>1. TypeOK => PagesAgree
  BY Agree DEF TypeOK
<1> QED BY <1>1, ViewsTypeCorrect, PTL

\* A caption or a dot that says "live" is on a picture whose frames change
\* (LivePreviewBox.tsx, liveView.ts).
THEOREM LiveIsMoving == Spec => []LiveMeansMoving
BY Moving, PTL

-----------------------------------------------------------------------------
(* The steps.                                                              *)

\* Nothing of home or of the list changes when a read goes on its way or waits
\* for the network (WorkloadHome.tsx and index.tsx over the retained data).
THEOREM ViewsSteady == Spec => LiveViewSteady
<1> DEFINE A == /\ HasData(read) /\ read.fetch = "idle" /\ read'.fetch # "idle"
                => /\ ListGrid(read') = ListGrid(read)
                   /\ ListNotices(read') = ListNotices(read)
                   /\ \A s \in Slug : HomeView(read', s) = HomeView(read, s)
<1>1. TypeOK /\ [Next]_vars => [A]_vars
  <2> SUFFICES ASSUME read \in Read, [Next]_vars,
                      HasData(read), read.fetch = "idle", read'.fetch # "idle"
               PROVE  /\ ListGrid(read') = ListGrid(read)
                      /\ ListNotices(read') = ListNotices(read)
                      /\ \A s \in Slug : HomeView(read', s) = HomeView(read, s)
    BY DEF TypeOK
  <2>1. ~ UNCHANGED read
    OBVIOUS
  <2>2. /\ ~ FetchFail /\ ~ FetchPauses /\ ~ NetworkChanges
        /\ \A p \in Payload : ~ FetchOk(p)
    BY <2>1 DEF FetchFail, FetchPauses, NetworkChanges, FetchOk
  <2>3. ~ Forget
    BY DEF Forget
  <2>4. read' = Started(read)
    <3>1. CASE FetchStart
      BY <3>1 DEF FetchStart
    <3>2. ASSUME NEW url \in Url, Visit(url) PROVE read' = Started(read)
      BY <2>1, <3>2 DEF Visit
    <3> QED
      BY <2>1, <2>2, <2>3, <3>1, <3>2
      DEF Next, OpenTile, CloseModal, VisibilityChanges, MotionPreferenceChanges, Preview,
          pages, vars
  <2>5. SameAnswer(read, read')
    BY <2>4, StartedType
  <2> QED BY <2>5, SameHome, SameList
<1>2. LiveViewSteady <=> [][A]_vars
  BY DEF LiveViewSteady
<1> HIDE DEF A
<1> QED BY <1>1, <1>2, ViewsTypeCorrect, PTL DEF Spec

\* The answer of a failed read is nobody's evidence that something is absent.
LEMMA ClaimVouched ==
  ASSUME NEW r \in Read, NEW p, HasData(r), ClaimsAbsence(r, p)
  PROVE  ~ Failed(r) /\ ~ Unconfirmed(r)
<1>1. Unconfigured(r) => ~ Unconfirmed(r)
  BY ReadShape
<1>2. CASE HomeBody(r, p.slug) \in Absence
  BY <1>2 DEF HomeBody, Absence, IsLoading, Masked
<1>3. CASE SetupBody(r, p.slug) \in Absence
  BY <1>1, <1>3 DEF SetupBody, Absence
<1>4. CASE ListGrid(r) = "none yet"
  BY <1>4 DEF ListGrid, CannotClaimNone, Unconfirmed
<1> QED BY <1>2, <1>3, <1>4 DEF ClaimsAbsence

\* A page that has shown what the inventory holds claims an absence only by a
\* read that settled then and that the inventory stood behind
\* (WorkloadHome.tsx, WorkloadSetup.tsx and index.tsx, the masking rules).
THEOREM AbsenceRead == Spec => AbsenceIsRead
<1> DEFINE A == /\ route' = route /\ HasData(read)
                /\ ~ ClaimsAbsence(read, route) /\ ClaimsAbsence(read', route)
                => /\ read.fetch = "fetching" /\ read'.fetch = "idle"
                   /\ ~ Failed(read') /\ ~ Unconfirmed(read')
<1>1. TypeOK /\ [Next]_vars => [A]_vars
  <2> SUFFICES ASSUME read \in Read, [Next]_vars, route' = route, HasData(read),
                      ~ ClaimsAbsence(read, route), ClaimsAbsence(read', route)
               PROVE  /\ read.fetch = "fetching" /\ read'.fetch = "idle"
                      /\ ~ Failed(read') /\ ~ Unconfirmed(read')
    BY DEF TypeOK
  <2>1. ~ SameAnswer(read, read') /\ ~ UNCHANGED read
    BY SameClaim
  <2>2. /\ ~ FetchStart /\ ~ FetchPauses /\ ~ NetworkChanges
        /\ \A url \in Url : ~ Visit(url)
    BY <2>1, StartedType
    DEF FetchStart, FetchPauses, NetworkChanges, Visit, SameAnswer, Read
  <2>3. ~ Forget
    BY DEF Forget, ClaimsAbsence
  <2>4. FetchFail \/ \E p \in Payload : FetchOk(p)
    BY <2>1, <2>2, <2>3
    DEF Next, OpenTile, CloseModal, VisibilityChanges, MotionPreferenceChanges, Preview,
        pages, vars
  <2>5. read.fetch = "fetching" /\ read'.fetch = "idle" /\ HasData(read')
    <3>1. CASE FetchFail
      <4>1. read' = [read EXCEPT !.status = "error", !.fetch = "idle"]
        BY <3>1 DEF FetchFail
      <4> QED BY <3>1, <4>1 DEF FetchFail, HasData, Read
    <3>2. ASSUME NEW p \in Payload, FetchOk(p)
          PROVE  read.fetch = "fetching" /\ read'.fetch = "idle" /\ HasData(read')
      <4>1. read.fetch = "fetching" /\ read'.fetch = "idle" /\ read'.data = p
        BY <3>2 DEF FetchOk
      <4>2. p.grade \subseteq Grade
        BY ViewsAssumption
      <4>3. p # NoData
        BY <4>2 DEF NoData, Grade
      <4> QED BY <4>1, <4>3 DEF HasData
    <3> QED BY <2>4, <3>1, <3>2
  <2>6. read' \in Read
    BY ReadStep
  <2> QED BY <2>5, <2>6, ClaimVouched
<1>2. AbsenceIsRead <=> [][A]_vars
  BY DEF AbsenceIsRead
<1> HIDE DEF A
<1> QED BY <1>1, <1>2, ViewsTypeCorrect, PTL DEF Spec
=============================================================================
