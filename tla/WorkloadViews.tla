---------------------------- MODULE WorkloadViews ----------------------------
(***************************************************************************)
(* The pages that show workloads in one browser tab, over one cached read  *)
(* of the grouped inventory: the list (index.tsx), a workload's home       *)
(* (WorkloadHome.tsx) with its live tiles and the open detail, the setup   *)
(* page's early returns (WorkloadSetup.tsx) and the header rail            *)
(* (store/headerSlot.ts, Topbar.tsx), under src/frontend/src.              *)
(*                                                                         *)
(* A page is what it says of the cache: the operators below give each      *)
(* page's body, and the steps move the cache, the route and what the home  *)
(* page itself remembers.  The preview of one instance is followed in full.*)
(***************************************************************************)
EXTENDS WorkloadFlow, LivePreview

CONSTANTS
  Slug,      \* the workloads' slugs, numbered in the order the list has them
  Instance,  \* the instances, numbered in the order of their names; bound: all
             \* of an MXL function, whose tile opens the detail
  Live,      \* those with a live view
  Spawned,   \* those that are a source of another one's topology
  Watched,   \* the live instance whose preview is followed
  Cap,       \* LIVE_TILE_CAP
  Offline,   \* whether the browser may lose its network
  Payload    \* bound: what /api/media-workloads/grouped may answer

Grade == {"unconfigured", "stale", "degraded", "unread"}

\* "unread" is degraded with a reason: the source answered nothing.
ASSUME ViewsAssumption ==
  /\ Slug \cup Instance \subseteq Nat \ {0}
  /\ Live \subseteq Instance /\ Spawned \subseteq Instance /\ Watched \in Live
  /\ Cap \in Nat /\ Offline \in BOOLEAN
  /\ \A p \in Payload :
       /\ p.grade \subseteq Grade /\ p.conflicts \subseteq Slug
       /\ DOMAIN p.workloads \subseteq Slug
       /\ \A s \in DOMAIN p.workloads :
            /\ DOMAIN p.workloads[s] \subseteq Instance
            /\ \A i \in DOMAIN p.workloads[s] : p.workloads[s][i] \in Member
       /\ p.grade \cap {"unconfigured", "unread"} # {}
            => DOMAIN p.workloads = {} /\ p.conflicts = {}
       /\ p.conflicts # {} => "degraded" \in p.grade
       /\ "unconfigured" \in p.grade => p.grade = {"unconfigured"}

VARIABLES
  read,     \* the grouped inventory query
  route,    \* the page shown and the slug in its address
  open,     \* openInstance of the home page
  gone,     \* openInstanceGone
  visible,  \* useDocumentVisible
  reduced,  \* usePrefersReducedMotion
  online    \* the browser's network

vars == <<read, route, open, gone, visible, reduced, online, previewVars>>

NoSlug == 0
NoInstance == 0
NoData == [grade |-> {"pending"}, conflicts |-> {}, workloads |-> <<>>]

\* "paused": a read that waits for the network.
Fetch == {"idle", "fetching", "paused"}

\* "home" and "setup" name a workload; "away" is every other page.
Route == [page : {"list", "away"}, slug : {NoSlug}]
           \cup [page : {"home", "setup"}, slug : Slug]

Read == [data : Payload \cup {NoData}, status : {"ok", "error"}, fetch : Fetch]

TypeOK ==
  /\ read \in Read
  /\ route \in Route
  /\ open \in Instance \cup {NoInstance} /\ gone \in BOOLEAN
  /\ {visible, reduced, online} \subseteq BOOLEAN
  /\ PreviewTypeOK
  /\ (gone => open # NoInstance) /\ (open # NoInstance => route.page = "home")

-----------------------------------------------------------------------------
(* What the cache holds.                                                   *)

HasData(r) == r.data # NoData
Failed(r) == r.status = "error"
IsLoading(r) == ~ HasData(r) /\ r.fetch = "fetching"
Unconfigured(r) == "unconfigured" \in r.data.grade

\* Last-good data, or the empty answer of a failed read.
Unconfirmed(r) == r.data.grade \cap {"stale", "unread"} # {}

Listed(r, s) == s \in DOMAIN r.data.workloads

Members(r, s) == IF Listed(r, s) THEN r.data.workloads[s] ELSE <<>>

\* No page here has a job of its own, and the user's role plays no part.
InputOf(r, s) ==
  BuildWorkloadLifecycleInput(Members(r, s), TRUE, {},
    [isError |-> Failed(r), isFetching |-> r.fetch = "fetching",
     configured |-> HasData(r) /\ ~ Unconfigured(r),
     degraded |-> "degraded" \in r.data.grade,
     stale |-> "stale" \in r.data.grade],
    [role |-> "operator", isError |-> FALSE, isFetching |-> FALSE])

-----------------------------------------------------------------------------
(* A workload's home.                                                      *)

Absence == {"unconfigured", "conflict", "not found"}

\* Mutant for AbsenceIsRead: only an error masks.
MutantMasked(r, s) ==
  HasData(r) /\ Failed(r) /\ (Unconfigured(r) \/ ~ Listed(r, s))

\* A status or an absence the last read does not vouch for is not claimed.
Masked(r, s) ==
  /\ HasData(r) /\ (Failed(r) \/ Unconfirmed(r))
  /\ Unconfigured(r) \/ ~ Listed(r, s)

HomeBody(r, s) ==
  IF IsLoading(r) THEN "loading"
  ELSE IF (Failed(r) /\ ~ HasData(r)) \/ Masked(r, s) THEN "unloadable"
  ELSE IF Unconfigured(r) THEN "unconfigured"
  ELSE IF Listed(r, s) THEN "workload"
  ELSE IF s \in r.data.conflicts THEN "conflict"
  ELSE "not found"

HomeNotice(r, s) ==
  IF Failed(r) THEN "failed"
  ELSE IF "stale" \in r.data.grade THEN "stale"
  ELSE IF IsAwaitingHealthResult(InputOf(r, s)) THEN "no result yet"
  ELSE IF HomeState(InputOf(r, s)) = "unresolved" THEN "unclear"
  ELSE "none"

\* Tiles outlive a claim the console may no longer make.
ShowLiveGrid(r, s) ==
  \E input \in {InputOf(r, s)} :
    /\ "anyMemberObservedRunning" \in input.flags
    /\ HomeState(input) \in {"live", "unresolved"}

\* The way home offers: into the setup page at its first step or at Configure.
HomeOffer(r, s) ==
  IF HomeState(InputOf(r, s)) = "live" THEN "configure"
  ELSE IF /\ HomeState(InputOf(r, s)) = "setup"
          /\ ~ IsAwaitingHealthResult(InputOf(r, s)) THEN "setup"
  ELSE "none"

HomeView(r, s) ==
  IF HomeBody(r, s) # "workload" THEN [body |-> HomeBody(r, s)]
  ELSE [body |-> "workload", state |-> HomeState(InputOf(r, s)),
        notice |-> HomeNotice(r, s), grid |-> ShowLiveGrid(r, s),
        offer |-> HomeOffer(r, s)]

\* The first Cap of a set.
First(set) == {i \in set : Cardinality({j \in set : j < i}) < Cap}

-----------------------------------------------------------------------------
(* The setup page up to its wizard, and the header.                        *)

SetupBody(r, s) ==
  IF IsLoading(r) THEN "loading"
  ELSE IF Failed(r) THEN "unloadable"
  ELSE IF Unconfigured(r) THEN "unconfigured"
  ELSE IF Listed(r, s) THEN "wizard"
  ELSE IF Unconfirmed(r) THEN "unconfirmed"
  ELSE IF s \in r.data.conflicts THEN "conflict"
  ELSE "not found"

\* The way out of Configure; the link back to home itself is always there.
SetupExit(r, s) ==
  IF SetupBody(r, s) = "wizard" THEN ForwardExit(InputOf(r, s)) ELSE "none"

\* The rail a page registers for the header; the header shows the one of the
\* workload in its address.
Registered(r, p) ==
  IF \/ p.page = "home" /\ Listed(r, p.slug) /\ ~ Failed(r) /\ ~ Unconfigured(r)
     \/ p.page = "setup" /\ SetupBody(r, p.slug) = "wizard"
    THEN p.slug ELSE NoSlug

ShowRail(r, p) == p.slug # NoSlug /\ Registered(r, p) = p.slug

RailSteps(r, p) == FlowSteps(InputOf(r, p.slug))

\* Every key is a button; that of a locked step says why it is locked.
RailKeys(r, p) ==
  [step \in FlowStepId |->
     IF IsStepOpenable(RailSteps(r, p)[step]) THEN "open" ELSE "locked"]

-----------------------------------------------------------------------------
(* The list.                                                               *)

CannotClaimNone(r) ==
  Failed(r) \/ r.data.grade \cap {"degraded", "stale", "unread"} # {}

ListGrid(r) ==
  IF ~ HasData(r) \/ Unconfigured(r) THEN "hidden"
  ELSE IF DOMAIN r.data.workloads # {} THEN "tiles"
  ELSE IF CannotClaimNone(r) THEN "cannot confirm"
  ELSE "none yet"

ListNotices(r) ==
  {n \in {"failed", "stale", "unconfigured", "unread"} :
     CASE n = "failed" -> Failed(r)
       [] n = "stale" -> "stale" \in r.data.grade /\ ~ Failed(r)
       [] n = "unconfigured" -> Unconfigured(r)
       [] n = "unread" -> "unread" \in r.data.grade}

\* The one instance a workload's tile previews: a live one that is no source
\* if there is one, else a live one, else any.
Representative(ms) ==
  LET among == IF DOMAIN ms \cap (Live \ Spawned) # {}
                 THEN DOMAIN ms \cap (Live \ Spawned)
               ELSE IF DOMAIN ms \cap Live # {} THEN DOMAIN ms \cap Live
               ELSE DOMAIN ms
  IN  {i \in among : \A j \in among : i <= j}

\* The workloads the list draws by an instance of the set.
RepresentedBy(r, set) ==
  {s \in DOMAIN r.data.workloads : Representative(r.data.workloads[s]) \cap set # {}}

\* A tile has the position alone: the list knows of no job.
TileBadge(r, s) ==
  LifecycleBadge([lifecycle |-> InputOf(r, s).lifecycle, flags |-> {}])

-----------------------------------------------------------------------------
(* Where the watched instance is drawn.                                    *)

TileMounted(r, p) ==
  \/ /\ p.page = "home" /\ HomeBody(r, p.slug) = "workload"
     /\ Watched \in DOMAIN Members(r, p.slug) /\ ShowLiveGrid(r, p.slug)
  \/ p.page = "list" /\ RepresentedBy(r, {Watched}) # {}

\* motionTiles: on home the first live instances, on the list the first
\* workloads drawn by a live one.
MayChurn(r, p) ==
  IF p.page = "home" THEN Watched \in First(DOMAIN Members(r, p.slug) \cap Live)
  ELSE RepresentedBy(r, {Watched}) \cap First(RepresentedBy(r, Live)) # {}

ModalMounted(r, p, o, g) ==
  /\ p.page = "home" /\ HomeBody(r, p.slug) = "workload"
  /\ o = Watched /\ ~ g


\* Mutant for LiveMeansMoving: the tiles do not know of the open detail.
MutantTileActive(o, v) == v

\* The detail is the one surface allowed to be lively while it is open.
TileActive(o, v) == v /\ o = NoInstance

Nowhere == [page |-> "none", slug |-> NoSlug]
NoBox == [at |-> Nowhere, active |-> FALSE, motion |-> FALSE]

BoxesOf(r, p, o, g, v, red) ==
  [tile |->
     IF ~ TileMounted(r, p) THEN NoBox
     ELSE [at |-> p, active |-> TileActive(o, v),
           motion |-> MayChurn(r, p) /\ ~ red],
   modal |->
     IF ~ ModalMounted(r, p, o, g) THEN NoBox
     ELSE [at |-> [p EXCEPT !.slug = NoSlug], active |-> v, motion |-> ~ red]]

Boxes == BoxesOf(read, route, open, gone, visible, reduced)

-----------------------------------------------------------------------------
(* A render: after any change, home reconciles the open instance, but only *)
(* with a read it may trust, and the boxes come and go.                    *)

Reconciles(r, p, o) ==
  /\ o # NoInstance /\ Listed(r, p.slug)
  /\ "membersDataTrustworthy" \in InputOf(r, p.slug).flags

GoneAfter(r, p, o, g) ==
  IF o = NoInstance THEN FALSE
  ELSE IF Reconciles(r, p, o) THEN o \notin DOMAIN Members(r, p.slug)
  ELSE g

Render(o, g) ==
  /\ open' = o /\ gone' = GoneAfter(read', route', o, g)
  /\ \E old \in {Boxes},
        new \in {BoxesOf(read', route', o, gone', visible', reduced')} :
       Remount(old, new)

\* The page changed nothing of its own.
Rerender == Render(open, gone)

-----------------------------------------------------------------------------
(* The inventory query.                                                    *)

Init ==
  /\ read = [data |-> NoData, status |-> "ok", fetch |-> "fetching"]
  /\ route \in Route
  /\ open = NoInstance /\ gone = FALSE
  /\ visible \in BOOLEAN /\ reduced \in BOOLEAN /\ online = TRUE
  /\ PreviewInit

\* A read starts, or waits for the network; with no data the error is dropped.
Started(r) ==
  IF r.fetch # "idle" THEN r
  ELSE [r EXCEPT !.fetch = IF online THEN "fetching" ELSE "paused",
                 !.status = IF HasData(r) THEN r.status ELSE "ok"]

\* The 15 s poll, which a hidden tab does not make.
FetchStart ==
  /\ read.fetch = "idle" /\ visible
  /\ read' = Started(read)
  /\ UNCHANGED <<route, visible, reduced, online>>
  /\ Rerender

FetchOk(p) ==
  /\ read.fetch = "fetching"
  /\ read' = [data |-> p, status |-> "ok", fetch |-> "idle"]
  /\ UNCHANGED <<route, visible, reduced, online>>
  /\ Rerender

\* The last payload stays.
FetchFail ==
  /\ read.fetch = "fetching"
  /\ read' = [read EXCEPT !.status = "error", !.fetch = "idle"]
  /\ UNCHANGED <<route, visible, reduced, online>>
  /\ Rerender

\* An unobserved query is dropped from the cache after a while.
Forget ==
  /\ read.fetch = "idle" /\ route.page = "away" /\ HasData(read)
  /\ read' = [data |-> NoData, status |-> "ok", fetch |-> "idle"]
  /\ UNCHANGED <<route, visible, reduced, online>>
  /\ Rerender

\* The retry of a failed read waits for the network.
FetchPauses ==
  /\ read.fetch = "fetching" /\ ~ online
  /\ read' = [read EXCEPT !.fetch = "paused"]
  /\ UNCHANGED <<route, visible, reduced, online>>
  /\ Rerender

NetworkChanges ==
  /\ Offline /\ online' = ~ online
  /\ read' = IF online' /\ read.fetch = "paused"
               THEN [read EXCEPT !.fetch = "fetching"] ELSE read
  /\ UNCHANGED <<route, visible, reduced>>
  /\ Rerender

-----------------------------------------------------------------------------
(* The operator and the browser.                                           *)

\* An address the router knows: two are older ways to write another.
Url == Route \cup [page : {"home at a step", "operate"}, slug : Slug]


Resolve(url) ==
  IF url.page = "home at a step" THEN [url EXCEPT !.page = "setup"]
  ELSE IF url.page = "operate" THEN [url EXCEPT !.page = "home"]
  ELSE url

\* A link, a bookmark or a jump in the history.  A page of its own reads again
\* when it mounts; home is not mounted again for another slug.
Visit(url) ==
  /\ Resolve(url) # route
  /\ route' = Resolve(url)
  /\ read' = IF route'.page \in {route.page, "away"} THEN read ELSE Started(read)
  /\ UNCHANGED <<visible, reduced, online>>
  /\ IF route'.page = "home" /\ route.page = "home" THEN Rerender
     ELSE Render(NoInstance, FALSE)

\* A tile on home; behind an open detail it cannot be reached.
OpenTile(i) ==
  /\ route.page = "home" /\ open = NoInstance
  /\ HomeBody(read, route.slug) = "workload" /\ ShowLiveGrid(read, route.slug)
  /\ i \in DOMAIN Members(read, route.slug)
  /\ UNCHANGED <<read, route, visible, reduced, online>>
  /\ Render(i, FALSE)

CloseModal ==
  /\ open # NoInstance /\ HomeBody(read, route.slug) = "workload"
  /\ UNCHANGED <<read, route, visible, reduced, online>>
  /\ Render(NoInstance, FALSE)

VisibilityChanges ==
  /\ visible' = ~ visible
  /\ UNCHANGED <<read, route, reduced, online>>
  /\ Rerender

MotionPreferenceChanges ==
  /\ reduced' = ~ reduced
  /\ UNCHANGED <<read, route, visible, online>>
  /\ Rerender

pages == <<read, route, open, gone, visible, reduced, online>>

Preview ==
  /\ \/ Poll(Boxes)
     \/ \E seen \in Reading \ {"unread"} : PollAnswered(seen)
     \/ PollFails
     \/ \E b \in Box :
          PictureFails(Boxes, b) \/ Tick(Boxes, b) \/ Refresh(Boxes, b)
  /\ UNCHANGED pages

Next ==
  \/ FetchStart \/ FetchFail \/ FetchPauses \/ Forget \/ NetworkChanges
  \/ \E p \in Payload : FetchOk(p)
  \/ \E url \in Url : Visit(url)
  \/ \E i \in Instance : OpenTile(i)
  \/ CloseModal \/ VisibilityChanges \/ MotionPreferenceChanges
  \/ Preview

\* A running interval fires.
Fairness ==
  \A b \in Box : WF_vars(Tick(Boxes, b) /\ UNCHANGED pages)

Spec == Init /\ [][Next]_vars /\ Fairness

-----------------------------------------------------------------------------
(* Properties.                                                             *)

Verdict(body) == IF body = "unconfirmed" THEN "unloadable" ELSE body

\* The pages read one cache by rules of their own and agree.  A workload none of
\* them shows is missing, unconfirmed or in conflict for both, and a way one
\* offers is there on the page it leads to: "Open live view" finds the live
\* view, "View workload status" and "Continue setup" a workload to set up, "Go
\* to Configure" a wizard with that step unlocked, the header's keys a wizard, a
\* tile of the list a workload whose home says nothing its badge denies.
PagesAgree ==
  \A s \in Slug :
    LET home == HomeBody(read, s)
        setup == SetupBody(read, s)
        at == [page |-> "home", slug |-> s]
    IN  /\ ~ Listed(read, s) => Verdict(setup) = home
        /\ SetupExit(read, s) = "live"
             => home = "workload" /\ HomeOffer(read, s) = "configure"
        /\ SetupExit(read, s) = "view-status"
             => home = "workload" /\ HomeState(InputOf(read, s)) = "setup"
        /\ ShowRail(read, at) => setup = "wizard"
        /\ home = "workload" /\ HomeOffer(read, s) # "none"
             => ShowRail(read, at)
        /\ home = "workload" /\ HomeOffer(read, s) = "configure"
             => RailKeys(read, at)["configure"] = "open"
        /\ ListGrid(read) = "tiles" /\ Listed(read, s)
             => /\ home = "workload"
                /\ HomeOffer(read, s) = "configure" <=>
                     TileBadge(read, s) = "configured"
                       /\ HomeState(InputOf(read, s)) # "unresolved"
                /\ HomeOffer(read, s) = "setup"
                     => TileBadge(read, s) \in {"planned", "provisioned"}

\* A read on its way, or waiting for the network, changes nothing of what home
\* and the list show of a workload: claims, tiles and offers do not blink at
\* every poll.
LiveViewSteady ==
  [][ /\ HasData(read) /\ read.fetch = "idle" /\ read'.fetch # "idle"
      => /\ ListGrid(read') = ListGrid(read)
         /\ ListNotices(read') = ListNotices(read)
         /\ \A s \in Slug : HomeView(read', s) = HomeView(read, s) ]_vars

\* The page on screen says there is no such workload, or no workload at all.
ClaimsAbsence(r, p) ==
  \/ p.page = "home" /\ HomeBody(r, p.slug) \in Absence
  \/ p.page = "setup" /\ SetupBody(r, p.slug) \in Absence
  \/ p.page = "list" /\ ListGrid(r) = "none yet"

\* A page that has shown what the inventory holds turns to "not found", "not
\* configured" or "none yet" only by a read that settled then and that the
\* inventory stood behind: no failure, stale copy or empty answer does it.
AbsenceIsRead ==
  [][ /\ route' = route /\ HasData(read)
      /\ ~ ClaimsAbsence(read, route) /\ ClaimsAbsence(read', route)
      => /\ read.fetch = "fetching" /\ read'.fetch = "idle"
         /\ ~ Failed(read') /\ ~ Unconfirmed(read') ]_vars

\* Words and dot of a live picture are shown only where its frames change: in
\* view, not behind the open detail, asking and not failing.
LiveMeansMoving ==
  \A b \in Box :
    /\ Caption(Boxes[b]) = "live" => Ticks(Boxes[b], b) /\ ~ feed.failed
    /\ LiveDot(Boxes[b]) => CanPoll(Boxes[b]) /\ ~ feed.failed
    /\ b = "tile" /\ open # NoInstance => ~ CanPoll(Boxes[b])

\* A picture that failed to load in a box whose frames change is tried again.
PictureRecovers ==
  \A b \in Box :
    (b \in broken /\ Boxes[b].active /\ Boxes[b].motion /\ HasPreview)
      ~> ~ (b \in broken /\ Boxes[b].active /\ Boxes[b].motion /\ HasPreview)

=============================================================================
