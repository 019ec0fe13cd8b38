----------------------------- MODULE LivePreview -----------------------------
(***************************************************************************)
(* The live preview of one instance, wherever it is drawn: a box on a      *)
(* tile, a larger one in the open detail (LivePreviewBox.tsx, liveView.ts, *)
(* WorkloadTile.tsx, InstanceLiveModal.tsx under                           *)
(* src/frontend/src/pages/MediaWorkloads).  The boxes share one status     *)
(* query; whether the picture failed to load is each box's own.            *)
(*                                                                         *)
(* A box is given as [at, active, motion]: where it is mounted, whether    *)
(* its surface is in view, and whether its frames may change by            *)
(* themselves.  Whoever mounts the boxes says so.                          *)
(***************************************************************************)
EXTENDS Naturals

CONSTANT Carded   \* the instance emits a pattern the console has drawn

VARIABLES
  feed,     \* the status query: its last payload, and whether the last read failed
  asking,   \* a status request is on its way
  broken    \* the boxes whose picture failed to load since its last frame

previewVars == <<feed, asking, broken>>

Box == {"tile", "modal"}

\* Not read; the sidecar does not answer; it answers, without or with a picture.
Reading == {"unread", "off", "plain", "preview"}

PreviewTypeOK ==
  /\ feed \in [seen : Reading, failed : BOOLEAN]
  /\ asking \in BOOLEAN /\ broken \subseteq Box

PreviewInit ==
  /\ feed = [seen |-> "unread", failed |-> FALSE]
  /\ asking = FALSE /\ broken = {}

-----------------------------------------------------------------------------
(* What a box shows.                                                       *)

CanPoll(box) == box.active

HasPreview == feed.seen = "preview"

ShowStaticCard == Carded /\ ~ HasPreview

ShowImage(box, name) == CanPoll(box) /\ HasPreview /\ name \notin broken

\* Mutant for PictureRecovers: the frames stop with the picture they replace.
MutantTicks(box, name) == box.motion /\ ShowImage(box, name)

\* The effect that asks for a new frame.
Ticks(box, name) == CanPoll(box) /\ box.motion /\ HasPreview

Caption(box) ==
  IF ShowStaticCard THEN "illustration"
  ELSE IF ~ box.active THEN "paused"
  ELSE IF feed.failed THEN "failed"
  ELSE IF feed.seen \in {"unread", "off"} THEN "unavailable"
  ELSE IF ~ HasPreview THEN "no preview"
  ELSE IF box.motion THEN "live"
  ELSE "last frame"

LiveDot(box) ==
  /\ ~ ShowStaticCard /\ box.active /\ box.motion
  /\ feed.seen \in {"plain", "preview"} /\ ~ feed.failed

ShowRefresh(box) == ~ ShowStaticCard /\ box.active /\ ~ box.motion

-----------------------------------------------------------------------------
(* Steps, given the boxes as the function from Box to what each is given.  *)

\* A request starts; the error of a query that never had data is dropped.
Ask ==
  /\ asking' = TRUE
  /\ feed' = IF feed.seen = "unread" THEN [feed EXCEPT !.failed = FALSE] ELSE feed

\* The interval of a box in motion.
Poll(boxes) ==
  /\ ~ asking /\ \E b \in Box : CanPoll(boxes[b]) /\ boxes[b].motion
  /\ Ask /\ UNCHANGED broken

PollAnswered(seen) ==
  /\ asking /\ asking' = FALSE
  /\ feed' = [seen |-> seen, failed |-> FALSE]
  /\ UNCHANGED broken

\* The last payload stays.
PollFails ==
  /\ asking /\ asking' = FALSE
  /\ feed' = [feed EXCEPT !.failed = TRUE]
  /\ UNCHANGED broken

PictureFails(boxes, b) ==
  /\ ShowImage(boxes[b], b)
  /\ broken' = broken \cup {b} /\ UNCHANGED <<feed, asking>>

\* A new frame is a new chance for the picture.
Tick(boxes, b) ==
  /\ Ticks(boxes[b], b)
  /\ broken' = broken \ {b} /\ UNCHANGED <<feed, asking>>

Refresh(boxes, b) ==
  /\ ShowRefresh(boxes[b])
  /\ broken' = broken \ {b} /\ Ask

\* The boxes changed from old to new: one mounted elsewhere is another box, and
\* one that may poll now and could not asks at once.
Remount(old, new) ==
  LET Another(b) == new[b].at # old[b].at
  IN  /\ broken' = {b \in broken : ~ Another(b)}
      /\ IF \E b \in Box :
              CanPoll(new[b]) /\ (CanPoll(old[b]) => Another(b))
           THEN Ask
           ELSE UNCHANGED <<feed, asking>>
=============================================================================
