\* The list, a workload's home and setup page and the header over one cached
\* read, with the preview of one of two instances, one of which may churn.
SPECIFICATION Spec
CONSTANTS
  Slug = {1, 2}
  Instance = {1, 2}
  Live = {1, 2}
  Spawned = {}
  Watched = 2
  Cap = 1
  Carded = FALSE
  Offline = TRUE
  Payload <- MCPayload
INVARIANTS
  PagesAgree
  LiveMeansMoving
PROPERTIES
  LiveViewSteady
  AbsenceIsRead
  PictureRecovers
