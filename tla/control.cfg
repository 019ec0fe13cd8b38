\* One viewer with up to two sources, polled twice within the fuse's time.
SPECIFICATION Spec
CONSTANTS
  Source = {"a", "b"}
  Topology <- MCTopology
  Stale = 2
PROPERTIES
  SentOnEvidence
  PendingPanelSteady
  Recovers
