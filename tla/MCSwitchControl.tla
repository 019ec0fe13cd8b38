--------------------------- MODULE MCSwitchControl ---------------------------
EXTENDS SwitchControl

Says(kind, sources, active) == [kind |-> kind, sources |-> sources, active |-> active]

MCTopology ==
  {Says("none", {}, NoSource), Says("malformed", {}, NoSource),
   Says("topology", {"a"}, "a")}
    \cup {Says("topology", {"a", "b"}, active) : active \in {"a", "b", NoSource}}
=============================================================================
