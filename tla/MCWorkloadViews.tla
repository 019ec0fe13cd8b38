--------------------------- MODULE MCWorkloadViews ---------------------------
EXTENDS WorkloadViews, TLC

Planned == [requested |-> "bootstrapped", observed |-> "unknown"]
Up == [requested |-> "active", observed |-> "running"]
Down == [requested |-> "active", observed |-> "unknown"]

Says(grade, conflicts, workloads) ==
  [grade |-> grade, conflicts |-> conflicts, workloads |-> workloads]

Solo(s, m) == s :> (1 :> m)

MCPayload ==
  {Says({}, {}, w) :
     w \in {<<>>, Solo(1, Planned), Solo(1, Down),
            1 :> (1 :> Up @@ 2 :> Down),
            1 :> (1 :> Up) @@ 2 :> (2 :> Up)}}
  \cup {Says({"stale"}, {}, w) : w \in {<<>>, Solo(1, Up)}}
  \cup {Says({"degraded"}, {1}, 2 :> (2 :> Up)),
        Says({"degraded", "unread"}, {}, <<>>),
        Says({"unconfigured"}, {}, <<>>)}
=============================================================================
