-------------------------- MODULE MCWorkloadWizard --------------------------
EXTENDS WorkloadWizard, TLC

CONSTANTS k1, k2

Ready == [requested |-> "bootstrapped", observed |-> "unknown"]
Up == [requested |-> "active", observed |-> "running"]
Down == [requested |-> "active", observed |-> "unknown"]

Ans(m, g) == [members |-> [i \in {"tx"} |-> m], grade |-> g]

OneKey == {k1}
TwoKeys == {k1, k2}
MCPayload == {Ans(Ready, "ok"), Ans(Up, "ok")}
MCUserRead == {[role |-> "operator", isError |-> FALSE]}
=============================================================================
