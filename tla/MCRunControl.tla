---------------------------- MODULE MCRunControl ----------------------------
(* Instances of RunControl for TLC.                                        *)
EXTENDS RunControl

CONSTANTS k1, k2, s1, w1, u1, u2

OneKey == {k1}
TwoKeys == {k1, k2}
OneSlug == {s1}
OneWorkflow == {w1}
OneOperator == {u1}
TwoOperators == {u1, u2}
Nobody == {}

DeployAndTeardown == {"deploy", "teardown"}
Recoverable == {"deploy", "rollback", "finalise-purge"}
DeployAndRollback == {"deploy", "rollback"}
Everything == Action
=============================================================================
