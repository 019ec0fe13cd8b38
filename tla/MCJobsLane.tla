------------------------------ MODULE MCJobsLane ------------------------------
EXTENDS JobsLane

CONSTANTS a, b

TwoWorkflows == {a, b}
OnlyB == {b}
=============================================================================
