-------------------------- MODULE MCInventoryRead --------------------------
(* Instances of InventoryRead for TLC.                                     *)
EXTENDS InventoryRead

CONSTANTS w1, w2

NoWriter == {}
TwoWriters == {w1, w2}
=============================================================================
