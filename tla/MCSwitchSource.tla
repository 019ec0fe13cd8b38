--------------------------- MODULE MCSwitchSource ---------------------------
(* Instances of SwitchSource for TLC.                                      *)
EXTENDS SwitchSource

CONSTANTS view1, cam1, cam2

OneReceiver == {view1}
TwoSources == {cam1, cam2}
=============================================================================
