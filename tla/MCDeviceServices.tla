--------------------------- MODULE MCDeviceServices ---------------------------
(***************************************************************************)
(* Instances of the device services for TLC.                               *)
(***************************************************************************)
EXTENDS DeviceServices

CONSTANTS s1, s2

TwoSettings == {s1, s2}
Both == {0, 1}
=============================================================================
