---------------------------- MODULE MCLaunchWorker ----------------------------
(***************************************************************************)
(* Instances of the launch lane for TLC.                                   *)
(***************************************************************************)
EXTENDS LaunchWorker

CONSTANTS l1, l2

TwoLaunches == {l1, l2}
=============================================================================
