----------------------------- MODULE MCHostActions -----------------------------
(***************************************************************************)
(* Instances of the host's input actions for TLC.                          *)
(***************************************************************************)
EXTENDS HostActions

CONSTANTS k1, k2, b1, t1, t2

TwoChords == {k1, k2}
OneButton == {b1}
TwoThreads == {t1, t2}
=============================================================================
