----------------------- MODULE MCConstructionWorkQueue -----------------------
(***************************************************************************)
(* Instances of the construction lane for TLC.                             *)
(***************************************************************************)
EXTENDS ConstructionWorkQueue

CONSTANTS w1, w2

TwoUnits == {w1, w2}
=============================================================================
