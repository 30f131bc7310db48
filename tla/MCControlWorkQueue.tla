-------------------------- MODULE MCControlWorkQueue --------------------------
(***************************************************************************)
(* Instances of the control lane for TLC.                                  *)
(***************************************************************************)
EXTENDS ControlWorkQueue

CONSTANTS w1, w2, w3

TwoUnits == {w1, w2}
ThreeUnits == {w1, w2, w3}

=============================================================================
