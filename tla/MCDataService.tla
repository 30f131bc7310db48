---------------------------- MODULE MCDataService ----------------------------
(***************************************************************************)
(* Instances of the data service for TLC.                                  *)
(***************************************************************************)
EXTENDS DataService

CONSTANTS ui, other, d1, d2

OneClient == {ui}
TwoClients == {ui, other}
TwoDataSets == {d1, d2}

\* One data set of each of two providers.
OneEach == [d \in TwoDataSets |-> IF d = d1 THEN 1 ELSE 2]
=============================================================================
