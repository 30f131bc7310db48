---------------------------- MODULE MCNetworkService ----------------------------
(* Small instances of NetworkService.                                       *)
EXTENDS NetworkService

CONSTANTS rain, news, stock
ThreeWidgets == {rain, news, stock}
===============================================================================
