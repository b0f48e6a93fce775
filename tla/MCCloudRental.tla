--------------------------- MODULE MCCloudRental ---------------------------
(***************************************************************************)
(* Small instances of CloudRental: two rentals one after the other, of a   *)
(* machine each or of the box, and one crash of the gateway.               *)
(***************************************************************************)
EXTENDS CloudRental

CONSTANTS j1, j2

One == {j1}
Two == {j1, j2}
Other == {j2}
Nobody == {}
=============================================================================
