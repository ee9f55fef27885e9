------------------------ MODULE MCRequestSerializer -------------------------
(***************************************************************************)
(* Three requests for one route and one for another.                       *)
(***************************************************************************)
EXTENDS RequestSerializer, TLC

CONSTANTS r1, r2, r3, r4, startStop, other

MCRequests == {r1, r2, r3, r4}
MCRoutes   == {startStop, other}
MCRouteOf  == [r \in MCRequests |-> IF r = r4 THEN other ELSE startStop]
=============================================================================
