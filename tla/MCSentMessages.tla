--------------------------- MODULE MCSentMessages ---------------------------
(***************************************************************************)
(* A small instance of SentMessages for TLC: of four rows, two share their *)
(* creation time, and the offsets are not in the order of the times.       *)
(***************************************************************************)
EXTENDS SentMessages, TLC

CreationTimes == <<1, 3, 2, 2>>
SomeParams    == {-1, 0, 1, 2, Malformed}
=============================================================================
