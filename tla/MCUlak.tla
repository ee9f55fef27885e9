------------------------------- MODULE MCUlak -------------------------------
(***************************************************************************)
(* Small instances of Ulak for TLC.                                        *)
(***************************************************************************)
EXTENDS Ulak, TLC
=============================================================================
