----------------------------- MODULE MCAutoSend -----------------------------
(***************************************************************************)
(* Small instances of AutoSend for TLC.                                    *)
(***************************************************************************)
EXTENDS AutoSend, TLC
=============================================================================
