----------------------------- MODULE MCFactStore -----------------------------
(***************************************************************************)
(* FactStore for TLC.                                                      *)
(***************************************************************************)
EXTENDS FactStore, TLC
=============================================================================
