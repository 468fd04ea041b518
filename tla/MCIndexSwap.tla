----------------------------- MODULE MCIndexSwap -----------------------------
(***************************************************************************)
(* IndexSwap for TLC.                                                      *)
(***************************************************************************)
EXTENDS IndexSwap, TLC

Symmetric == Permutations(Builder) \cup Permutations(Querier)
=============================================================================
