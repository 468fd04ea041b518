----------------------------- MODULE MCVaultFlow -----------------------------
(***************************************************************************)
(* VaultFlow for TLC: one public and one private pointer, one fact.        *)
(***************************************************************************)
EXTENDS VaultFlow, TLC

Symmetric == Permutations(Proc)
=============================================================================
