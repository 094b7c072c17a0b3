-------------------------- MODULE MCProviderHealth --------------------------
(* ProviderHealth on small instances.                                       *)
EXTENDS ProviderHealth, TLC

Symmetry == Permutations(Writers)
=============================================================================
