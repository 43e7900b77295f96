------------------------------ MODULE MCLocalAuth ---------------------------
(* The local API tokens on small instances.                                *)
EXTENDS LocalAuth, TLC

\* A lifetime of one tick, and one that is over before it starts.
Lifetimes == {-2, 1}

Symmetry == Permutations(Callers) \union Permutations(Tokens)
=============================================================================
