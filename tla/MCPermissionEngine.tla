------------------------- MODULE MCPermissionEngine -------------------------
(* The permission engine, the service it implements and the decisions of    *)
(* authorize, on small instances.                                           *)
EXTENDS PermissionRefinement, PermissionDecisions, TLC

\* Callers are interchangeable, and so are tokens: no property names one.
Symmetry == Permutations(Callers) \union Permutations(Tokens)
=============================================================================
