----------------------------- MODULE MCActionGate ---------------------------
(* The gate on small instances.                                            *)
EXTENDS ActionGate, TLC

\* One handler of each shape that matters when two requests meet.
FewHandlers == {fs_write, send_message}

\* A policy that blocks writes, or all there is, or nothing.
BlockWrites == {{}, {"FileWrite"}}
BlockAll    == {{}, Kinds}

Symmetry == Permutations(Requests) \union Permutations(Tokens)
TokenSymmetry == Permutations(Tokens)
=============================================================================
