----------------------------- MODULE MCPipePool -----------------------------
(* Model checking of PipePool.  Users and pipes are interchangeable: no    *)
(* action and no safety property names one of them.                        *)
EXTENDS PipePool

Symmetry == Permutations(Users) \cup Permutations(Pipes)
=============================================================================
