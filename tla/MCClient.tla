------------------------------ MODULE MCClient ------------------------------
(* Model checking of Client; the constants are given values in the .cfg    *)
(* file.  Processes, logins and ids are told apart by nothing but their    *)
(* name.                                                                   *)
EXTENDS Client, TLC

Symmetry ==
    Permutations(Processes) \cup Permutations(Logins) \cup Permutations(Pipes)
        \cup Permutations(Ids)
=============================================================================
