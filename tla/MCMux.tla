------------------------------- MODULE MCMux -------------------------------
(* Model checking of Mux; the constants are given values in the .cfg file. *)
(* Workers that have the tag are interchangeable, and only invariants are  *)
(* checked.                                                                *)
EXTENDS Mux, TLC

Symmetry == Permutations(Tagged)
=============================================================================
