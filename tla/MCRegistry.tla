----------------------------- MODULE MCRegistry -----------------------------
(* Model checking of Registry; the constants are given values in the .cfg  *)
(* files.                                                                  *)
EXTENDS Registry
=============================================================================
