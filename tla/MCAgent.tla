------------------------------ MODULE MCAgent ------------------------------
(* Model checking of Agent; the constants are given values in the .cfg     *)
(* files.                                                                  *)
EXTENDS Agent
=============================================================================
