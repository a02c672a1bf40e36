--------------------------- MODULE MCRotatingFile ---------------------------
(* Model checking of RotatingFile.  Goroutines differ by their name only.  *)
EXTENDS RotatingFile

Symmetry == Permutations(Writers)
=============================================================================
