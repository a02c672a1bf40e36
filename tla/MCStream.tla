------------------------------ MODULE MCStream ------------------------------
(* Model checking of Stream: the user sends two bytes, so that their order *)
(* can be seen, and the target one.                                        *)
EXTENDS Stream

MCMaxBytes == [d \in Directions |-> IF d = "there" THEN 2 ELSE 1]
=============================================================================
