------------------------------ MODULE MCManager ------------------------------
(* Manager on a small instance. *)
EXTENDS Manager
=============================================================================
