------------------------------ MODULE MCPorts ------------------------------
(* Model checking of Ports; the constants are given values in the .cfg     *)
(* file.  The range 1 .. 3 has the two ports that randInts yields and the  *)
(* end that it never yields; 4 is outside it.                              *)
EXTENDS Ports
=============================================================================
