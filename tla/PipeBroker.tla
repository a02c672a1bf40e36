----------------------------- MODULE PipeBroker -----------------------------
(***************************************************************************)
(* What the pipe pool of a manager promises: a pipe is handed to one user  *)
(* connection, a user connection has one pipe at a time, and a pipe that   *)
(* was handed out is never handed out again (it is closed; the client      *)
(* opens a new one).  PipePool implements this.                            *)
(***************************************************************************)
CONSTANTS Users, Pipes

VARIABLE holder  (* "out", "free", or the user connection that has the pipe *)

Init == holder = [p \in Pipes |-> "out"]

Offer(p) ==
    /\ holder[p] = "out"
    /\ holder' = [holder EXCEPT ![p] = "free"]

Give(p, u) ==
    /\ holder[p] = "free"
    /\ \A q \in Pipes : holder[q] # u
    /\ holder' = [holder EXCEPT ![p] = u]

Finish(p) ==
    /\ holder[p] \in Users
    /\ holder' = [holder EXCEPT ![p] = "out"]

Next == \E p \in Pipes : Offer(p) \/ Finish(p) \/ \E u \in Users : Give(p, u)

Spec == Init /\ [][Next]_holder
=============================================================================
