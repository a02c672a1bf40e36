------------------------------- MODULE Ports -------------------------------
(***************************************************************************)
(* How the server finds a port for a proxy: netstat.FindAvailablePort,     *)
(* called by the Run goroutines of several managers at once, the goroutine *)
(* of randInts that feeds the shared channel randPool, and NewProxy, which *)
(* listens on the port that was found.  A probe opens a listener of its    *)
(* own and closes it again: while it is open, the port is busy for others. *)
(* Between the probe and NewProxy anybody may take the port.  The system   *)
(* may also refuse a listener on a port that is free (a privileged port,   *)
(* one above 65535, no file descriptor left), to a probe and to NewProxy.  *)
(***************************************************************************)
EXTENDS Integers, Sequences, FiniteSets, SequencesExt

CONSTANTS
    Callers,    (* managers that register a proxy                           *)
    Start, End, (* SetPortRange                                             *)
    ForceRange, (* SetPortRange, forceRange                                 *)
    Asked,      (* values of ProxyRequest.Port; 0 is "any" or not a number  *)
    OsPorts,    (* ports the system picks from when asked for port 0        *)
    ChanCap,    (* capacity of randPool, 8 in the code                      *)
    Foreign,    (* ports that other processes of the host use now and then  *)
    Free, Other (* a port nobody has; such a process                        *)

(* With Start = End, rand.Perm(0) yields nothing and every search blocks;   *)
(* with Start > End it panics.                                              *)
ASSUME PortsAssumption ==
    /\ Start \in Nat \ {0} /\ End \in Nat /\ Start < End
    /\ ForceRange \in BOOLEAN /\ ChanCap \in Nat \ {0}
    /\ Asked \subseteq Int /\ OsPorts \subseteq Nat \ {0}
    /\ Foreign \subseteq Nat \ {0}
    /\ Free # Other /\ {Free, Other} \cap Callers = {}

VARIABLES
    perm,    (* randInts: what is left of the current permutation           *)
    queue,   (* randPool                                                    *)
    holder,  (* per port: who listens on it                                 *)
    pc,      (* per caller: where RegisterProxy is                          *)
    want,    (* per caller: the port that the request names                 *)
    left,    (* per caller: turns left in the loop of FindAvailablePort     *)
    port,    (* per caller: the port probed last, then the one found        *)
    busy     (* per caller: ports that, since it was asked, others have held *)
             (* or the system has refused to its probe                      *)

vars == <<perm, queue, holder, pc, want, left, port, busy>>

PortSet == Start .. End \cup OsPorts \cup Foreign \cup {w \in Asked : w > 0}

(* No registration under way: there was none, its proxy is closed, it failed. *)
Over == {"idle", "failed"}

Labels == {"idle", "first", "draw", "probe", "probing", "listen", "up", "failed"}

(* Ports that somebody else than c holds. *)
Others(c, h) == {p \in PortSet : h[p] \notin {Free, c}}

Init ==
    /\ perm = <<>> /\ queue = <<>>
    /\ holder = [p \in PortSet |-> Free]
    /\ pc = [c \in Callers |-> "idle"] /\ want = [c \in Callers |-> 0]
    /\ left = [c \in Callers |-> 0] /\ port = [c \in Callers |-> 0]
    /\ busy = [c \in Callers |-> {}]

Goto(c, label) == pc' = [pc EXCEPT ![c] = label]

(* Somebody takes or gives up port p; callers at work keep a record of it. *)
Hold(p, who) ==
    /\ holder' = [holder EXCEPT ![p] = who]
    /\ busy' = [c \in Callers |->
                   IF pc'[c] \in Over THEN {} ELSE busy[c] \cup Others(c, holder')]

(* randInts: one permutation of the range after the other, without its end. *)
Permute ==
    /\ perm = <<>>
    /\ perm' \in SetToSeqs(Start .. End - 1)
    /\ UNCHANGED <<queue, holder, pc, want, left, port, busy>>

(* Mutant: randPool is taken for unbounded. *)
Yield_Unbounded ==
    /\ perm # <<>>
    /\ queue' = Append(queue, Head(perm))
    /\ perm' = Tail(perm)
    /\ UNCHANGED <<holder, pc, want, left, port, busy>>

Yield ==
    /\ perm # <<>> /\ Len(queue) < ChanCap
    /\ queue' = Append(queue, Head(perm))
    /\ perm' = Tail(perm)
    /\ UNCHANGED <<holder, pc, want, left, port, busy>>

InRange(w) == Start <= w /\ w <= End

(* Mutant: forceRange is not looked at. *)
FirstChoice_NoForce(w) == IF w < 0 THEN 0 ELSE w

(* The port FindAvailablePort tries first; 0: none. *)
FirstChoice(w) == IF (ForceRange /\ ~InRange(w)) \/ w < 0 THEN 0 ELSE w

(* The turns of the loop that starts at init and runs to the end of the range. *)
Turns(init) == IF init <= End THEN End - init + 1 ELSE 0

(* RegisterProxy is called for a request; FindAvailablePort begins. *)
Register(c) ==
    /\ pc[c] \in Over
    /\ \E w \in Asked :
         LET init == FirstChoice(w) IN
         /\ want' = [want EXCEPT ![c] = w]
         /\ port' = [port EXCEPT ![c] = init]
         /\ Goto(c, IF init > 0 THEN "first" ELSE "draw")
         /\ left' = [left EXCEPT ![c] = Turns(IF init > 0 THEN init ELSE Start)]
    /\ busy' = [busy EXCEPT ![c] = Others(c, holder)]
    /\ UNCHANGED <<perm, queue, holder>>

(* Mutant: the loop does not count its turns. *)
Draw_NoCount(c) ==
    /\ pc[c] = "draw" /\ queue # <<>>
    /\ port' = [port EXCEPT ![c] = Head(queue)]
    /\ queue' = Tail(queue)
    /\ Goto(c, "probe")
    /\ UNCHANGED <<perm, holder, want, left, busy>>

(* One turn of the loop, or its end: the result is port 0. *)
Draw(c) ==
    /\ pc[c] = "draw"
    /\ \/ /\ left[c] > 0 /\ queue # <<>>
          /\ port' = [port EXCEPT ![c] = Head(queue)]
          /\ queue' = Tail(queue)
          /\ left' = [left EXCEPT ![c] = @ - 1]
          /\ Goto(c, "probe")
       \/ /\ left[c] = 0
          /\ port' = [port EXCEPT ![c] = 0]
          /\ Goto(c, "listen")
          /\ UNCHANGED <<queue, left>>
    /\ UNCHANGED <<perm, holder, want, busy>>

(* Mutant: the port that was asked for is drawn from the range instead. *)
Probe_SkipFirst(c) ==
    /\ pc[c] \in {"first", "probe"}
    /\ \/ /\ pc[c] = "probe" /\ holder[port[c]] = Free
          /\ Goto(c, "probing")
          /\ Hold(port[c], c)
          /\ left' = [left EXCEPT ![c] = 0]
       \/ /\ pc[c] = "first" \/ holder[port[c]] # Free
          /\ Goto(c, "draw")
          /\ UNCHANGED <<holder, busy, left>>
    /\ UNCHANGED <<perm, queue, want, port>>

(* net.Listen on the port in hand succeeds and the loop is left, or another  *)
(* one is drawn: the port is in use, or the system refuses it.               *)
Probe(c) ==
    /\ pc[c] \in {"first", "probe"}
    /\ \/ /\ holder[port[c]] = Free
          /\ Goto(c, "probing")
          /\ Hold(port[c], c)
          /\ left' = [left EXCEPT ![c] = 0]
       \/ /\ holder[port[c]] # Free
          /\ Goto(c, "draw")
          /\ UNCHANGED <<holder, busy, left>>
       \/ /\ holder[port[c]] = Free
          /\ Goto(c, "draw")
          /\ busy' = [busy EXCEPT ![c] = @ \cup {port[c]}]
          /\ UNCHANGED <<holder, left>>
    /\ UNCHANGED <<perm, queue, want, port>>

(* Mutant: the listener of the probe is left open. *)
ProbeClose_Forgotten(c) ==
    /\ pc[c] = "probing"
    /\ Goto(c, "listen")
    /\ UNCHANGED <<perm, queue, holder, want, left, port, busy>>

ProbeClose(c) ==
    /\ pc[c] = "probing"
    /\ Goto(c, "listen")
    /\ Hold(port[c], Free)
    /\ UNCHANGED <<perm, queue, want, left, port>>

(* A registration is over: nothing of it is left. *)
Forget(c, label) ==
    /\ Goto(c, label)
    /\ want' = [want EXCEPT ![c] = 0] /\ left' = [left EXCEPT ![c] = 0]
    /\ port' = [port EXCEPT ![c] = 0]

(* NewProxy: listen on the port found, or on one of the system's choice.    *)
(* It may fail whether the port is free or not.                             *)
NewProxy(c) ==
    /\ pc[c] = "listen"
    /\ \/ \E p \in (IF port[c] = 0 THEN OsPorts ELSE {port[c]}) :
            /\ holder[p] = Free
            /\ Goto(c, "up")
            /\ Hold(p, c)
            /\ port' = [port EXCEPT ![c] = p]
            /\ UNCHANGED <<want, left>>
       \/ /\ Forget(c, "failed")
          /\ busy' = [busy EXCEPT ![c] = {}]
          /\ UNCHANGED holder
    /\ UNCHANGED <<perm, queue>>

(* Proxy.Close, by RemoveProxy or Manager.Close. *)
CloseProxy(c) ==
    /\ pc[c] = "up"
    /\ Forget(c, "idle")
    /\ Hold(port[c], Free)
    /\ UNCHANGED <<perm, queue>>

(* Another process of the host takes a port or gives it up. *)
OtherTakes ==
    /\ UNCHANGED <<perm, queue, pc, want, left, port>>
    /\ \E p \in Foreign : holder[p] = Free /\ Hold(p, Other)

OtherFrees ==
    /\ UNCHANGED <<perm, queue, pc, want, left, port>>
    /\ \E p \in Foreign : holder[p] = Other /\ Hold(p, Free)
-----------------------------------------------------------------------------
RandInts  == Permute \/ Yield
Search(c) == Draw(c) \/ Probe(c) \/ ProbeClose(c) \/ NewProxy(c)

Next ==
    \/ RandInts \/ OtherTakes \/ OtherFrees
    \/ \E c \in Callers : Register(c) \/ Search(c) \/ CloseProxy(c)

Spec == Init /\ [][Next]_vars

(* Receivers of a channel are served in turn: a caller that keeps finding   *)
(* randPool empty gets a value in the end.                                  *)
Fairness == WF_vars(RandInts) /\ \A c \in Callers : SF_vars(Search(c))

FairSpec == Spec /\ Fairness
-----------------------------------------------------------------------------
TypeOK ==
    /\ perm \in Seq(Start .. End - 1) /\ queue \in Seq(Start .. End - 1)
    /\ Len(queue) <= ChanCap
    /\ holder \in [PortSet -> Callers \cup {Free, Other}]
    /\ pc \in [Callers -> Labels] /\ want \in [Callers -> Asked \cup {0}]
    /\ left \in [Callers -> Nat] /\ port \in [Callers -> PortSet \cup {0}]
    /\ busy \in [Callers -> SUBSET PortSet]

(* No listener leaks: a caller holds a port only while it probes it or has  *)
(* its proxy on it, and never a second one, whichever way the search went.  *)
NoListenerLeft ==
    \A c \in Callers, p \in PortSet :
        holder[p] = c <=> pc[c] \in {"probing", "up"} /\ p = port[c]

(* A request for a port that may be given gets that port, unless somebody   *)
(* else held it at some time since the request came, be it only the probe   *)
(* of another manager, or the system refused it to the probe.               *)
RequestKept ==
    \A c \in Callers :
        pc[c] = "up" /\ FirstChoice(want[c]) > 0 /\ port[c] # want[c] =>
            want[c] \in busy[c]

(* With forceRange a proxy gets a port outside the range, the one that the  *)
(* system picks when the search ends with 0, only after a port that randInts *)
(* yields was in use or refused: whatever port the request names, the last   *)
(* of the range or one outside it, the search draws before it gives up.      *)
RangeLeftOnlyIfBusy ==
    \A c \in Callers :
        ForceRange /\ pc[c] = "up" /\ ~InRange(port[c]) =>
            busy[c] \cap (Start .. End - 1) # {}

(* Every request is answered: the search never waits for ever on randPool,  *)
(* however the callers share it.                                            *)
SearchEnds == \A c \in Callers : pc[c] \in {"first", "draw"} ~> pc[c] \in {"up", "failed"}
=============================================================================
