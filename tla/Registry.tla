------------------------------ MODULE Registry ------------------------------
(***************************************************************************)
(* Server.managers (server/server.go): how logins that run concurrently    *)
(* choose a client id and enter the map, how managers that have ended      *)
(* leave it, and how the HTTP handlers read the map without the mutex.     *)
(*                                                                         *)
(* RandStr8Base62 (util/uid.go) builds the id in one buffer that all       *)
(* goroutines share and copies it in a second step: what a login reads may *)
(* be what another one wrote.  Ids are numbered in the order in which they *)
(* are drawn: that two draws out of 62^8 coincide by chance is left out.   *)
(* A client here is one login; a client that logs in again is another one. *)
(***************************************************************************)
EXTENDS AeroDefs, FiniteSets

CONSTANTS
    Clients,   (* logins                                                    *)
    MaxIds,    (* bound: ids that RandStr8Base62 draws                      *)
    DoneCap    (* capacity of Server.mgrDone, 1 in the code                 *)

ASSUME RegistryAssumption ==
    /\ DoneCap \in Nat \ {0} /\ MaxIds \in Nat
    /\ None \notin Clients \cup Nat

VARIABLES
    managers,  (* Server.managers                                           *)
    buf,       (* util.buf8: the id drawn last                              *)
    login,     (* per login: where HandleStream is                          *)
    key,       (* per login: the id genId has read, then Manager.ClientId   *)
    run,       (* per login: Manager.Run                                    *)
    mgrDone,   (* Server.mgrDone                                            *)
    crash      (* the server was ended by the Go runtime                    *)

vars == <<managers, buf, login, key, run, mgrDone, crash>>

Ids == 1 .. MaxIds

LoginLabels == {"idle", "fill", "copy", "check", "spawn", "insert", "respond", "in", "refused"}
RunLabels   == {"unborn", "running", "ended", "told"}

Init ==
    /\ managers = [i \in Ids |-> None]
    /\ buf = 0
    /\ login = [c \in Clients |-> "idle"] /\ key = [c \in Clients |-> None]
    /\ run = [c \in Clients |-> "unborn"] /\ mgrDone = <<>>
    /\ crash = FALSE

Step(c, from, to) ==
    /\ ~crash /\ login[c] = from
    /\ login' = [login EXCEPT ![c] = to]

(* HandleStream gets a LoginRequest; CheckLogin accepts or refuses it. *)
CheckLogin(c) ==
    /\ Step(c, "idle", "fill") \/ Step(c, "idle", "refused")
    /\ UNCHANGED <<managers, buf, key, run, mgrDone, crash>>

(* RandStr8Base62: fill the shared buffer, then copy it. *)
RandFill(c) ==
    /\ Step(c, "fill", "copy")
    /\ buf < MaxIds /\ buf' = buf + 1
    /\ UNCHANGED <<managers, key, run, mgrDone, crash>>

RandCopy(c) ==
    /\ Step(c, "copy", "check")
    /\ key' = [key EXCEPT ![c] = buf]
    /\ UNCHANGED <<managers, buf, run, mgrDone, crash>>

(* genId: the id is tested under the read lock and used after it. *)
GenId(c) ==
    /\ \/ Step(c, "check", "spawn") /\ managers[key[c]] = None
       \/ Step(c, "check", "fill") /\ managers[key[c]] # None
    /\ UNCHANGED <<managers, buf, key, run, mgrDone, crash>>

(* RegisterManager: Run is started before the manager is in the map. *)
SpawnRun(c) ==
    /\ Step(c, "spawn", "insert")
    /\ run' = [run EXCEPT ![c] = "running"]
    /\ UNCHANGED <<managers, buf, key, mgrDone, crash>>

Insert(c) ==
    /\ Step(c, "insert", "respond")
    /\ managers' = [managers EXCEPT ![key[c]] = c]
    /\ UNCHANGED <<buf, key, run, mgrDone, crash>>

Respond(c) ==
    /\ Step(c, "respond", "in")
    /\ UNCHANGED <<managers, buf, key, run, mgrDone, crash>>

(* The client goes away: Run ends (module Manager), and its deferred notice *)
(* waits for room in mgrDone.                                               *)
RunEnd(c) ==
    /\ ~crash /\ run[c] = "running"
    /\ run' = [run EXCEPT ![c] = "ended"]
    /\ UNCHANGED <<managers, buf, login, key, mgrDone, crash>>

(* Mutant: the notice is not deferred, it is sent when Run starts. *)
RunNotify_NotDeferred(c) ==
    /\ ~crash /\ run[c] = "running" /\ Len(mgrDone) < DoneCap
    /\ mgrDone' = Append(mgrDone, c)
    /\ UNCHANGED <<managers, buf, login, key, run, crash>>

(* Mutant: mgrDone is taken for unbounded. *)
RunNotify_Unbounded(c) ==
    /\ ~crash /\ run[c] = "ended"
    /\ mgrDone' = Append(mgrDone, c)
    /\ run' = [run EXCEPT ![c] = "told"]
    /\ UNCHANGED <<managers, buf, login, key, crash>>

(* Mutant: the notice is dropped when the channel is full. *)
RunNotify_DropIfFull(c) ==
    /\ ~crash /\ run[c] = "ended"
    /\ mgrDone' = IF Len(mgrDone) < DoneCap THEN Append(mgrDone, c) ELSE mgrDone
    /\ run' = [run EXCEPT ![c] = "told"]
    /\ UNCHANGED <<managers, buf, login, key, crash>>

RunNotify(c) ==
    /\ ~crash /\ run[c] = "ended" /\ Len(mgrDone) < DoneCap
    /\ mgrDone' = Append(mgrDone, c)
    /\ run' = [run EXCEPT ![c] = "told"]
    /\ UNCHANGED <<managers, buf, login, key, crash>>

(* awaitManagerDone: delete by id, whoever has that id now. *)
AwaitManagerDone ==
    /\ ~crash /\ mgrDone # <<>>
    /\ mgrDone' = Tail(mgrDone)
    /\ managers' = [managers EXCEPT ![key[Head(mgrDone)]] = None]
    /\ UNCHANGED <<buf, login, key, run, crash>>

(***************************************************************************)
(* The HTTP handlers (/list, /ping, and selectPort for the mux) read the   *)
(* map without the mutex, at any time; the Go runtime ends the server when *)
(* it notices that a goroutine writes it meanwhile.                        *)
(***************************************************************************)
MapFault ==
    /\ ~crash
    /\ mgrDone # <<>> \/ \E c \in Clients : login[c] = "insert"
    /\ crash' = TRUE
    /\ UNCHANGED <<managers, buf, login, key, run, mgrDone>>
-----------------------------------------------------------------------------
HandleLogin(c) ==
    \/ RandFill(c) \/ RandCopy(c) \/ GenId(c)
    \/ SpawnRun(c) \/ Insert(c) \/ Respond(c)

Next ==
    \/ \E c \in Clients :
         CheckLogin(c) \/ HandleLogin(c) \/ RunEnd(c) \/ RunNotify(c)
    \/ AwaitManagerDone \/ MapFault

Spec == Init /\ [][Next]_vars

(* Goroutines run; clients and HTTP requests owe nothing. *)
Fairness ==
    /\ WF_vars(AwaitManagerDone)
    /\ \A c \in Clients : WF_vars(HandleLogin(c)) /\ SF_vars(RunNotify(c))

FairSpec == Spec /\ Fairness
-----------------------------------------------------------------------------
TypeOK ==
    /\ managers \in [Ids -> Clients \cup {None}] /\ buf \in 0 .. MaxIds
    /\ login \in [Clients -> LoginLabels] /\ key \in [Clients -> Ids \cup {None}]
    /\ run \in [Clients -> RunLabels]
    /\ mgrDone \in Seq(Clients) /\ Len(mgrDone) <= DoneCap
    /\ crash \in BOOLEAN

HasId(c) == login[c] \in {"spawn", "insert", "respond", "in"}

(* No two logins ever got the same id. *)
NoCollision ==
    \A c, d \in Clients : c # d /\ HasId(c) /\ HasId(d) => key[c] # key[d]

(* Without a collision, a client that was told its id can be found by it as *)
(* long as its Run has not ended, whatever other logins and disconnections  *)
(* go on.                                                                   *)
LiveFound ==
    NoCollision =>
        \A c \in Clients : login[c] \in {"respond", "in"} /\ run[c] = "running" =>
            managers[key[c]] = c

(* A manager that was put into the map leaves it for good when its Run has  *)
(* ended, however many end at once, however small mgrDone is, and whatever  *)
(* other login has drawn its id.  (One whose Run ends before it is put into *)
(* the map may stay there.)                                                 *)
LeavesForGood ==
    \A c \in Clients : (login[c] \in {"respond", "in"} /\ run[c] = "ended") ~>
        (crash \/ [](\A i \in Ids : managers[i] # c))

(* README.md:75, "the Client IDs assigned by the server do not repeat": two *)
(* clients that are logged in have different ids.                           *)
UniqueIds ==
    \A c, d \in Clients : c # d /\ login[c] = "in" /\ login[d] = "in"
        /\ run[c] = "running" /\ run[d] = "running" => key[c] # key[d]
=============================================================================
