-------------------------------- MODULE Mux --------------------------------
(***************************************************************************)
(* The HTTP mux (server/mux.go): a request names a tag, or the id of one   *)
(* client, and the name of a proxy; selectPort reads Server.managers and   *)
(* the proxy maps of the managers without any mutex, picks a port, and the *)
(* handler sends the request there, while logins, registrations, removals  *)
(* and Manager.Close change both maps and ports pass from one client to    *)
(* the next.  One proxy name is enough: requests for others are            *)
(* independent.                                                            *)
(*                                                                         *)
(* The HTTP client behind proxy.Do keeps connections: one that answered a  *)
(* request may serve a later one for the same port, and it leads to the    *)
(* proxy that accepted it, which closing the listener does not touch.      *)
(*                                                                         *)
(* A worker is one login of a client; ids are taken for distinct here (see *)
(* Registry).  That the Go runtime may end the server on an unlocked read  *)
(* is Registry!MapFault, for Server.managers, and Manager!MapRace, for     *)
(* Manager.Proxies: then every request ends with the server, in a state    *)
(* that this module has.                                                   *)
(***************************************************************************)
EXTENDS Naturals, Sequences, FiniteSets, SequencesExt

CONSTANTS
    Workers,   (* managers                                                  *)
    Tagged,    (* those whose Manager.Tag is the tag that requests name     *)
    Ports,     (* TCP ports of the server                                   *)
    Requests,  (* HTTP requests in the mux at once, each followed by others *)
    Tag,       (* a request by tag; a request by id is for a worker         *)
    None

ASSUME MuxAssumption ==
    /\ Tagged \subseteq Workers /\ Tag \notin Workers
    /\ None \notin Workers \cup Ports
    /\ {"404", "refused", "failed"} \cap (Workers \cup {None}) = {}

VARIABLES
    managers,  (* Server.managers                                           *)
    step,      (* per worker: where Run is in registering its proxy         *)
    closing,   (* per worker: where Manager.Close is                        *)
    port,      (* per worker: the port of the proxy in hand                 *)
    proxies,   (* per worker: Manager.Proxies at the name in question       *)
    listener,  (* per port: the worker whose listener is on it              *)
    pc,        (* per request: where the handler is                         *)
    want,      (* per request: the tag or the id it names                   *)
    found,     (* per request: what is left of what filterManagers returned *)
    avail,     (* per request: the ports read from their proxy maps         *)
    from,      (* per request: the worker whose port was selected           *)
    selected,  (* per request: the port                                     *)
    result,    (* per request: who answered it                              *)
    conn,      (* per request: the worker that its connection leads to      *)
    reused,    (* per request: the connection was made for an earlier one   *)
    idle,      (* per port and worker: connections the HTTP client keeps    *)
    steady,    (* per request: workers that served from when it came on     *)
    stale      (* per request: workers it read that no longer serve         *)

mgrVars  == <<managers, step, closing, port, proxies, listener>>
connVars == <<conn, reused, idle>>
reqVars  == <<pc, want, found, avail, from, selected, result, connVars>>
vars == <<mgrVars, reqVars, steady, stale>>

Init ==
    /\ managers = {} /\ step = [w \in Workers |-> "out"]
    /\ closing = [w \in Workers |-> "open"] /\ port = [w \in Workers |-> None]
    /\ proxies = [w \in Workers |-> None] /\ listener = [p \in Ports |-> None]
    /\ pc = [r \in Requests |-> "idle"] /\ want = [r \in Requests |-> Tag]
    /\ found = [r \in Requests |-> <<>>] /\ avail = [r \in Requests |-> <<>>]
    /\ from = [r \in Requests |-> None]
    /\ selected = [r \in Requests |-> None] /\ result = [r \in Requests |-> None]
    /\ conn = [r \in Requests |-> None] /\ reused = [r \in Requests |-> FALSE]
    /\ idle = [p \in Ports |-> [w \in Workers |-> 0]]
    /\ steady = [r \in Requests |-> {}] /\ stale = [r \in Requests |-> {}]

-----------------------------------------------------------------------------
(* RegisterManager puts the manager into the map. *)
Login(w) ==
    /\ step[w] = "out"
    /\ step' = [step EXCEPT ![w] = "idle"]
    /\ managers' = managers \cup {w}
    /\ UNCHANGED <<closing, port, proxies, listener, reqVars>>

(* RegisterProxy: listen on a free port, then enter the map.  A manager that *)
(* is being closed still serves the requests it has received.                *)
Open(w) ==
    /\ step[w] = "idle" /\ proxies[w] = None
    /\ \E p \in Ports :
         /\ listener[p] = None
         /\ listener' = [listener EXCEPT ![p] = w]
         /\ port' = [port EXCEPT ![w] = p]
    /\ step' = [step EXCEPT ![w] = "opening"]
    /\ UNCHANGED <<managers, closing, proxies, reqVars>>

(* Manager.mutex is held by Close from the first listener to the last delete. *)
MutexFree(w) == closing[w] # "listeners"

Publish(w) ==
    /\ step[w] = "opening" /\ MutexFree(w)
    /\ proxies' = [proxies EXCEPT ![w] = port[w]]
    /\ port' = [port EXCEPT ![w] = None]
    /\ step' = [step EXCEPT ![w] = "idle"]
    /\ UNCHANGED <<managers, closing, listener, reqVars>>

(* RemoveProxy: out of the map under the mutex, then the listener. *)
RemoveProxy(w) ==
    /\ step[w] = "idle" /\ proxies[w] # None /\ MutexFree(w)
    /\ proxies' = [proxies EXCEPT ![w] = None]
    /\ port' = [port EXCEPT ![w] = proxies[w]]
    /\ step' = [step EXCEPT ![w] = "removing"]
    /\ UNCHANGED <<managers, closing, listener, reqVars>>

Unlisten(w) ==
    /\ step[w] = "removing"
    /\ listener' = IF listener[port[w]] = w THEN [listener EXCEPT ![port[w]] = None] ELSE listener
    /\ port' = [port EXCEPT ![w] = None]
    /\ step' = [step EXCEPT ![w] = "idle"]
    /\ UNCHANGED <<managers, closing, proxies, reqVars>>

(* Manager.Close: the flag; with the mutex held, the listener before the map. *)
CloseFlag(w) ==
    /\ step[w] # "out" /\ closing[w] = "open"
    /\ closing' = [closing EXCEPT ![w] = "flag"]
    /\ UNCHANGED <<managers, step, port, proxies, listener, reqVars>>

CloseListener(w) ==
    /\ closing[w] = "flag"
    /\ closing' = [closing EXCEPT ![w] = "listeners"]
    /\ listener' = IF proxies[w] = None THEN listener ELSE [listener EXCEPT ![proxies[w]] = None]
    /\ UNCHANGED <<managers, step, port, proxies, reqVars>>

CloseDelete(w) ==
    /\ closing[w] = "listeners"
    /\ closing' = [closing EXCEPT ![w] = "closed"]
    /\ proxies' = [proxies EXCEPT ![w] = None]
    /\ UNCHANGED <<managers, step, port, listener, reqVars>>

(* awaitManagerDone, at any time after the flag. *)
ManagerDone(w) ==
    /\ w \in managers /\ closing[w] # "open"
    /\ managers' = managers \ {w}
    /\ UNCHANGED <<step, closing, port, proxies, listener, reqVars>>
-----------------------------------------------------------------------------
Goto(r, label) == pc' = [pc EXCEPT ![r] = label]

Matches(w, t) == IF t = Tag THEN w \in Tagged ELSE w = t

(* MuxServer's handler: tag and name from the path or the host. *)
Request(r) ==
    /\ pc[r] \in {"idle", "done"}
    /\ \E t \in Workers \cup {Tag} : want' = [want EXCEPT ![r] = t]
    /\ Goto(r, "filter")
    /\ from' = [from EXCEPT ![r] = None] /\ selected' = [selected EXCEPT ![r] = None]
    /\ result' = [result EXCEPT ![r] = None] /\ reused' = [reused EXCEPT ![r] = FALSE]
    /\ UNCHANGED <<mgrVars, found, avail, conn, idle>>

(* Mutant: the tag of a manager is not compared. *)
FilterManagers_AnyTag(r) ==
    /\ pc[r] = "filter"
    /\ \E order \in SetToSeqs(managers) : found' = [found EXCEPT ![r] = order]
    /\ Goto(r, "read")
    /\ UNCHANGED <<mgrVars, want, avail, from, selected, result, connVars>>

(* Mutant: the first match ends the loop. *)
FilterManagers_First(r) ==
    /\ pc[r] = "filter"
    /\ \E order \in SetToSeqs({w \in managers : Matches(w, want[r])}) :
         found' = [found EXCEPT ![r] = SubSeq(order, 1, IF order = <<>> THEN 0 ELSE 1)]
    /\ Goto(r, "read")
    /\ UNCHANGED <<mgrVars, want, avail, from, selected, result, connVars>>

(* Mutant: managers that were appended before are appended again. *)
FilterManagers_Twice(r) ==
    /\ pc[r] = "filter"
    /\ \E order \in SetToSeqs({w \in managers : Matches(w, want[r])}) :
         found' = [found EXCEPT ![r] = order \o order]
    /\ Goto(r, "read")
    /\ UNCHANGED <<mgrVars, want, avail, from, selected, result, connVars>>

(* filterManagers, or the lookup by id: Go iterates a map in any order. *)
FilterManagers(r) ==
    /\ pc[r] = "filter"
    /\ \E order \in SetToSeqs({w \in managers : Matches(w, want[r])}) :
         found' = [found EXCEPT ![r] = order]
    /\ Goto(r, "read")
    /\ UNCHANGED <<mgrVars, want, avail, from, selected, result, connVars>>

(* selectPort looks up the name in one manager after the other. *)
ReadProxy(r) ==
    /\ pc[r] = "read" /\ found[r] # <<>>
    /\ found' = [found EXCEPT ![r] = Tail(@)]
    /\ LET w == Head(found[r]) IN
       avail' = IF proxies[w] = None THEN avail
                ELSE [avail EXCEPT ![r] = Append(@, [worker |-> w, port |-> proxies[w]])]
    /\ UNCHANGED <<mgrVars, pc, want, from, selected, result, connVars>>

(* GetRobin never stores the balancer that it makes: it starts at 0. *)
GetRobin == [current |-> 0]

(* RoundRobin.update: the entry at current, once it is reduced to the pool. *)
Update(robin, pool) == pool[(robin.current % Len(pool)) + 1]

(* The balancer picks one of the ports; without any, the answer is 404. *)
SelectPort(r) ==
    /\ pc[r] = "read" /\ found[r] = <<>>
    /\ \/ /\ avail[r] = <<>>
          /\ result' = [result EXCEPT ![r] = "404"]
          /\ Goto(r, "done")
          /\ UNCHANGED <<from, selected>>
       \/ /\ avail[r] # <<>>
          /\ LET choice == Update(GetRobin, avail[r]) IN
             /\ from' = [from EXCEPT ![r] = choice.worker]
             /\ selected' = [selected EXCEPT ![r] = choice.port]
          /\ Goto(r, "dial")
          /\ UNCHANGED result
    /\ avail' = [avail EXCEPT ![r] = <<>>]
    /\ UNCHANGED <<mgrVars, want, found, connVars>>

(* The workers to which the HTTP client has kept a connection over port p. *)
Kept(p) == {w \in Workers : idle[p][w] > 0}

(* proxy.Do takes a connection to the port that the client has kept, or     *)
(* else makes one, to whoever listens on the port by now.                   *)
Dial(r) ==
    /\ pc[r] = "dial"
    /\ \/ \E w \in Kept(selected[r]) :
            /\ idle' = [idle EXCEPT ![selected[r]][w] = @ - 1]
            /\ conn' = [conn EXCEPT ![r] = w] /\ reused' = [reused EXCEPT ![r] = TRUE]
            /\ Goto(r, "sent")
            /\ UNCHANGED result
       \/ /\ Kept(selected[r]) = {} /\ listener[selected[r]] # None
          /\ conn' = [conn EXCEPT ![r] = listener[selected[r]]]
          /\ reused' = [reused EXCEPT ![r] = FALSE]
          /\ Goto(r, "sent")
          /\ UNCHANGED <<idle, result>>
       \/ /\ Kept(selected[r]) = {} /\ listener[selected[r]] = None
          /\ result' = [result EXCEPT ![r] = "refused"]
          /\ Goto(r, "done")
          /\ UNCHANGED connVars
    /\ UNCHANGED <<mgrVars, want, found, avail, from, selected>>

(* The worker at the other end answers, and the connection is kept or not. *)
Answer(r) ==
    /\ pc[r] = "sent"
    /\ result' = [result EXCEPT ![r] = conn[r]]
    /\ conn' = [conn EXCEPT ![r] = None]
    /\ idle' \in {idle, [idle EXCEPT ![selected[r]][conn[r]] = @ + 1]}
    /\ Goto(r, "done")
    /\ UNCHANGED <<mgrVars, want, found, avail, from, selected, reused>>

(* The connection ends before an answer: proxy.Do tries again, or fails. *)
Break(r) ==
    /\ pc[r] = "sent"
    /\ conn' = [conn EXCEPT ![r] = None]
    /\ \/ /\ Goto(r, "dial")
          /\ UNCHANGED result
       \/ /\ result' = [result EXCEPT ![r] = "failed"]
          /\ Goto(r, "done")
    /\ UNCHANGED <<mgrVars, want, found, avail, from, selected, reused, idle>>

(* Proxy.handle gets no pipe for a new connection and returns without       *)
(* closing it: the request waits for ever.                                  *)
NoPipe(r) ==
    /\ pc[r] = "sent" /\ ~reused[r]
    /\ Goto(r, "hung")
    /\ UNCHANGED <<mgrVars, want, found, avail, from, selected, result, connVars>>

(* A connection that was kept is closed by its other end, or is too old. *)
DropIdle ==
    /\ \E p \in Ports : \E w \in Kept(p) : idle' = [idle EXCEPT ![p][w] = @ - 1]
    /\ UNCHANGED <<mgrVars, pc, want, found, avail, from, selected, result, conn, reused>>
-----------------------------------------------------------------------------
(* Workers whose manager and proxy are in the maps and whose listener is open. *)
Serving ==
    {w \in managers : proxies[w] # None /\ closing[w] = "open" /\ listener[proxies[w]] = w}

(* The workers whose entry in Manager.Proxies r relies on. *)
Read(r) == {avail[r][i].worker : i \in DOMAIN avail[r]} \cup ({from[r]} \ {None})

(* History: until a port is selected, the workers that have served without  *)
(* a break since r came; and until r is answered, the workers that r relies *)
(* on and that have stopped serving since r read their entry.               *)
Watch ==
    /\ steady' = [r \in Requests |->
                    IF pc[r] \in {"filter", "read"} THEN steady[r] \cap Serving'
                    ELSE IF pc'[r] = "filter" THEN Serving' ELSE {}]
    /\ stale' = [r \in Requests |->
                    IF pc'[r] = "filter" THEN {}
                    ELSE IF pc[r] = "done" THEN stale[r]
                    ELSE stale[r] \cup (Read(r)' \ Serving')]

Manage(w) ==
    \/ Login(w) \/ Open(w) \/ Publish(w) \/ RemoveProxy(w) \/ Unlisten(w)
    \/ CloseFlag(w) \/ CloseListener(w) \/ CloseDelete(w) \/ ManagerDone(w)

Serve(r) ==
    \/ FilterManagers(r) \/ ReadProxy(r) \/ SelectPort(r)
    \/ Dial(r) \/ Answer(r) \/ Break(r) \/ NoPipe(r)

Next ==
    /\ \/ \E w \in Workers : Manage(w)
       \/ \E r \in Requests : Request(r) \/ Serve(r)
       \/ DropIdle
    /\ Watch

Spec == Init /\ [][Next]_vars
-----------------------------------------------------------------------------
TypeOK ==
    /\ managers \subseteq Workers
    /\ step \in [Workers -> {"out", "idle", "opening", "removing"}]
    /\ closing \in [Workers -> {"open", "flag", "listeners", "closed"}]
    /\ port \in [Workers -> Ports \cup {None}] /\ proxies \in [Workers -> Ports \cup {None}]
    /\ listener \in [Ports -> Workers \cup {None}]
    /\ pc \in [Requests -> {"idle", "filter", "read", "dial", "sent", "hung", "done"}]
    /\ want \in [Requests -> Workers \cup {Tag}]
    /\ found \in [Requests -> Seq(Workers)] /\ \A r \in Requests : IsInjective(found[r])
    /\ avail \in [Requests -> Seq([worker : Workers, port : Ports])]
    /\ from \in [Requests -> Workers \cup {None}]
    /\ selected \in [Requests -> Ports \cup {None}]
    /\ result \in [Requests -> Workers \cup {None, "404", "refused", "failed"}]
    /\ conn \in [Requests -> Workers \cup {None}] /\ reused \in [Requests -> BOOLEAN]
    /\ idle \in [Ports -> [Workers -> Nat]]
    /\ steady \in [Requests -> SUBSET Workers] /\ stale \in [Requests -> SUBSET Workers]

(* A request is turned away with 404 only if no worker that it could have   *)
(* gone to served throughout: the unlocked, two-step reading of the maps    *)
(* never overlooks a worker that was there all the time.                    *)
NoFalse404 ==
    \A r \in Requests : result[r] = "404" =>
        ~ \E w \in steady[r] : Matches(w, want[r])

(* The worker selected for a request is one that it named.  As long as this *)
(* worker has not stopped serving since its entry was read, no connection   *)
(* is refused, a connection made for the request leads to it, and another   *)
(* worker answers only over a connection that was kept from an earlier      *)
(* request for the port.                                                    *)
Routed ==
    \A r \in Requests : from[r] # None =>
        /\ Matches(from[r], want[r])
        /\ \/ from[r] \in stale[r]
           \/ /\ result[r] # "refused"
              /\ \/ reused[r]
                 \/ conn[r] \in {None, from[r]} /\ result[r] \in {None, from[r], "failed"}
=============================================================================
