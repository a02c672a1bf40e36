------------------------------ MODULE PipePool ------------------------------
(***************************************************************************)
(* The pipes of one client: how a user connection accepted by a proxy of   *)
(* the server (server/proxy.go, handle) gets a pipe from the pool of the   *)
(* manager (PushPipeConn, PopPipeConn), how the client opens pipes on      *)
(* request (client/agent.go, awaitWork; client/client.go, NewPipeConn),    *)
(* and how both ends use and close a pipe.  Module Manager has the control *)
(* channel in detail; here it is the number of requests under way.         *)
(*                                                                         *)
(* The pipes and the control stream are streams of one yamux session.  The *)
(* control stream can end alone: Agent.Close closes it, and the client     *)
(* never closes a session it has given up.                                 *)
(***************************************************************************)
EXTENDS AeroDefs, FiniteSets, SequencesExt

CONSTANTS
    Users,      (* connections accepted by the proxies of the manager       *)
    Pipes,      (* streams the client may open; one is reused once closed   *)
    Requested,  (* LoginRequest.PoolSize                                    *)
    MaxPool,    (* MaxPoolSize                                              *)
    AskCap      (* PipeRequests that fit between SendMassage and Agent.Run  *)

(* A server accepts a finite number of connections; yamux numbers streams   *)
(* with 32 bits.                                                            *)
ASSUME PipePoolAssumption ==
    /\ IsFiniteSet(Users) /\ IsFiniteSet(Pipes)
    /\ Requested \in Int /\ MaxPool \in Nat \ {0} /\ AskCap \in Nat \ {0}
    /\ None \notin Users \cup Pipes
    /\ Users \cap {"out", "free"} = {}

VARIABLES
    link,       (* the yamux session: TRUE while it is up                   *)
    control,    (* the control stream: TRUE while it is up                  *)
    closed,     (* Manager.closed                                           *)
    pool, poolClosed,  (* Manager.pipeConnPool                              *)
    listening,  (* the listeners of the proxies are open                    *)
    registered, (* the manager is in Server.managers                        *)
    asked,      (* PipeRequests on their way to the client                  *)
    fills,      (* initial requests made by Manager.Run                     *)
    user,       (* per user connection: where proxy.handle is               *)
    tries,      (* per user connection: the loop counter of proxy.handle    *)
    using,      (* per user connection: the pipe it has popped              *)
    opened,     (* user connections the server has not closed               *)
    stream,     (* per pipe: where Server.HandleStream is                   *)
    srvOpen,    (* pipes whose server end is not closed                     *)
    work,       (* per pipe: where Agent.awaitWork is                       *)
    cliOpen,    (* pipes whose client end is not closed                     *)
    job,        (* per pipe: the user named by its ConnRequest              *)
    started,    (* client: Proxy.Started                                    *)
    late        (* pipes HandleStream gave up on after its 5 seconds        *)

mgrVars  == <<link, control, closed, poolClosed, listening, registered>>
userVars == <<user, tries, using, opened>>
pipeVars == <<stream, srvOpen, work, cliOpen, job>>
vars == <<mgrVars, pool, asked, fills, userVars, pipeVars, started, late>>

PoolSize == PoolSizeOf(Requested, MaxPool)
PoolCap  == 2 * PoolSize

UserLabels   == {"idle", "ask", "put", "wait", "send", "join", "done"}
StreamLabels == {"none", "lookup", "check", "push", "done"}
WorkLabels   == {"none", "get", "serve", "join", "done"}

Init ==
    /\ link = TRUE /\ control = TRUE /\ listening = TRUE /\ registered = TRUE
    /\ closed = FALSE /\ poolClosed = FALSE /\ pool = <<>>
    /\ asked = 0 /\ fills = 0
    /\ user = [u \in Users |-> "idle"] /\ tries = [u \in Users |-> 0]
    /\ using = [u \in Users |-> None] /\ opened = {}
    /\ stream = [p \in Pipes |-> "none"] /\ srvOpen = {}
    /\ work = [p \in Pipes |-> "none"] /\ cliOpen = {}
    /\ job = [p \in Pipes |-> None]
    /\ started = FALSE /\ late = 0

(***************************************************************************)
(* ReqPipeConn past its IsClosed test.  Once the control stream has ended  *)
(* the request goes nowhere, and neither caller looks at the error.        *)
(***************************************************************************)
ReqPipeConn ==
    \/ control /\ asked < AskCap /\ asked' = asked + 1
    \/ ~control /\ UNCHANGED asked

(* Mutant: the loop of Run runs once too often. *)
Fill_OneMore ==
    /\ fills <= PoolSize
    /\ ReqPipeConn
    /\ fills' = fills + 1
    /\ UNCHANGED <<mgrVars, pool, userVars, pipeVars, started, late>>

(* Manager.Run asks for PoolSize pipes before anything else. *)
Fill ==
    /\ fills < PoolSize
    /\ ReqPipeConn
    /\ fills' = fills + 1
    /\ UNCHANGED <<mgrVars, pool, userVars, pipeVars, started, late>>

-----------------------------------------------------------------------------
(* Proxy.Run accepts a connection and starts handle. *)
Accept(u) ==
    /\ user[u] = "idle" /\ listening
    /\ user' = [user EXCEPT ![u] = "ask"]
    /\ opened' = opened \cup {u}
    /\ UNCHANGED <<mgrVars, pool, asked, fills, tries, using, pipeVars, started, late>>

(* PopPipeConn: the test of SendMassage, the request, and the select. *)
PopCheck(u) ==
    /\ user[u] = "ask"
    /\ user' = [user EXCEPT ![u] = IF closed THEN "wait" ELSE "put"]
    /\ UNCHANGED <<mgrVars, pool, asked, fills, tries, using, opened, pipeVars, started, late>>

PopRequest(u) ==
    /\ user[u] = "put"
    /\ ReqPipeConn
    /\ user' = [user EXCEPT ![u] = "wait"]
    /\ UNCHANGED <<mgrVars, pool, fills, tries, using, opened, pipeVars, started, late>>

(* Mutant: the pipe is looked at, not taken. *)
PopTake_Peek(u) ==
    /\ user[u] = "wait" /\ pool # <<>>
    /\ using' = [using EXCEPT ![u] = Head(pool)]
    /\ user' = [user EXCEPT ![u] = "send"]
    /\ UNCHANGED <<mgrVars, pool, asked, fills, tries, opened, pipeVars, started, late>>

PopTake(u) ==
    /\ user[u] = "wait" /\ pool # <<>>
    /\ using' = [using EXCEPT ![u] = Head(pool)]
    /\ pool' = Tail(pool)
    /\ user' = [user EXCEPT ![u] = "send"]
    /\ UNCHANGED <<mgrVars, asked, fills, tries, opened, pipeVars, started, late>>

(* The pool is closed and empty, or 5 seconds are over: handle returns, and *)
(* nothing closes the user connection.                                      *)
PopFail(u) ==
    /\ user[u] = "wait"
    /\ poolClosed => pool = <<>>
    /\ user' = [user EXCEPT ![u] = "done"]
    /\ UNCHANGED <<mgrVars, pool, asked, fills, tries, using, opened, pipeVars, started, late>>

(* The ConnRequest is written; without a session it may be lost. *)
SendWork(u) ==
    /\ user[u] = "send"
    /\ user' = [user EXCEPT ![u] = "join"]
    /\ job' = IF link THEN [job EXCEPT ![using[u]] = u] ELSE job
    /\ UNCHANGED <<mgrVars, pool, asked, fills, tries, using, opened,
                   stream, srvOpen, work, cliOpen, started, late>>

(* Mutant: a pipe whose write failed goes back to the pool. *)
SendWorkFail_Repool(u) ==
    /\ user[u] = "send" /\ ~link
    /\ pool' = Append(pool, using[u])
    /\ using' = [using EXCEPT ![u] = None]
    /\ tries' = [tries EXCEPT ![u] = @ + 1]
    /\ user' = [user EXCEPT ![u] = IF tries[u] + 1 < 3 THEN "ask" ELSE "done"]
    /\ UNCHANGED <<mgrVars, asked, fills, opened, pipeVars, started, late>>

(* The write fails: close the pipe and try another, three times in all. *)
SendWorkFail(u) ==
    /\ user[u] = "send" /\ ~link
    /\ srvOpen' = srvOpen \ {using[u]}
    /\ using' = [using EXCEPT ![u] = None]
    /\ tries' = [tries EXCEPT ![u] = @ + 1]
    /\ user' = [user EXCEPT ![u] = IF tries[u] + 1 < 3 THEN "ask" ELSE "done"]
    /\ UNCHANGED <<mgrVars, pool, asked, fills, opened, stream, work, cliOpen, job, started, late>>

(* pipe.Join: when either side ends, both connections are closed. *)
JoinEnd(u) ==
    /\ user[u] = "join"
    /\ srvOpen' = srvOpen \ {using[u]}
    /\ opened' = opened \ {u}
    /\ using' = [using EXCEPT ![u] = None]
    /\ user' = [user EXCEPT ![u] = "done"]
    /\ UNCHANGED <<mgrVars, pool, asked, fills, tries, stream, work, cliOpen, job, started, late>>

-----------------------------------------------------------------------------
(* A stream identity that both ends have closed, or that was never used. *)
Fresh(p) == stream[p] \in {"none", "done"} /\ work[p] \in {"none", "done"}
                /\ p \notin srvOpen \cup cliOpen

(* Agent.Run starts awaitWork for a request, and NewPipeConn opens a stream; *)
(* a request that was received may do so after the control stream has ended. *)
AgentPipe(p) ==
    /\ asked > 0 /\ link /\ Fresh(p)
    /\ asked' = asked - 1
    /\ stream' = [stream EXCEPT ![p] = "lookup"]
    /\ work' = [work EXCEPT ![p] = "get"]
    /\ job' = [job EXCEPT ![p] = None]
    /\ srvOpen' = srvOpen \cup {p} /\ cliOpen' = cliOpen \cup {p}
    /\ UNCHANGED <<mgrVars, pool, fills, userVars, started, late>>

(* Close of the server end of p by HandleStream, which then returns. *)
Refuse(p) ==
    /\ srvOpen' = srvOpen \ {p}
    /\ stream' = [stream EXCEPT ![p] = "done"]
    /\ UNCHANGED <<mgrVars, pool, asked, fills, userVars, work, cliOpen, job, started>>

HandleLookup(p) ==
    /\ stream[p] = "lookup"
    /\ \/ /\ registered
          /\ stream' = [stream EXCEPT ![p] = "check"]
          /\ UNCHANGED <<mgrVars, pool, asked, fills, userVars, srvOpen, work, cliOpen, job, started, late>>
       \/ ~registered /\ Refuse(p) /\ UNCHANGED late

(* The first message of the stream fails to arrive, or takes 5 seconds. *)
HandleGiveUp(p) ==
    /\ stream[p] = "lookup"
    /\ Refuse(p)
    /\ late' = IF link THEN late + 1 ELSE late

HandleCheck(p) ==
    /\ stream[p] = "check"
    /\ \/ closed /\ Refuse(p) /\ UNCHANGED late
       \/ /\ ~closed
          /\ stream' = [stream EXCEPT ![p] = "push"]
          /\ UNCHANGED <<mgrVars, pool, asked, fills, userVars, srvOpen, work, cliOpen, job, started, late>>

(* Mutant: a pool that holds PoolSize pipes counts as full. *)
HandlePush_HalfPool(p) ==
    /\ stream[p] = "push"
    /\ \/ /\ ~poolClosed /\ Len(pool) < PoolSize
          /\ pool' = Append(pool, p)
          /\ stream' = [stream EXCEPT ![p] = "done"]
          /\ UNCHANGED <<mgrVars, asked, fills, userVars, srvOpen, work, cliOpen, job, started, late>>
       \/ ~poolClosed /\ Len(pool) >= PoolSize /\ Refuse(p) /\ UNCHANGED late
       \/ /\ poolClosed
          /\ stream' = [stream EXCEPT ![p] = "done"]
          /\ UNCHANGED <<mgrVars, pool, asked, fills, userVars, srvOpen, work, cliOpen, job, started, late>>

(* Mutant: the caller ignores that the pool was full. *)
HandlePush_KeepIfFull(p) ==
    /\ stream[p] = "push"
    /\ stream' = [stream EXCEPT ![p] = "done"]
    /\ pool' = IF ~poolClosed /\ Len(pool) < PoolCap THEN Append(pool, p) ELSE pool
    /\ UNCHANGED <<mgrVars, asked, fills, userVars, srvOpen, work, cliOpen, job, started, late>>

(* PushPipeConn: pooled, refused because the pool is full, or, when Close   *)
(* closed the pool after the test, a recovered panic that reports success.  *)
HandlePush(p) ==
    /\ stream[p] = "push"
    /\ \/ /\ ~poolClosed /\ Len(pool) < PoolCap
          /\ pool' = Append(pool, p)
          /\ stream' = [stream EXCEPT ![p] = "done"]
          /\ UNCHANGED <<mgrVars, asked, fills, userVars, srvOpen, work, cliOpen, job, started, late>>
       \/ ~poolClosed /\ Len(pool) = PoolCap /\ Refuse(p) /\ UNCHANGED late
       \/ /\ poolClosed
          /\ stream' = [stream EXCEPT ![p] = "done"]
          /\ UNCHANGED <<mgrVars, pool, asked, fills, userVars, srvOpen, work, cliOpen, job, started, late>>
-----------------------------------------------------------------------------
(* The client end: awaitWork waits, without a deadline, for the ConnRequest. *)
WorkGet(p) ==
    /\ work[p] = "get" /\ job[p] # None
    /\ work' = [work EXCEPT ![p] = "serve"]
    /\ UNCHANGED <<mgrVars, pool, asked, fills, userVars, stream, srvOpen, cliOpen, job, started, late>>

(* A ConnRequest for a proxy that is not Started is dropped with its pipe;   *)
(* otherwise the target is dialled.                                          *)
WorkServe(p) ==
    /\ work[p] = "serve" /\ started
    /\ work' = [work EXCEPT ![p] = "join"]
    /\ UNCHANGED <<mgrVars, pool, asked, fills, userVars, stream, srvOpen, cliOpen, job, started, late>>

(* awaitWork returns and closes its end: the other end or the session is     *)
(* gone, the proxy is not started, the dial fails, or the transfer is over.  *)
WorkEnd(p) ==
    /\ \/ work[p] = "get" /\ (p \notin srvOpen \/ ~link)
       \/ work[p] \in {"serve", "join"}
    /\ work' = [work EXCEPT ![p] = "done"]
    /\ cliOpen' = cliOpen \ {p}
    /\ UNCHANGED <<mgrVars, pool, asked, fills, userVars, stream, srvOpen, job, started, late>>

(* Agent.Run receives the ProxyResponse of the proxy. *)
AgentStart ==
    /\ ~started
    /\ started' = TRUE
    /\ UNCHANGED <<mgrVars, pool, asked, fills, userVars, pipeVars, late>>
-----------------------------------------------------------------------------
(* The control stream ends (Agent.Close), alone or with the session. *)
ControlEnds ==
    /\ control
    /\ control' = FALSE
    /\ link' \in {link, FALSE}
    /\ UNCHANGED <<closed, poolClosed, listening, registered, pool, asked, fills,
                   userVars, pipeVars, started, late>>

SessionEnds ==
    /\ link
    /\ link' = FALSE /\ control' = FALSE
    /\ UNCHANGED <<closed, poolClosed, listening, registered, pool, asked, fills,
                   userVars, pipeVars, started, late>>

(* Manager.Close, as module Manager has it: the flag, the pool, the proxies; *)
(* awaitManagerDone removes the manager at any time after the flag.          *)
CloseFlag ==
    /\ ~control /\ ~closed
    /\ closed' = TRUE
    /\ UNCHANGED <<link, control, poolClosed, listening, registered, pool, asked, fills,
                   userVars, pipeVars, started, late>>

ClosePool ==
    /\ closed /\ ~poolClosed
    /\ poolClosed' = TRUE
    /\ UNCHANGED <<link, control, closed, listening, registered, pool, asked, fills,
                   userVars, pipeVars, started, late>>

CloseProxies ==
    /\ poolClosed /\ listening
    /\ listening' = FALSE
    /\ UNCHANGED <<link, control, closed, poolClosed, registered, pool, asked, fills,
                   userVars, pipeVars, started, late>>

SrvRemove ==
    /\ closed /\ registered
    /\ registered' = FALSE
    /\ UNCHANGED <<link, control, closed, poolClosed, listening, pool, asked, fills,
                   userVars, pipeVars, started, late>>
-----------------------------------------------------------------------------
Pop(u)    == PopCheck(u) \/ PopRequest(u) \/ PopTake(u) \/ PopFail(u)
Handle(u) == Pop(u) \/ SendWork(u) \/ SendWorkFail(u)
Stream(p) == HandleLookup(p) \/ HandleGiveUp(p) \/ HandleCheck(p) \/ HandlePush(p)
Work(p)   == WorkGet(p) \/ WorkServe(p) \/ WorkEnd(p)
Closing   == CloseFlag \/ ClosePool \/ CloseProxies \/ SrvRemove

Next ==
    \/ Fill \/ AgentStart \/ ControlEnds \/ SessionEnds \/ Closing
    \/ \E u \in Users : Accept(u) \/ Handle(u) \/ JoinEnd(u)
    \/ \E p \in Pipes : AgentPipe(p) \/ Stream(p) \/ Work(p)

Spec == Init /\ [][Next]_vars
-----------------------------------------------------------------------------
TypeOK ==
    /\ \A b \in {link, control, closed, poolClosed, listening, registered, started} : b \in BOOLEAN
    /\ pool \in Seq(Pipes) /\ Len(pool) <= PoolCap
    /\ asked \in 0 .. AskCap /\ fills \in 0 .. PoolSize /\ late \in Nat
    /\ user \in [Users -> UserLabels] /\ tries \in [Users -> 0 .. 3]
    /\ using \in [Users -> Pipes \cup {None}] /\ opened \subseteq Users
    /\ stream \in [Pipes -> StreamLabels] /\ srvOpen \subseteq Pipes
    /\ work \in [Pipes -> WorkLabels] /\ cliOpen \subseteq Pipes
    /\ job \in [Pipes -> Users \cup {None}]

Waiting == {u \in Users : user[u] = "wait"}
Coming  == {p \in Pipes : stream[p] \in {"lookup", "check", "push"}}

(* While a manager is open and no more users wait than its pool can hold,   *)
(* there is a pipe, pooled or on its way, for every user that waits in      *)
(* PopPipeConn: dropping a pipe because the pool is full starves nobody,    *)
(* and only a pipe that HandleStream gave up on leaves a user to time out.  *)
WaitersCovered ==
    control /\ Cardinality(Users) <= PoolCap =>
        Cardinality(Waiting) <= Len(pool) + Cardinality(Coming) + asked + late

(* A server end that is open is in exactly one place: on its way to the     *)
(* pool, in the pool, or with the user that popped it; the exception is a   *)
(* pipe whose push met the closed pool.                                     *)
PipesAccounted ==
    \A p \in srvOpen :
        \/ /\ p \in Coming /\ ~Contains(pool, p) /\ \A u \in Users : using[u] # p
        \/ /\ p \notin Coming /\ Contains(pool, p) /\ \A u \in Users : using[u] # p
        \/ /\ p \notin Coming /\ ~Contains(pool, p) /\ \E u \in Users : using[u] = p
        \/ poolClosed /\ p \notin Coming /\ ~Contains(pool, p) /\ \A u \in Users : using[u] # p

(* Traffic is not mixed up: the target connection that the client joined to *)
(* a pipe was opened for the very user whose connection the server joined   *)
(* to the other end.                                                        *)
PipesMatch ==
    \A p \in Pipes, u \in Users :
        work[p] = "join" /\ using[u] = p => job[p] = u

(* The holder of each pipe, for the promise of module PipeBroker. *)
Holder(p) ==
    IF Contains(pool, p) THEN "free"
    ELSE IF \E u \in Users : using[u] = p THEN CHOOSE u \in Users : using[u] = p
    ELSE "out"

Broker == INSTANCE PipeBroker WITH holder <- [p \in Pipes |-> Holder(p)]

(* The pool keeps PipeBroker's promise through retries, full pools, closing *)
(* and disconnection.                                                       *)
KeepsPromise == Broker!Spec
=============================================================================
