------------------------------- MODULE Manager -------------------------------
(***************************************************************************)
(* One server-side Manager (server/manager.go), from the login that        *)
(* creates it to its removal from Server.managers, with every goroutine    *)
(* that touches it:                                                        *)
(*   reg   HandleStream/RegisterManager, the goroutine of the login        *)
(*   run   Manager.Run           recv  Manager.awaitReceive                *)
(*   send  Manager.awaitSend     srv   Server.awaitManagerDone             *)
(* and Callers, the goroutines that send through the manager from outside  *)
(* (Ping of the HTTP API, PopPipeConn of a user connection).               *)
(*                                                                         *)
(* A step is what Go makes atomic: one channel operation, one critical     *)
(* section, one read of the closed flag, one read or write of the stream.  *)
(* A panic that the goroutine recovers ends the call that raised it; one   *)
(* that it does not recover ends the server and is recorded in crash.      *)
(***************************************************************************)
EXTENDS AeroDefs, FiniteSets

CONSTANTS
    Names,      (* names a client gives its proxies                         *)
    Ports,      (* TCP ports the server can listen on                       *)
    Callers,    (* goroutines that call SendMassage from outside            *)
    Requested,  (* LoginRequest.PoolSize                                    *)
    MaxPool,    (* MaxPoolSize, 8 in the code                               *)
    ChanCap,    (* capacity of sendChan and of recvChan, 10 in the code     *)
    NetCap,     (* messages the stream holds per direction (flow control)   *)
    MaxMsgs     (* bound: messages the client sends on its own account      *)

ASSUME ManagerAssumption ==
    /\ Requested \in Int
    /\ MaxPool \in Nat \ {0} /\ ChanCap \in Nat \ {0} /\ NetCap \in Nat \ {0}
    /\ MaxMsgs \in Nat
    /\ None \notin Names \cup Ports \cup Messages(Names)

VARIABLES
    pc,          (* where each goroutine of the manager is                  *)
    callerPc,    (* where each caller is in SendMassage                     *)
    closed,      (* Manager.closed                                          *)
    connOpen,    (* Manager.conn, the control stream: not closed locally    *)
    peer,        (* the client at the other end of the stream               *)
    inbox,       (* written by the client, not yet read                     *)
    outbox,      (* written by the server, not yet read by the client       *)
    sendBuf, sendClosed,   (* Manager.sendChan                              *)
    recvBuf, recvClosed,   (* Manager.recvChan                              *)
    poolClosed,  (* Manager.pipeConnPool has been closed                    *)
    proxies,     (* Manager.Proxies: name to the port of its proxy          *)
    listening,   (* ports with an open listener of this manager             *)
    work,        (* run: the request in hand, then the response to send     *)
    port,        (* run: the port of the proxy being opened or closed       *)
    fills,       (* run: the loop counter of the initial pipe requests      *)
    held,        (* send: the message taken from sendChan                   *)
    got,         (* recv: the message read from the stream                  *)
    registered,  (* the manager is in Server.managers                       *)
    notice,      (* the manager is in the channel Server.mgrDone            *)
    crash,       (* the panic that ended the server, if any                 *)
    wanted,      (* client: names it has asked to enable and not disabled   *)
    sent         (* client: messages sent on its own account                *)

connVars  == <<connOpen, peer, inbox, outbox>>
chanVars  == <<sendBuf, sendClosed, recvBuf, recvClosed, poolClosed>>
proxyVars == <<proxies, listening, port>>
localVars == <<work, fills, held, got>>
srvVars   == <<registered, notice, crash>>
envVars   == <<wanted, sent>>
vars == <<pc, callerPc, closed, connVars, chanVars, proxyVars, localVars,
          srvVars, envVars>>

PoolSize == PoolSizeOf(Requested, MaxPool)

Msg == Messages(Names)

Goroutines  == {"reg", "run", "recv", "send", "srv"}
Closers     == {"recv", "srv"}
CloseLabels == {"isClosed", "set", "conn", "closeSend", "closeRecv",
                "closePool", "lock", "delete"}
RegLabels   == {"spawn", "insert", "respond", "done"}
RunLabels   == {"unborn", "start", "fill", "fillPut", "get", "register",
                "insert", "remove", "unlisten", "list", "listing", "reply",
                "replyPut", "notify", "done"}
RecvLabels  == {"unborn", "entry", "read", "check", "put", "done"}
SendLabels  == {"unborn", "take", "write", "done"}
Labels      == RegLabels \cup RunLabels \cup RecvLabels \cup SendLabels
                   \cup CloseLabels \cup {"idle"}
Panics      == {"close of closed channel", "concurrent map access"}

(* Goroutine t has come to label; in a server that crashed none is anywhere. *)
At(t, label) == crash = "none" /\ pc[t] = label

Goto(t, label) == pc' = [pc EXCEPT ![t] = label]

Init ==
    /\ pc = [t \in Goroutines |->
                IF t = "reg" THEN "spawn" ELSE IF t = "srv" THEN "idle" ELSE "unborn"]
    /\ callerPc = [c \in Callers |-> "idle"]
    /\ closed = FALSE
    /\ connOpen = TRUE /\ peer = "login" /\ inbox = <<>> /\ outbox = <<>>
    /\ sendBuf = <<>> /\ sendClosed = FALSE
    /\ recvBuf = <<>> /\ recvClosed = FALSE
    /\ poolClosed = FALSE
    /\ proxies = [n \in Names |-> None] /\ listening = {} /\ port = None
    /\ work = None /\ fills = 0 /\ held = None /\ got = None
    /\ registered = FALSE /\ notice = FALSE /\ crash = "none"
    /\ wanted = {} /\ sent = 0

(***************************************************************************)
(* The control stream.  A write to a stream whose peer is gone may still   *)
(* be accepted, or fail; a read may still yield what had arrived, or fail. *)
(***************************************************************************)
PeerLive == peer \in {"login", "up"}

StreamAccepts(m) ==
    /\ connOpen
    /\ IF PeerLive
       THEN Len(outbox) < NetCap /\ outbox' = Append(outbox, m)
       ELSE UNCHANGED outbox
    /\ UNCHANGED <<connOpen, peer, inbox>>

StreamRefuses ==
    /\ ~connOpen \/ ~PeerLive
    /\ UNCHANGED connVars

(* Mutant: the send is taken for one on an unbounded queue. *)
ChanSend_Unbounded(m) ==
    \/ ~sendClosed /\ sendBuf' = Append(sendBuf, m)
    \/ sendClosed /\ UNCHANGED sendBuf

(***************************************************************************)
(* SendMassage after its IsClosed test: the blocking send on sendChan.     *)
(* Sending on the closed channel panics, the deferred recover swallows the *)
(* panic, and the call returns a nil error although nothing was sent.      *)
(***************************************************************************)
ChanSend(m) ==
    \/ ~sendClosed /\ Len(sendBuf) < ChanCap /\ sendBuf' = Append(sendBuf, m)
    \/ sendClosed /\ UNCHANGED sendBuf

(***************************************************************************)
(* Server.HandleStream, LoginRequest case, and RegisterManager: Run is     *)
(* started first, the manager enters Server.managers after it, and the     *)
(* LoginResponse is written to the stream last, past sendChan.             *)
(***************************************************************************)
RegSpawn ==
    /\ At("reg", "spawn")
    /\ pc' = [pc EXCEPT !["reg"] = "insert", !["run"] = "start"]
    /\ UNCHANGED <<callerPc, closed, connVars, chanVars, proxyVars, localVars, srvVars, envVars>>

RegInsert ==
    /\ At("reg", "insert")
    /\ registered' = TRUE
    /\ Goto("reg", "respond")
    /\ UNCHANGED <<callerPc, closed, connVars, chanVars, proxyVars, localVars, notice, crash, envVars>>

RegRespond ==
    /\ At("reg", "respond")
    /\ StreamAccepts(LoginResponse) \/ StreamRefuses
    /\ Goto("reg", "done")
    /\ UNCHANGED <<callerPc, closed, chanVars, proxyVars, localVars, srvVars, envVars>>

(***************************************************************************)
(* Manager.Run: start the two stream goroutines, ask for PoolSize pipes    *)
(* (a failed request is only logged), then serve recvChan.                 *)
(***************************************************************************)
RunStart ==
    /\ At("run", "start")
    /\ pc' = [pc EXCEPT !["run"] = "fill", !["recv"] = "entry", !["send"] = "take"]
    /\ UNCHANGED <<callerPc, closed, connVars, chanVars, proxyVars, localVars, srvVars, envVars>>

RunFill ==
    /\ At("run", "fill")
    /\ \/ fills >= PoolSize /\ Goto("run", "get") /\ UNCHANGED fills
       \/ fills < PoolSize /\ closed /\ fills' = fills + 1 /\ UNCHANGED pc
       \/ fills < PoolSize /\ ~closed /\ Goto("run", "fillPut") /\ UNCHANGED fills
    /\ UNCHANGED <<callerPc, closed, connVars, chanVars, proxyVars, work, held, got, srvVars, envVars>>

RunFillPut ==
    /\ At("run", "fillPut")
    /\ ChanSend(Plain("PipeRequest"))
    /\ fills' = fills + 1
    /\ Goto("run", "fill")
    /\ UNCHANGED <<callerPc, closed, connVars, sendClosed, recvBuf, recvClosed, poolClosed,
                   proxyVars, work, held, got, srvVars, envVars>>

(* The type switch of Run: what a message becomes, and where Run goes. *)
RunDispatch(m) ==
    \/ /\ m.type = "HeartbeatRequest"
       /\ work' = Plain("HeartbeatResponse")
       /\ Goto("run", "reply")
    \/ /\ m.type = "ProxyRequest"
       /\ work' = m
       /\ Goto("run", IF m.flag THEN "register" ELSE "remove")
    \/ /\ m.type \notin {"HeartbeatRequest", "ProxyRequest"}
       /\ work' = None
       /\ Goto("run", "get")

(* A closed channel still delivers what it holds; then Run returns. *)
RunGet ==
    /\ At("run", "get")
    /\ \/ /\ recvBuf # <<>>
          /\ recvBuf' = Tail(recvBuf)
          /\ RunDispatch(Head(recvBuf))
       \/ /\ recvBuf = <<>> /\ recvClosed
          /\ Goto("run", "notify")
          /\ UNCHANGED <<recvBuf, work>>
    /\ UNCHANGED <<callerPc, closed, connVars, sendBuf, sendClosed, recvClosed, poolClosed,
                   proxyVars, fills, held, got, srvVars, envVars>>

(***************************************************************************)
(* RegisterProxy: FindAvailablePort probes a port and NewProxy listens on  *)
(* it; another process may take the port in between, so listening can fail *)
(* whatever was probed.  The proxy enters the map in a second step.        *)
(***************************************************************************)
RunRegister ==
    /\ At("run", "register")
    /\ \/ \E p \in Ports \ listening :
            /\ listening' = listening \cup {p}
            /\ port' = p
            /\ Goto("run", "insert")
            /\ UNCHANGED work
       \/ /\ work' = ProxyResponse(None, FALSE)
          /\ Goto("run", "list")
          /\ UNCHANGED <<listening, port>>
    /\ UNCHANGED <<callerPc, closed, connVars, chanVars, proxies, fills, held, got, srvVars, envVars>>

(* Manager.mutex is held while Close empties the map, and nowhere for longer. *)
MutexFree == \A t \in Closers : pc[t] # "delete"

RunInsert ==
    /\ At("run", "insert")
    /\ MutexFree
    /\ proxies' = [proxies EXCEPT ![work.name] = port]
    /\ port' = None
    /\ work' = ProxyResponse(work.name, TRUE)
    /\ Goto("run", "list")
    /\ UNCHANGED <<callerPc, closed, connVars, chanVars, listening, fills, held, got, srvVars, envVars>>

(* Mutant: RemoveProxy forgets the delete. *)
RunRemove_NoDelete ==
    /\ At("run", "remove")
    /\ MutexFree
    /\ port' = proxies[work.name]
    /\ Goto("run", IF proxies[work.name] = None THEN "list" ELSE "unlisten")
    /\ work' = None
    /\ UNCHANGED <<callerPc, closed, connVars, chanVars, proxies, listening, fills, held, got, srvVars, envVars>>

(* Mutant: RemoveProxy forgets proxy.Close(). *)
RunUnlisten_NoClose ==
    /\ At("run", "unlisten")
    /\ port' = None
    /\ Goto("run", "list")
    /\ UNCHANGED <<callerPc, closed, connVars, chanVars, proxies, listening, localVars, srvVars, envVars>>

(* RemoveProxy: leave the map under the mutex, close the listener after it. *)
RunRemove ==
    /\ At("run", "remove")
    /\ MutexFree
    /\ port' = proxies[work.name]
    /\ proxies' = [proxies EXCEPT ![work.name] = None]
    /\ Goto("run", IF proxies[work.name] = None THEN "list" ELSE "unlisten")
    /\ work' = None
    /\ UNCHANGED <<callerPc, closed, connVars, chanVars, listening, fills, held, got, srvVars, envVars>>

RunUnlisten ==
    /\ At("run", "unlisten")
    /\ listening' = listening \ {port}
    /\ port' = None
    /\ Goto("run", "list")
    /\ UNCHANGED <<callerPc, closed, connVars, chanVars, proxies, localVars, srvVars, envVars>>

(* Mutant: SendMassage also fails when sendChan is full. *)
RunReply_FailIfFull ==
    /\ At("run", "reply")
    /\ Goto("run", IF closed \/ Len(sendBuf) = ChanCap THEN "notify" ELSE "replyPut")
    /\ UNCHANGED <<callerPc, closed, connVars, chanVars, proxyVars, localVars, srvVars, envVars>>

(* ListProxies ranges over the map without the mutex: it begins and ends. *)
RunList ==
    /\ At("run", "list") \/ At("run", "listing")
    /\ Goto("run", IF pc["run"] = "list" THEN "listing"
                   ELSE IF work = None THEN "get" ELSE "reply")
    /\ UNCHANGED <<callerPc, closed, connVars, chanVars, proxyVars, localVars, srvVars, envVars>>

RunReply ==
    /\ At("run", "reply")
    /\ Goto("run", IF closed THEN "notify" ELSE "replyPut")
    /\ UNCHANGED <<callerPc, closed, connVars, chanVars, proxyVars, localVars, srvVars, envVars>>

RunReplyPut ==
    /\ At("run", "replyPut")
    /\ ChanSend(work)
    /\ work' = None
    /\ Goto("run", "get")
    /\ UNCHANGED <<callerPc, closed, connVars, sendClosed, recvBuf, recvClosed, poolClosed,
                   proxyVars, fills, held, got, srvVars, envVars>>

RunNotify ==
    /\ At("run", "notify")
    /\ ~notice
    /\ notice' = TRUE
    /\ Goto("run", "done")
    /\ UNCHANGED <<callerPc, closed, connVars, chanVars, proxyVars, localVars, registered, crash, envVars>>

(***************************************************************************)
(* Manager.awaitReceive: the only goroutine that reads the stream, and the *)
(* one that closes the manager when reading fails.                         *)
(***************************************************************************)
RecvEntry ==
    /\ At("recv", "entry")
    /\ Goto("recv", IF closed THEN "done" ELSE "read")
    /\ UNCHANGED <<callerPc, closed, connVars, chanVars, proxyVars, localVars, srvVars, envVars>>

RecvRead ==
    /\ At("recv", "read")
    /\ \/ /\ connOpen /\ inbox # <<>>
          /\ got' = Head(inbox) /\ inbox' = Tail(inbox)
          /\ Goto("recv", "check")
       \/ /\ ~connOpen \/ ~PeerLive
          /\ Goto("recv", "isClosed")
          /\ UNCHANGED <<got, inbox>>
    /\ UNCHANGED <<callerPc, closed, connOpen, peer, outbox, chanVars, proxyVars,
                   work, fills, held, srvVars, envVars>>

RecvCheck ==
    /\ At("recv", "check")
    /\ Goto("recv", IF closed THEN "done" ELSE "put")
    /\ UNCHANGED <<callerPc, closed, connVars, chanVars, proxyVars, localVars, srvVars, envVars>>

RecvPut ==
    /\ At("recv", "put")
    /\ \/ /\ ~recvClosed /\ Len(recvBuf) < ChanCap
          /\ recvBuf' = Append(recvBuf, got)
          /\ Goto("recv", "read")
       \/ /\ recvClosed
          /\ Goto("recv", "done")
          /\ UNCHANGED recvBuf
    /\ got' = None
    /\ UNCHANGED <<callerPc, closed, connVars, sendBuf, sendClosed, recvClosed, poolClosed,
                   proxyVars, work, fills, held, srvVars, envVars>>

(* Manager.awaitSend: a failed write ends it; it does not close the manager. *)
SendTake ==
    /\ At("send", "take")
    /\ \/ /\ sendBuf # <<>>
          /\ held' = Head(sendBuf) /\ sendBuf' = Tail(sendBuf)
          /\ Goto("send", "write")
       \/ /\ sendBuf = <<>> /\ sendClosed
          /\ Goto("send", "done")
          /\ UNCHANGED <<held, sendBuf>>
    /\ UNCHANGED <<callerPc, closed, connVars, sendClosed, recvBuf, recvClosed, poolClosed,
                   proxyVars, work, fills, got, srvVars, envVars>>

SendWrite ==
    /\ At("send", "write")
    /\ \/ StreamAccepts(held) /\ Goto("send", "take")
       \/ StreamRefuses /\ Goto("send", "done")
    /\ held' = None
    /\ UNCHANGED <<callerPc, closed, chanVars, proxyVars, work, fills, got, srvVars, envVars>>

(***************************************************************************)
(* Manager.Close, called by awaitReceive and by awaitManagerDone.  The     *)
(* test of the flag and its assignment are two critical sections.          *)
(***************************************************************************)
Return(t) == IF t = "recv" THEN "done" ELSE "idle"

(* Mutant: Close does not test the flag. *)
CloseIsClosed_NoTest(t) ==
    /\ At(t, "isClosed")
    /\ Goto(t, "set")
    /\ UNCHANGED <<callerPc, closed, connVars, chanVars, proxyVars, localVars, srvVars, envVars>>

(* A panic in Close: awaitReceive recovers, awaitManagerDone does not. *)
ClosePanics(t) ==
    /\ crash' = IF t = "srv" THEN "close of closed channel" ELSE crash
    /\ Goto(t, Return(t))

CloseIsClosed(t) ==
    /\ At(t, "isClosed")
    /\ Goto(t, IF closed THEN Return(t) ELSE "set")
    /\ UNCHANGED <<callerPc, closed, connVars, chanVars, proxyVars, localVars, srvVars, envVars>>

CloseSet(t) ==
    /\ At(t, "set")
    /\ closed' = TRUE
    /\ Goto(t, "conn")
    /\ UNCHANGED <<callerPc, connVars, chanVars, proxyVars, localVars, srvVars, envVars>>

CloseConn(t) ==
    /\ At(t, "conn")
    /\ connOpen' = FALSE
    /\ Goto(t, "closeSend")
    /\ UNCHANGED <<callerPc, closed, peer, inbox, outbox, chanVars, proxyVars, localVars, srvVars, envVars>>

(* Mutant: Close leaves recvChan open. *)
CloseRecv_Forgotten(t) ==
    /\ At(t, "closeRecv")
    /\ Goto(t, "closePool")
    /\ UNCHANGED <<callerPc, closed, connVars, chanVars, proxyVars, localVars, srvVars, envVars>>

CloseSend(t) ==
    /\ At(t, "closeSend")
    /\ IF sendClosed THEN ClosePanics(t) ELSE Goto(t, "closeRecv") /\ UNCHANGED crash
    /\ sendClosed' = TRUE
    /\ UNCHANGED <<callerPc, closed, connVars, sendBuf, recvBuf, recvClosed, poolClosed,
                   proxyVars, localVars, registered, notice, envVars>>

CloseRecv(t) ==
    /\ At(t, "closeRecv")
    /\ IF recvClosed THEN ClosePanics(t) ELSE Goto(t, "closePool") /\ UNCHANGED crash
    /\ recvClosed' = TRUE
    /\ UNCHANGED <<callerPc, closed, connVars, sendBuf, sendClosed, recvBuf, poolClosed,
                   proxyVars, localVars, registered, notice, envVars>>

ClosePool(t) ==
    /\ At(t, "closePool")
    /\ IF poolClosed THEN ClosePanics(t) ELSE Goto(t, "lock") /\ UNCHANGED crash
    /\ poolClosed' = TRUE
    /\ UNCHANGED <<callerPc, closed, connVars, sendBuf, sendClosed, recvBuf, recvClosed,
                   proxyVars, localVars, registered, notice, envVars>>

CloseLock(t) ==
    /\ At(t, "lock")
    /\ MutexFree
    /\ Goto(t, "delete")
    /\ UNCHANGED <<callerPc, closed, connVars, chanVars, proxyVars, localVars, srvVars, envVars>>

(* With the mutex held: close every proxy of the map and empty the map, one *)
(* step for whoever respects the mutex.                                     *)
CloseDelete(t) ==
    /\ At(t, "delete")
    /\ listening' = listening \ {proxies[n] : n \in Names}
    /\ proxies' = [n \in Names |-> None]
    /\ Goto(t, Return(t))
    /\ UNCHANGED <<callerPc, closed, connVars, chanVars, port, localVars, srvVars, envVars>>

Close(t) ==
    \/ CloseIsClosed(t) \/ CloseSet(t) \/ CloseConn(t) \/ CloseSend(t)
    \/ CloseRecv(t) \/ ClosePool(t) \/ CloseLock(t) \/ CloseDelete(t)

(* A goroutine is about to write Manager.Proxies: RegisterProxy puts a name  *)
(* in, RemoveProxy and Close delete what is there.                           *)
WritesMap ==
    \/ At("run", "insert") /\ MutexFree
    \/ At("run", "remove") /\ MutexFree /\ proxies[work.name] # None
    \/ ~MutexFree /\ \E n \in Names : proxies[n] # None

(***************************************************************************)
(* The Go runtime ends the process when it notices that one goroutine      *)
(* reads a map that another one writes.  No reader takes the mutex:        *)
(* ListProxies ranges over the map in Run itself, selectPort of the mux    *)
(* looks a name up, and Info, for /list of the HTTP API, ranges over it;   *)
(* the last two may hold a manager that has left Server.managers since     *)
(* they found it there.                                                    *)
(***************************************************************************)
MapRace ==
    /\ crash = "none"
    /\ WritesMap
    /\ pc["run"] = "listing" \/ pc["reg"] \in {"respond", "done"}
    /\ crash' = "concurrent map access"
    /\ UNCHANGED <<pc, callerPc, closed, connVars, chanVars, proxyVars, localVars,
                   registered, notice, envVars>>

(* Server.awaitManagerDone: remove the manager from the map, then Close it. *)
SrvRemove ==
    /\ At("srv", "idle")
    /\ notice
    /\ notice' = FALSE
    /\ registered' = FALSE
    /\ Goto("srv", "isClosed")
    /\ UNCHANGED <<callerPc, closed, connVars, chanVars, proxyVars, localVars, crash, envVars>>

(***************************************************************************)
(* SendMassage on behalf of Ping, whose caller found the manager in        *)
(* Server.managers, or of a user connection that a listener accepted.      *)
(***************************************************************************)
CallerCheck(c) ==
    /\ crash = "none" /\ callerPc[c] = "idle"
    /\ registered \/ listening # {}
    /\ callerPc' = [callerPc EXCEPT ![c] = IF closed THEN "failed" ELSE "put"]
    /\ UNCHANGED <<pc, closed, connVars, chanVars, proxyVars, localVars, srvVars, envVars>>

CallerPut(c) ==
    /\ crash = "none" /\ callerPc[c] = "put"
    /\ \E t \in {"HeartbeatRequest", "PipeRequest"} : ChanSend(Plain(t))
    /\ callerPc' = [callerPc EXCEPT ![c] = "returned"]
    /\ UNCHANGED <<pc, closed, connVars, sendClosed, recvBuf, recvClosed, poolClosed,
                   proxyVars, localVars, srvVars, envVars>>

(***************************************************************************)
(* The client, as client.Login and Agent.Run use the stream; besides, it   *)
(* may disable a name, a request that Run serves and this client never     *)
(* makes.                                                                  *)
(***************************************************************************)
(* Login takes the first message for the answer, and gives up on another. *)
ClientLogin ==
    /\ peer = "login" /\ outbox # <<>>
    /\ peer' = IF Head(outbox).type = "LoginResponse" THEN "up" ELSE "misled"
    /\ outbox' = Tail(outbox)
    /\ UNCHANGED <<pc, callerPc, closed, connOpen, inbox, chanVars, proxyVars, localVars, srvVars, envVars>>

(* A heartbeat request is answered; other messages cause none in return. *)
ClientRead ==
    /\ peer = "up" /\ outbox # <<>>
    /\ outbox' = Tail(outbox)
    /\ IF Head(outbox).type = "HeartbeatRequest"
       THEN Len(inbox) < NetCap /\ inbox' = Append(inbox, Plain("HeartbeatResponse"))
       ELSE UNCHANGED inbox
    /\ UNCHANGED <<pc, callerPc, closed, connOpen, peer, chanVars, proxyVars, localVars, srvVars, envVars>>

(* A heartbeat, or the switch of a name: names are distinct, so that one is  *)
(* enabled only while it is off and disabled only while it is on.            *)
ClientSend ==
    /\ peer = "up" /\ sent < MaxMsgs /\ Len(inbox) < NetCap
    /\ \/ /\ inbox' = Append(inbox, Plain("HeartbeatRequest"))
          /\ UNCHANGED wanted
       \/ \E n \in Names \ wanted :
            /\ inbox' = Append(inbox, ProxyRequest(n, TRUE))
            /\ wanted' = wanted \cup {n}
       \/ \E n \in wanted :
            /\ inbox' = Append(inbox, ProxyRequest(n, FALSE))
            /\ wanted' = wanted \ {n}
    /\ sent' = sent + 1
    /\ UNCHANGED <<pc, callerPc, closed, connOpen, peer, outbox, chanVars, proxyVars, localVars, srvVars>>

(* The connection breaks, or the client gives up, at any time. *)
ClientGone ==
    /\ PeerLive
    /\ peer' = "gone"
    /\ UNCHANGED <<pc, callerPc, closed, connOpen, inbox, outbox, chanVars, proxyVars, localVars, srvVars, envVars>>

-----------------------------------------------------------------------------
Reg    == RegSpawn \/ RegInsert \/ RegRespond
Run    == \/ RunStart \/ RunFill \/ RunFillPut \/ RunGet \/ RunRegister \/ RunInsert
          \/ RunRemove \/ RunUnlisten \/ RunList \/ RunReply \/ RunReplyPut \/ RunNotify
Recv   == RecvEntry \/ RecvRead \/ RecvCheck \/ RecvPut \/ Close("recv")
Send   == SendTake \/ SendWrite
Srv    == SrvRemove \/ Close("srv")
Caller == \E c \in Callers : CallerCheck(c) \/ CallerPut(c)
Client == crash = "none" /\ (ClientLogin \/ ClientRead \/ ClientSend \/ ClientGone)

Next == Reg \/ Run \/ Recv \/ Send \/ Srv \/ Caller \/ MapRace \/ Client

Spec == Init /\ [][Next]_vars

(* Every goroutine that can take a step eventually does; the client need not. *)
Fairness ==
    /\ WF_vars(Reg) /\ WF_vars(Run) /\ WF_vars(Recv) /\ WF_vars(Send) /\ WF_vars(Srv)
    /\ \A c \in Callers : WF_vars(CallerCheck(c) \/ CallerPut(c))

FairSpec == Spec /\ Fairness
-----------------------------------------------------------------------------
PcOK ==
    /\ pc \in [Goroutines -> Labels]
    /\ pc["reg"] \in RegLabels /\ pc["run"] \in RunLabels
    /\ pc["recv"] \in RecvLabels \cup CloseLabels
    /\ pc["send"] \in SendLabels
    /\ pc["srv"] \in {"idle"} \cup CloseLabels
    /\ callerPc \in [Callers -> {"idle", "put", "returned", "failed"}]

FlagsOK ==
    /\ closed \in BOOLEAN /\ connOpen \in BOOLEAN
    /\ sendClosed \in BOOLEAN /\ recvClosed \in BOOLEAN /\ poolClosed \in BOOLEAN
    /\ registered \in BOOLEAN /\ notice \in BOOLEAN
    /\ peer \in {"login", "up", "gone", "misled"}
    /\ crash \in Panics \cup {"none"}

QueuesOK ==
    /\ inbox \in Seq(Msg) /\ Len(inbox) <= NetCap
    /\ outbox \in Seq(Msg) /\ Len(outbox) <= NetCap
    /\ sendBuf \in Seq(Msg) /\ Len(sendBuf) <= ChanCap
    /\ recvBuf \in Seq(Msg) /\ Len(recvBuf) <= ChanCap

LocalsOK ==
    /\ proxies \in [Names -> Ports \cup {None}]
    /\ listening \subseteq Ports /\ port \in Ports \cup {None}
    /\ work \in Msg \cup {None} /\ held \in Msg \cup {None} /\ got \in Msg \cup {None}
    /\ fills \in 0 .. PoolSize
    /\ wanted \subseteq Names /\ sent \in 0 .. MaxMsgs

(* The bounds in it are real: no channel, and no direction of the stream,   *)
(* holds more than its capacity.                                            *)
TypeOK == PcOK /\ FlagsOK /\ QueuesOK /\ LocalsOK

(* Close is called by two goroutines and its guard is a test followed by a  *)
(* separate assignment; still no channel is ever closed twice, so           *)
(* awaitManagerDone, which recovers nothing, never panics.                  *)
NoDoubleClose == crash # "close of closed channel"

(* A manager leaves Server.managers only after it has been closed: a client *)
(* whose stream still works is never taken out of the registry.             *)
RemovedOnlyIfClosed == [][registered /\ ~registered' => closed]_vars

(* While the manager is open, every listener it opened is reachable through *)
(* Manager.Proxies or is the one Run is just opening or closing: the only   *)
(* way to lose track of a port is to close the manager around Run.          *)
ListenersOwned ==
    ~closed => \A p \in listening : p = port \/ \E n \in Names : proxies[n] = p

(* Manager.Proxies never advertises a port nobody listens on, nor the same  *)
(* port for two names, at any step of registering, removing and closing in  *)
(* which the mutex is free (Close, with the mutex, closes a listener before *)
(* it deletes the entry; module Mux has the unlocked readers).              *)
ProxiesListen ==
    \A n \in Names : proxies[n] # None =>
        /\ proxies[n] \in listening
        /\ \A k \in Names \ {n} : proxies[k] # proxies[n]

(* All goroutines of the manager have ended and the server was told.        *)
Reaped ==
    /\ closed /\ pc["recv"] = "done" /\ pc["send"] = "done" /\ pc["run"] = "done"
    /\ ~notice /\ pc["srv"] = "idle"
    /\ \A c \in Callers : callerPc[c] # "put"

(* The deadlock of a client that vanished with a backlog: awaitSend has left *)
(* on a failed write, so that Run waits for room in sendChan, and            *)
(* awaitReceive, which alone would close the manager, for room in recvChan.  *)
Backlogged ==
    /\ ~closed /\ pc["send"] = "done"
    /\ pc["run"] \in {"fillPut", "replyPut"} /\ Len(sendBuf) = ChanCap
    /\ pc["recv"] = "put" /\ Len(recvBuf) = ChanCap

(* When the client is gone, the manager is closed, every goroutine blocked  *)
(* on one of its channels is released and ends, and the server handles its  *)
(* notice; a crash of the server and the one deadlock of Backlogged are the *)
(* only other ends, whatever else Run, the callers and the two loops of the *)
(* stream are doing when the client goes.                                   *)
ReapedUnlessBacklogged == ~PeerLive ~> (Reaped \/ Backlogged \/ crash # "none")

(* What manager.go:260 relies on when it leaves the heartbeat out: a client *)
(* that is gone is noticed, the manager is closed and its goroutines end    *)
(* (unless the server itself has crashed).                                  *)
GoneIsReaped == ~PeerLive ~> (Reaped \/ crash # "none")

(* client.go:138, Login takes the first message of the control stream for   *)
(* the LoginResponse: the server writes no other message before it.         *)
LoginAnsweredFirst == peer # "misled"
=============================================================================
