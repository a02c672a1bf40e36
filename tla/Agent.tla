------------------------------- MODULE Agent -------------------------------
(***************************************************************************)
(* The client's side of one login (client/agent.go): Agent.Run, with       *)
(* awaitReceive and awaitSend, from NewAgent until Run gives control back  *)
(* to Client.Run, which logs in again.  The server is the environment; it  *)
(* answers, sends requests of its own, falls silent, or goes away.         *)
(*                                                                         *)
(* All three goroutines call Close.  Only awaitReceive recovers a panic: a *)
(* panic in Run or in awaitSend ends the client and is recorded in crash.  *)
(***************************************************************************)
EXTENDS AeroDefs, FiniteSets

CONSTANTS
    Names,     (* names of the configured proxies                           *)
    Interval,  (* HeartbeatInterval, in seconds                             *)
    ChanCap,   (* capacity of sendChan and of recvChan, 10 in the code      *)
    NetCap,    (* messages the stream holds per direction (flow control)    *)
    MaxMsgs    (* bound: requests the server sends on its own account       *)

(* time.NewTicker panics on an interval that is not positive. *)
ASSUME AgentAssumption ==
    /\ Interval \in Nat \ {0} /\ ChanCap \in Nat \ {0} /\ NetCap \in Nat \ {0}
    /\ MaxMsgs \in Nat
    /\ None \notin Names \cup Messages(Names)

VARIABLES
    pc,         (* where Run, awaitReceive and awaitSend are                *)
    closed,     (* Agent.closed                                             *)
    connOpen,   (* Agent.conn, the control stream: not closed locally       *)
    peer,       (* the server: "up", "mute" (connected, inactive), "down"   *)
    inbox,      (* written by the server, not yet read                      *)
    outbox,     (* written by the client, not yet read by the server        *)
    sendBuf, sendClosed,   (* Agent.sendChan                                *)
    recvBuf, recvClosed,   (* Agent.recvChan                                *)
    todo,       (* names Run has not asked the server for yet               *)
    started,    (* names of the proxies with Proxy.Started                  *)
    answer,     (* run: the message it is about to send                     *)
    held,       (* send: the message taken from sendChan                    *)
    got,        (* recv: the message read from the stream                   *)
    ticks,      (* run: ticks of the ticker since LastBeatTime              *)
    grace,      (* run: LastBeatTime is still the initial one               *)
    crash,      (* the panic that ended the client, if any                  *)
    pushed      (* server: requests sent on its own account                 *)

connVars == <<connOpen, peer, inbox, outbox>>
sendVars == <<sendBuf, sendClosed>>
recvVars == <<recvBuf, recvClosed>>
beatVars == <<ticks, grace>>
workVars == <<todo, started, answer, held, got>>
vars == <<pc, closed, connVars, sendVars, recvVars, beatVars, workVars, crash, pushed>>

Msg == Messages(Names)

Threads     == {"run", "recv", "send"}
CloseLabels == {"isClosed", "set", "closeRecv", "closeSend", "conn"}
RunLabels   == {"start", "register", "select", "put"}
RecvLabels  == {"unborn", "entry", "read", "check", "put"}
SendLabels  == {"unborn", "take", "write"}
Panics      == {"close of closed channel", "send on closed channel"}

At(t, label)   == crash = "none" /\ pc[t] = label
Goto(t, label) == pc' = [pc EXCEPT ![t] = label]

Init ==
    /\ pc = [t \in Threads |-> IF t = "run" THEN "start" ELSE "unborn"]
    /\ closed = FALSE
    /\ connOpen = TRUE /\ peer = "up" /\ inbox = <<>> /\ outbox = <<>>
    /\ sendBuf = <<>> /\ sendClosed = FALSE /\ recvBuf = <<>> /\ recvClosed = FALSE
    /\ todo = Names /\ started = {}
    /\ answer = None /\ held = None /\ got = None
    /\ ticks = 0 /\ grace = TRUE /\ crash = "none" /\ pushed = 0

(* A write blocks while the stream is full, and fails once it is gone. *)
StreamAccepts(m) ==
    /\ connOpen
    /\ IF peer = "down" THEN UNCHANGED outbox
       ELSE Len(outbox) < NetCap /\ outbox' = Append(outbox, m)
    /\ UNCHANGED <<connOpen, peer, inbox>>

StreamRefuses ==
    /\ ~connOpen \/ peer = "down"
    /\ UNCHANGED connVars

(***************************************************************************)
(* Agent.Run.  It registers every proxy before it looks at recvChan.       *)
(***************************************************************************)
RunStart ==
    /\ At("run", "start")
    /\ pc' = [run |-> "register", recv |-> "entry", send |-> "take"]
    /\ UNCHANGED <<closed, connVars, sendVars, recvVars, beatVars, workVars, crash, pushed>>

(* Mutant: a registration that fails is tried again. *)
RunRegister_Retry ==
    /\ At("run", "register")
    /\ \E n \in todo :
         \/ StreamAccepts(ProxyRequest(n, TRUE)) /\ todo' = todo \ {n}
         \/ StreamRefuses /\ UNCHANGED todo
    /\ UNCHANGED <<pc, closed, sendVars, recvVars, beatVars, started, answer, held, got, crash, pushed>>

(* RegisterProxy writes to the stream itself; Run only logs a failure. *)
RunRegister ==
    /\ At("run", "register")
    /\ \E n \in todo :
         /\ StreamAccepts(ProxyRequest(n, TRUE)) \/ StreamRefuses
         /\ todo' = todo \ {n}
    /\ UNCHANGED <<pc, closed, sendVars, recvVars, beatVars, started, answer, held, got, crash, pushed>>

RunTicker ==
    /\ At("run", "register") /\ todo = {}
    /\ ticks' = 0 /\ grace' = TRUE
    /\ Goto("run", "select")
    /\ UNCHANGED <<closed, connVars, sendVars, recvVars, workVars, crash, pushed>>

(* Seconds, doubled: k ticks after LastBeatTime, which starts half an        *)
(* interval in the future, more than Interval + 1 seconds have passed.       *)
Late(k) == 2 * k * Interval - (IF grace THEN Interval ELSE 0) > 2 * Interval + 2

(* Mutant: the ticker only sends, it does not look at LastBeatTime. *)
RunTick_NoTimeout ==
    /\ At("run", "select")
    /\ UNCHANGED ticks
    /\ Goto("run", "put") /\ answer' = Plain("HeartbeatRequest")
    /\ UNCHANGED <<closed, connVars, sendVars, recvVars, grace, todo, started, held, got, crash, pushed>>

RunTick ==
    /\ At("run", "select")
    /\ ticks' = ticks + 1
    /\ \/ Late(ticks + 1) /\ Goto("run", "isClosed") /\ UNCHANGED answer
       \/ ~Late(ticks + 1) /\ Goto("run", "put") /\ answer' = Plain("HeartbeatRequest")
    /\ UNCHANGED <<closed, connVars, sendVars, recvVars, grace, todo, started, held, got, crash, pushed>>

Beat == ticks' = 0 /\ grace' = FALSE

(* The type switch of Run; a PipeRequest starts awaitWork (module PipePool). *)
RunDispatch(m) ==
    \/ /\ m.type = "HeartbeatRequest"
       /\ Beat
       /\ answer' = Plain("HeartbeatResponse")
       /\ Goto("run", "put")
       /\ UNCHANGED started
    \/ /\ m.type = "HeartbeatResponse"
       /\ Beat
       /\ UNCHANGED <<pc, answer, started>>
    \/ /\ m.type = "ProxyResponse"
       /\ started' = IF m.flag /\ m.name \in Names THEN started \cup {m.name} ELSE started
       /\ UNCHANGED <<pc, answer, ticks, grace>>
    \/ /\ m.type \notin {"HeartbeatRequest", "HeartbeatResponse", "ProxyResponse"}
       /\ UNCHANGED <<pc, answer, started, ticks, grace>>

RunGet ==
    /\ At("run", "select")
    /\ \/ /\ recvBuf # <<>>
          /\ recvBuf' = Tail(recvBuf)
          /\ RunDispatch(Head(recvBuf))
       \/ /\ recvBuf = <<>> /\ recvClosed
          /\ Goto("run", "isClosed")
          /\ UNCHANGED <<recvBuf, answer, started, ticks, grace>>
    /\ UNCHANGED <<closed, connVars, sendVars, recvClosed, todo, held, got, crash, pushed>>

(* Mutant: the send does not wait for room. *)
RunPut_Unbounded ==
    /\ At("run", "put")
    /\ ~sendClosed
    /\ sendBuf' = Append(sendBuf, answer)
    /\ answer' = None
    /\ Goto("run", "select")
    /\ UNCHANGED <<closed, connVars, sendClosed, recvVars, beatVars, todo, started, held, got, crash, pushed>>

(* The bare send on sendChan; the panic of a closed channel is not caught. *)
RunPut ==
    /\ At("run", "put")
    /\ \/ /\ ~sendClosed /\ Len(sendBuf) < ChanCap
          /\ sendBuf' = Append(sendBuf, answer)
          /\ Goto("run", "select")
          /\ UNCHANGED crash
       \/ /\ sendClosed
          /\ crash' = "send on closed channel"
          /\ UNCHANGED <<pc, sendBuf>>
    /\ answer' = None
    /\ UNCHANGED <<closed, connVars, sendClosed, recvVars, beatVars, todo, started, held, got, pushed>>

(***************************************************************************)
(* awaitReceive and awaitSend: both call Close when they end.              *)
(***************************************************************************)
RecvEntry ==
    /\ At("recv", "entry")
    /\ Goto("recv", IF closed THEN "done" ELSE "read")
    /\ UNCHANGED <<closed, connVars, sendVars, recvVars, beatVars, workVars, crash, pushed>>

RecvRead ==
    /\ At("recv", "read")
    /\ \/ /\ connOpen /\ inbox # <<>>
          /\ got' = Head(inbox) /\ inbox' = Tail(inbox)
          /\ Goto("recv", "check")
       \/ /\ ~connOpen \/ peer = "down"
          /\ Goto("recv", "isClosed")
          /\ UNCHANGED <<got, inbox>>
    /\ UNCHANGED <<closed, connOpen, peer, outbox, sendVars, recvVars, beatVars,
                   todo, started, answer, held, crash, pushed>>

RecvCheck ==
    /\ At("recv", "check")
    /\ Goto("recv", IF closed THEN "isClosed" ELSE "put")
    /\ UNCHANGED <<closed, connVars, sendVars, recvVars, beatVars, workVars, crash, pushed>>

(* The recovered panic of a closed recvChan skips the call of Close. *)
RecvPut ==
    /\ At("recv", "put")
    /\ \/ /\ ~recvClosed /\ Len(recvBuf) < ChanCap
          /\ recvBuf' = Append(recvBuf, got)
          /\ Goto("recv", "read")
       \/ /\ recvClosed
          /\ Goto("recv", "done")
          /\ UNCHANGED recvBuf
    /\ got' = None
    /\ UNCHANGED <<closed, connVars, sendVars, recvClosed, beatVars,
                   todo, started, answer, held, crash, pushed>>

SendTake ==
    /\ At("send", "take")
    /\ \/ /\ sendBuf # <<>>
          /\ held' = Head(sendBuf) /\ sendBuf' = Tail(sendBuf)
          /\ Goto("send", "write")
       \/ /\ sendBuf = <<>> /\ sendClosed
          /\ Goto("send", "isClosed")
          /\ UNCHANGED <<held, sendBuf>>
    /\ UNCHANGED <<closed, connVars, sendClosed, recvVars, beatVars,
                   todo, started, answer, got, crash, pushed>>

SendWrite ==
    /\ At("send", "write")
    /\ \/ StreamAccepts(held) /\ Goto("send", "take")
       \/ StreamRefuses /\ Goto("send", "isClosed")
    /\ held' = None
    /\ UNCHANGED <<closed, sendVars, recvVars, beatVars, todo, started, answer, got, crash, pushed>>

(***************************************************************************)
(* Agent.Close.  The test and the assignment are two critical sections,    *)
(* and any two of the three goroutines may be past the test.               *)
(***************************************************************************)
ClosePanics(t) ==
    IF t = "recv"
    THEN Goto(t, "done") /\ UNCHANGED crash
    ELSE crash' = "close of closed channel" /\ UNCHANGED pc

(* Mutant: Close does not test the flag. *)
CloseIsClosed_NoTest(t) ==
    /\ At(t, "isClosed")
    /\ Goto(t, "set")
    /\ UNCHANGED <<closed, connVars, sendVars, recvVars, beatVars, workVars, crash, pushed>>

CloseIsClosed(t) ==
    /\ At(t, "isClosed")
    /\ Goto(t, IF closed THEN "done" ELSE "set")
    /\ UNCHANGED <<closed, connVars, sendVars, recvVars, beatVars, workVars, crash, pushed>>

CloseSet(t) ==
    /\ At(t, "set")
    /\ closed' = TRUE
    /\ Goto(t, "closeRecv")
    /\ UNCHANGED <<connVars, sendVars, recvVars, beatVars, workVars, crash, pushed>>

CloseRecv(t) ==
    /\ At(t, "closeRecv")
    /\ IF recvClosed THEN ClosePanics(t) ELSE Goto(t, "closeSend") /\ UNCHANGED crash
    /\ recvClosed' = TRUE
    /\ UNCHANGED <<closed, connVars, sendVars, recvBuf, beatVars, workVars, pushed>>

CloseSend(t) ==
    /\ At(t, "closeSend")
    /\ IF sendClosed THEN ClosePanics(t) ELSE Goto(t, "conn") /\ UNCHANGED crash
    /\ sendClosed' = TRUE
    /\ UNCHANGED <<closed, connVars, sendBuf, recvVars, beatVars, workVars, pushed>>

(* Mutant: Close leaves the stream to the other goroutines. *)
CloseConn_KeepOpen(t) ==
    /\ At(t, "conn")
    /\ Goto(t, "done")
    /\ UNCHANGED <<closed, connVars, sendVars, recvVars, beatVars, workVars, crash, pushed>>

CloseConn(t) ==
    /\ At(t, "conn")
    /\ connOpen' = FALSE
    /\ Goto(t, "done")
    /\ UNCHANGED <<closed, peer, inbox, outbox, sendVars, recvVars, beatVars, workVars, crash, pushed>>

Close(t) ==
    CloseIsClosed(t) \/ CloseSet(t) \/ CloseRecv(t) \/ CloseSend(t) \/ CloseConn(t)

(***************************************************************************)
(* The server at the other end of the control stream.                      *)
(***************************************************************************)
ServerAnswer ==
    /\ peer = "up" /\ outbox # <<>> /\ Len(inbox) < NetCap
    /\ outbox' = Tail(outbox)
    /\ LET m == Head(outbox) IN
       \/ /\ m.type = "ProxyRequest"
          /\ inbox' \in {Append(inbox, ProxyResponse(m.name, TRUE)),
                         Append(inbox, ProxyResponse(None, FALSE))}
       \/ /\ m.type = "HeartbeatRequest"
          /\ inbox' = Append(inbox, Plain("HeartbeatResponse"))
       \/ /\ m.type = "HeartbeatResponse"
          /\ UNCHANGED inbox
    /\ UNCHANGED <<pc, closed, connOpen, peer, sendVars, recvVars, beatVars, workVars, crash, pushed>>

ServerAsk ==
    /\ peer = "up" /\ pushed < MaxMsgs /\ Len(inbox) < NetCap
    /\ \E t \in {"HeartbeatRequest", "PipeRequest"} : inbox' = Append(inbox, Plain(t))
    /\ pushed' = pushed + 1
    /\ UNCHANGED <<pc, closed, connOpen, peer, outbox, sendVars, recvVars, beatVars, workVars, crash>>

ServerFalls ==
    /\ peer # "down"
    /\ peer' \in {"mute", "down"} \ {peer}
    /\ UNCHANGED <<pc, closed, connOpen, inbox, outbox, sendVars, recvVars, beatVars,
                   workVars, crash, pushed>>
-----------------------------------------------------------------------------
Run    == RunStart \/ RunRegister \/ RunTicker \/ RunTick \/ RunGet \/ RunPut \/ Close("run")
Recv   == RecvEntry \/ RecvRead \/ RecvCheck \/ RecvPut \/ Close("recv")
Send   == SendTake \/ SendWrite \/ Close("send")
Server == ServerAnswer \/ ServerAsk \/ ServerFalls

Next == Run \/ Recv \/ Send \/ Server

Spec == Init /\ [][Next]_vars

(* Goroutines run and the ticker ticks; the server owes nothing. *)
Fairness == WF_vars(Run) /\ WF_vars(Recv) /\ WF_vars(Send)

FairSpec == Spec /\ Fairness
-----------------------------------------------------------------------------
TypeOK ==
    /\ pc \in [Threads -> RunLabels \cup RecvLabels \cup SendLabels \cup CloseLabels \cup {"done"}]
    /\ \A b \in {closed, connOpen, sendClosed, recvClosed, grace} : b \in BOOLEAN
    /\ peer \in {"up", "mute", "down"}
    /\ inbox \in Seq(Msg) /\ Len(inbox) <= NetCap
    /\ outbox \in Seq(Msg) /\ Len(outbox) <= NetCap
    /\ sendBuf \in Seq(Msg) /\ Len(sendBuf) <= ChanCap
    /\ recvBuf \in Seq(Msg) /\ Len(recvBuf) <= ChanCap
    /\ todo \subseteq Names /\ started \subseteq Names
    /\ answer \in Msg \cup {None} /\ held \in Msg \cup {None} /\ got \in Msg \cup {None}
    /\ ticks \in Nat /\ pushed \in 0 .. MaxMsgs
    /\ crash \in Panics \cup {"none"}

Over == pc["run"] = "done" \/ crash # "none"

(* A client whose connection is lost gets back to Client.Run, which logs in *)
(* again, or has crashed: no channel or stream operation blocks Run for     *)
(* ever.                                                                    *)
LossDetected == peer = "down" ~> Over

(* A server that stays connected and says nothing is detected by the        *)
(* heartbeat, even if it does not read either, provided that sendChan has   *)
(* room for the answers to the requests it left behind (MaxMsgs < ChanCap): *)
(* the send of Run would block before the ticker is looked at again.        *)
SilenceDetected == [](peer = "mute" => <>(Over \/ peer = "down"))

(* After Run has returned nothing of the agent is left behind: the stream   *)
(* is closed and both goroutines end, so that logging in again and again    *)
(* piles nothing up.                                                        *)
Released ==
    pc["run"] = "done" ~>
        crash # "none" \/ (~connOpen /\ pc["recv"] = "done" /\ pc["send"] = "done")

(* The agent never brings the client down while the server is connected,    *)
(* even if it has to close the agent because a heartbeat is late.  (Once    *)
(* the server is lost, two goroutines may close the same channel, or Run    *)
(* may send on a closed one, and the client ends instead of dialling again.) *)
CrashOnlyAfterLoss == crash # "none" => peer = "down"
=============================================================================
