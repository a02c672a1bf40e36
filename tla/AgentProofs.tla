---------------------------- MODULE AgentProofs ----------------------------
(***************************************************************************)
(* Proofs about Agent for every set of proxies, every heartbeat interval   *)
(* and every capacity of the channels and the stream.                      *)
(***************************************************************************)
EXTENDS Agent, SequenceTheorems, TLAPS

(* The message that a goroutine holds between two steps. *)
HandsOK ==
    crash = "none" =>
        /\ pc["run"] = "put" => answer \in Msg
        /\ pc["recv"] \in {"check", "put"} => got \in Msg
        /\ pc["send"] = "write" => held \in Msg

(* The parts of TypeOK. *)
PcOK ==
    pc \in [Threads -> RunLabels \cup RecvLabels \cup SendLabels \cup CloseLabels \cup {"done"}]

FlagsOK ==
    /\ closed \in BOOLEAN /\ connOpen \in BOOLEAN /\ sendClosed \in BOOLEAN
    /\ recvClosed \in BOOLEAN /\ grace \in BOOLEAN

QueuesOK ==
    /\ inbox \in Seq(Msg) /\ Len(inbox) <= NetCap
    /\ outbox \in Seq(Msg) /\ Len(outbox) <= NetCap
    /\ sendBuf \in Seq(Msg) /\ Len(sendBuf) <= ChanCap
    /\ recvBuf \in Seq(Msg) /\ Len(recvBuf) <= ChanCap

WorkOK ==
    /\ peer \in {"up", "mute", "down"}
    /\ todo \subseteq Names /\ started \subseteq Names
    /\ answer \in Msg \cup {None} /\ held \in Msg \cup {None} /\ got \in Msg \cup {None}
    /\ ticks \in Nat /\ pushed \in 0 .. MaxMsgs
    /\ crash \in Panics \cup {"none"}

TypeInv == PcOK /\ FlagsOK /\ QueuesOK /\ WorkOK /\ HandsOK

(***************************************************************************)
(* While the server is connected, Run is the only goroutine that closes    *)
(* the agent: the other two come to Close only when a channel or the       *)
(* stream is closed, which Run does after it has set the flag, so that     *)
(* they find the flag set.                                                 *)
(***************************************************************************)
Closers == {"set", "closeRecv", "closeSend", "conn"}

RunCloses ==
    /\ closed <=> pc["run"] \in {"closeRecv", "closeSend", "conn", "done"}
    /\ recvClosed <=> pc["run"] \in {"closeSend", "conn", "done"}
    /\ sendClosed <=> pc["run"] \in {"conn", "done"}
    /\ ~connOpen <=> pc["run"] = "done"
    /\ \A t \in {"recv", "send"} :
         pc[t] \notin Closers /\ (pc[t] = "isClosed" => closed)

SoleCloser == peer # "down" => crash = "none" /\ RunCloses
-----------------------------------------------------------------------------
LEMMA Constructors ==
    /\ \A t \in PlainTypes : Plain(t) \in Msg
    /\ \A n \in Names, b \in BOOLEAN : ProxyRequest(n, b) \in Msg
    /\ \A n \in Names \cup {None}, b \in BOOLEAN : ProxyResponse(n, b) \in Msg
BY DEF Msg, Messages, Plain, ProxyRequest, ProxyResponse

LEMMA RequestNamed ==
    ASSUME NEW m \in Msg, m.type = "ProxyRequest"
    PROVE  m.name \in Names
BY DEF Msg, Messages, PlainTypes

LEMMA NoneIsNoMessage == None \notin Msg
BY AgentAssumption DEF Msg

(* A bounded queue takes one message more, or gives one. *)
LEMMA AppendTyped ==
    ASSUME NEW q \in Seq(Msg), NEW m \in Msg, NEW c \in Nat, Len(q) < c
    PROVE  Append(q, m) \in Seq(Msg) /\ Len(Append(q, m)) <= c
BY AppendProperties, LenProperties

LEMMA TailTyped ==
    ASSUME NEW q \in Seq(Msg), q # <<>>, NEW c \in Nat, Len(q) <= c
    PROVE  Head(q) \in Msg /\ Tail(q) \in Seq(Msg) /\ Len(Tail(q)) <= c
BY HeadTailProperties, LenProperties

LEMMA CapacitiesNat == ChanCap \in Nat /\ NetCap \in Nat
BY AgentAssumption

LEMMA PartsOfType == PcOK /\ FlagsOK /\ QueuesOK /\ WorkOK <=> TypeOK
BY DEF TypeOK, PcOK, FlagsOK, QueuesOK, WorkOK

LEMMA WriteTyped ==
    ASSUME QueuesOK, NEW m \in Msg, StreamAccepts(m) \/ StreamRefuses
    PROVE  /\ outbox' \in Seq(Msg) /\ Len(outbox') <= NetCap
           /\ UNCHANGED <<connOpen, peer, inbox>>
<1>1. outbox \in Seq(Msg) /\ Len(outbox) <= NetCap
  BY DEF QueuesOK
<1>2. CASE StreamAccepts(m)
  BY <1>1, <1>2, AppendTyped, CapacitiesNat DEF StreamAccepts
<1>3. CASE StreamRefuses
  BY <1>1, <1>3 DEF StreamRefuses, connVars
<1> QED BY <1>2, <1>3

LEMMA InitTyped == Init => TypeInv
<1> SUFFICES ASSUME Init PROVE TypeInv
  OBVIOUS
<1>1. <<>> \in Seq(Msg) /\ Len(<<>>) = 0
  OBVIOUS
<1>2. QueuesOK
  BY <1>1, CapacitiesNat DEF Init, QueuesOK
<1>3. PcOK
  BY DEF Init, PcOK, RunLabels, RecvLabels
<1>4. FlagsOK
  BY DEF Init, FlagsOK
<1>5. WorkOK
  BY AgentAssumption DEF Init, WorkOK
<1>6. HandsOK
  <2>1. pc["run"] = "start" /\ pc["recv"] = "unborn" /\ pc["send"] = "unborn"
    BY DEF Init, Threads
  <2> QED BY <2>1 DEF HandsOK
<1> QED BY <1>2, <1>3, <1>4, <1>5, <1>6 DEF TypeInv

(* A goroutine goes on to another place in its code. *)
LEMMA GotoTyped ==
    ASSUME PcOK, NEW t \in Threads,
           NEW l \in RunLabels \cup RecvLabels \cup SendLabels \cup CloseLabels \cup {"done"},
           Goto(t, l)
    PROVE  PcOK' /\ pc'[t] = l /\ \A u \in Threads \ {t} : pc'[u] = pc[u]
BY DEF PcOK, Goto

LEMMA RunTyped ==
    ASSUME TypeInv, RunStart \/ RunRegister \/ RunTicker \/ RunTick \/ RunGet \/ RunPut
    PROVE  TypeInv'
<1> USE DEF TypeInv, At, Goto, connVars, sendVars, recvVars, beatVars, workVars
<1>1. CASE RunStart
  <2>1. PcOK'
    BY <1>1 DEF RunStart, PcOK, Threads, RunLabels, RecvLabels, SendLabels
  <2>2. QueuesOK' /\ FlagsOK' /\ WorkOK'
    BY <1>1 DEF RunStart, QueuesOK, FlagsOK, WorkOK
  <2>3. HandsOK'
    BY <1>1 DEF RunStart, HandsOK
  <2> QED BY <2>1, <2>2, <2>3
<1>2. CASE RunRegister
  <2>1. PICK n \in todo :
          (StreamAccepts(ProxyRequest(n, TRUE)) \/ StreamRefuses) /\ todo' = todo \ {n}
    BY <1>2 DEF RunRegister
  <2>2. ProxyRequest(n, TRUE) \in Msg
    BY Constructors DEF WorkOK
  <2>3. /\ outbox' \in Seq(Msg) /\ Len(outbox') <= NetCap
        /\ UNCHANGED <<connOpen, peer, inbox>>
    BY <2>1, <2>2, WriteTyped
  <2>4. QueuesOK'
    BY <1>2, <2>3 DEF RunRegister, QueuesOK
  <2>5. PcOK' /\ FlagsOK' /\ WorkOK' /\ HandsOK'
    BY <1>2, <2>1, <2>3 DEF RunRegister, PcOK, FlagsOK, WorkOK, HandsOK
  <2> QED BY <2>4, <2>5
<1>3. CASE RunTicker
  <2>1. PcOK'
    BY <1>3 DEF RunTicker, PcOK, RunLabels
  <2>2. QueuesOK' /\ FlagsOK' /\ WorkOK'
    BY <1>3 DEF RunTicker, QueuesOK, FlagsOK, WorkOK
  <2>3. HandsOK'
    BY <1>3 DEF RunTicker, HandsOK, PcOK, Threads
  <2> QED BY <2>1, <2>2, <2>3
<1>4. CASE RunTick
  <2>1. Plain("HeartbeatRequest") \in Msg
    BY Constructors DEF PlainTypes
  <2>2. PcOK'
    BY <1>4 DEF RunTick, PcOK, RunLabels, CloseLabels
  <2>3. QueuesOK' /\ FlagsOK'
    BY <1>4 DEF RunTick, QueuesOK, FlagsOK
  <2>4. WorkOK'
    BY <1>4, <2>1 DEF RunTick, WorkOK
  <2>5. HandsOK'
    BY <1>4, <2>1 DEF RunTick, HandsOK, PcOK, Threads
  <2> QED BY <2>2, <2>3, <2>4, <2>5
<1>5. CASE RunGet
  <2>1. CASE /\ recvBuf # <<>> /\ recvBuf' = Tail(recvBuf)
             /\ RunDispatch(Head(recvBuf))
    <3>1. /\ Head(recvBuf) \in Msg /\ recvBuf' \in Seq(Msg)
          /\ Len(recvBuf') <= ChanCap
      BY <2>1, TailTyped, CapacitiesNat DEF QueuesOK
    <3>2. Plain("HeartbeatResponse") \in Msg
      BY Constructors DEF PlainTypes
    <3>3. QueuesOK'
      BY <1>5, <3>1 DEF RunGet, QueuesOK
    <3>4. PcOK'
      <4>1. Goto("run", "put") \/ UNCHANGED pc
        BY <2>1 DEF RunDispatch
      <4> QED BY <4>1 DEF PcOK, RunLabels
    <3>5. FlagsOK'
      <4>1. Beat \/ UNCHANGED grace
        BY <2>1 DEF RunDispatch
      <4> QED BY <1>5, <4>1 DEF RunGet, Beat, FlagsOK
    <3>6. WorkOK'
      <4>1. ticks' \in Nat /\ answer' \in Msg \cup {None} /\ started' \subseteq Names
        BY <2>1, <3>2 DEF RunDispatch, Beat, WorkOK
      <4> QED BY <1>5, <4>1 DEF RunGet, WorkOK
    <3>7. HandsOK'
      BY <1>5, <2>1, <3>2 DEF RunGet, RunDispatch, HandsOK, PcOK, Threads
    <3> QED BY <3>3, <3>4, <3>5, <3>6, <3>7
  <2>2. CASE /\ recvBuf = <<>> /\ recvClosed /\ Goto("run", "isClosed")
             /\ UNCHANGED <<recvBuf, answer, started, ticks, grace>>
    <3>1. PcOK'
      BY <2>2 DEF PcOK, CloseLabels
    <3>2. QueuesOK' /\ FlagsOK' /\ WorkOK'
      BY <1>5, <2>2 DEF RunGet, QueuesOK, FlagsOK, WorkOK
    <3>3. HandsOK'
      BY <1>5, <2>2 DEF RunGet, HandsOK, PcOK, Threads
    <3> QED BY <3>1, <3>2, <3>3
  <2> QED BY <1>5, <2>1, <2>2 DEF RunGet
<1>6. CASE RunPut
  <2>1. CASE /\ ~sendClosed /\ Len(sendBuf) < ChanCap
             /\ sendBuf' = Append(sendBuf, answer)
             /\ Goto("run", "select") /\ UNCHANGED crash
    <3>1. answer \in Msg
      BY <1>6 DEF RunPut, HandsOK
    <3>2. sendBuf' \in Seq(Msg) /\ Len(sendBuf') <= ChanCap
      BY <2>1, <3>1, AppendTyped, CapacitiesNat DEF QueuesOK
    <3>3. PcOK'
      BY <2>1 DEF PcOK, RunLabels
    <3>4. QueuesOK' /\ FlagsOK' /\ WorkOK'
      BY <1>6, <2>1, <3>2 DEF RunPut, QueuesOK, FlagsOK, WorkOK
    <3>5. HandsOK'
      BY <1>6, <2>1 DEF RunPut, HandsOK, PcOK, Threads
    <3> QED BY <3>3, <3>4, <3>5
  <2>2. CASE /\ sendClosed /\ crash' = "send on closed channel"
             /\ UNCHANGED <<pc, sendBuf>>
    BY <1>6, <2>2, ZenonT(60) DEF RunPut, PcOK, QueuesOK, FlagsOK, WorkOK, HandsOK, Panics
  <2> QED BY <1>6, <2>1, <2>2 DEF RunPut
<1> QED BY <1>1, <1>2, <1>3, <1>4, <1>5, <1>6

LEMMA RecvTyped ==
    ASSUME TypeInv, RecvEntry \/ RecvRead \/ RecvCheck \/ RecvPut
    PROVE  TypeInv'
<1> USE DEF TypeInv, At, connVars, sendVars, recvVars, beatVars, workVars
<1>1. CASE RecvEntry
  <2>1. PcOK'
    BY <1>1 DEF RecvEntry, Goto, PcOK, RecvLabels
  <2>2. QueuesOK' /\ FlagsOK' /\ WorkOK'
    BY <1>1 DEF RecvEntry, QueuesOK, FlagsOK, WorkOK
  <2>3. HandsOK'
    BY <1>1 DEF RecvEntry, Goto, HandsOK, PcOK, Threads
  <2> QED BY <2>1, <2>2, <2>3
<1>2. CASE RecvRead
  <2>1. PcOK'
    <3>1. Goto("recv", "check") \/ Goto("recv", "isClosed")
      BY <1>2 DEF RecvRead
    <3> QED BY <3>1 DEF Goto, PcOK, RecvLabels, CloseLabels
  <2>2. inbox # <<>> => Head(inbox) \in Msg /\ Tail(inbox) \in Seq(Msg)
                        /\ Len(Tail(inbox)) <= NetCap
    BY TailTyped, CapacitiesNat DEF QueuesOK
  <2>3. QueuesOK'
    BY <1>2, <2>2 DEF RecvRead, QueuesOK
  <2>4. FlagsOK' /\ WorkOK'
    BY <1>2, <2>2 DEF RecvRead, FlagsOK, WorkOK
  <2>5. HandsOK'
    BY <1>2, <2>2 DEF RecvRead, Goto, HandsOK, PcOK, Threads
  <2> QED BY <2>1, <2>3, <2>4, <2>5
<1>3. CASE RecvCheck
  <2>1. PcOK'
    BY <1>3 DEF RecvCheck, Goto, PcOK, RecvLabels, CloseLabels
  <2>2. QueuesOK' /\ FlagsOK' /\ WorkOK'
    BY <1>3 DEF RecvCheck, QueuesOK, FlagsOK, WorkOK
  <2>3. HandsOK'
    BY <1>3 DEF RecvCheck, Goto, HandsOK, PcOK, Threads
  <2> QED BY <2>1, <2>2, <2>3
<1>4. CASE RecvPut
  <2>1. PcOK'
    <3>1. Goto("recv", "read") \/ Goto("recv", "done")
      BY <1>4 DEF RecvPut
    <3> QED BY <3>1 DEF Goto, PcOK, RecvLabels
  <2>2. got \in Msg
    BY <1>4 DEF RecvPut, HandsOK
  <2>3. Len(recvBuf) < ChanCap => Append(recvBuf, got) \in Seq(Msg)
                                  /\ Len(Append(recvBuf, got)) <= ChanCap
    BY <2>2, AppendTyped, CapacitiesNat DEF QueuesOK
  <2>4. QueuesOK'
    BY <1>4, <2>3 DEF RecvPut, QueuesOK
  <2>5. FlagsOK' /\ WorkOK'
    BY <1>4 DEF RecvPut, FlagsOK, WorkOK
  <2>6. HandsOK'
    BY <1>4 DEF RecvPut, Goto, HandsOK, PcOK, Threads
  <2> QED BY <2>1, <2>4, <2>5, <2>6
<1> QED BY <1>1, <1>2, <1>3, <1>4

LEMMA SendTyped ==
    ASSUME TypeInv, SendTake \/ SendWrite
    PROVE  TypeInv'
<1> USE DEF TypeInv, At, connVars, sendVars, recvVars, beatVars, workVars
<1>1. CASE SendTake
  <2>1. PcOK'
    <3>1. Goto("send", "write") \/ Goto("send", "isClosed")
      BY <1>1 DEF SendTake
    <3> QED BY <3>1 DEF Goto, PcOK, SendLabels, CloseLabels
  <2>2. sendBuf # <<>> => Head(sendBuf) \in Msg /\ Tail(sendBuf) \in Seq(Msg)
                          /\ Len(Tail(sendBuf)) <= ChanCap
    BY TailTyped, CapacitiesNat DEF QueuesOK
  <2>3. QueuesOK'
    BY <1>1, <2>2 DEF SendTake, QueuesOK
  <2>4. FlagsOK' /\ WorkOK'
    BY <1>1, <2>2 DEF SendTake, FlagsOK, WorkOK
  <2>5. HandsOK'
    BY <1>1, <2>2 DEF SendTake, Goto, HandsOK, PcOK, Threads
  <2> QED BY <2>1, <2>3, <2>4, <2>5
<1>2. CASE SendWrite
  <2>1. Goto("send", "take") \/ Goto("send", "isClosed")
    BY <1>2 DEF SendWrite
  <2>2. PcOK'
    BY <2>1 DEF Goto, PcOK, SendLabels, CloseLabels
  <2>3. /\ outbox' \in Seq(Msg) /\ Len(outbox') <= NetCap
        /\ UNCHANGED <<connOpen, peer, inbox>>
    BY <1>2, WriteTyped DEF SendWrite, HandsOK
  <2>4. QueuesOK' /\ FlagsOK' /\ WorkOK'
    BY <1>2, <2>3 DEF SendWrite, QueuesOK, FlagsOK, WorkOK
  <2>5. HandsOK'
    BY <1>2, <2>1 DEF SendWrite, Goto, HandsOK, PcOK, Threads
  <2> QED BY <2>2, <2>4, <2>5
<1> QED BY <1>1, <1>2

LEMMA CloseTyped ==
    ASSUME TypeInv, NEW t \in Threads, Close(t)
    PROVE  TypeInv'
<1> USE DEF TypeInv, connVars, sendVars, recvVars, beatVars, workVars
<1>1. \/ UNCHANGED pc /\ crash' = "close of closed channel"
      \/ UNCHANGED crash
         /\ \E l \in {"set", "closeRecv", "closeSend", "conn", "done"} : Goto(t, l)
  BY DEF Close, CloseIsClosed, CloseSet, CloseRecv, CloseSend, CloseConn, ClosePanics
<1>2. UNCHANGED <<peer, inbox, outbox, sendBuf, recvBuf, beatVars, workVars, pushed>>
  BY DEF Close, CloseIsClosed, CloseSet, CloseRecv, CloseSend, CloseConn
<1>3. PcOK'
  BY <1>1 DEF Goto, PcOK, CloseLabels
<1>4. QueuesOK' /\ WorkOK'
  BY <1>1, <1>2 DEF QueuesOK, WorkOK, Panics
<1>5. FlagsOK'
  BY <1>2 DEF Close, CloseIsClosed, CloseSet, CloseRecv, CloseSend, CloseConn, FlagsOK
<1>6. HandsOK'
  BY <1>1, <1>2 DEF Goto, HandsOK, PcOK, Threads
<1> QED BY <1>3, <1>4, <1>5, <1>6

LEMMA ServerTyped ==
    ASSUME TypeInv, Server
    PROVE  TypeInv'
<1> USE DEF TypeInv, sendVars, recvVars, beatVars, workVars
<1>1. CASE ServerAnswer
  <2>1. /\ Head(outbox) \in Msg /\ Tail(outbox) \in Seq(Msg)
        /\ Len(Tail(outbox)) <= NetCap
    BY <1>1, TailTyped, CapacitiesNat DEF ServerAnswer, QueuesOK
  <2>2. \A m \in Msg : Append(inbox, m) \in Seq(Msg) /\ Len(Append(inbox, m)) <= NetCap
    BY <1>1, AppendTyped, CapacitiesNat DEF ServerAnswer, QueuesOK
  <2>3. /\ Head(outbox).type = "ProxyRequest" =>
              ProxyResponse(Head(outbox).name, TRUE) \in Msg
        /\ ProxyResponse(None, FALSE) \in Msg
        /\ Plain("HeartbeatResponse") \in Msg
    BY <2>1, RequestNamed, Constructors DEF PlainTypes
  <2>4. inbox' \in Seq(Msg) /\ Len(inbox') <= NetCap
    BY <1>1, <2>2, <2>3 DEF ServerAnswer, QueuesOK
  <2>5. QueuesOK'
    BY <1>1, <2>1, <2>4 DEF ServerAnswer, QueuesOK
  <2>6. PcOK' /\ FlagsOK' /\ WorkOK' /\ HandsOK'
    BY <1>1 DEF ServerAnswer, PcOK, FlagsOK, WorkOK, HandsOK
  <2> QED BY <2>5, <2>6
<1>2. CASE ServerAsk
  <2>1. \A t \in {"HeartbeatRequest", "PipeRequest"} : Plain(t) \in Msg
    BY Constructors DEF PlainTypes
  <2>2. inbox' \in Seq(Msg) /\ Len(inbox') <= NetCap
    BY <1>2, <2>1, AppendTyped, CapacitiesNat DEF ServerAsk, QueuesOK
  <2>3. QueuesOK'
    BY <1>2, <2>2 DEF ServerAsk, QueuesOK
  <2>4. WorkOK'
    BY <1>2, AgentAssumption DEF ServerAsk, WorkOK
  <2>5. PcOK' /\ FlagsOK' /\ HandsOK'
    BY <1>2 DEF ServerAsk, PcOK, FlagsOK, HandsOK
  <2> QED BY <2>3, <2>4, <2>5
<1>3. CASE ServerFalls
  BY <1>3 DEF ServerFalls, QueuesOK, PcOK, FlagsOK, WorkOK, HandsOK
<1> QED BY <1>1, <1>2, <1>3 DEF Server

LEMMA NextTyped == TypeInv /\ [Next]_vars => TypeInv'
<1> SUFFICES ASSUME TypeInv, [Next]_vars PROVE TypeInv'
  OBVIOUS
<1>1. CASE UNCHANGED vars
  BY <1>1
     DEF vars, connVars, sendVars, recvVars, beatVars, workVars,
         TypeInv, PcOK, FlagsOK, QueuesOK, WorkOK, HandsOK
<1>2. CASE Next
  BY <1>2, RunTyped, RecvTyped, SendTyped, CloseTyped, ServerTyped
     DEF Next, Run, Recv, Send, Threads
<1> QED BY <1>1, <1>2
-----------------------------------------------------------------------------
(* Close, called by Run while the server is connected. *)
LEMMA CloseSole ==
    ASSUME TypeInv, SoleCloser, NEW t \in Threads, Close(t)
    PROVE  SoleCloser'
<1> USE DEF TypeInv, connVars, sendVars, recvVars, beatVars, workVars
<1> SUFFICES ASSUME peer' # "down" PROVE crash' = "none" /\ RunCloses'
  BY DEF SoleCloser
<1>1. peer' = peer /\ crash = "none" /\ RunCloses
  BY DEF SoleCloser, Close, CloseIsClosed, CloseSet, CloseRecv, CloseSend, CloseConn
<1>2. CASE t # "run"
  <2>1. t \in {"recv", "send"} /\ CloseIsClosed(t) /\ closed
    BY <1>1, <1>2
       DEF Threads, RunCloses, Closers, Close, CloseIsClosed, CloseSet, CloseRecv,
           CloseSend, CloseConn, At
  <2>2. Goto(t, "done") /\ UNCHANGED <<closed, connOpen, sendClosed, recvClosed, crash>>
    BY <2>1 DEF CloseIsClosed
  <2> QED BY <1>1, <2>1, <2>2 DEF Goto, PcOK, Threads, RunCloses, Closers
<1>3. CASE t = "run"
  <2>1. CASE CloseIsClosed(t)
    BY <1>1, <1>3, <2>1 DEF CloseIsClosed, At, Goto, PcOK, Threads, RunCloses, Closers
  <2>2. CASE CloseSet(t)
    BY <1>1, <1>3, <2>2 DEF CloseSet, At, Goto, PcOK, Threads, RunCloses, Closers
  <2>3. CASE CloseRecv(t)
    BY <1>1, <1>3, <2>3 DEF CloseRecv, At, Goto, PcOK, Threads, RunCloses, Closers
  <2>4. CASE CloseSend(t)
    BY <1>1, <1>3, <2>4 DEF CloseSend, At, Goto, PcOK, Threads, RunCloses, Closers
  <2>5. CASE CloseConn(t)
    BY <1>1, <1>3, <2>5 DEF CloseConn, At, Goto, PcOK, Threads, RunCloses, Closers
  <2> QED BY <2>1, <2>2, <2>3, <2>4, <2>5 DEF Close
<1> QED BY <1>2, <1>3

(***************************************************************************)
(* Run takes a closed channel for its end, and a send on one for a panic;  *)
(* neither happens before Run itself has closed them.                      *)
(***************************************************************************)
LEMMA RunSole ==
    ASSUME TypeInv, SoleCloser,
           RunStart \/ RunRegister \/ RunTicker \/ RunTick \/ RunGet \/ RunPut
    PROVE  SoleCloser'
<1> USE DEF TypeInv, connVars, sendVars, recvVars, beatVars, workVars
<1> SUFFICES ASSUME peer' # "down" PROVE crash' = "none" /\ RunCloses'
  BY DEF SoleCloser
<1>1. UNCHANGED <<closed, connOpen, peer, sendClosed, recvClosed>>
  BY DEF RunStart, RunRegister, StreamAccepts, StreamRefuses, RunTicker, RunTick, RunGet,
         RunPut
<1>2. crash = "none" /\ RunCloses /\ pc["run"] \in RunLabels
  BY <1>1
     DEF SoleCloser, RunStart, RunRegister, RunTicker, RunTick, RunGet, RunPut, At,
         RunLabels
<1>3. ~sendClosed /\ ~recvClosed
  BY <1>2 DEF RunCloses, RunLabels
<1>4. crash' = "none"
  BY <1>2, <1>3 DEF RunStart, RunRegister, RunTicker, RunTick, RunGet, RunPut
<1>5. CASE RunStart
  BY <1>1, <1>2, <1>5 DEF RunStart, RunCloses, RunLabels, Closers, Threads, PcOK
<1>6. CASE ~RunStart
  <2>1. \/ UNCHANGED pc
        \/ \E l \in RunLabels \cup {"isClosed"} : Goto("run", l)
    BY <1>6
       DEF RunRegister, RunTicker, RunTick, RunGet, RunDispatch, RunPut, RunLabels
  <2> QED BY <1>1, <1>2, <1>4, <2>1
          DEF Goto, RunCloses, RunLabels, Closers, Threads, PcOK
<1> QED BY <1>4, <1>5, <1>6

LEMMA OthersSole ==
    ASSUME TypeInv, SoleCloser,
           \/ RecvEntry \/ RecvRead \/ RecvCheck \/ RecvPut
           \/ SendTake \/ SendWrite \/ Server
    PROVE  SoleCloser'
<1> USE DEF TypeInv, connVars, sendVars, recvVars, beatVars, workVars
<1> SUFFICES ASSUME peer' # "down" PROVE crash' = "none" /\ RunCloses'
  BY DEF SoleCloser
<1>1. UNCHANGED <<closed, connOpen, sendClosed, recvClosed, crash>>
  BY DEF RecvEntry, RecvRead, RecvCheck, RecvPut, SendTake, SendWrite, StreamAccepts,
         StreamRefuses, Server, ServerAnswer, ServerAsk, ServerFalls
<1>2. peer # "down" /\ crash = "none" /\ RunCloses
  BY DEF SoleCloser, RecvEntry, RecvRead, RecvCheck, RecvPut, SendTake, SendWrite,
         StreamAccepts, StreamRefuses, Server, ServerAnswer, ServerAsk, ServerFalls
<1>3. ~connOpen \/ sendClosed \/ recvClosed => closed
  BY <1>2 DEF RunCloses
<1>4. CASE RecvEntry \/ RecvRead \/ RecvCheck \/ RecvPut
  <2>1. \/ \E l \in {"read", "check", "put", "done"} : Goto("recv", l)
        \/ closed /\ Goto("recv", "isClosed")
    BY <1>2, <1>3, <1>4 DEF RecvEntry, RecvRead, RecvCheck, RecvPut
  <2> QED BY <1>1, <1>2, <2>1 DEF Goto, RunCloses, Closers, Threads, PcOK
<1>5. CASE SendTake \/ SendWrite
  <2>1. \/ \E l \in {"take", "write"} : Goto("send", l)
        \/ closed /\ Goto("send", "isClosed")
    BY <1>2, <1>3, <1>5 DEF SendTake, SendWrite, StreamRefuses
  <2> QED BY <1>1, <1>2, <2>1 DEF Goto, RunCloses, Closers, Threads, PcOK
<1>6. CASE Server
  <2>1. UNCHANGED pc
    BY <1>6 DEF Server, ServerAnswer, ServerAsk, ServerFalls
  <2> QED BY <1>1, <1>2, <2>1 DEF RunCloses
<1> QED BY <1>4, <1>5, <1>6

LEMMA InitSole == Init => SoleCloser
<1> SUFFICES ASSUME Init PROVE SoleCloser
  OBVIOUS
<1>1. pc["run"] = "start" /\ pc["recv"] = "unborn" /\ pc["send"] = "unborn"
  BY DEF Init, Threads
<1> QED BY <1>1 DEF Init, SoleCloser, RunCloses, Closers

LEMMA NextSole == TypeInv /\ SoleCloser /\ [Next]_vars => SoleCloser'
<1> SUFFICES ASSUME TypeInv, SoleCloser, [Next]_vars PROVE SoleCloser'
  OBVIOUS
<1>1. CASE UNCHANGED vars
  BY <1>1
     DEF vars, connVars, sendVars, recvVars, beatVars, workVars, SoleCloser, RunCloses
<1>2. CASE Next
  BY <1>2, RunSole, OthersSole, CloseSole DEF Next, Run, Recv, Send, Threads
<1> QED BY <1>1, <1>2
-----------------------------------------------------------------------------
(* Type correctness: every channel and the stream keep to their capacity,   *)
(* and every goroutine that is about to send holds a message.               *)
THEOREM TypeCorrect == Spec => []TypeOK
<1>1. TypeInv => TypeOK
  BY PartsOfType DEF TypeInv
<1> QED BY InitTyped, NextTyped, <1>1, PTL DEF Spec

(* A panic that ends the client, by a channel closed twice or a send on a   *)
(* closed one, happens only after the server is lost: while it is           *)
(* connected, Run closes the agent alone, though three goroutines can, and  *)
(* though Close tests its flag and sets it in two critical sections.        *)
THEOREM CrashesOnlyAfterLoss == Spec => []CrashOnlyAfterLoss
<1>1. SoleCloser => CrashOnlyAfterLoss
  BY DEF SoleCloser, CrashOnlyAfterLoss
<1> QED BY InitTyped, NextTyped, InitSole, NextSole, <1>1, PTL DEF Spec
=============================================================================
