---------------------------- MODULE ManagerProofs ----------------------------
(***************************************************************************)
(* Proofs about Manager for every number of names, ports and callers, every *)
(* channel capacity and every pool size.                                    *)
(***************************************************************************)
EXTENDS Manager, TLAPS, SequenceTheorems

(***************************************************************************)
(* What a goroutine holds between two steps: the conjuncts that make       *)
(* TypeOK inductive.                                                       *)
(***************************************************************************)
HandsOK ==
    /\ pc["run"] \in {"register", "insert", "remove"} =>
           work \in Msg /\ work.name \in Names
    /\ pc["run"] \in {"reply", "replyPut"} => work \in Msg
    /\ pc["run"] = "fillPut" => fills < PoolSize
    /\ pc["recv"] \in {"check", "put"} => got \in Msg
    /\ pc["send"] = "write" => held \in Msg

TypeInv == TypeOK /\ HandsOK

LEMMA PoolSizeNat == PoolSize \in Nat
BY ManagerAssumption DEF PoolSize, PoolSizeOf

LEMMA Constructors ==
    /\ \A t \in PlainTypes : Plain(t) \in Msg
    /\ LoginResponse \in Msg
    /\ \A n \in Names, b \in BOOLEAN : ProxyRequest(n, b) \in Msg
    /\ \A n \in Names \cup {None}, b \in BOOLEAN : ProxyResponse(n, b) \in Msg
<1> USE DEF Msg, Messages
<1>1. \A t \in PlainTypes : Plain(t) \in Msg
  BY DEF Plain
<1>2. LoginResponse \in Msg
  BY DEF LoginResponse, PlainTypes
<1>3. \A n \in Names, b \in BOOLEAN : ProxyRequest(n, b) \in Msg
  BY DEF ProxyRequest
<1>4. \A n \in Names \cup {None}, b \in BOOLEAN : ProxyResponse(n, b) \in Msg
  BY DEF ProxyResponse
<1> QED BY <1>1, <1>2, <1>3, <1>4

LEMMA RequestNamed ==
    ASSUME NEW m \in Msg, m.type = "ProxyRequest"
    PROVE  m.name \in Names
BY DEF Msg, Messages, PlainTypes

LEMMA AppendTyped ==
    ASSUME NEW q \in Seq(Msg), NEW m \in Msg, NEW c \in Nat, Len(q) < c
    PROVE  Append(q, m) \in Seq(Msg) /\ Len(Append(q, m)) <= c
BY AppendProperties, LenProperties

LEMMA TailTyped ==
    ASSUME NEW q \in Seq(Msg), q # <<>>, NEW c \in Nat, Len(q) <= c
    PROVE  Head(q) \in Msg /\ Tail(q) \in Seq(Msg) /\ Len(Tail(q)) <= c
BY HeadTailProperties, LenProperties

LEMMA RegTyped ==
    ASSUME TypeInv, Reg
    PROVE  TypeInv'
<1> USE DEF TypeInv, TypeOK, At, Goto,
        connVars, chanVars, proxyVars, localVars, srvVars, envVars
<1>1. CASE RegSpawn
  <2>1. QueuesOK'
    BY <1>1 DEF RegSpawn, QueuesOK
  <2>2. PcOK'
    BY <1>1 DEF RegSpawn, PcOK, Goroutines, Labels,
           RegLabels, RunLabels, RecvLabels, SendLabels, CloseLabels
  <2>3. (FlagsOK /\ LocalsOK /\ HandsOK)'
    BY <1>1 DEF RegSpawn, PcOK, FlagsOK, LocalsOK, HandsOK, QueuesOK, Goroutines
  <2> QED BY <2>1, <2>2, <2>3
<1>2. CASE RegInsert
  <2>1. QueuesOK'
    BY <1>2 DEF RegInsert, QueuesOK
  <2> QED BY <1>2, <2>1 DEF RegInsert, PcOK, FlagsOK, LocalsOK, HandsOK,
         Goroutines, Labels, RegLabels, RunLabels, RecvLabels, SendLabels, CloseLabels
<1>3. CASE RegRespond
  <2>1. QueuesOK'
    BY <1>3, Constructors, AppendTyped, ManagerAssumption DEF RegRespond, StreamAccepts,
           StreamRefuses, QueuesOK
  <2>2. PcOK'
    BY <1>3 DEF RegRespond, StreamAccepts, StreamRefuses, PcOK, Goroutines, Labels,
           RegLabels, RunLabels, RecvLabels, SendLabels, CloseLabels
  <2>3. (FlagsOK /\ LocalsOK /\ HandsOK)'
    BY <1>3 DEF RegRespond, StreamAccepts, StreamRefuses, PcOK, FlagsOK, LocalsOK, HandsOK,
           QueuesOK, Goroutines
  <2> QED BY <2>1, <2>2, <2>3
<1> QED BY <1>1, <1>2, <1>3 DEF Reg

LEMMA RunTyped ==
    ASSUME TypeInv, Run
    PROVE  TypeInv'
<1> USE DEF TypeInv, TypeOK, At, Goto,
        connVars, chanVars, proxyVars, localVars, srvVars, envVars
<1>1. CASE RunStart
  <2>1. QueuesOK'
    BY <1>1 DEF RunStart, QueuesOK
  <2>2. PcOK'
    BY <1>1 DEF RunStart, PcOK, Goroutines, Labels,
           RegLabels, RunLabels, RecvLabels, SendLabels, CloseLabels
  <2>3. (FlagsOK /\ LocalsOK /\ HandsOK)'
    BY <1>1 DEF RunStart, PcOK, FlagsOK, LocalsOK, HandsOK, QueuesOK, Goroutines
  <2> QED BY <2>1, <2>2, <2>3
<1>2. CASE RunFill
  <2>1. QueuesOK'
    BY <1>2 DEF RunFill, QueuesOK
  <2>2. PcOK'
    BY <1>2 DEF RunFill, PcOK, Goroutines, Labels,
           RegLabels, RunLabels, RecvLabels, SendLabels, CloseLabels
  <2>3. FlagsOK'
    BY <1>2 DEF RunFill, FlagsOK
  <2>4. LocalsOK'
    BY <1>2, PoolSizeNat DEF RunFill, LocalsOK, QueuesOK, HandsOK
  <2>5. HandsOK'
    BY <1>2, PoolSizeNat DEF RunFill, HandsOK, PcOK, QueuesOK, LocalsOK, Goroutines
  <2> QED BY <2>1, <2>2, <2>3, <2>4, <2>5
<1>3. CASE RunFillPut
  <2>1. QueuesOK'
    BY <1>3, Constructors, AppendTyped, ManagerAssumption DEF RunFillPut, ChanSend, PlainTypes,
           QueuesOK
  <2>2. PcOK'
    BY <1>3 DEF RunFillPut, ChanSend, PlainTypes, PcOK, Goroutines, Labels,
           RegLabels, RunLabels, RecvLabels, SendLabels, CloseLabels
  <2>3. (FlagsOK /\ LocalsOK /\ HandsOK)'
    BY <1>3, PoolSizeNat DEF RunFillPut, ChanSend, PlainTypes, PcOK, FlagsOK, LocalsOK, HandsOK,
           QueuesOK, Goroutines
  <2> QED BY <2>1, <2>2, <2>3
<1>4. CASE RunGet
  <2>1. QueuesOK'
    BY <1>4, TailTyped, ManagerAssumption DEF RunGet, RunDispatch, PlainTypes, QueuesOK
  <2>2. PcOK'
    BY <1>4 DEF RunGet, RunDispatch, PlainTypes, PcOK, Goroutines, Labels,
           RegLabels, RunLabels, RecvLabels, SendLabels, CloseLabels
  <2>3. (FlagsOK /\ LocalsOK /\ HandsOK)'
    BY <1>4, TailTyped, ManagerAssumption, Constructors, RequestNamed, SMTT(60) DEF RunGet, RunDispatch,
           PlainTypes, PcOK, FlagsOK, LocalsOK, HandsOK, QueuesOK, Goroutines
  <2> QED BY <2>1, <2>2, <2>3
<1>5. CASE RunRegister
  <2>1. QueuesOK'
    BY <1>5 DEF RunRegister, QueuesOK
  <2>2. PcOK'
    <3>1. Goto("run", "insert") \/ Goto("run", "list")
      BY <1>5 DEF RunRegister
    <3> QED BY <1>5, <3>1 DEF RunRegister, PcOK, Goroutines, Labels,
           RegLabels, RunLabels, RecvLabels, SendLabels, CloseLabels
  <2>3. FlagsOK'
    BY <1>5 DEF RunRegister, FlagsOK
  <2>4. LocalsOK'
    BY <1>5, Constructors DEF RunRegister, LocalsOK, QueuesOK, HandsOK
  <2>5. HandsOK'
    BY <1>5, Constructors DEF RunRegister, HandsOK, PcOK, QueuesOK, LocalsOK, Goroutines
  <2> QED BY <2>1, <2>2, <2>3, <2>4, <2>5
<1>6. CASE RunInsert
  <2>1. QueuesOK'
    BY <1>6 DEF RunInsert, QueuesOK
  <2>2. PcOK'
    BY <1>6 DEF RunInsert, PcOK, Goroutines, Labels,
           RegLabels, RunLabels, RecvLabels, SendLabels, CloseLabels
  <2>3. FlagsOK'
    BY <1>6 DEF RunInsert, FlagsOK
  <2>4. LocalsOK'
    BY <1>6, Constructors DEF RunInsert, LocalsOK, QueuesOK, HandsOK
  <2>5. HandsOK'
    BY <1>6, Constructors DEF RunInsert, HandsOK, PcOK, QueuesOK, LocalsOK, Goroutines
  <2> QED BY <2>1, <2>2, <2>3, <2>4, <2>5
<1>7. CASE RunRemove
  <2>1. QueuesOK'
    BY <1>7 DEF RunRemove, QueuesOK
  <2> QED BY <1>7, <2>1 DEF RunRemove, PcOK, FlagsOK, LocalsOK, HandsOK,
         Goroutines, Labels, RegLabels, RunLabels, RecvLabels, SendLabels, CloseLabels
<1>8. CASE RunUnlisten
  <2>1. QueuesOK'
    BY <1>8 DEF RunUnlisten, QueuesOK
  <2> QED BY <1>8, <2>1 DEF RunUnlisten, PcOK, FlagsOK, LocalsOK, HandsOK,
         Goroutines, Labels, RegLabels, RunLabels, RecvLabels, SendLabels, CloseLabels
<1>9. CASE RunList
  <2>1. QueuesOK'
    BY <1>9 DEF RunList, QueuesOK
  <2> QED BY <1>9, <2>1 DEF RunList, PcOK, FlagsOK, LocalsOK, HandsOK,
         Goroutines, Labels, RegLabels, RunLabels, RecvLabels, SendLabels, CloseLabels
<1>10. CASE RunReply
  <2>1. QueuesOK'
    BY <1>10 DEF RunReply, QueuesOK
  <2> QED BY <1>10, <2>1 DEF RunReply, PcOK, FlagsOK, LocalsOK, HandsOK,
         Goroutines, Labels, RegLabels, RunLabels, RecvLabels, SendLabels, CloseLabels
<1>11. CASE RunReplyPut
  <2>1. QueuesOK'
    BY <1>11, AppendTyped, ManagerAssumption DEF HandsOK, RunReplyPut, ChanSend, QueuesOK
  <2>2. PcOK'
    BY <1>11 DEF RunReplyPut, ChanSend, PcOK, Goroutines, Labels,
           RegLabels, RunLabels, RecvLabels, SendLabels, CloseLabels
  <2>3. (FlagsOK /\ LocalsOK /\ HandsOK)'
    BY <1>11 DEF RunReplyPut, ChanSend, PcOK, FlagsOK, LocalsOK, HandsOK, QueuesOK, Goroutines
  <2> QED BY <2>1, <2>2, <2>3
<1>12. CASE RunNotify
  <2>1. QueuesOK'
    BY <1>12 DEF RunNotify, QueuesOK
  <2> QED BY <1>12, <2>1 DEF RunNotify, PcOK, FlagsOK, LocalsOK, HandsOK,
         Goroutines, Labels, RegLabels, RunLabels, RecvLabels, SendLabels, CloseLabels
<1> QED BY <1>1, <1>2, <1>3, <1>4, <1>5, <1>6, <1>7, <1>8, <1>9, <1>10, <1>11, <1>12 DEF Run

LEMMA CloseTyped ==
    ASSUME TypeInv, NEW t \in Closers, Close(t)
    PROVE  TypeInv'
<1> USE DEF TypeInv, TypeOK, At, Goto, Return, Closers,
        connVars, chanVars, proxyVars, localVars, srvVars, envVars
<1>1. CASE CloseIsClosed(t)
  <2>1. QueuesOK'
    BY <1>1 DEF CloseIsClosed, QueuesOK
  <2>2. PcOK'
    BY <1>1 DEF CloseIsClosed, PcOK, Goroutines, Labels,
           RegLabels, RunLabels, RecvLabels, SendLabels, CloseLabels
  <2>3. FlagsOK'
    BY <1>1 DEF CloseIsClosed, FlagsOK
  <2>4. LocalsOK'
    BY <1>1 DEF CloseIsClosed, LocalsOK, QueuesOK, HandsOK
  <2>5. HandsOK'
    BY <1>1 DEF CloseIsClosed, HandsOK, PcOK, QueuesOK, LocalsOK, Goroutines
  <2> QED BY <2>1, <2>2, <2>3, <2>4, <2>5
<1>2. CASE CloseSet(t)
  <2>1. QueuesOK'
    BY <1>2 DEF CloseSet, QueuesOK
  <2>2. PcOK'
    BY <1>2 DEF CloseSet, PcOK, Goroutines, Labels,
           RegLabels, RunLabels, RecvLabels, SendLabels, CloseLabels
  <2>3. FlagsOK'
    BY <1>2 DEF CloseSet, FlagsOK
  <2>4. LocalsOK'
    BY <1>2 DEF CloseSet, LocalsOK, QueuesOK, HandsOK
  <2>5. HandsOK'
    BY <1>2 DEF CloseSet, HandsOK, PcOK, QueuesOK, LocalsOK, Goroutines
  <2> QED BY <2>1, <2>2, <2>3, <2>4, <2>5
<1>3. CASE CloseConn(t)
  <2>1. QueuesOK'
    BY <1>3 DEF CloseConn, QueuesOK
  <2>2. PcOK'
    BY <1>3 DEF CloseConn, PcOK, Goroutines, Labels,
           RegLabels, RunLabels, RecvLabels, SendLabels, CloseLabels
  <2>3. FlagsOK'
    BY <1>3 DEF CloseConn, FlagsOK
  <2>4. LocalsOK'
    BY <1>3 DEF CloseConn, LocalsOK, QueuesOK, HandsOK
  <2>5. HandsOK'
    BY <1>3 DEF CloseConn, HandsOK, PcOK, QueuesOK, LocalsOK, Goroutines
  <2> QED BY <2>1, <2>2, <2>3, <2>4, <2>5
<1>4. CASE CloseSend(t)
  <2>1. QueuesOK'
    BY <1>4 DEF CloseSend, ClosePanics, Panics, QueuesOK
  <2>2. PcOK'
    <3>1. Goto(t, "closeRecv") \/ Goto(t, Return(t))
      BY <1>4 DEF CloseSend, ClosePanics
    <3> QED BY <1>4, <3>1 DEF CloseSend, PcOK, Goroutines, Labels,
           RegLabels, RunLabels, RecvLabels, SendLabels, CloseLabels
  <2>3. FlagsOK'
    BY <1>4 DEF CloseSend, ClosePanics, Panics, FlagsOK
  <2>4. LocalsOK'
    BY <1>4 DEF CloseSend, ClosePanics, Panics, LocalsOK, QueuesOK, HandsOK
  <2>5. HandsOK'
    BY <1>4, ZenonT(60) DEF CloseSend, ClosePanics, Panics, HandsOK, PcOK, QueuesOK, LocalsOK, Goroutines
  <2> QED BY <2>1, <2>2, <2>3, <2>4, <2>5
<1>5. CASE CloseRecv(t)
  <2>1. QueuesOK'
    BY <1>5 DEF CloseRecv, ClosePanics, Panics, QueuesOK
  <2>2. PcOK'
    <3>1. Goto(t, "closePool") \/ Goto(t, Return(t))
      BY <1>5 DEF CloseRecv, ClosePanics
    <3> QED BY <1>5, <3>1 DEF CloseRecv, PcOK, Goroutines, Labels,
           RegLabels, RunLabels, RecvLabels, SendLabels, CloseLabels
  <2>3. FlagsOK'
    BY <1>5 DEF CloseRecv, ClosePanics, Panics, FlagsOK
  <2>4. LocalsOK'
    BY <1>5 DEF CloseRecv, ClosePanics, Panics, LocalsOK, QueuesOK, HandsOK
  <2>5. HandsOK'
    <3>1. Goto(t, "closePool") \/ Goto(t, Return(t))
      BY <1>5 DEF CloseRecv, ClosePanics
    <3>2. UNCHANGED <<work, fills, held, got>>
      BY <1>5 DEF CloseRecv
    <3> QED BY <3>1, <3>2 DEF HandsOK, PcOK, Goroutines
  <2> QED BY <2>1, <2>2, <2>3, <2>4, <2>5
<1>6. CASE ClosePool(t)
  <2>1. QueuesOK'
    BY <1>6 DEF ClosePool, ClosePanics, Panics, QueuesOK
  <2>2. PcOK'
    <3>1. Goto(t, "lock") \/ Goto(t, Return(t))
      BY <1>6 DEF ClosePool, ClosePanics
    <3> QED BY <1>6, <3>1 DEF ClosePool, PcOK, Goroutines, Labels,
           RegLabels, RunLabels, RecvLabels, SendLabels, CloseLabels
  <2>3. FlagsOK'
    BY <1>6, ZenonT(60) DEF ClosePool, ClosePanics, Panics, FlagsOK
  <2>4. LocalsOK'
    BY <1>6 DEF ClosePool, ClosePanics, Panics, LocalsOK, QueuesOK, HandsOK
  <2>5. HandsOK'
    BY <1>6, ZenonT(60) DEF ClosePool, ClosePanics, Panics, HandsOK, PcOK, QueuesOK, LocalsOK, Goroutines
  <2> QED BY <2>1, <2>2, <2>3, <2>4, <2>5
<1>7. CASE CloseLock(t)
  <2>1. QueuesOK'
    BY <1>7 DEF CloseLock, QueuesOK
  <2>2. PcOK'
    BY <1>7 DEF CloseLock, PcOK, Goroutines, Labels,
           RegLabels, RunLabels, RecvLabels, SendLabels, CloseLabels
  <2>3. FlagsOK'
    BY <1>7 DEF CloseLock, FlagsOK
  <2>4. LocalsOK'
    BY <1>7 DEF CloseLock, LocalsOK, QueuesOK, HandsOK
  <2>5. HandsOK'
    BY <1>7 DEF CloseLock, HandsOK, PcOK, QueuesOK, LocalsOK, Goroutines
  <2> QED BY <2>1, <2>2, <2>3, <2>4, <2>5
<1>8. CASE CloseDelete(t)
  <2>1. QueuesOK'
    BY <1>8 DEF CloseDelete, QueuesOK
  <2>2. PcOK'
    BY <1>8 DEF CloseDelete, PcOK, Goroutines, Labels,
           RegLabels, RunLabels, RecvLabels, SendLabels, CloseLabels
  <2>3. FlagsOK'
    BY <1>8 DEF CloseDelete, FlagsOK
  <2>4. LocalsOK'
    BY <1>8 DEF CloseDelete, LocalsOK, QueuesOK, HandsOK
  <2>5. HandsOK'
    BY <1>8 DEF CloseDelete, HandsOK, PcOK, QueuesOK, LocalsOK, Goroutines
  <2> QED BY <2>1, <2>2, <2>3, <2>4, <2>5
<1> QED BY <1>1, <1>2, <1>3, <1>4, <1>5, <1>6, <1>7, <1>8 DEF Close

LEMMA RecvTyped ==
    ASSUME TypeInv, RecvEntry \/ RecvRead \/ RecvCheck \/ RecvPut
    PROVE  TypeInv'
<1> USE DEF TypeInv, TypeOK, At, Goto,
        connVars, chanVars, proxyVars, localVars, srvVars, envVars
<1>1. CASE RecvEntry
  <2>1. QueuesOK'
    BY <1>1 DEF RecvEntry, QueuesOK
  <2> QED BY <1>1, <2>1 DEF RecvEntry, PcOK, FlagsOK, LocalsOK, HandsOK,
         Goroutines, Labels, RegLabels, RunLabels, RecvLabels, SendLabels, CloseLabels
<1>2. CASE RecvRead
  <2>1. QueuesOK'
    BY <1>2, TailTyped, ManagerAssumption DEF RecvRead, QueuesOK
  <2>2. PcOK'
    BY <1>2 DEF RecvRead, PcOK, Goroutines, Labels,
           RegLabels, RunLabels, RecvLabels, SendLabels, CloseLabels
  <2>3. FlagsOK'
    BY <1>2 DEF RecvRead, FlagsOK
  <2>4. LocalsOK'
    BY <1>2, TailTyped, ManagerAssumption DEF RecvRead, LocalsOK, QueuesOK, HandsOK
  <2>5. HandsOK'
    BY <1>2, TailTyped, ManagerAssumption, SMTT(60) DEF RecvRead, HandsOK, PcOK, QueuesOK, LocalsOK,
           Goroutines
  <2> QED BY <2>1, <2>2, <2>3, <2>4, <2>5
<1>3. CASE RecvCheck
  <2>1. QueuesOK'
    BY <1>3 DEF RecvCheck, QueuesOK
  <2> QED BY <1>3, <2>1 DEF RecvCheck, PcOK, FlagsOK, LocalsOK, HandsOK,
         Goroutines, Labels, RegLabels, RunLabels, RecvLabels, SendLabels, CloseLabels
<1>4. CASE RecvPut
  <2>1. QueuesOK'
    BY <1>4, AppendTyped, ManagerAssumption DEF HandsOK, RecvPut, QueuesOK
  <2>2. PcOK'
    BY <1>4 DEF RecvPut, PcOK, Goroutines, Labels,
           RegLabels, RunLabels, RecvLabels, SendLabels, CloseLabels
  <2>3. (FlagsOK /\ LocalsOK /\ HandsOK)'
    BY <1>4, SMTT(60) DEF RecvPut, PcOK, FlagsOK, LocalsOK, HandsOK, QueuesOK, Goroutines
  <2> QED BY <2>1, <2>2, <2>3
<1> QED BY <1>1, <1>2, <1>3, <1>4

LEMMA SendTyped ==
    ASSUME TypeInv, Send
    PROVE  TypeInv'
<1> USE DEF TypeInv, TypeOK, At, Goto,
        connVars, chanVars, proxyVars, localVars, srvVars, envVars
<1>1. CASE SendTake
  <2>1. QueuesOK'
    BY <1>1, TailTyped, ManagerAssumption DEF SendTake, QueuesOK
  <2>2. PcOK'
    BY <1>1 DEF SendTake, PcOK, Goroutines, Labels,
           RegLabels, RunLabels, RecvLabels, SendLabels, CloseLabels
  <2>3. (FlagsOK /\ LocalsOK /\ HandsOK)'
    BY <1>1, TailTyped, ManagerAssumption, SMTT(60) DEF SendTake, PcOK, FlagsOK, LocalsOK, HandsOK,
           QueuesOK, Goroutines
  <2> QED BY <2>1, <2>2, <2>3
<1>2. CASE SendWrite
  <2>1. QueuesOK'
    BY <1>2, AppendTyped, ManagerAssumption DEF HandsOK, SendWrite, StreamAccepts, StreamRefuses,
           QueuesOK
  <2>2. PcOK'
    BY <1>2 DEF SendWrite, StreamAccepts, StreamRefuses, PcOK, Goroutines, Labels,
           RegLabels, RunLabels, RecvLabels, SendLabels, CloseLabels
  <2>3. (FlagsOK /\ LocalsOK /\ HandsOK)'
    BY <1>2 DEF SendWrite, StreamAccepts, StreamRefuses, PcOK, FlagsOK, LocalsOK, HandsOK,
           QueuesOK, Goroutines
  <2> QED BY <2>1, <2>2, <2>3
<1> QED BY <1>1, <1>2 DEF Send

LEMMA CallerTyped ==
    ASSUME TypeInv, Caller
    PROVE  TypeInv'
<1> USE DEF TypeInv, TypeOK, At, Goto,
        connVars, chanVars, proxyVars, localVars, srvVars, envVars
<1>1. ASSUME NEW c \in Callers, CallerCheck(c) PROVE TypeInv'
  <2>1. QueuesOK'
    BY <1>1 DEF CallerCheck, QueuesOK
  <2>2. PcOK'
    BY <1>1 DEF CallerCheck, PcOK, Goroutines, Labels,
           RegLabels, RunLabels, RecvLabels, SendLabels, CloseLabels
  <2>3. (FlagsOK /\ LocalsOK /\ HandsOK)'
    BY <1>1 DEF CallerCheck, PcOK, FlagsOK, LocalsOK, HandsOK, QueuesOK, Goroutines
  <2> QED BY <2>1, <2>2, <2>3
<1>2. ASSUME NEW c \in Callers, CallerPut(c) PROVE TypeInv'
  <2>1. QueuesOK'
    BY <1>2, Constructors, AppendTyped, ManagerAssumption DEF CallerPut, ChanSend, PlainTypes,
           QueuesOK
  <2>2. PcOK'
    BY <1>2 DEF CallerPut, ChanSend, PlainTypes, PcOK, Goroutines, Labels,
           RegLabels, RunLabels, RecvLabels, SendLabels, CloseLabels
  <2>3. (FlagsOK /\ LocalsOK /\ HandsOK)'
    BY <1>2 DEF CallerPut, ChanSend, PlainTypes, PcOK, FlagsOK, LocalsOK, HandsOK, QueuesOK,
           Goroutines
  <2> QED BY <2>1, <2>2, <2>3
<1> QED BY <1>1, <1>2 DEF Caller

LEMMA RestTyped ==
    ASSUME TypeInv, SrvRemove \/ MapRace \/ Client
    PROVE  TypeInv'
<1> USE DEF TypeInv, TypeOK, At, Goto,
        connVars, chanVars, proxyVars, localVars, srvVars, envVars
<1>1. CASE SrvRemove
  <2>1. QueuesOK'
    BY <1>1 DEF SrvRemove, QueuesOK
  <2>2. PcOK'
    BY <1>1 DEF SrvRemove, PcOK, Goroutines, Labels,
           RegLabels, RunLabels, RecvLabels, SendLabels, CloseLabels
  <2>3. FlagsOK'
    BY <1>1 DEF SrvRemove, FlagsOK
  <2>4. LocalsOK'
    BY <1>1 DEF SrvRemove, LocalsOK, QueuesOK, HandsOK
  <2>5. HandsOK'
    BY <1>1 DEF SrvRemove, HandsOK, PcOK, QueuesOK, LocalsOK, Goroutines
  <2> QED BY <2>1, <2>2, <2>3, <2>4, <2>5
<1>2. CASE MapRace
  <2>1. QueuesOK'
    BY <1>2 DEF MapRace, Panics, QueuesOK
  <2>2. PcOK'
    BY <1>2 DEF MapRace, PcOK
  <2>3. FlagsOK'
    BY <1>2 DEF MapRace, Panics, FlagsOK
  <2>4. LocalsOK'
    BY <1>2 DEF MapRace, LocalsOK
  <2>5. HandsOK'
    BY <1>2 DEF MapRace, HandsOK
  <2> QED BY <2>1, <2>2, <2>3, <2>4, <2>5
<1>3. CASE ClientLogin
  <2>1. QueuesOK'
    BY <1>3, TailTyped, ManagerAssumption DEF ClientLogin, QueuesOK
  <2>2. PcOK'
    BY <1>3 DEF ClientLogin, PcOK, Goroutines, Labels,
           RegLabels, RunLabels, RecvLabels, SendLabels, CloseLabels
  <2>3. (FlagsOK /\ LocalsOK /\ HandsOK)'
    BY <1>3 DEF ClientLogin, PcOK, FlagsOK, LocalsOK, HandsOK, QueuesOK, Goroutines
  <2> QED BY <2>1, <2>2, <2>3
<1>4. CASE ClientRead
  <2>1. QueuesOK'
    BY <1>4, Constructors, AppendTyped, TailTyped, ManagerAssumption DEF ClientRead, PlainTypes,
           QueuesOK
  <2>2. PcOK'
    BY <1>4 DEF ClientRead, PlainTypes, PcOK, Goroutines, Labels,
           RegLabels, RunLabels, RecvLabels, SendLabels, CloseLabels
  <2>3. (FlagsOK /\ LocalsOK /\ HandsOK)'
    BY <1>4 DEF ClientRead, PlainTypes, PcOK, FlagsOK, LocalsOK, HandsOK, QueuesOK, Goroutines
  <2> QED BY <2>1, <2>2, <2>3
<1>5. CASE ClientSend
  <2>1. QueuesOK'
    <3>1. PICK m \in Msg : inbox' = Append(inbox, m)
      BY <1>5, Constructors DEF ClientSend, PlainTypes, LocalsOK
    <3> QED BY <1>5, <3>1, AppendTyped, ManagerAssumption DEF ClientSend, QueuesOK
  <2>2. PcOK'
    BY <1>5 DEF ClientSend, PlainTypes, PcOK, Goroutines, Labels,
           RegLabels, RunLabels, RecvLabels, SendLabels, CloseLabels
  <2>3. FlagsOK'
    BY <1>5 DEF ClientSend, PlainTypes, FlagsOK
  <2>4. LocalsOK'
    <3>a. wanted \subseteq Names
      BY DEF LocalsOK
    <3>b. \/ wanted' = wanted
          \/ \E n \in Names \ wanted : wanted' = wanted \cup {n}
          \/ \E n \in wanted : wanted' = wanted \ {n}
      BY <1>5 DEF ClientSend
    <3>1. wanted' \subseteq Names
      BY <3>a, <3>b, Zenon
    <3> QED BY <1>5, <3>1, ManagerAssumption DEF ClientSend, LocalsOK
  <2>5. HandsOK'
    BY <1>5, ManagerAssumption DEF ClientSend, PlainTypes, HandsOK, PcOK, QueuesOK, LocalsOK,
           Goroutines
  <2> QED BY <2>1, <2>2, <2>3, <2>4, <2>5
<1>6. CASE ClientGone
  <2>1. QueuesOK'
    BY <1>6 DEF ClientGone, QueuesOK
  <2> QED BY <1>6, <2>1 DEF ClientGone, PcOK, FlagsOK, LocalsOK, HandsOK,
         Goroutines, Labels, RegLabels, RunLabels, RecvLabels, SendLabels, CloseLabels
<1> QED BY <1>1, <1>2, <1>3, <1>4, <1>5, <1>6 DEF Client

LEMMA StutterTyped == ASSUME TypeInv, UNCHANGED vars PROVE TypeInv'
BY DEF vars, TypeInv, TypeOK, PcOK, FlagsOK, QueuesOK, LocalsOK, HandsOK,
       connVars, chanVars, proxyVars, localVars, srvVars, envVars

LEMMA InitTyped == Init => TypeInv
<1> SUFFICES ASSUME Init PROVE TypeInv
  OBVIOUS
<1> USE DEF Init
<1>1. PcOK
  BY DEF PcOK, Goroutines, Labels, RegLabels, RunLabels, RecvLabels, SendLabels, CloseLabels
<1>2. FlagsOK /\ HandsOK
  BY DEF FlagsOK, HandsOK, Goroutines
<1>4. LocalsOK
  BY PoolSizeNat, ManagerAssumption DEF LocalsOK
<1>3. QueuesOK
  BY ManagerAssumption DEF QueuesOK
<1> QED BY <1>1, <1>2, <1>3, <1>4 DEF TypeInv, TypeOK

LEMMA StepTyped == TypeInv /\ [Next]_vars => TypeInv'
BY RegTyped, RunTyped, CloseTyped, RecvTyped, SendTyped, CallerTyped, RestTyped, StutterTyped
   DEF Next, Recv, Srv, Closers

(* Every variable of a manager keeps its type: no channel or stream is ever *)
(* filled beyond its capacity, and Run never names a proxy it was not asked *)
(* for, whatever the interleaving of its goroutines and its client.         *)
THEOREM TypeCorrect == Spec => []TypeOK
<1>1. TypeInv => TypeOK
  BY DEF TypeInv
<1> QED BY <1>1, InitTyped, StepTyped, PTL DEF Spec

-----------------------------------------------------------------------------
(***************************************************************************)
(* Who closes the manager.  Two goroutines call Close and nothing makes    *)
(* its test and its assignment one step, so NoDoubleClose is not inductive *)
(* by itself.  It holds because of an order between the goroutines: only   *)
(* awaitReceive ever gets past the test, and what wakes awaitManagerDone,  *)
(* Run's notice, is a consequence of the flag being set.                   *)
(***************************************************************************)
AfterSet == {"conn", "closeSend", "closeRecv", "closePool", "lock", "delete", "done"}

CloseInv ==
    /\ pc["reg"] = "spawn" => pc["run"] = "unborn"
    /\ pc["run"] \in {"unborn", "start"} => pc["recv"] = "unborn"
    /\ pc["srv"] \in {"idle", "isClosed"}
    /\ pc["run"] \in {"notify", "done"} \/ notice \/ pc["srv"] = "isClosed" => closed
    /\ closed <=> pc["recv"] \in AfterSet
    /\ sendClosed => pc["recv"] \in AfterSet \ {"conn", "closeSend"}
    /\ recvClosed => pc["recv"] \in {"closePool", "lock", "delete", "done"}
    /\ poolClosed => pc["recv"] \in {"lock", "delete", "done"}
    /\ NoDoubleClose

LEMMA RunCloseInv ==
    ASSUME TypeInv, CloseInv, Run
    PROVE  CloseInv'
<1> USE DEF TypeInv, TypeOK, PcOK, Goroutines, CloseInv, NoDoubleClose, AfterSet, At, Goto,
        connVars, chanVars, proxyVars, localVars, srvVars, envVars
<1>1. CASE RunStart
  BY <1>1 DEF RunStart
<1>2. CASE RunFill
  BY <1>2 DEF RunFill
<1>3. CASE RunFillPut
  BY <1>3 DEF RunFillPut
<1>4. CASE RunGet
  BY <1>4 DEF RunGet, RunDispatch
<1>5. CASE RunRegister
  BY <1>5, ZenonT(60) DEF RunRegister
<1>6. CASE RunInsert
  BY <1>6 DEF RunInsert
<1>7. CASE RunRemove
  BY <1>7 DEF RunRemove
<1>8. CASE RunUnlisten
  BY <1>8 DEF RunUnlisten
<1>9. CASE RunList
  BY <1>9 DEF RunList
<1>10. CASE RunReply
  BY <1>10 DEF RunReply
<1>11. CASE RunReplyPut
  BY <1>11 DEF RunReplyPut
<1>12. CASE RunNotify
  BY <1>12 DEF RunNotify
<1> QED BY <1>1, <1>2, <1>3, <1>4, <1>5, <1>6, <1>7, <1>8, <1>9, <1>10, <1>11, <1>12 DEF Run

LEMMA RecvCloseInv ==
    ASSUME TypeInv, CloseInv, Recv
    PROVE  CloseInv'
<1> USE DEF TypeInv, TypeOK, PcOK, Goroutines, CloseInv, NoDoubleClose, AfterSet, At, Goto, Return,
        connVars, chanVars, proxyVars, localVars, srvVars, envVars
<1>1. CASE RecvEntry
  BY <1>1 DEF RecvEntry
<1>2. CASE RecvRead
  BY <1>2 DEF RecvRead
<1>3. CASE RecvCheck
  BY <1>3 DEF RecvCheck
<1>4. CASE RecvPut
  BY <1>4 DEF RecvPut
<1>5. CASE CloseIsClosed("recv")
  BY <1>5 DEF CloseIsClosed
<1>6. CASE CloseSet("recv")
  BY <1>6 DEF CloseSet
<1>7. CASE CloseConn("recv")
  BY <1>7 DEF CloseConn
<1>8. CASE CloseSend("recv")
  BY <1>8 DEF CloseSend, ClosePanics
<1>9. CASE CloseRecv("recv")
  BY <1>9 DEF CloseRecv, ClosePanics
<1>10. CASE ClosePool("recv")
  BY <1>10, ZenonT(60) DEF ClosePool, ClosePanics
<1>11. CASE CloseLock("recv")
  BY <1>11 DEF CloseLock
<1>12. CASE CloseDelete("recv")
  BY <1>12 DEF CloseDelete
<1> QED BY <1>1, <1>2, <1>3, <1>4, <1>5, <1>6, <1>7, <1>8, <1>9, <1>10, <1>11, <1>12 DEF Recv, Close

LEMMA SrvCloseInv ==
    ASSUME TypeInv, CloseInv, Srv
    PROVE  CloseInv'
<1> USE DEF TypeInv, TypeOK, PcOK, Goroutines, CloseInv, NoDoubleClose, AfterSet, At, Goto, Return,
        connVars, chanVars, proxyVars, localVars, srvVars, envVars
<1>1. CASE SrvRemove
  BY <1>1 DEF SrvRemove
<1>2. CASE CloseIsClosed("srv")
  BY <1>2 DEF CloseIsClosed
<1>3. CASE CloseSet("srv")
  BY <1>3 DEF CloseSet
<1>4. CASE CloseConn("srv")
  BY <1>4 DEF CloseConn
<1>5. CASE CloseSend("srv")
  BY <1>5 DEF CloseSend
<1>6. CASE CloseRecv("srv")
  BY <1>6 DEF CloseRecv
<1>7. CASE ClosePool("srv")
  BY <1>7 DEF ClosePool
<1>8. CASE CloseLock("srv")
  BY <1>8 DEF CloseLock
<1>9. CASE CloseDelete("srv")
  BY <1>9 DEF CloseDelete
<1> QED BY <1>1, <1>2, <1>3, <1>4, <1>5, <1>6, <1>7, <1>8, <1>9 DEF Srv, Close

LEMMA RestCloseInv ==
    ASSUME TypeInv, CloseInv, Reg \/ Send \/ Caller \/ MapRace \/ Client
    PROVE  CloseInv'
<1> USE DEF TypeInv, TypeOK, PcOK, Goroutines, CloseInv, NoDoubleClose, AfterSet, At, Goto,
        connVars, chanVars, proxyVars, localVars, srvVars, envVars
<1>1. CASE RegSpawn
  BY <1>1 DEF RegSpawn
<1>2. CASE RegInsert
  BY <1>2 DEF RegInsert
<1>3. CASE RegRespond
  BY <1>3 DEF RegRespond
<1>4. CASE SendTake
  BY <1>4 DEF SendTake
<1>5. CASE SendWrite
  BY <1>5 DEF SendWrite
<1>6. ASSUME NEW c \in Callers, CallerCheck(c) PROVE CloseInv'
  BY <1>6 DEF CallerCheck
<1>7. ASSUME NEW c \in Callers, CallerPut(c) PROVE CloseInv'
  BY <1>7 DEF CallerPut
<1>8. CASE MapRace
  BY <1>8 DEF MapRace
<1>9. CASE ClientLogin
  BY <1>9 DEF ClientLogin
<1>10. CASE ClientRead
  BY <1>10 DEF ClientRead
<1>11. CASE ClientSend
  BY <1>11 DEF ClientSend
<1>12. CASE ClientGone
  BY <1>12 DEF ClientGone
<1> QED BY <1>1, <1>2, <1>3, <1>4, <1>5, <1>6, <1>7, <1>8, <1>9, <1>10, <1>11, <1>12 DEF Reg,
       Send, Caller, Client

LEMMA StutterCloseInv == ASSUME CloseInv, UNCHANGED vars PROVE CloseInv'
BY DEF vars, CloseInv, NoDoubleClose, connVars, chanVars, proxyVars, localVars, srvVars, envVars

LEMMA StepCloseInv == TypeInv /\ CloseInv /\ [Next]_vars => CloseInv'
BY RunCloseInv, RecvCloseInv, SrvCloseInv, RestCloseInv, StutterCloseInv DEF Next

LEMMA InitCloseInv == Init => CloseInv
BY DEF Init, CloseInv, NoDoubleClose, AfterSet, Goroutines

(* Although two goroutines call Close behind a test that is not atomic with *)
(* its assignment, no channel of the manager is closed twice: the server is *)
(* never brought down by a client that disconnects.                         *)
THEOREM NeverClosedTwice == Spec => []NoDoubleClose
<1>1. CloseInv => NoDoubleClose
  BY DEF CloseInv
<1> QED BY <1>1, InitTyped, StepTyped, InitCloseInv, StepCloseInv, PTL DEF Spec

(* A manager is taken out of Server.managers only once it is closed: what   *)
(* awaitManagerDone reads from mgrDone is always the notice of a manager    *)
(* whose awaitReceive has seen the stream fail.                             *)
THEOREM RemovedOnlyClosed == Spec => RemovedOnlyIfClosed
<1>1. TypeInv /\ CloseInv /\ [Next]_vars => [registered /\ ~registered' => closed]_vars
  <2> SUFFICES ASSUME TypeInv, CloseInv, Next, registered, ~registered'
               PROVE  closed
    OBVIOUS
  <2>1. CASE SrvRemove
    BY <2>1 DEF SrvRemove, CloseInv
  <2>2. CASE ~SrvRemove
    <3>1. registered' = registered \/ RegInsert
      BY <2>2 DEF Next, Reg, Run, Recv, Send, Srv, Caller, Client, Close,
             RegSpawn, RegRespond, RunStart, RunFill, RunFillPut, RunGet, RunRegister, RunInsert,
             RunRemove, RunUnlisten, RunList, RunReply, RunReplyPut, RunNotify,
             RecvEntry, RecvRead, RecvCheck, RecvPut, SendTake, SendWrite,
             CloseIsClosed, CloseSet, CloseConn, CloseSend, CloseRecv, ClosePool, CloseLock, CloseDelete,
             CallerCheck, CallerPut, MapRace, ClientLogin, ClientRead, ClientSend, ClientGone, srvVars
    <3> QED BY <3>1 DEF RegInsert
  <2> QED BY <2>1, <2>2
<1> QED BY <1>1, InitTyped, StepTyped, InitCloseInv, StepCloseInv, PTL DEF Spec, RemovedOnlyIfClosed

-----------------------------------------------------------------------------
(***************************************************************************)
(* The map and the listeners.  Between listening and entering the map, and *)
(* between leaving the map and closing, Run holds a port that no name has. *)
(***************************************************************************)
PortInv ==
    /\ ProxiesListen
    /\ pc["run"] = "insert" =>
           port \in listening /\ port \in Ports /\ \A n \in Names : proxies[n] # port
    /\ pc["run"] = "unlisten" => port \in Ports /\ \A n \in Names : proxies[n] # port

LEMMA RunPortInv ==
    ASSUME TypeInv, PortInv, Run
    PROVE  PortInv'
<1> USE DEF TypeInv, TypeOK, PcOK, LocalsOK, HandsOK, Goroutines, PortInv, ProxiesListen, At, Goto,
        connVars, chanVars, proxyVars, localVars, srvVars, envVars
<1>1. CASE RunStart
  BY <1>1, ManagerAssumption DEF RunStart
<1>2. CASE RunFill
  BY <1>2, ManagerAssumption DEF RunFill
<1>3. CASE RunFillPut
  BY <1>3, ManagerAssumption DEF RunFillPut
<1>4. CASE RunGet
  BY <1>4, ManagerAssumption DEF RunGet, RunDispatch
<1>5. CASE RunRegister
  <2>1. UNCHANGED proxies
    BY <1>5 DEF RunRegister
  <2>2. CASE pc'["run"] = "list" /\ UNCHANGED <<listening, port>>
    BY <2>1, <2>2
  <2>3. CASE \E p \in Ports \ listening :
               listening' = listening \cup {p} /\ port' = p /\ pc'["run"] = "insert"
    BY <2>1, <2>3, ManagerAssumption
  <2> QED BY <1>5, <2>2, <2>3 DEF RunRegister
<1>6. CASE RunInsert
  BY <1>6, ManagerAssumption DEF RunInsert
<1>7. CASE RunRemove
  BY <1>7, ManagerAssumption DEF RunRemove
<1>8. CASE RunUnlisten
  BY <1>8, ManagerAssumption DEF RunUnlisten
<1>9. CASE RunList
  BY <1>9, ManagerAssumption DEF RunList
<1>10. CASE RunReply
  BY <1>10, ManagerAssumption DEF RunReply
<1>11. CASE RunReplyPut
  BY <1>11, ManagerAssumption DEF RunReplyPut
<1>12. CASE RunNotify
  BY <1>12, ManagerAssumption DEF RunNotify
<1> QED BY <1>1, <1>2, <1>3, <1>4, <1>5, <1>6, <1>7, <1>8, <1>9, <1>10, <1>11, <1>12 DEF Run

LEMMA ClosePortInv ==
    ASSUME TypeInv, PortInv, NEW t \in Closers, Close(t)
    PROVE  PortInv'
<1>1. CASE CloseDelete(t)
  BY <1>1, ManagerAssumption
     DEF CloseDelete, TypeInv, TypeOK, PcOK, LocalsOK, Goroutines, PortInv, ProxiesListen,
         At, Goto, Return, Closers
<1>2. CASE ~CloseDelete(t)
  <2>1. \E label : Goto(t, label)
    BY <1>2 DEF Close, CloseIsClosed, CloseSet, CloseConn, CloseSend, CloseRecv, ClosePool,
           CloseLock, ClosePanics
  <2>2. pc'["run"] = pc["run"]
    BY <2>1 DEF Goto, Closers, TypeInv, TypeOK, PcOK, Goroutines
  <2>3. UNCHANGED <<proxies, listening, port>>
    BY <1>2 DEF Close, CloseIsClosed, CloseSet, CloseConn, CloseSend, CloseRecv, ClosePool,
           CloseLock, proxyVars
  <2> QED BY <2>2, <2>3 DEF PortInv, ProxiesListen
<1> QED BY <1>1, <1>2

LEMMA RestPortInv ==
    ASSUME TypeInv, PortInv,
           \/ Reg \/ RecvEntry \/ RecvRead \/ RecvCheck \/ RecvPut \/ Send
           \/ SrvRemove \/ Caller \/ MapRace \/ Client \/ UNCHANGED vars
    PROVE  PortInv'
<1>1. UNCHANGED <<proxies, listening, port>> /\ (pc'["run"] = pc["run"] \/ pc'["run"] = "start")
  BY DEF TypeInv, TypeOK, PcOK, Goroutines, Goto, Reg, Send, Caller, Client, vars, proxyVars,
         RegSpawn, RegInsert, RegRespond, RecvEntry, RecvRead, RecvCheck, RecvPut, SendTake, SendWrite,
         SrvRemove, CallerCheck, CallerPut, MapRace, ClientLogin, ClientRead, ClientSend, ClientGone
<1> QED BY <1>1 DEF PortInv, ProxiesListen

LEMMA StepPortInv == TypeInv /\ PortInv /\ [Next]_vars => PortInv'
BY RunPortInv, ClosePortInv, RestPortInv DEF Next, Recv, Srv, Closers

LEMMA InitPortInv == Init => PortInv
BY DEF Init, PortInv, ProxiesListen, Goroutines

(* The map never advertises a port that nobody listens on, nor one port for *)
(* two names: Close emptying the map between two steps of Run, and Run      *)
(* filling it between two steps of Close, do not break this.                *)
THEOREM AdvertisedPortsListen == Spec => []ProxiesListen
<1>1. PortInv => ProxiesListen
  BY DEF PortInv
<1> QED BY <1>1, InitTyped, StepTyped, InitPortInv, StepPortInv, PTL DEF Spec

-----------------------------------------------------------------------------
(***************************************************************************)
(* No listener is forgotten while the manager is open.  RunInsert writes    *)
(* the map without looking, so that a name enabled twice would lose its     *)
(* first listener.  The server never checks for this: what prevents it is   *)
(* that the client switches a name on only while it is off, that requests   *)
(* reach Run in the order they were sent, and that none is lost before the  *)
(* manager is closed.  The invariant follows the requests along the way.    *)
(***************************************************************************)
Enables(n, m)  == m.type = "ProxyRequest" /\ m.flag /\ m.name = n
Disables(n, m) == m.type = "ProxyRequest" /\ ~m.flag /\ m.name = n

(* The requests sent and not yet taken by Run, in the order Run will see them. *)
OnTheWay(taken, rpc, m, unread) ==
    taken \o ((IF rpc \in {"check", "put"} THEN <<m>> ELSE <<>>) \o unread)

Pipeline == OnTheWay(recvBuf, pc["recv"], got, inbox)

(* With on, name n is switched on before the requests q; with open, it may be *)
(* switched on after them.                                                    *)
SwitchedOn(n, on, q, i) == IF i = 0 THEN on ELSE Enables(n, q[i])
ToSwitchOn(n, open, q, j) == IF j = Len(q) + 1 THEN open ELSE Enables(n, q[j])

(* Between any two times that n is switched on, it is switched off. *)
Alternates(n, on, q, open) ==
    \A i \in 0 .. Len(q), j \in 1 .. Len(q) + 1 :
        i < j /\ SwitchedOn(n, on, q, i) /\ ToSwitchOn(n, open, q, j) =>
            \E k \in 1 .. Len(q) : i < k /\ k < j /\ Disables(n, q[k])

(* The name has a proxy that Run is not about to remove, or is about to get one. *)
OnAtRun(n) ==
    \/ proxies[n] # None /\ ~(pc["run"] = "remove" /\ work.name = n)
    \/ pc["run"] \in {"register", "insert"} /\ work.name = n

OrderInv ==
    ~closed => \A n \in Names : Alternates(n, OnAtRun(n), Pipeline, n \notin wanted)

OwnInv ==
    /\ ListenersOwned
    /\ pc["run"] \notin {"insert", "unlisten"} => port = None
    /\ ~closed /\ pc["run"] \in {"register", "insert"} => proxies[work.name] = None

LEMMA FirstNotOn ==
    ASSUME NEW n, NEW on \in BOOLEAN, NEW open \in BOOLEAN, NEW q \in Seq(Msg), q # <<>>,
           Alternates(n, on, q, open), Enables(n, Head(q))
    PROVE  ~on
<1>1. Len(q) \in Nat \ {0} /\ Head(q) = q[1]
  BY EmptySeq
<1> QED BY <1>1 DEF Alternates, SwitchedOn, ToSwitchOn

LEMMA AlternatesLess ==
    ASSUME NEW n, NEW on \in BOOLEAN, NEW less \in BOOLEAN, less => on,
           NEW open \in BOOLEAN, NEW q \in Seq(Msg), Alternates(n, on, q, open)
    PROVE  Alternates(n, less, q, open)
BY DEF Alternates, SwitchedOn

LEMMA AlternatesTail ==
    ASSUME NEW n, NEW on \in BOOLEAN, NEW next \in BOOLEAN, NEW open \in BOOLEAN,
           NEW q \in Seq(Msg), q # <<>>, Alternates(n, on, q, open),
           next => Enables(n, Head(q)) \/ (on /\ ~Disables(n, Head(q)))
    PROVE  Alternates(n, next, Tail(q), open)
<1> DEFINE t == Tail(q)
<1>1. /\ Len(q) \in Nat \ {0} /\ Head(q) = q[1] /\ Len(t) \in Nat /\ Len(q) = Len(t) + 1
      /\ \A i \in 1 .. Len(t) : t[i] = q[i + 1]
  BY EmptySeq, HeadTailProperties, LenProperties
<1> HIDE DEF t
<1> SUFFICES ASSUME NEW i \in 0 .. Len(t), NEW j \in 1 .. Len(t) + 1, i < j,
                    SwitchedOn(n, next, t, i), ToSwitchOn(n, open, t, j)
             PROVE  \E k \in 1 .. Len(t) : i < k /\ k < j /\ Disables(n, t[k])
  BY DEF Alternates, t
<1>2. ToSwitchOn(n, open, q, j + 1)
  BY <1>1 DEF ToSwitchOn
<1>3. CASE SwitchedOn(n, on, q, i + 1)
  <2>1. PICK k \in 1 .. Len(q) : i + 1 < k /\ k < j + 1 /\ Disables(n, q[k])
    <3>1. i + 1 \in 0 .. Len(q) /\ j + 1 \in 1 .. Len(q) + 1 /\ i + 1 < j + 1
      BY <1>1
    <3> QED BY <3>1, <1>2, <1>3 DEF Alternates
  <2>2. k - 1 \in 1 .. Len(t) /\ i < k - 1 /\ k - 1 < j /\ t[k - 1] = q[k]
    BY <1>1, <2>1
  <2> QED BY <2>1, <2>2
<1>4. CASE i = 0 /\ on /\ ~Disables(n, Head(q))
  <2>1. PICK k \in 1 .. Len(q) : 0 < k /\ k < j + 1 /\ Disables(n, q[k])
    <3>1. 0 \in 0 .. Len(q) /\ j + 1 \in 1 .. Len(q) + 1 /\ 0 < j + 1 /\ SwitchedOn(n, on, q, 0)
      BY <1>1, <1>4 DEF SwitchedOn
    <3> QED BY <3>1, <1>2 DEF Alternates
  <2>2. k # 1
    BY <1>1, <1>4, <2>1
  <2>3. k - 1 \in 1 .. Len(t) /\ i < k - 1 /\ k - 1 < j /\ t[k - 1] = q[k]
    BY <1>1, <1>4, <2>1, <2>2
  <2> QED BY <2>1, <2>3
<1>5. SwitchedOn(n, on, q, i + 1) \/ (i = 0 /\ on /\ ~Disables(n, Head(q)))
  BY <1>1 DEF SwitchedOn
<1> QED BY <1>3, <1>4, <1>5

LEMMA AlternatesAppend ==
    ASSUME NEW n, NEW on \in BOOLEAN, NEW open \in BOOLEAN, NEW next \in BOOLEAN,
           NEW q \in Seq(Msg), NEW m \in Msg, Alternates(n, on, q, open),
           Enables(n, m) => open /\ ~next,
           next => open \/ Disables(n, m)
    PROVE  Alternates(n, on, Append(q, m), next)
<1> DEFINE t == Append(q, m)
<1>1. /\ Len(q) \in Nat /\ Len(t) = Len(q) + 1
      /\ \A i \in 1 .. Len(q) : t[i] = q[i]
      /\ t[Len(q) + 1] = m
  BY AppendProperties, LenProperties
<1> HIDE DEF t
<1> SUFFICES ASSUME NEW i \in 0 .. Len(t), NEW j \in 1 .. Len(t) + 1, i < j,
                    SwitchedOn(n, on, t, i), ToSwitchOn(n, next, t, j)
             PROVE  \E k \in 1 .. Len(t) : i < k /\ k < j /\ Disables(n, t[k])
  BY DEF Alternates, t
<1>2. ASSUME NEW k \in 1 .. Len(q), i < k, k < j, Disables(n, q[k])
      PROVE  \E l \in 1 .. Len(t) : i < l /\ l < j /\ Disables(n, t[l])
  <2>1. k \in 1 .. Len(t) /\ t[k] = q[k]
    BY <1>1
  <2> QED BY <1>2, <2>1
<1>3. CASE i = Len(t)
  <2>1. j = Len(t) + 1 /\ next /\ Enables(n, m)
    BY <1>1, <1>3 DEF SwitchedOn, ToSwitchOn
  <2> QED BY <2>1
<1>4. CASE i # Len(t) /\ j = Len(t) + 1 /\ Disables(n, m)
  <2>1. Len(t) \in 1 .. Len(t) /\ i < Len(t) /\ Len(t) < j /\ t[Len(t)] = m
    BY <1>1, <1>4
  <2> QED BY <1>4, <2>1
<1>5. CASE i # Len(t) /\ ~(j = Len(t) + 1 /\ Disables(n, m))
  <2> DEFINE jj == IF j = Len(t) + 1 THEN Len(q) + 1 ELSE j
  <2>1. i \in 0 .. Len(q) /\ jj \in 1 .. Len(q) + 1 /\ i < jj /\ jj <= j
    BY <1>1, <1>5
  <2>2. SwitchedOn(n, on, q, i)
    BY <1>1, <2>1 DEF SwitchedOn
  <2>3. ToSwitchOn(n, open, q, jj)
    <3>1. CASE j = Len(t) + 1
      BY <1>1, <1>5, <3>1 DEF ToSwitchOn
    <3>2. CASE j = Len(q) + 1
      BY <1>1, <3>2 DEF ToSwitchOn
    <3>3. CASE j \in 1 .. Len(q)
      BY <1>1, <3>3 DEF ToSwitchOn
    <3> QED BY <1>1, <3>1, <3>2, <3>3
  <2>4. PICK k \in 1 .. Len(q) : i < k /\ k < jj /\ Disables(n, q[k])
    <3> HIDE DEF jj
    <3> QED BY <2>1, <2>2, <2>3 DEF Alternates
  <2>5. k < j
    BY <1>1, <2>1, <2>4
  <2> QED BY <1>2, <2>4, <2>5
<1> QED BY <1>3, <1>4, <1>5

(* How the steps that move requests along change the sequence of them. *)
LEMMA ConcatTail ==
    ASSUME NEW r \in Seq(Msg), r # <<>>, NEW x \in Seq(Msg)
    PROVE  r \o x # <<>> /\ Head(r \o x) = Head(r) /\ Tail(r \o x) = Tail(r) \o x
<1>1. /\ Len(r) \in Nat \ {0} /\ Len(x) \in Nat /\ r \o x \in Seq(Msg)
      /\ Len(r \o x) = Len(r) + Len(x)
      /\ \A i \in 1 .. Len(r) + Len(x) :
             (r \o x)[i] = IF i <= Len(r) THEN r[i] ELSE x[i - Len(r)]
  BY EmptySeq, LenProperties, ConcatProperties
<1>2. r \o x # <<>>
  BY <1>1, EmptySeq
<1>3. Head(r \o x) = (r \o x)[1] /\ Head(r) = r[1]
  BY <1>1
<1>4. Head(r \o x) = Head(r)
  BY <1>1, <1>3
<1>5. /\ Tail(r) \in Seq(Msg) /\ Len(Tail(r)) = Len(r) - 1
      /\ \A i \in 1 .. Len(Tail(r)) : Tail(r)[i] = r[i + 1]
  BY HeadTailProperties
<1>6. /\ Tail(r \o x) \in Seq(Msg) /\ Len(Tail(r \o x)) = Len(r \o x) - 1
      /\ \A i \in 1 .. Len(Tail(r \o x)) : Tail(r \o x)[i] = (r \o x)[i + 1]
  BY <1>1, <1>2, HeadTailProperties
<1>7. /\ Tail(r) \o x \in Seq(Msg) /\ Len(Tail(r) \o x) = Len(Tail(r)) + Len(x)
      /\ \A i \in 1 .. Len(Tail(r)) + Len(x) :
             (Tail(r) \o x)[i] = IF i <= Len(Tail(r)) THEN Tail(r)[i] ELSE x[i - Len(Tail(r))]
  BY <1>5, ConcatProperties
<1>8. Len(Tail(r \o x)) = Len(Tail(r) \o x)
  BY <1>1, <1>5, <1>6, <1>7
<1>9. ASSUME NEW i \in 1 .. Len(Tail(r \o x)) PROVE Tail(r \o x)[i] = (Tail(r) \o x)[i]
  <2>1. i \in 1 .. (Len(r) + Len(x)) - 1 /\ i + 1 \in 1 .. Len(r) + Len(x)
    BY <1>1, <1>6
  <2>2. Tail(r \o x)[i] = (r \o x)[i + 1]
    BY <1>6
  <2>3. CASE i + 1 <= Len(r)
    BY <1>1, <1>5, <1>7, <2>1, <2>2, <2>3
  <2>4. CASE ~(i + 1 <= Len(r))
    <3>1. (r \o x)[i + 1] = x[(i + 1) - Len(r)]
      BY <1>1, <2>1, <2>4
    <3>2. (Tail(r) \o x)[i] = x[i - (Len(r) - 1)]
      BY <1>1, <1>5, <1>7, <2>1, <2>4
    <3>3. (i + 1) - Len(r) = i - (Len(r) - 1)
      BY <1>1, <2>1
    <3> QED BY <2>2, <3>1, <3>2, <3>3
  <2> QED BY <2>3, <2>4
<1>10. Tail(r \o x) = Tail(r) \o x
  BY <1>6, <1>7, <1>8, <1>9, SeqEqual
<1> QED BY <1>2, <1>4, <1>10

LEMMA ConcatAppend ==
    ASSUME NEW r \in Seq(Msg), NEW h \in Seq(Msg), NEW x \in Seq(Msg), NEW m \in Msg
    PROVE  r \o (h \o Append(x, m)) = Append(r \o (h \o x), m)
<1>1. <<m>> \in Seq(Msg) /\ h \o x \in Seq(Msg) /\ r \o (h \o x) \in Seq(Msg)
  BY ConcatProperties
<1>2. Append(x, m) = x \o <<m>> /\ Append(r \o (h \o x), m) = (r \o (h \o x)) \o <<m>>
  BY <1>1, AppendIsConcat
<1>3. h \o (x \o <<m>>) = (h \o x) \o <<m>>
  BY <1>1, ConcatAssociative
<1>4. r \o ((h \o x) \o <<m>>) = (r \o (h \o x)) \o <<m>>
  BY <1>1, ConcatAssociative, SMTT(60)
<1> QED BY <1>2, <1>3, <1>4

LEMMA ConcatRead ==
    ASSUME NEW x \in Seq(Msg), x # <<>>
    PROVE  <<>> \o x = <<Head(x)>> \o Tail(x)
<1>1. /\ Len(x) \in Nat \ {0} /\ Head(x) \in Msg /\ Tail(x) \in Seq(Msg)
      /\ Len(Tail(x)) = Len(x) - 1 /\ \A i \in 1 .. Len(Tail(x)) : Tail(x)[i] = x[i + 1]
  BY EmptySeq, HeadTailProperties
<1>2. Head(x) = x[1]
  BY <1>1
<1> DEFINE h == <<Head(x)>>
<1>3. h \in Seq(Msg) /\ Len(h) = 1 /\ h[1] = x[1]
  BY <1>1, <1>2
<1> HIDE DEF h
<1>4. /\ h \o Tail(x) \in Seq(Msg) /\ Len(h \o Tail(x)) = 1 + Len(Tail(x))
      /\ \A i \in 1 .. 1 + Len(Tail(x)) :
             (h \o Tail(x))[i] = IF i <= 1 THEN h[i] ELSE Tail(x)[i - 1]
  <2>1. /\ h \o Tail(x) \in Seq(Msg) /\ Len(h \o Tail(x)) = Len(h) + Len(Tail(x))
        /\ \A i \in 1 .. Len(h) + Len(Tail(x)) :
               (h \o Tail(x))[i] = IF i <= Len(h) THEN h[i] ELSE Tail(x)[i - Len(h)]
    BY <1>1, <1>3, ConcatProperties, ZenonT(60)
  <2> QED BY <1>3, <2>1
<1>5. Len(x) = Len(h \o Tail(x))
  BY <1>1, <1>4
<1>6. ASSUME NEW i \in 1 .. Len(x) PROVE x[i] = (h \o Tail(x))[i]
  <2>1. CASE i = 1
    BY <1>1, <1>3, <1>4, <2>1
  <2>2. CASE i # 1
    <3>1. i - 1 \in 1 .. Len(Tail(x)) /\ (i - 1) + 1 = i /\ i \in 1 .. 1 + Len(Tail(x)) /\ ~(i <= 1)
      BY <1>1, <2>2
    <3>2. Tail(x)[i - 1] = x[(i - 1) + 1]
      BY <1>1, <3>1
    <3> QED BY <1>4, <3>1, <3>2
  <2> QED BY <2>1, <2>2
<1>7. x = h \o Tail(x)
  BY <1>4, <1>5, <1>6, SeqEqual
<1> QED BY <1>7, ConcatEmptySeq DEF h

LEMMA ConcatPut ==
    ASSUME NEW r \in Seq(Msg), NEW x \in Seq(Msg), NEW m \in Msg
    PROVE  Append(r, m) \o (<<>> \o x) = r \o (<<m>> \o x)
<1>1. <<m>> \in Seq(Msg)
  OBVIOUS
<1>2. Append(r, m) = r \o <<m>> /\ <<>> \o x = x
  BY AppendIsConcat, ConcatEmptySeq
<1>3. (r \o <<m>>) \o x = r \o (<<m>> \o x)
  BY <1>1, ConcatAssociative
<1> QED BY <1>2, <1>3

LEMMA PipelineTyped == ASSUME TypeInv PROVE Pipeline \in Seq(Msg)
<1>1. (IF pc["recv"] \in {"check", "put"} THEN <<got>> ELSE <<>>) \in Seq(Msg)
  BY DEF TypeInv, HandsOK
<1>2. recvBuf \in Seq(Msg) /\ inbox \in Seq(Msg)
  BY DEF TypeInv, TypeOK, QueuesOK
<1> QED BY <1>1, <1>2, ConcatProperties DEF Pipeline, OnTheWay

(* A step that neither sends nor takes a request, and switches nothing on. *)
LEMMA QuietOrderInv ==
    ASSUME TypeInv, OrderInv, closed => closed', Pipeline' = Pipeline, wanted' = wanted,
           ~closed => \A n \in Names : OnAtRun(n)' => OnAtRun(n)
    PROVE  OrderInv'
<1> SUFFICES ASSUME ~closed', NEW n \in Names
             PROVE  Alternates(n, OnAtRun(n)', Pipeline, n \notin wanted)
  BY DEF OrderInv
<1>1. Alternates(n, OnAtRun(n), Pipeline, n \notin wanted)
  BY DEF OrderInv
<1>2. OnAtRun(n) \in BOOLEAN /\ OnAtRun(n)' \in BOOLEAN /\ (n \notin wanted) \in BOOLEAN
  BY DEF OnAtRun
<1>3. OnAtRun(n)' => OnAtRun(n)
  OBVIOUS
<1> QED BY <1>1, <1>2, <1>3, PipelineTyped, AlternatesLess

LEMMA GetOrderInv ==
    ASSUME TypeInv, OrderInv, RunGet, recvBuf # <<>>
    PROVE  OrderInv'
<1> DEFINE h == IF pc["recv"] \in {"check", "put"} THEN <<got>> ELSE <<>>
<1>1. recvBuf \in Seq(Msg) /\ h \o inbox \in Seq(Msg)
  <2>1. h \in Seq(Msg) /\ inbox \in Seq(Msg)
    BY DEF TypeInv, TypeOK, HandsOK, QueuesOK
  <2> QED BY <2>1, ConcatProperties DEF TypeInv, TypeOK, QueuesOK
<1>2. Pipeline # <<>> /\ Head(Pipeline) = Head(recvBuf)
      /\ Tail(Pipeline) = Tail(recvBuf) \o (h \o inbox)
  BY <1>1, ConcatTail DEF Pipeline, OnTheWay
<1>3. Pipeline' = Tail(Pipeline)
  <2>1. recvBuf' = Tail(recvBuf) /\ pc'["recv"] = pc["recv"] /\ got' = got /\ inbox' = inbox
    BY DEF RunGet, RunDispatch, TypeInv, TypeOK, PcOK, Goroutines, Goto, connVars
  <2> QED BY <1>2, <2>1 DEF Pipeline, OnTheWay
<1> SUFFICES ASSUME ~closed', NEW n \in Names
             PROVE  Alternates(n, OnAtRun(n)', Tail(Pipeline), n \notin wanted)
  BY <1>3 DEF OrderInv, RunGet, envVars
<1>4. Alternates(n, OnAtRun(n), Pipeline, n \notin wanted)
  BY DEF OrderInv, RunGet
<1>5. OnAtRun(n) \in BOOLEAN /\ OnAtRun(n)' \in BOOLEAN /\ (n \notin wanted) \in BOOLEAN
  BY DEF OnAtRun
<1>6. OnAtRun(n)' => \/ Enables(n, Head(recvBuf))
                     \/ OnAtRun(n) /\ ~Disables(n, Head(recvBuf))
  <2>1. pc["run"] = "get" /\ proxies' = proxies /\ RunDispatch(Head(recvBuf))
    BY DEF RunGet, At, proxyVars
  <2> QED BY <2>1 DEF RunDispatch, OnAtRun, Enables, Disables, TypeInv, TypeOK, PcOK, Goroutines, Goto
<1>7. Pipeline \in Seq(Msg)
  BY PipelineTyped
<1> QED BY <1>2, <1>4, <1>5, <1>6, <1>7, AlternatesTail

LEMMA SendOrderInv ==
    ASSUME TypeInv, OrderInv, NEW m \in Msg, inbox' = Append(inbox, m),
           UNCHANGED <<pc, closed, recvBuf, got, proxies, work>>,
           \A n \in Names : Enables(n, m) => n \notin wanted /\ n \in wanted',
           \A n \in Names : n \notin wanted' => n \notin wanted \/ Disables(n, m)
    PROVE  OrderInv'
<1> DEFINE h == IF pc["recv"] \in {"check", "put"} THEN <<got>> ELSE <<>>
<1>1. h \in Seq(Msg) /\ inbox \in Seq(Msg) /\ recvBuf \in Seq(Msg)
  BY DEF TypeInv, TypeOK, HandsOK, QueuesOK
<1>2. Pipeline' = Append(Pipeline, m)
  <2>1. Pipeline = recvBuf \o (h \o inbox) /\ Pipeline' = recvBuf \o (h \o Append(inbox, m))
    BY DEF Pipeline, OnTheWay
  <2> HIDE DEF h
  <2>2. recvBuf \o (h \o Append(inbox, m)) = Append(recvBuf \o (h \o inbox), m)
    BY <1>1, ConcatAppend, ZenonT(60)
  <2> QED BY <2>1, <2>2, Zenon
<1> SUFFICES ASSUME ~closed, NEW n \in Names
             PROVE  Alternates(n, OnAtRun(n), Append(Pipeline, m), n \notin wanted')
  BY <1>2 DEF OrderInv, OnAtRun
<1>3. Alternates(n, OnAtRun(n), Pipeline, n \notin wanted)
  BY DEF OrderInv
<1>4. OnAtRun(n) \in BOOLEAN /\ (n \notin wanted) \in BOOLEAN /\ (n \notin wanted') \in BOOLEAN
  BY DEF OnAtRun
<1>5. Enables(n, m) => n \notin wanted /\ ~(n \notin wanted')
  OBVIOUS
<1> QED BY <1>3, <1>4, <1>5, PipelineTyped, AlternatesAppend

LEMMA RunOrderInv ==
    ASSUME TypeInv, CloseInv, OrderInv, Run
    PROVE  OrderInv'
<1> USE DEF TypeInv, TypeOK, PcOK, Goroutines, At, Goto,
        connVars, chanVars, proxyVars, localVars, srvVars, envVars
<1>1. CASE RunGet /\ recvBuf # <<>>
  BY <1>1, GetOrderInv
<1>2. CASE ~(RunGet /\ recvBuf # <<>>)
  <2>1. closed' = closed /\ wanted' = wanted
    BY DEF Run, RunStart, RunFill, RunFillPut, RunGet, RunRegister, RunInsert, RunRemove,
           RunUnlisten, RunList, RunReply, RunReplyPut, RunNotify
  <2>2. /\ recvBuf' = recvBuf /\ got' = got /\ inbox' = inbox
        /\ pc'["recv"] = pc["recv"] \/ (pc["recv"] = "unborn" /\ pc'["recv"] = "entry")
    BY <1>2 DEF CloseInv, Run, RunStart, RunFill, RunFillPut, RunGet, RunRegister, RunInsert,
           RunRemove, RunUnlisten, RunList, RunReply, RunReplyPut, RunNotify
  <2>3. Pipeline' = Pipeline
    BY <2>2 DEF Pipeline, OnTheWay
  <2>4. ASSUME NEW n \in Names, OnAtRun(n)' PROVE OnAtRun(n)
    <3>1. CASE RunRegister
      BY <2>4, <3>1 DEF RunRegister, OnAtRun
    <3>2. CASE RunInsert
      BY <2>4, <3>2 DEF RunInsert, OnAtRun, LocalsOK, HandsOK
    <3>3. CASE RunRemove
      BY <2>4, <3>3 DEF RunRemove, OnAtRun, LocalsOK, HandsOK
    <3>4. CASE ~RunRegister /\ ~RunInsert /\ ~RunRemove
      <4>1. /\ proxies' = proxies /\ pc["run"] # "remove"
            /\ pc'["run"] \notin {"register", "insert"}
        <5>1. CASE RunGet
          BY <1>2, <5>1 DEF RunGet
        <5>2. CASE RunStart \/ RunFill \/ RunFillPut
          BY <5>2 DEF RunStart, RunFill, RunFillPut
        <5>3. CASE RunUnlisten \/ RunList
          BY <5>3 DEF RunUnlisten, RunList
        <5>4. CASE RunReply \/ RunReplyPut \/ RunNotify
          BY <5>4 DEF RunReply, RunReplyPut, RunNotify
        <5> QED BY <3>4, <5>1, <5>2, <5>3, <5>4 DEF Run
      <4> QED BY <2>4, <4>1 DEF OnAtRun
    <3> QED BY <3>1, <3>2, <3>3, <3>4
  <2> QED BY <2>1, <2>3, <2>4, QuietOrderInv
<1> QED BY <1>1, <1>2

LEMMA RecvOrderInv ==
    ASSUME TypeInv, CloseInv, OrderInv, RecvEntry \/ RecvRead \/ RecvCheck \/ RecvPut
    PROVE  OrderInv'
<1> USE DEF TypeInv, TypeOK, PcOK, Goroutines, At, Goto,
        connVars, chanVars, proxyVars, localVars, srvVars, envVars
<1>1. closed' = closed /\ wanted' = wanted /\ proxies' = proxies /\ work' = work
      /\ pc'["run"] = pc["run"]
  BY DEF RecvEntry, RecvRead, RecvCheck, RecvPut
<1>2. \A n \in Names : OnAtRun(n)' => OnAtRun(n)
  BY <1>1 DEF OnAtRun
<1>3. CASE closed
  BY <1>1, <1>3 DEF OrderInv
<1>4. CASE ~closed
  <2>1. recvBuf \in Seq(Msg) /\ inbox \in Seq(Msg)
    BY DEF QueuesOK
  <2>2. ASSUME RecvEntry \/ RecvCheck PROVE Pipeline' = Pipeline
    BY <1>4, <2>2 DEF RecvEntry, RecvCheck, Pipeline, OnTheWay
  <2>3. ASSUME RecvRead PROVE Pipeline' = Pipeline
    <3>1. CASE pc'["recv"] = "isClosed"
      BY <2>3, <3>1 DEF RecvRead, Pipeline, OnTheWay
    <3>2. CASE pc'["recv"] # "isClosed"
      <4>1. /\ inbox # <<>> /\ got' = Head(inbox) /\ inbox' = Tail(inbox) /\ recvBuf' = recvBuf
            /\ pc["recv"] = "read" /\ pc'["recv"] = "check"
        BY <2>3, <3>2 DEF RecvRead
      <4>2. Pipeline = recvBuf \o (<<>> \o inbox)
            /\ Pipeline' = recvBuf \o (<<Head(inbox)>> \o Tail(inbox))
        BY <4>1 DEF Pipeline, OnTheWay
      <4> QED BY <2>1, <4>1, <4>2, ConcatRead
    <3> QED BY <3>1, <3>2
  <2>4. ASSUME RecvPut PROVE Pipeline' = Pipeline
    <3>1. ~recvClosed /\ pc["recv"] = "put" /\ got \in Msg
      BY <2>4 DEF RecvPut, CloseInv, HandsOK
    <3>2. recvBuf' = Append(recvBuf, got) /\ inbox' = inbox /\ pc'["recv"] = "read"
      BY <2>4, <3>1 DEF RecvPut
    <3>3. Pipeline = recvBuf \o (<<got>> \o inbox)
          /\ Pipeline' = Append(recvBuf, got) \o (<<>> \o inbox)
      BY <3>1, <3>2 DEF Pipeline, OnTheWay
    <3> QED BY <2>1, <3>1, <3>3, ConcatPut
  <2> QED BY <1>1, <1>2, <2>2, <2>3, <2>4, QuietOrderInv
<1> QED BY <1>3, <1>4

LEMMA CloseOrderInv ==
    ASSUME TypeInv, OrderInv, NEW t \in Closers, Close(t)
    PROVE  OrderInv'
<1> USE DEF TypeInv, TypeOK, PcOK, Goroutines, Closers, Return, At, Goto,
        connVars, chanVars, proxyVars, localVars, srvVars, envVars
<1>1. CASE CloseSet(t)
  BY <1>1 DEF CloseSet, OrderInv
<1>2. CASE ~CloseSet(t)
  <2>1. /\ closed' = closed /\ wanted' = wanted /\ work' = work
        /\ recvBuf' = recvBuf /\ got' = got /\ inbox' = inbox
    BY <1>2 DEF Close, CloseIsClosed, CloseConn, CloseSend, CloseRecv, ClosePool, CloseLock, CloseDelete
  <2>2. /\ pc'["run"] = pc["run"]
        /\ \/ pc'["recv"] = pc["recv"]
           \/ pc["recv"] \notin {"check", "put"} /\ pc'["recv"] \notin {"check", "put"}
    BY <1>2 DEF Close, CloseIsClosed, CloseConn, CloseSend, CloseRecv, ClosePool, CloseLock,
           CloseDelete, ClosePanics
  <2>3. Pipeline' = Pipeline
    BY <2>1, <2>2 DEF Pipeline, OnTheWay
  <2>4. proxies' = proxies \/ proxies' = [n \in Names |-> None]
    BY <1>2 DEF Close, CloseIsClosed, CloseConn, CloseSend, CloseRecv, ClosePool, CloseLock, CloseDelete
  <2>5. \A n \in Names : OnAtRun(n)' => OnAtRun(n)
    BY <2>1, <2>2, <2>4 DEF OnAtRun
  <2> QED BY <2>1, <2>3, <2>5, QuietOrderInv
<1> QED BY <1>1, <1>2

LEMMA ClientOrderInv ==
    ASSUME TypeInv, OrderInv, Client
    PROVE  OrderInv'
<1> USE DEF connVars, chanVars, proxyVars, localVars, srvVars, envVars
<1>1. CASE ClientLogin \/ ClientGone
  <2>1. UNCHANGED <<pc, closed, recvBuf, got, inbox, proxies, work, wanted>>
    BY <1>1 DEF ClientLogin, ClientGone
  <2> QED BY <2>1 DEF OrderInv, OnAtRun, Pipeline
<1>2. CASE ClientRead
  <2>1. UNCHANGED <<pc, closed, recvBuf, got, proxies, work, wanted>>
    BY <1>2 DEF ClientRead
  <2>2. CASE UNCHANGED inbox
    BY <2>1, <2>2 DEF OrderInv, OnAtRun, Pipeline
  <2>3. CASE inbox' = Append(inbox, Plain("HeartbeatResponse"))
    <3>1. Plain("HeartbeatResponse") \in Msg
      BY Constructors DEF PlainTypes
    <3>2. \A n \in Names : ~Enables(n, Plain("HeartbeatResponse"))
      BY DEF Enables, Plain
    <3> QED BY <2>1, <2>3, <3>1, <3>2, SendOrderInv
  <2> QED BY <1>2, <2>2, <2>3 DEF ClientRead
<1>3. CASE ClientSend
  <2>1. UNCHANGED <<pc, closed, recvBuf, got, proxies, work>>
    BY <1>3 DEF ClientSend
  <2>2. CASE inbox' = Append(inbox, Plain("HeartbeatRequest")) /\ UNCHANGED wanted
    <3>1. Plain("HeartbeatRequest") \in Msg
      BY Constructors DEF PlainTypes
    <3>2. \A n \in Names : ~Enables(n, Plain("HeartbeatRequest"))
      BY DEF Enables, Plain
    <3> QED BY <2>1, <2>2, <3>1, <3>2, SendOrderInv
  <2>3. ASSUME NEW n \in Names \ wanted, inbox' = Append(inbox, ProxyRequest(n, TRUE)),
               wanted' = wanted \cup {n}
        PROVE  OrderInv'
    <3>1. ProxyRequest(n, TRUE) \in Msg
      BY Constructors
    <3>2. \A k \in Names : Enables(k, ProxyRequest(n, TRUE)) => k = n
      BY DEF Enables, ProxyRequest
    <3>3. \A k \in Names : Enables(k, ProxyRequest(n, TRUE)) => k \notin wanted /\ k \in wanted'
      BY <2>3, <3>2
    <3>4. \A k \in Names : k \notin wanted' => k \notin wanted
      BY <2>3
    <3> QED BY <2>1, <2>3, <3>1, <3>3, <3>4, SendOrderInv
  <2>4. ASSUME NEW n \in wanted, inbox' = Append(inbox, ProxyRequest(n, FALSE)),
               wanted' = wanted \ {n}
        PROVE  OrderInv'
    <3>1. ProxyRequest(n, FALSE) \in Msg
      BY Constructors DEF TypeInv, TypeOK, LocalsOK
    <3>2. \A k \in Names : ~Enables(k, ProxyRequest(n, FALSE))
      BY DEF Enables, ProxyRequest
    <3>3. \A k \in Names : k \notin wanted' => k \notin wanted \/ Disables(k, ProxyRequest(n, FALSE))
      BY <2>4 DEF Disables, ProxyRequest
    <3> QED BY <2>1, <2>4, <3>1, <3>2, <3>3, SendOrderInv
  <2> QED BY <1>3, <2>2, <2>3, <2>4 DEF ClientSend
<1> QED BY <1>1, <1>2, <1>3 DEF Client

LEMMA RestOrderInv ==
    ASSUME TypeInv, CloseInv, OrderInv,
           Reg \/ Send \/ SrvRemove \/ Caller \/ MapRace \/ UNCHANGED vars
    PROVE  OrderInv'
<1>1. UNCHANGED <<closed, recvBuf, got, inbox, proxies, work, wanted>>
  BY DEF Reg, Send, Caller, vars, connVars, chanVars, proxyVars, localVars, srvVars, envVars,
         RegSpawn, RegInsert, RegRespond, SendTake, SendWrite, StreamAccepts, StreamRefuses,
         SrvRemove, CallerCheck, CallerPut, MapRace
<1>2. /\ pc'["recv"] = pc["recv"]
      /\ \/ pc'["run"] = pc["run"]
         \/ pc["run"] # "remove" /\ pc'["run"] = "start"
  BY DEF TypeInv, TypeOK, PcOK, Goroutines, At, Goto, CloseInv, Reg, Send, Caller, vars,
         RegSpawn, RegInsert, RegRespond, SendTake, SendWrite, SrvRemove, CallerCheck, CallerPut, MapRace
<1>3. Pipeline' = Pipeline
  BY <1>1, <1>2 DEF Pipeline, OnTheWay
<1>4. \A n \in Names : OnAtRun(n)' => OnAtRun(n)
  BY <1>1, <1>2 DEF OnAtRun
<1> QED BY <1>1, <1>3, <1>4, QuietOrderInv

LEMMA StepOrderInv == TypeInv /\ CloseInv /\ OrderInv /\ [Next]_vars => OrderInv'
BY RunOrderInv, RecvOrderInv, CloseOrderInv, ClientOrderInv, RestOrderInv DEF Next, Recv, Srv, Closers

LEMMA InitOrderInv == Init => OrderInv
<1> SUFFICES ASSUME Init, NEW n \in Names
             PROVE  Alternates(n, OnAtRun(n), Pipeline, n \notin wanted)
  BY DEF OrderInv
<1>1. ~OnAtRun(n)
  BY DEF Init, OnAtRun, Goroutines
<1>2. Pipeline = <<>> /\ Len(Pipeline) = 0
  BY DEF Init, Pipeline, OnTheWay, Goroutines
<1> QED BY <1>1, <1>2 DEF Alternates, SwitchedOn

(* The name that Run takes a request to enable has no proxy. *)
LEMMA EnabledIsOff ==
    ASSUME TypeInv, OrderInv, ~closed, RunGet, recvBuf # <<>>, Head(recvBuf).type = "ProxyRequest",
           Head(recvBuf).flag
    PROVE  proxies[Head(recvBuf).name] = None
<1> DEFINE h == IF pc["recv"] \in {"check", "put"} THEN <<got>> ELSE <<>>
           n == Head(recvBuf).name
<1>1. recvBuf \in Seq(Msg) /\ h \in Seq(Msg) /\ inbox \in Seq(Msg)
  BY DEF TypeInv, TypeOK, HandsOK, QueuesOK
<1>2. h \o inbox \in Seq(Msg)
  BY <1>1, ConcatProperties
<1>3. Pipeline # <<>> /\ Head(Pipeline) = Head(recvBuf)
  BY <1>1, <1>2, ConcatTail DEF Pipeline, OnTheWay
<1>4. n \in Names /\ Enables(n, Head(Pipeline))
  <2>1. Head(recvBuf) \in Msg
    BY <1>1, HeadTailProperties
  <2> QED BY <1>3, <2>1, RequestNamed DEF Enables
<1>5. Alternates(n, OnAtRun(n), Pipeline, n \notin wanted)
  BY <1>4 DEF OrderInv
<1>6. OnAtRun(n) \in BOOLEAN /\ (n \notin wanted) \in BOOLEAN
  BY DEF OnAtRun
<1>7. ~OnAtRun(n)
  BY <1>3, <1>4, <1>5, <1>6, PipelineTyped, FirstNotOn
<1> QED BY <1>7 DEF OnAtRun, RunGet, At

LEMMA RunOwnInv ==
    ASSUME TypeInv, OrderInv, OwnInv, Run
    PROVE  OwnInv'
<1> USE DEF TypeInv, TypeOK, PcOK, LocalsOK, HandsOK, Goroutines, OwnInv, ListenersOwned, At, Goto,
        connVars, chanVars, proxyVars, localVars, srvVars, envVars
<1>1. CASE RunStart
  BY <1>1 DEF RunStart
<1>2. CASE RunFill
  BY <1>2 DEF RunFill
<1>3. CASE RunFillPut
  BY <1>3 DEF RunFillPut
<1>4. CASE RunGet
  <2>1. UNCHANGED <<closed, proxies, listening, port>> /\ pc["run"] = "get"
        /\ pc'["run"] \notin {"insert", "unlisten"}
    BY <1>4 DEF RunGet, RunDispatch
  <2>2. ASSUME ~closed, pc'["run"] = "register" PROVE proxies[work'.name] = None
    <3>1. recvBuf # <<>> /\ work' = Head(recvBuf) /\ Head(recvBuf).type = "ProxyRequest"
          /\ Head(recvBuf).flag
      BY <1>4, <2>2 DEF RunGet, RunDispatch
    <3> QED BY <1>4, <2>2, <3>1, EnabledIsOff
  <2> QED BY <2>1, <2>2
<1>5. CASE RunRegister
  <2>1. UNCHANGED <<closed, proxies>> /\ pc["run"] = "register" /\ port = None
    BY <1>5 DEF RunRegister
  <2>2. ASSUME NEW p \in Ports \ listening, listening' = listening \cup {p}, port' = p,
               pc'["run"] = "insert", UNCHANGED work
        PROVE  OwnInv'
    BY <2>1, <2>2, ManagerAssumption
  <2>3. ASSUME pc'["run"] = "list", UNCHANGED <<listening, port>> PROVE OwnInv'
    BY <2>1, <2>3
  <2> QED BY <1>5, <2>2, <2>3 DEF RunRegister
<1>6. CASE RunInsert
  <2>1. pc["run"] = "insert" /\ pc'["run"] = "list" /\ UNCHANGED <<closed, listening>>
        /\ port' = None /\ proxies' = [proxies EXCEPT ![work.name] = port]
    BY <1>6 DEF RunInsert
  <2>2. ASSUME ~closed, NEW p \in listening PROVE \E n \in Names : proxies'[n] = p
    <3>1. CASE p = port
      BY <2>1, <3>1
    <3>2. CASE \E n \in Names : proxies[n] = p
      <4>1. PICK n \in Names : proxies[n] = p
        BY <3>2
      <4>2. n # work.name
        BY <2>1, <2>2, <4>1, ManagerAssumption
      <4> QED BY <2>1, <4>1, <4>2
    <3> QED BY <2>2, <3>1, <3>2
  <2> QED BY <2>1, <2>2
<1>7. CASE RunRemove
  <2>1. /\ pc["run"] = "remove" /\ UNCHANGED <<closed, listening>> /\ port = None
        /\ port' = proxies[work.name] /\ proxies' = [proxies EXCEPT ![work.name] = None]
        /\ pc'["run"] = IF proxies[work.name] = None THEN "list" ELSE "unlisten"
    BY <1>7 DEF RunRemove
  <2>2. ASSUME ~closed, NEW p \in listening PROVE p = port' \/ \E n \in Names : proxies'[n] = p
    BY <2>1, <2>2, ManagerAssumption
  <2> QED BY <2>1, <2>2
<1>8. CASE RunUnlisten
  BY <1>8 DEF RunUnlisten
<1>9. CASE RunList
  BY <1>9 DEF RunList
<1>10. CASE RunReply
  BY <1>10 DEF RunReply
<1>11. CASE RunReplyPut
  BY <1>11 DEF RunReplyPut
<1>12. CASE RunNotify
  BY <1>12 DEF RunNotify
<1> QED BY <1>1, <1>2, <1>3, <1>4, <1>5, <1>6, <1>7, <1>8, <1>9, <1>10, <1>11, <1>12 DEF Run

LEMMA CloseOwnInv ==
    ASSUME TypeInv, CloseInv, OwnInv, NEW t \in Closers, Close(t)
    PROVE  OwnInv'
<1>1. \E label : Goto(t, label)
  BY DEF Close, CloseIsClosed, CloseSet, CloseConn, CloseSend, CloseRecv, ClosePool,
         CloseLock, CloseDelete, ClosePanics
<1>2. pc'["run"] = pc["run"]
  BY <1>1 DEF Goto, Closers, TypeInv, TypeOK, PcOK, Goroutines
<1>3. CASE CloseDelete(t)
  <2>1. closed
    BY <1>3 DEF CloseDelete, At, CloseInv, Closers, AfterSet
  <2> QED BY <1>2, <1>3, <2>1 DEF CloseDelete, OwnInv, ListenersOwned
<1>4. CASE ~CloseDelete(t)
  <2>1. UNCHANGED <<proxies, listening, port, work>> /\ (closed' = closed \/ closed' = TRUE)
    BY <1>4 DEF Close, CloseIsClosed, CloseSet, CloseConn, CloseSend, CloseRecv, ClosePool,
           CloseLock, proxyVars, localVars
  <2> QED BY <1>2, <2>1 DEF OwnInv, ListenersOwned
<1> QED BY <1>3, <1>4

LEMMA RestOwnInv ==
    ASSUME TypeInv, CloseInv, OwnInv,
           \/ Reg \/ RecvEntry \/ RecvRead \/ RecvCheck \/ RecvPut \/ Send
           \/ SrvRemove \/ Caller \/ MapRace \/ Client \/ UNCHANGED vars
    PROVE  OwnInv'
<1>1. UNCHANGED <<closed, proxies, listening, port, work>>
  BY DEF Reg, Send, Caller, Client, vars, proxyVars, localVars,
         RegSpawn, RegInsert, RegRespond, RecvEntry, RecvRead, RecvCheck, RecvPut, SendTake, SendWrite,
         SrvRemove, CallerCheck, CallerPut, MapRace, ClientLogin, ClientRead, ClientSend, ClientGone
<1>2. \/ pc'["run"] = pc["run"]
      \/ pc["run"] = "unborn" /\ pc'["run"] = "start"
  BY DEF TypeInv, TypeOK, PcOK, Goroutines, At, Goto, CloseInv, Reg, Send, Caller, Client, vars,
         RegSpawn, RegInsert, RegRespond, RecvEntry, RecvRead, RecvCheck, RecvPut, SendTake, SendWrite,
         SrvRemove, CallerCheck, CallerPut, MapRace, ClientLogin, ClientRead, ClientSend, ClientGone
<1> QED BY <1>1, <1>2 DEF OwnInv, ListenersOwned

LEMMA StepOwnInv == TypeInv /\ CloseInv /\ OrderInv /\ OwnInv /\ [Next]_vars => OwnInv'
BY RunOwnInv, CloseOwnInv, RestOwnInv DEF Next, Recv, Srv, Closers

LEMMA InitOwnInv == Init => OwnInv
BY DEF Init, OwnInv, ListenersOwned, Goroutines

(* While the manager is open no listener is lost: RunInsert, which writes   *)
(* the map without looking at what is there, never overwrites an entry,     *)
(* however the requests of the client, the goroutines that carry them and   *)
(* a failed registration interleave.                                        *)
THEOREM NoListenerForgotten == Spec => []ListenersOwned
<1>1. OwnInv => ListenersOwned
  BY DEF OwnInv
<1> QED BY <1>1, InitTyped, StepTyped, InitCloseInv, StepCloseInv, InitOrderInv, StepOrderInv,
       InitOwnInv, StepOwnInv, PTL DEF Spec
=============================================================================
