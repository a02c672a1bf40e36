--------------------------- MODULE PipePoolProofs ---------------------------
(***************************************************************************)
(* Proofs about PipePool for every number of users and pipes, every pool   *)
(* size and every number of requests under way, and that it implements     *)
(* PipeBroker.                                                             *)
(***************************************************************************)
EXTENDS PipePool, FiniteSetTheorems, SequenceTheorems, TLAPS

(* A user has a pipe in hand just while it writes to it or joins it, and    *)
(* the loop of proxy.handle goes round three times at most.                 *)
HandsOK ==
    \A u \in Users :
        /\ using[u] # None <=> user[u] \in {"send", "join"}
        /\ user[u] \in {"idle", "ask", "put", "wait", "send"} => tries[u] < 3

(* The parts of TypeOK. *)
FlagsOK ==
    /\ link \in BOOLEAN /\ control \in BOOLEAN /\ closed \in BOOLEAN
    /\ poolClosed \in BOOLEAN /\ listening \in BOOLEAN /\ registered \in BOOLEAN
    /\ started \in BOOLEAN

PoolOK == pool \in Seq(Pipes) /\ Len(pool) <= PoolCap

CountsOK == asked \in 0 .. AskCap /\ fills \in 0 .. PoolSize /\ late \in Nat

UsersOK ==
    /\ user \in [Users -> UserLabels] /\ tries \in [Users -> 0 .. 3]
    /\ using \in [Users -> Pipes \cup {None}] /\ opened \subseteq Users

StreamsOK ==
    /\ stream \in [Pipes -> StreamLabels] /\ srvOpen \subseteq Pipes
    /\ work \in [Pipes -> WorkLabels] /\ cliOpen \subseteq Pipes
    /\ job \in [Pipes -> Users \cup {None}]

TypeInv == FlagsOK /\ PoolOK /\ CountsOK /\ UsersOK /\ StreamsOK /\ HandsOK

(***************************************************************************)
(* Where a pipe is.  The places exclude each other, and no ConnRequest is  *)
(* on a pipe before a user has popped it.                                  *)
(***************************************************************************)
Once(s) == \A i, j \in 1 .. Len(s) : s[i] = s[j] => i = j

PooledOK ==
    \A p \in Pipes : Contains(pool, p) =>
        /\ p \in srvOpen /\ stream[p] = "done" /\ job[p] = None
        /\ \A u \in Users : using[u] # p

ComingOK == \A p \in Coming : p \in srvOpen /\ job[p] = None

UsedOK ==
    \A p \in Pipes, u \in Users : using[u] = p =>
        /\ p \in srvOpen /\ stream[p] = "done" /\ job[p] \in {None, u}
        /\ \A v \in Users : using[v] = p => v = u

StrayOK ==
    \A p \in srvOpen \ Coming :
        Contains(pool, p) \/ (\E u \in Users : using[u] = p) \/ poolClosed

PlaceInv == Once(pool) /\ PooledOK /\ ComingOK /\ UsedOK /\ StrayOK

(* The client has read the ConnRequest of a pipe that it serves. *)
JobsOK == \A p \in Pipes : work[p] \in {"serve", "join"} => job[p] # None

(* The order in which a session and its manager are taken down. *)
DownInOrder ==
    /\ control => link /\ ~closed
    /\ poolClosed \/ ~registered => closed

PipeInv == TypeInv /\ PlaceInv /\ JobsOK /\ DownInOrder
-----------------------------------------------------------------------------
(* A pipe enters or leaves the pool. *)
LEMMA AppendOnce ==
    ASSUME NEW s \in Seq(Pipes), NEW p \in Pipes, Once(s), ~Contains(s, p)
    PROVE  /\ Once(Append(s, p))
           /\ \A q \in Pipes : Contains(Append(s, p), q) <=> Contains(s, q) \/ q = p
<1>1. /\ Len(s) \in Nat /\ Len(Append(s, p)) = Len(s) + 1
      /\ \A i \in 1 .. Len(s) : Append(s, p)[i] = s[i]
      /\ Append(s, p)[Len(s) + 1] = p
  BY AppendProperties, LenProperties
<1>2. \A i \in 1 .. Len(s) : s[i] # p
  BY DEF Contains
<1>3. Once(Append(s, p))
  <2> SUFFICES ASSUME NEW i \in 1 .. Len(s) + 1, NEW j \in 1 .. Len(s) + 1,
                      Append(s, p)[i] = Append(s, p)[j]
               PROVE  i = j
    BY <1>1 DEF Once
  <2>1. i \in 1 .. Len(s) \/ i = Len(s) + 1
    BY <1>1
  <2>2. j \in 1 .. Len(s) \/ j = Len(s) + 1
    BY <1>1
  <2> QED BY <1>1, <1>2, <2>1, <2>2 DEF Once
<1>4. ASSUME NEW q \in Pipes
      PROVE  Contains(Append(s, p), q) <=> Contains(s, q) \/ q = p
  <2>1. ASSUME Contains(Append(s, p), q) PROVE Contains(s, q) \/ q = p
    <3>1. PICK i \in 1 .. Len(s) + 1 : Append(s, p)[i] = q
      BY <1>1, <2>1 DEF Contains
    <3>2. i \in 1 .. Len(s) \/ i = Len(s) + 1
      BY <1>1
    <3> QED BY <1>1, <3>1, <3>2 DEF Contains
  <2>2. ASSUME Contains(s, q) \/ q = p PROVE Contains(Append(s, p), q)
    <3>1. 1 .. Len(s) \subseteq 1 .. Len(s) + 1 /\ Len(s) + 1 \in 1 .. Len(s) + 1
      BY <1>1
    <3>2. \E i \in 1 .. Len(s) + 1 : Append(s, p)[i] = q
      BY <1>1, <2>2, <3>1 DEF Contains
    <3> QED BY <1>1, <3>2 DEF Contains
  <2> QED BY <2>1, <2>2
<1> QED BY <1>3, <1>4

LEMMA TailOnce ==
    ASSUME NEW s \in Seq(Pipes), s # <<>>, Once(s)
    PROVE  /\ Head(s) \in Pipes /\ Contains(s, Head(s)) /\ Once(Tail(s))
           /\ \A q \in Pipes : Contains(Tail(s), q) <=> Contains(s, q) /\ q # Head(s)
<1>1. /\ Len(s) \in Nat \ {0} /\ Head(s) = s[1] /\ Head(s) \in Pipes
      /\ Len(Tail(s)) = Len(s) - 1
      /\ \A i \in 1 .. Len(Tail(s)) : Tail(s)[i] = s[i + 1]
  BY HeadTailProperties, LenProperties, EmptySeq
<1>2. Contains(s, Head(s))
  <2>1. 1 \in 1 .. Len(s)
    BY <1>1
  <2> QED BY <1>1, <2>1 DEF Contains
<1>3. \A i \in 1 .. Len(Tail(s)) : i + 1 \in 1 .. Len(s) /\ i + 1 # 1
  BY <1>1
<1>4. Once(Tail(s))
  <2> SUFFICES ASSUME NEW i \in 1 .. Len(Tail(s)), NEW j \in 1 .. Len(Tail(s)),
                      Tail(s)[i] = Tail(s)[j]
               PROVE  i = j
    BY DEF Once
  <2>1. i + 1 = j + 1
    BY <1>1, <1>3 DEF Once
  <2> QED BY <1>1, <2>1
<1>5. ASSUME NEW q \in Pipes
      PROVE  Contains(Tail(s), q) <=> Contains(s, q) /\ q # Head(s)
  <2>1. ASSUME Contains(Tail(s), q) PROVE Contains(s, q) /\ q # Head(s)
    <3>1. PICK i \in 1 .. Len(Tail(s)) : Tail(s)[i] = q
      BY <2>1 DEF Contains
    <3>2. i + 1 \in 1 .. Len(s) /\ s[i + 1] = q /\ i + 1 # 1 /\ 1 \in 1 .. Len(s)
      BY <1>1, <1>3, <3>1
    <3> QED BY <1>1, <3>2 DEF Contains, Once
  <2>2. ASSUME Contains(s, q), q # Head(s) PROVE Contains(Tail(s), q)
    <3>1. PICK i \in 1 .. Len(s) : s[i] = q
      BY <2>2 DEF Contains
    <3>2. i - 1 \in 1 .. Len(Tail(s)) /\ (i - 1) + 1 = i
      BY <1>1, <2>2, <3>1
    <3>3. Tail(s)[i - 1] = q
      BY <1>1, <3>1, <3>2
    <3> QED BY <3>2, <3>3 DEF Contains
  <2> QED BY <2>1, <2>2
<1> QED BY <1>1, <1>2, <1>4, <1>5

LEMMA Sizes == PoolSize \in Nat \ {0} /\ PoolCap \in Nat /\ AskCap \in Nat \ {0}
BY PipePoolAssumption DEF PoolCap, PoolSize, PoolSizeOf

LEMMA PartsOfType == FlagsOK /\ PoolOK /\ CountsOK /\ UsersOK /\ StreamsOK <=> TypeOK
BY DEF TypeOK, FlagsOK, PoolOK, CountsOK, UsersOK, StreamsOK

LEMMA InitPipes == Init => PipeInv
<1> SUFFICES ASSUME Init PROVE PipeInv
  OBVIOUS
<1>1. <<>> \in Seq(Pipes) /\ Len(<<>>) = 0
  OBVIOUS
<1>2. PoolOK
  BY <1>1, Sizes DEF Init, PoolOK
<1>3. FlagsOK
  BY DEF Init, FlagsOK
<1>4. CountsOK
  BY Sizes DEF Init, CountsOK
<1>5. UsersOK /\ StreamsOK /\ HandsOK
  BY DEF Init, UsersOK, StreamsOK, HandsOK, UserLabels, StreamLabels, WorkLabels
<1>6. Once(pool) /\ PooledOK
  BY <1>1 DEF Init, Once, PooledOK, Contains
<1>7. ComingOK /\ UsedOK /\ StrayOK
  BY PipePoolAssumption DEF Init, ComingOK, Coming, UsedOK, StrayOK
<1>8. JobsOK /\ DownInOrder
  BY DEF Init, JobsOK, DownInOrder
<1> QED BY <1>2, <1>3, <1>4, <1>5, <1>6, <1>7, <1>8 DEF PipeInv, TypeInv, PlaceInv

LEMMA AskedTyped ==
    ASSUME CountsOK, ReqPipeConn PROVE asked' \in 0 .. AskCap
BY Sizes DEF CountsOK, ReqPipeConn

(* Steps that move no pipe. *)
LEMMA PlacesStay ==
    ASSUME PlaceInv, JobsOK, UNCHANGED <<pool, using, stream, srvOpen, job, work>>,
           poolClosed => poolClosed'
    PROVE  PlaceInv' /\ JobsOK'
BY DEF PlaceInv, Once, PooledOK, ComingOK, Coming, UsedOK, StrayOK, JobsOK

LEMMA ManagerStep ==
    ASSUME PipeInv, Fill \/ AgentStart \/ ControlEnds \/ SessionEnds \/ Closing
    PROVE  PipeInv'
<1> USE DEF PipeInv, TypeInv, userVars, pipeVars, mgrVars
<1>1. UNCHANGED <<pool, userVars, pipeVars, late>>
  BY DEF Fill, AgentStart, ControlEnds, SessionEnds, Closing, CloseFlag, ClosePool,
         CloseProxies, SrvRemove
<1>2. PoolOK' /\ UsersOK' /\ StreamsOK' /\ HandsOK'
  BY <1>1 DEF PoolOK, UsersOK, StreamsOK, HandsOK
<1>3. CountsOK'
  <2>1. CASE Fill
    BY <2>1, AskedTyped, Sizes DEF Fill, CountsOK
  <2>2. CASE AgentStart \/ ControlEnds \/ SessionEnds \/ Closing
    BY <2>2
       DEF AgentStart, ControlEnds, SessionEnds, Closing, CloseFlag, ClosePool,
           CloseProxies, SrvRemove, CountsOK
  <2> QED BY <2>1, <2>2
<1>4. FlagsOK'
  <2>1. CASE Fill
    BY <2>1 DEF Fill, FlagsOK
  <2>2. CASE AgentStart
    BY <2>2 DEF AgentStart, FlagsOK
  <2>3. CASE ControlEnds
    BY <2>3 DEF ControlEnds, FlagsOK
  <2>4. CASE SessionEnds
    BY <2>4 DEF SessionEnds, FlagsOK
  <2>5. CASE Closing
    BY <2>5 DEF Closing, CloseFlag, ClosePool, CloseProxies, SrvRemove, FlagsOK
  <2> QED BY <2>1, <2>2, <2>3, <2>4, <2>5
<1>5. DownInOrder'
  <2>1. CASE Fill
    BY <2>1 DEF Fill, DownInOrder
  <2>2. CASE AgentStart
    BY <2>2 DEF AgentStart, DownInOrder
  <2>3. CASE ControlEnds
    BY <2>3 DEF ControlEnds, DownInOrder
  <2>4. CASE SessionEnds
    BY <2>4 DEF SessionEnds, DownInOrder
  <2>5. CASE Closing
    BY <2>5 DEF Closing, CloseFlag, ClosePool, CloseProxies, SrvRemove, DownInOrder
  <2> QED BY <2>1, <2>2, <2>3, <2>4, <2>5
<1>6. poolClosed => poolClosed'
  BY DEF Fill, AgentStart, ControlEnds, SessionEnds, Closing, CloseFlag, ClosePool,
         CloseProxies, SrvRemove
<1>7. PlaceInv' /\ JobsOK'
  BY <1>1, <1>6, PlacesStay
<1> QED BY <1>2, <1>3, <1>4, <1>5, <1>7

LEMMA FlagsStay ==
    ASSUME FlagsOK, DownInOrder, UNCHANGED <<mgrVars, started>>
    PROVE  FlagsOK' /\ DownInOrder'
BY DEF FlagsOK, DownInOrder, mgrVars

(* proxy.handle without a pipe in hand. *)
LEMMA AskStep ==
    ASSUME PipeInv, NEW u \in Users,
           Accept(u) \/ PopCheck(u) \/ PopRequest(u) \/ PopFail(u)
    PROVE  PipeInv'
<1> USE DEF PipeInv, TypeInv
<1>1. UNCHANGED <<mgrVars, pool, fills, tries, using, pipeVars, started, late>>
  BY DEF Accept, PopCheck, PopRequest, PopFail
<1>2. PICK l \in {"ask", "put", "wait", "done"} : user' = [user EXCEPT ![u] = l]
  BY DEF Accept, PopCheck, PopRequest, PopFail
<1>3. user[u] \in {"idle", "ask", "put", "wait"}
  BY DEF Accept, PopCheck, PopRequest, PopFail
<1>4. CountsOK'
  <2>1. asked' \in 0 .. AskCap
    BY AskedTyped DEF Accept, PopCheck, PopRequest, PopFail, CountsOK
  <2> QED BY <1>1, <2>1 DEF CountsOK
<1>5. UsersOK' /\ HandsOK'
  <2>1. opened' \subseteq Users
    BY DEF Accept, PopCheck, PopRequest, PopFail, UsersOK
  <2> QED BY <1>1, <1>2, <1>3, <2>1 DEF UsersOK, HandsOK, UserLabels
<1>6. PoolOK' /\ StreamsOK'
  BY <1>1 DEF PoolOK, StreamsOK, pipeVars
<1>7. PlaceInv' /\ JobsOK'
  BY <1>1, PlacesStay DEF pipeVars, mgrVars
<1> QED BY <1>1, <1>4, <1>5, <1>6, <1>7, FlagsStay

LEMMA TakeStep ==
    ASSUME PipeInv, NEW u \in Users, PopTake(u)
    PROVE  PipeInv'
<1> USE DEF PipeInv, TypeInv
<1>1. /\ user[u] = "wait" /\ pool # <<>> /\ pool' = Tail(pool)
      /\ using' = [using EXCEPT ![u] = Head(pool)]
      /\ user' = [user EXCEPT ![u] = "send"]
      /\ UNCHANGED <<mgrVars, asked, fills, tries, opened, pipeVars, started, late>>
  BY DEF PopTake
<1>2. /\ Head(pool) \in Pipes /\ Contains(pool, Head(pool)) /\ Once(Tail(pool))
      /\ \A q \in Pipes : Contains(Tail(pool), q) <=> Contains(pool, q) /\ q # Head(pool)
  BY <1>1, TailOnce DEF PoolOK, PlaceInv
<1>3. PoolOK'
  BY <1>1, HeadTailProperties, LenProperties, Sizes DEF PoolOK
<1>4. UsersOK' /\ HandsOK'
  BY <1>1, <1>2, PipePoolAssumption DEF UsersOK, HandsOK, UserLabels
<1>5. CountsOK' /\ StreamsOK' /\ JobsOK'
  BY <1>1 DEF CountsOK, StreamsOK, JobsOK, pipeVars
<1>6. using[u] = None
  BY <1>1 DEF HandsOK
<1>7. PlaceInv'
  <2>1. Once(pool') /\ ComingOK'
    BY <1>1, <1>2 DEF PlaceInv, ComingOK, Coming, pipeVars
  <2>2. PooledOK'
    BY <1>1, <1>2 DEF PlaceInv, PooledOK, UsersOK, pipeVars
  <2>3. UsedOK'
    BY <1>1, <1>2 DEF PlaceInv, PooledOK, UsedOK, UsersOK, pipeVars
  <2>4. StrayOK'
    <3> SUFFICES ASSUME NEW p \in srvOpen \ Coming
                 PROVE  \/ Contains(Tail(pool), p) \/ poolClosed
                        \/ \E v \in Users : using'[v] = p
      BY <1>1 DEF StrayOK, Coming, pipeVars, mgrVars
    <3>1. CASE p = Head(pool)
      BY <1>1, <3>1 DEF UsersOK
    <3>2. CASE \E v \in Users : using[v] = p
      <4>1. p # None
        BY PipePoolAssumption DEF StreamsOK
      <4> QED BY <1>1, <1>6, <3>2, <4>1 DEF UsersOK
    <3> QED BY <1>2, <3>1, <3>2 DEF PlaceInv, StrayOK, StreamsOK
  <2> QED BY <2>1, <2>2, <2>3, <2>4 DEF PlaceInv, Once
<1> QED BY <1>1, <1>3, <1>4, <1>5, <1>7, FlagsStay

(* The ConnRequest on the pipe in hand names the user whose pipe it is. *)
LEMMA SendStep ==
    ASSUME PipeInv, NEW u \in Users, SendWork(u)
    PROVE  PipeInv'
<1> USE DEF PipeInv, TypeInv
<1>1. /\ user[u] = "send" /\ user' = [user EXCEPT ![u] = "join"]
      /\ job' = IF link THEN [job EXCEPT ![using[u]] = u] ELSE job
      /\ UNCHANGED <<mgrVars, pool, asked, fills, tries, using, opened,
                     stream, srvOpen, work, cliOpen, started, late>>
  BY DEF SendWork
<1>2. using[u] \in Pipes
  BY <1>1 DEF HandsOK, UsersOK
<1>3. PoolOK' /\ CountsOK' /\ UsersOK' /\ HandsOK'
  BY <1>1 DEF PoolOK, CountsOK, UsersOK, HandsOK, UserLabels
<1>4. StreamsOK'
  BY <1>1, <1>2 DEF StreamsOK
<1>5. /\ \A p \in Pipes \ {using[u]} : job'[p] = job[p]
      /\ job'[using[u]] \in {job[using[u]], u}
  BY <1>1, <1>2 DEF StreamsOK
<1>6. JobsOK'
  BY <1>1, <1>5, PipePoolAssumption DEF JobsOK
<1>7. PlaceInv'
  <2>1. Once(pool') /\ StrayOK'
    BY <1>1 DEF PlaceInv, Once, StrayOK, Coming, mgrVars
  <2>2. PooledOK'
    BY <1>1, <1>5 DEF PlaceInv, PooledOK
  <2>3. ComingOK'
    BY <1>1, <1>2, <1>5 DEF PlaceInv, ComingOK, Coming, UsedOK
  <2>4. UsedOK'
    BY <1>1, <1>2, <1>5 DEF PlaceInv, UsedOK
  <2> QED BY <2>1, <2>2, <2>3, <2>4 DEF PlaceInv
<1> QED BY <1>1, <1>3, <1>4, <1>6, <1>7, FlagsStay

(* A user closes its pipe: the write failed, or the transfer is over. *)
LEMMA GiveBackStep ==
    ASSUME PipeInv, NEW u \in Users, SendWorkFail(u) \/ JoinEnd(u)
    PROVE  PipeInv'
<1> USE DEF PipeInv, TypeInv
<1>1. /\ user[u] \in {"send", "join"} /\ srvOpen' = srvOpen \ {using[u]}
      /\ using' = [using EXCEPT ![u] = None]
      /\ UNCHANGED <<mgrVars, pool, asked, fills, stream, work, cliOpen, job, started, late>>
  BY DEF SendWorkFail, JoinEnd
<1>2. using[u] \in Pipes
  BY <1>1 DEF HandsOK, UsersOK
<1>3. PoolOK' /\ CountsOK' /\ StreamsOK' /\ JobsOK'
  BY <1>1 DEF PoolOK, CountsOK, StreamsOK, JobsOK
<1>4. UsersOK' /\ HandsOK'
  <2>1. CASE SendWorkFail(u)
    BY <1>1, <2>1 DEF SendWorkFail, UsersOK, HandsOK, UserLabels
  <2>2. CASE JoinEnd(u)
    BY <1>1, <2>2 DEF JoinEnd, UsersOK, HandsOK, UserLabels
  <2> QED BY <2>1, <2>2
<1>5. \A v \in Users : using'[v] = IF v = u THEN None ELSE using[v]
  BY <1>1 DEF UsersOK
<1>6. PlaceInv'
  <2>1. Once(pool')
    BY <1>1 DEF PlaceInv, Once
  <2>2. PooledOK'
    BY <1>1, <1>2, <1>5, PipePoolAssumption DEF PlaceInv, PooledOK
  <2>3. ComingOK'
    BY <1>1, <1>2 DEF PlaceInv, ComingOK, Coming, UsedOK
  <2>4. UsedOK'
    BY <1>1, <1>2, <1>5, PipePoolAssumption DEF PlaceInv, UsedOK
  <2>5. StrayOK'
    BY <1>1, <1>2, <1>5 DEF PlaceInv, StrayOK, Coming, UsedOK, StreamsOK, mgrVars
  <2> QED BY <2>1, <2>2, <2>3, <2>4, <2>5 DEF PlaceInv
<1> QED BY <1>1, <1>3, <1>4, <1>6, FlagsStay

(* A new stream: its identity is in none of the places. *)
LEMMA OpenStep ==
    ASSUME PipeInv, NEW p \in Pipes, AgentPipe(p)
    PROVE  PipeInv'
<1> USE DEF PipeInv, TypeInv
<1>1. /\ asked > 0 /\ Fresh(p) /\ asked' = asked - 1
      /\ stream' = [stream EXCEPT ![p] = "lookup"]
      /\ work' = [work EXCEPT ![p] = "get"] /\ job' = [job EXCEPT ![p] = None]
      /\ srvOpen' = srvOpen \cup {p} /\ cliOpen' = cliOpen \cup {p}
      /\ UNCHANGED <<mgrVars, pool, fills, userVars, started, late>>
  BY DEF AgentPipe
<1>2. CountsOK'
  BY <1>1, Sizes DEF CountsOK
<1>3. PoolOK' /\ UsersOK' /\ HandsOK' /\ StreamsOK' /\ JobsOK'
  BY <1>1
     DEF PoolOK, UsersOK, HandsOK, StreamsOK, StreamLabels, WorkLabels, JobsOK, userVars
<1>4. p \notin srvOpen /\ p \notin Coming
  BY <1>1 DEF Fresh, Coming
<1>5. PlaceInv'
  <2>1. Once(pool')
    BY <1>1 DEF PlaceInv, Once
  <2>2. PooledOK' /\ UsedOK'
    BY <1>1, <1>4 DEF PlaceInv, PooledOK, UsedOK, StreamsOK, userVars
  <2>3. ComingOK' /\ StrayOK'
    BY <1>1, <1>4
       DEF PlaceInv, ComingOK, StrayOK, Coming, StreamsOK, userVars, mgrVars
  <2> QED BY <2>1, <2>2, <2>3 DEF PlaceInv
<1> QED BY <1>1, <1>2, <1>3, <1>5, FlagsStay

(* HandleStream closes a pipe that is on its way. *)
LEMMA RefuseStep ==
    ASSUME PipeInv, NEW p \in Coming, Refuse(p), late' \in Nat
    PROVE  PipeInv'
<1> USE DEF PipeInv, TypeInv
<1>1. /\ srvOpen' = srvOpen \ {p} /\ stream' = [stream EXCEPT ![p] = "done"]
      /\ UNCHANGED <<mgrVars, pool, asked, fills, userVars, work, cliOpen, job, started>>
  BY DEF Refuse
<1>2. PoolOK' /\ UsersOK' /\ HandsOK' /\ CountsOK' /\ JobsOK'
  BY <1>1 DEF PoolOK, UsersOK, HandsOK, CountsOK, JobsOK, userVars
<1>3. StreamsOK'
  BY <1>1 DEF StreamsOK, StreamLabels
<1>4. PlaceInv'
  <2>1. Once(pool')
    BY <1>1 DEF PlaceInv, Once
  <2>2. PooledOK' /\ UsedOK'
    BY <1>1 DEF PlaceInv, PooledOK, UsedOK, Coming, StreamsOK, userVars
  <2>3. ComingOK' /\ StrayOK'
    BY <1>1 DEF PlaceInv, ComingOK, StrayOK, Coming, StreamsOK, userVars, mgrVars
  <2> QED BY <2>1, <2>2, <2>3 DEF PlaceInv
<1> QED BY <1>1, <1>2, <1>3, <1>4, FlagsStay

(* HandleStream goes on with a pipe, which stays on its way. *)
LEMMA AdvanceStep ==
    ASSUME PipeInv, NEW p \in Coming, NEW l \in {"check", "push"},
           stream' = [stream EXCEPT ![p] = l],
           UNCHANGED <<mgrVars, pool, asked, fills, userVars, srvOpen, work, cliOpen, job,
                       started, late>>
    PROVE  PipeInv'
<1> USE DEF PipeInv, TypeInv
<1>1. PoolOK' /\ UsersOK' /\ HandsOK' /\ CountsOK' /\ JobsOK'
  BY DEF PoolOK, UsersOK, HandsOK, CountsOK, JobsOK, userVars
<1>2. StreamsOK' /\ Coming' = Coming
  BY DEF StreamsOK, StreamLabels, Coming
<1>3. PlaceInv'
  <2>1. Once(pool') /\ ComingOK' /\ StrayOK'
    BY <1>2 DEF PlaceInv, Once, ComingOK, StrayOK, userVars, mgrVars
  <2>2. PooledOK' /\ UsedOK'
    BY DEF PlaceInv, PooledOK, UsedOK, Coming, StreamsOK, userVars
  <2> QED BY <2>1, <2>2 DEF PlaceInv
<1> QED BY <1>1, <1>2, <1>3, FlagsStay

LEMMA PushStep ==
    ASSUME PipeInv, NEW p \in Pipes, HandlePush(p)
    PROVE  PipeInv'
<1> USE DEF PipeInv, TypeInv
<1>1. p \in Coming /\ stream[p] = "push"
  BY DEF HandlePush, Coming
<1>2. ~Contains(pool, p) /\ \A u \in Users : using[u] # p
  BY <1>1 DEF PlaceInv, PooledOK, UsedOK
<1>3. ASSUME stream' = [stream EXCEPT ![p] = "done"],
             UNCHANGED <<mgrVars, asked, fills, userVars, srvOpen, work, cliOpen, job,
                         started, late>>
      PROVE  /\ FlagsOK' /\ CountsOK' /\ UsersOK' /\ StreamsOK' /\ HandsOK'
             /\ JobsOK' /\ DownInOrder' /\ UsedOK' /\ ComingOK'
             /\ Coming' = Coming \ {p}
  <2>1. CountsOK' /\ UsersOK' /\ HandsOK' /\ JobsOK'
    BY <1>3 DEF CountsOK, UsersOK, HandsOK, JobsOK, userVars
  <2>2. StreamsOK' /\ Coming' = Coming \ {p}
    BY <1>3 DEF StreamsOK, StreamLabels, Coming
  <2>3. ComingOK'
    BY <1>3, <2>2 DEF PlaceInv, ComingOK
  <2>4. UsedOK'
    BY <1>2, <1>3 DEF PlaceInv, UsedOK, StreamsOK, userVars
  <2> QED BY <1>3, <2>1, <2>2, <2>3, <2>4, FlagsStay
<1>4. CASE /\ ~poolClosed /\ Len(pool) < PoolCap
           /\ pool' = Append(pool, p)
           /\ stream' = [stream EXCEPT ![p] = "done"]
           /\ UNCHANGED <<mgrVars, asked, fills, userVars, srvOpen, work, cliOpen, job,
                          started, late>>
  <2>1. PoolOK'
    BY <1>4, AppendProperties, LenProperties, Sizes DEF PoolOK
  <2>2. /\ Once(pool')
        /\ \A q \in Pipes : Contains(pool', q) <=> Contains(pool, q) \/ q = p
    BY <1>2, <1>4, AppendOnce DEF PlaceInv, PoolOK
  <2>3. PooledOK'
    BY <1>1, <1>2, <1>4, <2>2 DEF PlaceInv, PooledOK, ComingOK, StreamsOK, userVars
  <2>4. StrayOK'
    BY <1>3, <1>4, <2>2 DEF PlaceInv, StrayOK, StreamsOK, userVars, mgrVars
  <2> QED BY <1>3, <1>4, <2>1, <2>2, <2>3, <2>4 DEF PlaceInv
<1>5. CASE ~poolClosed /\ Len(pool) = PoolCap /\ Refuse(p) /\ UNCHANGED late
  BY <1>1, <1>5, RefuseStep DEF CountsOK
<1>6. CASE /\ poolClosed
           /\ stream' = [stream EXCEPT ![p] = "done"]
           /\ UNCHANGED <<mgrVars, pool, asked, fills, userVars, srvOpen, work, cliOpen, job,
                          started, late>>
  <2>1. PoolOK' /\ Once(pool')
    BY <1>6 DEF PoolOK, PlaceInv, Once
  <2>2. PooledOK'
    BY <1>2, <1>6 DEF PlaceInv, PooledOK, StreamsOK, userVars
  <2>3. StrayOK'
    BY <1>6 DEF StrayOK, mgrVars
  <2> QED BY <1>3, <1>6, <2>1, <2>2, <2>3 DEF PlaceInv
<1> QED BY <1>4, <1>5, <1>6 DEF HandlePush

LEMMA StreamStep ==
    ASSUME PipeInv, NEW p \in Pipes, Stream(p)
    PROVE  PipeInv'
<1>1. CASE HandleLookup(p)
  BY <1>1, RefuseStep, AdvanceStep
     DEF HandleLookup, Coming, PipeInv, TypeInv, CountsOK
<1>2. CASE HandleGiveUp(p)
  BY <1>2, RefuseStep DEF HandleGiveUp, Coming, PipeInv, TypeInv, CountsOK
<1>3. CASE HandleCheck(p)
  BY <1>3, RefuseStep, AdvanceStep
     DEF HandleCheck, Coming, PipeInv, TypeInv, CountsOK
<1> QED BY <1>1, <1>2, <1>3, PushStep DEF Stream

LEMMA WorkStep ==
    ASSUME PipeInv, NEW p \in Pipes, Work(p)
    PROVE  PipeInv'
<1> USE DEF PipeInv, TypeInv
<1>1. UNCHANGED <<mgrVars, pool, asked, fills, userVars, stream, srvOpen, job, started, late>>
  BY DEF Work, WorkGet, WorkServe, WorkEnd
<1>2. PoolOK' /\ UsersOK' /\ HandsOK' /\ CountsOK'
  BY <1>1 DEF PoolOK, UsersOK, HandsOK, CountsOK, userVars
<1>3. StreamsOK' /\ JobsOK'
  BY <1>1 DEF Work, WorkGet, WorkServe, WorkEnd, StreamsOK, WorkLabels, JobsOK
<1>4. PlaceInv'
  BY <1>1
     DEF PlaceInv, Once, PooledOK, ComingOK, Coming, UsedOK, StrayOK, userVars, mgrVars
<1> QED BY <1>1, <1>2, <1>3, <1>4, FlagsStay

LEMMA NextPipes == PipeInv /\ [Next]_vars => PipeInv'
<1> SUFFICES ASSUME PipeInv, [Next]_vars PROVE PipeInv'
  OBVIOUS
<1>1. CASE UNCHANGED vars
  <2>1. PlaceInv' /\ JobsOK' /\ FlagsOK' /\ DownInOrder'
    BY <1>1, PlacesStay, FlagsStay DEF vars, userVars, pipeVars, mgrVars, PipeInv, TypeInv
  <2> QED BY <1>1, <2>1
          DEF vars, userVars, pipeVars, PipeInv, TypeInv, PoolOK, CountsOK, UsersOK,
              StreamsOK, HandsOK
<1>2. CASE Next
  BY <1>2, ManagerStep, AskStep, TakeStep, SendStep, GiveBackStep, OpenStep, StreamStep,
     WorkStep DEF Next, Handle, Pop
<1> QED BY <1>1, <1>2

LEMMA PipeInvariant == Spec => []PipeInv
BY InitPipes, NextPipes, PTL DEF Spec
-----------------------------------------------------------------------------
(* Type correctness: the pool and the requests under way keep to their      *)
(* capacity, and proxy.handle makes three attempts at most.                 *)
THEOREM TypeCorrect == Spec => []TypeOK
<1>1. PipeInv => TypeOK
  BY PartsOfType DEF PipeInv, TypeInv
<1> QED BY PipeInvariant, <1>1, PTL

(* The server end of a pipe is never in two places and never forgotten: it  *)
(* is on its way through HandleStream, or in the pool, or with the one user *)
(* that popped it, except that a push that met the closed pool leaves it    *)
(* open.                                                                    *)
THEOREM EveryPipeAccounted == Spec => []PipesAccounted
<1>1. ASSUME PipeInv PROVE PipesAccounted
  <2> SUFFICES ASSUME NEW p \in srvOpen
               PROVE  \/ /\ p \in Coming /\ ~Contains(pool, p)
                         /\ \A u \in Users : using[u] # p
                      \/ /\ p \notin Coming /\ Contains(pool, p)
                         /\ \A u \in Users : using[u] # p
                      \/ /\ p \notin Coming /\ ~Contains(pool, p)
                         /\ \E u \in Users : using[u] = p
                      \/ /\ poolClosed /\ p \notin Coming /\ ~Contains(pool, p)
                         /\ \A u \in Users : using[u] # p
    BY DEF PipesAccounted
  <2>1. p \in Pipes /\ PooledOK /\ UsedOK /\ StrayOK
    BY <1>1 DEF PipeInv, TypeInv, StreamsOK, PlaceInv
  <2>2. CASE p \in Coming
    BY <2>1, <2>2 DEF PooledOK, UsedOK, Coming
  <2>3. CASE p \notin Coming
    BY <2>1, <2>3 DEF PooledOK, UsedOK, StrayOK
  <2> QED BY <2>2, <2>3
<1> QED BY PipeInvariant, <1>1, PTL

(* The target that awaitWork dials for a pipe is dialled for the user whose *)
(* connection proxy.handle joins to the other end: the ConnRequest that the *)
(* client has read was written by that user, through retries and although   *)
(* stream identities are used again.                                        *)
THEOREM TrafficMatches == Spec => []PipesMatch
<1>1. PipeInv => PipesMatch
  BY DEF PipeInv, PlaceInv, UsedOK, JobsOK, PipesMatch
<1> QED BY PipeInvariant, <1>1, PTL
-----------------------------------------------------------------------------
(***************************************************************************)
(* The pipes that users can count on.  Everything is finite, so that one   *)
(* more waiting user, or one pipe that moves on, changes a sum by one.     *)
(***************************************************************************)
LEMMA Counted ==
    /\ TypeInv => /\ Cardinality(Waiting) \in Nat /\ Cardinality(Coming) \in Nat
                  /\ Cardinality(Waiting) <= Cardinality(Users)
                  /\ \A u \in Users :
                       /\ Cardinality(Waiting \cup {u}) <= Cardinality(Waiting) + 1
                       /\ Cardinality(Waiting \ {u}) <= Cardinality(Waiting)
                       /\ u \in Waiting =>
                              Cardinality(Waiting \ {u}) = Cardinality(Waiting) - 1
                  /\ \A p \in Pipes :
                       /\ p \notin Coming =>
                              Cardinality(Coming \cup {p}) = Cardinality(Coming) + 1
                       /\ p \in Coming =>
                              /\ Cardinality(Coming \ {p}) = Cardinality(Coming) - 1
                              /\ Cardinality(Coming \ {p}) \in Nat
                  /\ Len(pool) \in Nat /\ asked \in Nat /\ late \in Nat
    /\ PoolCap \in Nat /\ Cardinality(Users) \in Nat
<1>1. IsFiniteSet(Users) /\ IsFiniteSet(Pipes) /\ Cardinality(Users) \in Nat
  BY PipePoolAssumption, FS_CardinalityType
<1>2. Waiting \in SUBSET Users /\ Coming \in SUBSET Pipes
  BY DEF Waiting, Coming
<1>3. /\ IsFiniteSet(Waiting) /\ Cardinality(Waiting) <= Cardinality(Users)
      /\ IsFiniteSet(Coming)
  BY <1>1, <1>2, FS_Subset
<1>4. Cardinality(Waiting) \in Nat /\ Cardinality(Coming) \in Nat
  BY <1>3, FS_CardinalityType
<1>5. ASSUME NEW u \in Users
      PROVE  /\ Cardinality(Waiting \cup {u}) <= Cardinality(Waiting) + 1
             /\ Cardinality(Waiting \ {u}) <= Cardinality(Waiting)
             /\ u \in Waiting => Cardinality(Waiting \ {u}) = Cardinality(Waiting) - 1
  <2>1. Cardinality(Waiting \cup {u}) =
            IF u \in Waiting THEN Cardinality(Waiting) ELSE Cardinality(Waiting) + 1
    BY <1>3, FS_AddElement
  <2>2. Cardinality(Waiting \ {u}) =
            IF u \in Waiting THEN Cardinality(Waiting) - 1 ELSE Cardinality(Waiting)
    BY <1>3, FS_RemoveElement
  <2> QED BY <1>4, <2>1, <2>2
<1>6. ASSUME NEW p \in Pipes
      PROVE  /\ p \notin Coming => Cardinality(Coming \cup {p}) = Cardinality(Coming) + 1
             /\ p \in Coming => /\ Cardinality(Coming \ {p}) = Cardinality(Coming) - 1
                                /\ Cardinality(Coming \ {p}) \in Nat
  <2>1. p \notin Coming => Cardinality(Coming \cup {p}) = Cardinality(Coming) + 1
    BY <1>3, FS_AddElement
  <2>2. p \in Coming => Cardinality(Coming \ {p}) = Cardinality(Coming) - 1
    BY <1>3, FS_RemoveElement
  <2>3. Cardinality(Coming \ {p}) \in Nat
    <3>1. IsFiniteSet(Coming \ {p})
      BY <1>3, FS_RemoveElement
    <3> QED BY <3>1, FS_CardinalityType
  <2> QED BY <2>1, <2>2, <2>3
<1>7. TypeInv => Len(pool) \in Nat /\ asked \in Nat /\ late \in Nat
  BY LenProperties, Sizes DEF TypeInv, PoolOK, CountsOK
<1> QED BY <1>1, <1>3, <1>4, <1>5, <1>6, <1>7, Sizes

(***************************************************************************)
(* Every step that a manager with an open control stream can see.  A pipe  *)
(* is refused only when the pool is full, and then the pool alone covers   *)
(* the users.                                                              *)
(***************************************************************************)
LEMMA NextCovered ==
    ASSUME PipeInv, WaitersCovered, [Next]_vars
    PROVE  WaitersCovered'
<1> SUFFICES ASSUME control', Cardinality(Users) <= PoolCap
             PROVE  Cardinality(Waiting)' <=
                        Len(pool') + Cardinality(Coming)' + asked' + late'
  BY DEF WaitersCovered
<1> DEFINE covered == Cardinality(Waiting) <= Len(pool) + Cardinality(Coming) + asked + late
           quiet == /\ Waiting' = Waiting /\ Coming' = Coming
                    /\ Len(pool') = Len(pool) /\ asked' = asked /\ late' = late
<1>1. control
  BY ZenonT(60) DEF Next, Fill, AgentStart, ControlEnds, SessionEnds, Closing, CloseFlag, ClosePool,
         CloseProxies, SrvRemove, Accept, Handle, Pop, PopCheck, PopRequest, PopTake, PopFail,
         SendWork, SendWorkFail, JoinEnd, AgentPipe, Stream, HandleLookup, HandleGiveUp,
         HandleCheck, HandlePush, Refuse, Work, WorkGet, WorkServe, WorkEnd, vars, mgrVars
<1>2. covered
  BY <1>1 DEF WaitersCovered
<1>3. link /\ ~closed /\ ~poolClosed /\ registered /\ TypeInv
  BY <1>1 DEF PipeInv, DownInOrder
<1>4. CASE quiet
  BY <1>2, <1>4
<1>5. CASE UNCHANGED vars
  BY <1>4, <1>5 DEF vars, userVars, pipeVars, Waiting, Coming
<1>6. CASE Fill
  <2>1. asked' = asked + 1 /\ UNCHANGED <<user, stream, pool, late>>
    BY <1>1, <1>6 DEF Fill, ReqPipeConn, userVars, pipeVars
  <2>2. Waiting' = Waiting /\ Coming' = Coming
    BY <2>1 DEF Waiting, Coming
  <2> QED BY <1>2, <1>3, <2>1, <2>2, Counted, SMTT(60)
<1>7. CASE AgentStart \/ ControlEnds \/ SessionEnds \/ Closing
  <2>1. quiet
    BY <1>7
       DEF AgentStart, ControlEnds, SessionEnds, Closing, CloseFlag, ClosePool,
           CloseProxies, SrvRemove, userVars, pipeVars, Waiting, Coming
  <2> QED BY <1>4, <2>1
<1>8. ASSUME NEW u \in Users, Accept(u) \/ PopCheck(u) \/ SendWork(u) \/ JoinEnd(u)
      PROVE  quiet
  <2>1. UNCHANGED <<pool, asked, late, stream>>
    BY <1>8 DEF Accept, PopCheck, SendWork, JoinEnd, pipeVars
  <2>2. \E l \in {"ask", "put", "join", "done"} : user' = [user EXCEPT ![u] = l]
    BY <1>3, <1>8 DEF Accept, PopCheck, SendWork, JoinEnd
  <2>3. user[u] # "wait"
    BY <1>8 DEF Accept, PopCheck, SendWork, JoinEnd
  <2>4. Waiting' = Waiting
    BY <1>3, <2>2, <2>3 DEF Waiting, TypeInv, UsersOK
  <2> QED BY <2>1, <2>4 DEF Coming
<1>9. ASSUME NEW u \in Users, PopRequest(u)
      PROVE  Cardinality(Waiting)' <= Len(pool') + Cardinality(Coming)' + asked' + late'
  <2>1. asked' = asked + 1 /\ UNCHANGED <<pool, late, stream>>
    BY <1>1, <1>9 DEF PopRequest, ReqPipeConn, pipeVars
  <2>2. Waiting' = Waiting \cup {u} /\ Coming' = Coming
    BY <1>3, <1>9, <2>1 DEF PopRequest, Waiting, Coming, TypeInv, UsersOK
  <2>3. Cardinality(Waiting \cup {u}) <= Cardinality(Waiting) + 1
    BY <1>3, Counted
  <2>4. Cardinality(Waiting \cup {u}) \in Nat
    BY <1>3, <2>2, Counted, FS_Subset, FS_CardinalityType, PipePoolAssumption DEF Waiting
  <2> QED BY <1>2, <1>3, <2>1, <2>2, <2>3, <2>4, Counted, SMTT(60)
<1>10. ASSUME NEW u \in Users, PopTake(u)
       PROVE  Cardinality(Waiting)' <= Len(pool') + Cardinality(Coming)' + asked' + late'
  <2>1. Len(pool') = Len(pool) - 1 /\ UNCHANGED <<asked, late, stream>>
    BY <1>3, <1>10, HeadTailProperties DEF PopTake, pipeVars, TypeInv, PoolOK
  <2>2. u \in Waiting /\ Waiting' = Waiting \ {u} /\ Coming' = Coming
    BY <1>3, <1>10, <2>1 DEF PopTake, Waiting, Coming, TypeInv, UsersOK
  <2>3. /\ Cardinality(Waiting \ {u}) = Cardinality(Waiting) - 1
        /\ Cardinality(Waiting) \in Nat /\ Cardinality(Coming) \in Nat
        /\ Len(pool) \in Nat /\ asked \in Nat /\ late \in Nat
    BY <1>3, <2>2, Counted
  <2> QED BY <1>2, <2>1, <2>2, <2>3, SMTT(60)
<1>11. ASSUME NEW u \in Users, PopFail(u)
       PROVE  Cardinality(Waiting)' <= Len(pool') + Cardinality(Coming)' + asked' + late'
  <2>1. UNCHANGED <<pool, asked, late, stream>>
    BY <1>11 DEF PopFail, pipeVars
  <2>2. u \in Waiting /\ Waiting' = Waiting \ {u} /\ Coming' = Coming
    BY <1>3, <1>11, <2>1 DEF PopFail, Waiting, Coming, TypeInv, UsersOK
  <2> QED BY <1>2, <1>3, <2>1, <2>2, Counted, SMTT(60)
<1>12. ASSUME NEW p \in Pipes, AgentPipe(p)
       PROVE  Cardinality(Waiting)' <= Len(pool') + Cardinality(Coming)' + asked' + late'
  <2>1. asked' = asked - 1 /\ UNCHANGED <<pool, late, user>> /\ p \notin Coming
    BY <1>12 DEF AgentPipe, Fresh, Coming, userVars
  <2>2. Waiting' = Waiting /\ Coming' = Coming \cup {p}
    BY <1>3, <1>12, <2>1 DEF AgentPipe, Waiting, Coming, TypeInv, StreamsOK
  <2>3. /\ Cardinality(Coming \cup {p}) = Cardinality(Coming) + 1
        /\ Cardinality(Waiting) \in Nat /\ Cardinality(Coming) \in Nat
        /\ Len(pool) \in Nat /\ asked \in Nat /\ late \in Nat
    BY <1>3, <2>1, Counted
  <2> QED BY <1>2, <2>1, <2>2, <2>3, SMTT(60)
<1>13. ASSUME NEW p \in Pipes, HandleLookup(p) \/ HandleCheck(p)
       PROVE  quiet
  <2>1. UNCHANGED <<pool, asked, late, user>> /\ p \in Coming
    BY <1>3, <1>13 DEF HandleLookup, HandleCheck, Coming, userVars
  <2>2. \E l \in {"check", "push"} : stream' = [stream EXCEPT ![p] = l]
    BY <1>3, <1>13 DEF HandleLookup, HandleCheck
  <2>3. Coming' = Coming
    BY <1>3, <2>1, <2>2 DEF Coming, TypeInv, StreamsOK
  <2> QED BY <2>1, <2>3 DEF Waiting
<1>14. ASSUME NEW p \in Pipes, HandleGiveUp(p)
       PROVE  Cardinality(Waiting)' <= Len(pool') + Cardinality(Coming)' + asked' + late'
  <2>1. late' = late + 1 /\ UNCHANGED <<pool, asked, user>> /\ p \in Coming
    BY <1>3, <1>14 DEF HandleGiveUp, Refuse, Coming, userVars
  <2>2. Waiting' = Waiting /\ Coming' = Coming \ {p}
    BY <1>3, <1>14, <2>1 DEF HandleGiveUp, Refuse, Waiting, Coming, TypeInv, StreamsOK
  <2>3. /\ Cardinality(Coming \ {p}) = Cardinality(Coming) - 1
        /\ Cardinality(Waiting) \in Nat /\ Cardinality(Coming) \in Nat
        /\ Len(pool) \in Nat /\ asked \in Nat /\ late \in Nat
    BY <1>3, <2>1, Counted
  <2> QED BY <1>2, <2>1, <2>2, <2>3, SMTT(60)
<1>15. ASSUME NEW p \in Pipes, HandlePush(p)
       PROVE  Cardinality(Waiting)' <= Len(pool') + Cardinality(Coming)' + asked' + late'
  <2>1. /\ UNCHANGED <<asked, late, user>> /\ p \in Coming
        /\ stream' = [stream EXCEPT ![p] = "done"]
    BY <1>15 DEF HandlePush, Refuse, Coming, userVars
  <2>2. Waiting' = Waiting /\ Coming' = Coming \ {p}
    BY <1>3, <2>1 DEF Waiting, Coming, TypeInv, StreamsOK
  <2>3. CASE pool' = Append(pool, p)
    <3>1. Len(pool') = Len(pool) + 1
      BY <1>3, <2>3, AppendProperties DEF TypeInv, PoolOK
    <3>2. /\ Cardinality(Coming \ {p}) = Cardinality(Coming) - 1
          /\ Cardinality(Waiting) \in Nat /\ Cardinality(Coming) \in Nat
          /\ Len(pool) \in Nat /\ asked \in Nat /\ late \in Nat
      BY <1>3, <2>1, Counted
    <3> QED BY <1>2, <2>1, <2>2, <3>1, <3>2
  <2>4. CASE pool' = pool /\ Len(pool) = PoolCap
    <3>1. /\ Cardinality(Coming \ {p}) \in Nat /\ asked \in Nat /\ late \in Nat
          /\ Cardinality(Waiting) \in Nat /\ Cardinality(Users) \in Nat /\ PoolCap \in Nat
          /\ Cardinality(Waiting) <= Cardinality(Users)
      BY <1>3, <2>1, Counted
    <3> QED BY <2>1, <2>2, <2>4, <3>1
  <2> QED BY <1>3, <1>15, <2>3, <2>4 DEF HandlePush, Refuse
<1>16. ASSUME NEW p \in Pipes, Work(p) PROVE quiet
  BY <1>16 DEF Work, WorkGet, WorkServe, WorkEnd, userVars, Waiting, Coming
<1>17. ASSUME NEW u \in Users, SendWorkFail(u) PROVE FALSE
  BY <1>3, <1>17 DEF SendWorkFail
<1> QED BY <1>4, <1>5, <1>6, <1>7, <1>8, <1>9, <1>10, <1>11, <1>12, <1>13, <1>14, <1>15,
           <1>16, <1>17 DEF Next, Handle, Pop, Stream

(* While the control stream is up and no more users are connected than the  *)
(* pool can hold, every user that waits in PopPipeConn has a pipe coming:   *)
(* pooled, in HandleStream, or asked for, unless HandleStream gave one up.  *)
(* Refusing a pipe because the pool is full never takes it from a user.     *)
THEOREM WaitersAreCovered == Spec => []WaitersCovered
<1>1. Init => WaitersCovered
  <2> SUFFICES ASSUME Init
               PROVE  Cardinality(Waiting) <= Len(pool) + Cardinality(Coming) + asked + late
    BY DEF WaitersCovered
  <2>1. Waiting = {} /\ TypeInv
    BY InitPipes DEF Init, Waiting, PipeInv
  <2> QED BY <2>1, Counted, FS_EmptySet
<1> QED BY PipeInvariant, <1>1, NextCovered, PTL DEF Spec
-----------------------------------------------------------------------------
(***************************************************************************)
(* PipePool implements PipeBroker.  The places exclude each other, so that *)
(* the CHOOSE of the refinement mapping has one candidate.                 *)
(***************************************************************************)
Exclusive(s, h) ==
    \A p \in Pipes, u \in Users : h[u] = p =>
        ~Contains(s, p) /\ \A v \in Users : h[v] = p => v = u

HolderIn(s, h, p) ==
    IF Contains(s, p) THEN "free"
    ELSE IF \E u \in Users : h[u] = p THEN CHOOSE u \in Users : h[u] = p
    ELSE "out"

LEMMA HolderOf ==
    ASSUME NEW s, NEW h, Exclusive(s, h), NEW p \in Pipes
    PROVE  /\ Contains(s, p) => HolderIn(s, h, p) = "free"
           /\ \A u \in Users : h[u] = p => HolderIn(s, h, p) = u
           /\ ~Contains(s, p) /\ (\A u \in Users : h[u] # p) => HolderIn(s, h, p) = "out"
<1>1. ASSUME NEW u \in Users, h[u] = p PROVE HolderIn(s, h, p) = u
  <2>1. ~Contains(s, p) /\ \A v \in Users : h[v] = p <=> v = u
    BY <1>1 DEF Exclusive
  <2>2. (CHOOSE v \in Users : h[v] = p) = u
    BY <2>1
  <2> QED BY <1>1, <2>1, <2>2 DEF HolderIn
<1> QED BY <1>1 DEF HolderIn

LEMMA HolderSame ==
    ASSUME NEW s, NEW h, Exclusive(s, h), NEW t, NEW k, Exclusive(t, k), NEW p \in Pipes,
           Contains(t, p) <=> Contains(s, p), \A u \in Users : k[u] = p <=> h[u] = p
    PROVE  HolderIn(t, k, p) = HolderIn(s, h, p)
<1>1. CASE Contains(s, p)
  BY <1>1, HolderOf
<1>2. CASE \E u \in Users : h[u] = p
  <2>1. PICK u \in Users : h[u] = p
    BY <1>2
  <2>2. HolderIn(s, h, p) = u
    BY <2>1, HolderOf
  <2>3. HolderIn(t, k, p) = u
    BY <2>1, HolderOf
  <2> QED BY <2>2, <2>3
<1>3. CASE ~Contains(s, p) /\ \A u \in Users : h[u] # p
  BY <1>3, HolderOf
<1> QED BY <1>1, <1>2, <1>3

LEMMA Places ==
    /\ PipeInv => Exclusive(pool, using)
    /\ PipeInv' => Exclusive(pool', using')
    /\ \A p \in Pipes : Holder(p) = HolderIn(pool, using, p)
    /\ \A p \in Pipes : Holder(p)' = HolderIn(pool', using', p)
<1>1. PipeInv => Exclusive(pool, using)
  BY DEF PipeInv, PlaceInv, PooledOK, UsedOK, Exclusive
<1>2. PipeInv' => Exclusive(pool', using')
  BY DEF PipeInv, PlaceInv, PooledOK, UsedOK, Exclusive
<1>3. \A p \in Pipes : Holder(p) = HolderIn(pool, using, p)
  BY DEF Holder, HolderIn
<1>4. \A p \in Pipes : Holder(p)' = HolderIn(pool', using', p)
  BY DEF Holder, HolderIn
<1> QED BY <1>1, <1>2, <1>3, <1>4

(* Steps that leave the pool and the hands alone are stutters of the broker. *)
LEMMA HolderStays ==
    ASSUME UNCHANGED <<pool, using>>
    PROVE  [p \in Pipes |-> Holder(p)]' = [p \in Pipes |-> Holder(p)]
BY DEF Holder

LEMMA InitBroker == Init => Broker!Init
<1> SUFFICES ASSUME Init PROVE \A p \in Pipes : Holder(p) = "out"
  BY DEF Broker!Init
<1>1. \A p \in Pipes : ~Contains(pool, p) /\ \A u \in Users : using[u] # p
  BY PipePoolAssumption DEF Init, Contains
<1> QED BY <1>1 DEF Holder

LEMMA TakeIsGive ==
    ASSUME PipeInv, PipeInv', NEW u \in Users, PopTake(u)
    PROVE  Broker!Next
<1>1. /\ user[u] = "wait" /\ pool # <<>> /\ pool' = Tail(pool)
      /\ using' = [using EXCEPT ![u] = Head(pool)] /\ using \in [Users -> Pipes \cup {None}]
  BY DEF PopTake, PipeInv, TypeInv, UsersOK
<1>2. /\ Head(pool) \in Pipes /\ Contains(pool, Head(pool))
      /\ \A q \in Pipes : Contains(pool', q) <=> Contains(pool, q) /\ q # Head(pool)
  BY <1>1, TailOnce DEF PipeInv, TypeInv, PoolOK, PlaceInv
<1>3. using[u] = None
  BY <1>1 DEF PipeInv, TypeInv, HandsOK
<1>4. Holder(Head(pool)) = "free"
  BY <1>2, HolderOf, Places
<1>5. ASSUME NEW q \in Pipes PROVE Holder(q)' = IF q = Head(pool) THEN u ELSE Holder(q)
  <2>1. CASE q = Head(pool)
    <3>1. using'[u] = q
      BY <1>1, <2>1
    <3> QED BY <2>1, <3>1, HolderOf, Places
  <2>2. CASE q # Head(pool)
    <3>1. \A v \in Users : using'[v] = q <=> using[v] = q
      BY <1>1, <1>3, <2>2, PipePoolAssumption
    <3>2. Contains(pool', q) <=> Contains(pool, q)
      BY <1>2, <2>2
    <3>3. HolderIn(pool', using', q) = HolderIn(pool, using, q)
      BY <3>1, <3>2, HolderSame, Places
    <3> QED BY <2>2, <3>3, Places
  <2> QED BY <2>1, <2>2
<1>6. ASSUME NEW q \in Pipes PROVE Holder(q) # u
  <2>1. using[u] # q /\ u # "free" /\ u # "out"
    BY <1>3, PipePoolAssumption
  <2> QED BY <2>1, HolderOf, Places
<1>7. Broker!Give(Head(pool), u)
  BY <1>2, <1>4, <1>5, <1>6 DEF Broker!Give
<1> QED BY <1>2, <1>7 DEF Broker!Next

LEMMA GiveBackIsFinish ==
    ASSUME PipeInv, PipeInv', NEW u \in Users, SendWorkFail(u) \/ JoinEnd(u)
    PROVE  Broker!Next
<1>1. /\ user[u] \in {"send", "join"} /\ UNCHANGED pool
      /\ using' = [using EXCEPT ![u] = None] /\ using \in [Users -> Pipes \cup {None}]
  BY DEF SendWorkFail, JoinEnd, PipeInv, TypeInv, UsersOK
<1>2. PICK p \in Pipes : p = using[u]
  BY <1>1 DEF PipeInv, TypeInv, HandsOK
<1>3. ~Contains(pool, p) /\ \A v \in Users \ {u} : using[v] # p
  BY <1>2, Places DEF Exclusive
<1>4. \A v \in Users : using'[v] # p
  BY <1>1, <1>3, PipePoolAssumption
<1>5. Holder(p) = u
  BY <1>2, HolderOf, Places
<1>6. ASSUME NEW q \in Pipes PROVE Holder(q)' = IF q = p THEN "out" ELSE Holder(q)
  <2>1. CASE q = p
    <3>1. Exclusive(pool', using') /\ ~Contains(pool', p)
      BY <1>1, <1>3, Places
    <3>2. HolderIn(pool', using', p) = "out"
      BY <1>4, <3>1, HolderOf
    <3> QED BY <2>1, <3>2, Places
  <2>2. CASE q # p
    <3>1. \A v \in Users : using'[v] = q <=> using[v] = q
      BY <1>1, <1>2, <2>2, PipePoolAssumption
    <3>2. /\ Exclusive(pool, using) /\ Exclusive(pool', using')
          /\ Contains(pool', q) <=> Contains(pool, q)
      BY <1>1, Places
    <3>3. HolderIn(pool', using', q) = HolderIn(pool, using, q)
      BY <3>1, <3>2, HolderSame
    <3> QED BY <2>2, <3>3, Places
  <2> QED BY <2>1, <2>2
<1>7. Broker!Finish(p)
  BY <1>5, <1>6 DEF Broker!Finish
<1> QED BY <1>7 DEF Broker!Next

LEMMA PushIsOffer ==
    ASSUME PipeInv, PipeInv', NEW p \in Pipes, HandlePush(p)
    PROVE  Broker!Next \/ UNCHANGED <<pool, using>>
<1>1. p \in Coming /\ stream[p] = "push" /\ UNCHANGED using
  BY DEF HandlePush, Refuse, Coming, userVars
<1>2. ~Contains(pool, p) /\ \A u \in Users : using[u] # p
  BY <1>1 DEF PipeInv, PlaceInv, PooledOK, UsedOK
<1>3. CASE pool' = Append(pool, p)
  <2>1. \A q \in Pipes : Contains(pool', q) <=> Contains(pool, q) \/ q = p
    BY <1>2, <1>3, AppendOnce DEF PipeInv, TypeInv, PoolOK, PlaceInv
  <2>2. Holder(p) = "out"
    BY <1>2, HolderOf, Places
  <2>3. ASSUME NEW q \in Pipes PROVE Holder(q)' = IF q = p THEN "free" ELSE Holder(q)
    <3>1. CASE q = p
      BY <2>1, <3>1, HolderOf, Places
    <3>2. CASE q # p
      <4>1. HolderIn(pool', using', q) = HolderIn(pool, using, q)
        BY <1>1, <2>1, <3>2, HolderSame, Places
      <4> QED BY <3>2, <4>1, Places
    <3> QED BY <3>1, <3>2
  <2>4. Broker!Offer(p)
    BY <2>2, <2>3 DEF Broker!Offer
  <2> QED BY <2>4 DEF Broker!Next
<1>4. CASE UNCHANGED pool
  BY <1>1, <1>4
<1> QED BY <1>3, <1>4 DEF HandlePush, Refuse

LEMMA NextBroker ==
    ASSUME PipeInv, PipeInv', [Next]_vars
    PROVE  Broker!Next \/ UNCHANGED [p \in Pipes |-> Holder(p)]
<1> SUFFICES Broker!Next \/ UNCHANGED <<pool, using>>
  BY HolderStays
<1>1. CASE UNCHANGED vars
  BY <1>1 DEF vars, userVars
<1>2. CASE Fill \/ AgentStart \/ ControlEnds \/ SessionEnds \/ Closing
  BY <1>2
     DEF Fill, AgentStart, ControlEnds, SessionEnds, Closing, CloseFlag, ClosePool,
         CloseProxies, SrvRemove, userVars
<1>3. ASSUME NEW u \in Users, Accept(u) \/ PopCheck(u) \/ PopRequest(u) \/ PopFail(u)
                               \/ SendWork(u)
      PROVE  UNCHANGED <<pool, using>>
  BY <1>3 DEF Accept, PopCheck, PopRequest, PopFail, SendWork
<1>4. ASSUME NEW p \in Pipes, AgentPipe(p) \/ HandleLookup(p) \/ HandleGiveUp(p)
                               \/ HandleCheck(p) \/ Work(p)
      PROVE  UNCHANGED <<pool, using>>
  BY <1>4
     DEF AgentPipe, HandleLookup, HandleGiveUp, HandleCheck, Refuse, Work, WorkGet,
         WorkServe, WorkEnd, userVars
<1> QED BY <1>1, <1>2, <1>3, <1>4, TakeIsGive, GiveBackIsFinish, PushIsOffer
        DEF Next, Handle, Pop, Stream

(* The pool keeps the promise of PipeBroker: a pipe goes to one user, a user *)
(* has one pipe at a time, and a pipe that was handed out is not pooled      *)
(* again, whatever is retried, refused, closed or lost.                      *)
THEOREM ImplementsBroker == Spec => KeepsPromise
<1>1. PipeInv /\ PipeInv' /\ [Next]_vars => [Broker!Next]_[p \in Pipes |-> Holder(p)]
  BY NextBroker
<1> QED BY PipeInvariant, InitBroker, <1>1, PTL DEF Spec, KeepsPromise, Broker!Spec
=============================================================================
