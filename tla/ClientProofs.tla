---------------------------- MODULE ClientProofs ----------------------------
(***************************************************************************)
(* Proofs about Client for every number of processes, logins and pipes.    *)
(***************************************************************************)
EXTENDS Client, TLAPS

Pipe ==
    [at : PipeLabels, login : Logins \cup {None}, session : Logins \cup {None},
     id : Ids \cup {None}, pool : Logins \cup {None}]

(***************************************************************************)
(* Whose login is whose: a login that a process, or an awaitWork, has got  *)
(* hold of is one that the process has made, and so is one of those that   *)
(* gave it its id.  TypeOK needs this, because a late awaitWork looks up   *)
(* the session of the owner of its login.                                  *)
(***************************************************************************)
SessionOwned ==
    \A m \in Processes :
        /\ loop[m] # "dial" => session[m] \in Logins
        /\ session[m] \in Logins => owner[session[m]] = m

(* A manager has its id before it is in the map, and is there under its id. *)
KeyOK ==
    /\ \A c \in Logins : IF handler[c] = "idle" THEN key[c] = None /\ run[c] = "unborn"
                                                 ELSE key[c] \in Ids
    /\ \A i \in Ids : managers[i] # None => key[managers[i]] = i

IdOwned ==
    \A m \in Processes :
        /\ clientId[m] \in Ids => clientId[m] \in Given(m)
        /\ loop[m] \in {"register", "run"} => clientId[m] \in Ids

PipeOwned ==
    \A p \in Pipes : pipe[p].at # "none" =>
        /\ pipe[p].login \in Logins /\ owner[pipe[p].login] \in Processes
        /\ clientId[owner[pipe[p].login]] \in Ids
        /\ pipe[p].at = "sent" => pipe[p].id \in Ids /\ pipe[p].id \in Given(owner[pipe[p].login])
        /\ InPool(p) =>
               /\ pipe[p].pool \in Logins /\ key[pipe[p].pool] \in Ids
               /\ key[pipe[p].pool] \in Given(owner[pipe[p].login])

Empty == \A p \in Pipes : pipe[p].at = "none" => pipe[p] = NoPipe

OwnInv == TypeOK /\ SessionOwned /\ KeyOK /\ IdOwned /\ PipeOwned /\ Empty

(***************************************************************************)
(* The id and the session that an awaitWork of the current login finds.    *)
(***************************************************************************)
IdCurrent ==
    \A m \in Processes : loop[m] \in {"register", "run"} => clientId[m] = key[session[m]]

PipeCurrent ==
    \A p \in Pipes :
        LET c == pipe[p].login IN
        pipe[p].at # "none" /\ session[owner[c]] = c =>
            /\ clientId[owner[c]] = key[c]
            /\ pipe[p].at # "asked" => pipe[p].session = c
            /\ pipe[p].at = "sent" => pipe[p].id = key[c]
            /\ InPool(p) => key[pipe[p].pool] = key[c]

StraightInv == IdCurrent /\ PipeCurrent

(* A control stream that is open has an owner, and a login that has been    *)
(* answered has an agent until its stream is closed.                        *)
StreamOwned ==
    \A c \in Logins : link[c] \in {"open", "closed", "dead"} => owner[c] \in Processes

AgentKept ==
    \A m \in Processes :
        loop[m] \in {"register", "run"} /\ agent[session[m]] = "none" => link[session[m]] # "open"

StreamInv == OneStream /\ StreamOwned /\ AgentKept
-----------------------------------------------------------------------------
LEMMA NoPipeTyped == NoPipe \in Pipe /\ NoPipe.at = "none"
BY DEF NoPipe, Pipe, PipeLabels

LEMMA PipeTyped == TypeOK => pipe \in [Pipes -> Pipe]
BY DEF TypeOK, Pipe

LEMMA InitOwned == Init => OwnInv
<1> SUFFICES ASSUME Init PROVE OwnInv
  OBVIOUS
<1>1. pipe \in [Pipes -> Pipe] /\ \A p \in Pipes : pipe[p] = NoPipe
  BY NoPipeTyped DEF Init
<1>2. TypeOK
  BY <1>1 DEF Init, TypeOK, Pipe, LoopLabels, Links, AgentLabels, HandlerLabels, RunLabels
<1>3. SessionOwned /\ KeyOK /\ IdOwned
  BY ClientAssumption DEF Init, SessionOwned, KeyOK, IdOwned
<1>4. PipeOwned /\ Empty
  BY <1>1, NoPipeTyped DEF PipeOwned, Empty
<1> QED BY <1>2, <1>3, <1>4 DEF OwnInv

(* What a process was given stays given. *)
LEMMA GivenKept ==
    ASSUME NEW m \in Processes, NEW i \in Ids, i \in Given(m),
           \A c \in Logins : owner[c] = m => owner'[c] = m,
           \A c \in Logins : key[c] \in Ids => key'[c] = key[c]
    PROVE  i \in Given(m)'
<1>1. PICK c \in Logins : owner[c] = m /\ key[c] = i
  BY DEF Given
<1>2. owner'[c] = m /\ key'[c] = i
  BY <1>1
<1> QED BY <1>2 DEF Given

(* The steps of the login loop. *)
LEMMA ClientRunOwned ==
    ASSUME OwnInv, NEW m \in Processes, ClientRun(m)
    PROVE  OwnInv'
<1> USE ClientAssumption
        DEF OwnInv, TypeOK, SessionOwned, KeyOK, IdOwned, PipeOwned, Empty, InPool,
            Loop, LoopLabels, Links, AgentLabels, clientVars, serverVars
<1>1. CASE ConnectServer(m)
  <2> PICK c \in Logins :
        /\ owner[c] = None
        /\ owner' = [owner EXCEPT ![c] = m]
        /\ session' = [session EXCEPT ![m] = c]
        /\ \/ Loop(m, "dial", "wait") /\ link' = [link EXCEPT ![c] = "open"]
           \/ Loop(m, "dial", "dial") /\ link' = [link EXCEPT ![c] = "failed"]
        /\ UNCHANGED <<clientId, agent, pipe, serverVars>>
    BY <1>1 DEF ConnectServer
  <2>1. TypeOK'
    OBVIOUS
  <2>2. \A d \in Logins : owner[d] \in Processes => owner'[d] = owner[d]
    OBVIOUS
  <2>3. \A n \in Processes : \A i \in Ids : i \in Given(n) => i \in Given(n)'
    BY <2>2, GivenKept
  <2>4. SessionOwned' /\ KeyOK'
    BY <2>2
  <2>5. IdOwned'
    BY <2>3
  <2>6. PipeOwned' /\ Empty'
    BY <2>2, <2>3
  <2> QED BY <2>1, <2>4, <2>5, <2>6
<1>2. ASSUME UNCHANGED <<owner, key>> PROVE \A n : Given(n)' = Given(n)
  BY <1>2 DEF Given
<1>3. CASE LoginOk(m)
  <2>1. session[m] \in Logins /\ owner[session[m]] = m /\ key[session[m]] \in Ids
    BY <1>3 DEF LoginOk
  <2>2. key[session[m]] \in Given(m)
    BY <2>1 DEF Given
  <2>3. /\ loop' = [loop EXCEPT ![m] = "register"] /\ loop[m] = "wait"
        /\ clientId' = [clientId EXCEPT ![m] = key[session[m]]]
        /\ agent' = [agent EXCEPT ![session[m]] = "open"]
        /\ UNCHANGED <<session, owner, link, pipe, handler, key, run, managers>>
    BY <1>3 DEF LoginOk
  <2>4. \A n : Given(n)' = Given(n)
    BY <1>2, <2>3
  <2>5. TypeOK' /\ SessionOwned' /\ KeyOK'
    BY <2>1, <2>3
  <2>6. IdOwned'
    BY <2>1, <2>2, <2>3, <2>4
  <2>7. PipeOwned' /\ Empty'
    BY <2>1, <2>3, <2>4
  <2> QED BY <2>5, <2>6, <2>7
<1>4. CASE LoginFails(m)
  BY <1>2, <1>4 DEF LoginFails, CloseStream
<1>5. CASE RegisterProxies(m)
  BY <1>2, <1>5 DEF RegisterProxies
<1>6. CASE AgentOver(m)
  BY <1>2, <1>6 DEF AgentOver
<1>7. CASE ProxiesFault(m)
  <2>1. TypeOK'
    BY <1>7, PipeTyped, NoPipeTyped DEF ProxiesFault, Pipe
  <2>2. \A p \in Pipes : pipe'[p] = pipe[p] \/ pipe'[p] = NoPipe
    BY <1>7 DEF ProxiesFault
  <2>3. \A n : Given(n)' = Given(n)
    BY <1>2, <1>7 DEF ProxiesFault
  <2>4. PipeOwned' /\ Empty'
    BY <1>7, <2>2, <2>3, NoPipeTyped DEF ProxiesFault
  <2>5. SessionOwned' /\ KeyOK' /\ IdOwned'
    BY <1>7, <2>3 DEF ProxiesFault
  <2> QED BY <2>1, <2>4, <2>5
<1> QED BY <1>1, <1>3, <1>4, <1>5, <1>6, <1>7 DEF ClientRun

(* The steps of an awaitWork and of its pipe at the server. *)
LEMMA PipeStepOwned ==
    ASSUME OwnInv, NEW p \in Pipes,
           PipeStep(p) \/ \E m \in Processes : AwaitWork(m, p)
    PROVE  OwnInv'
<1> USE DEF Moved
<1>1. UNCHANGED <<clientVars, serverVars>>
  BY DEF PipeStep, OpenPipe, SendPipe, HandlePipe, TakeWork, PipeOver, AwaitWork
<1>2. pipe[p] \in Pipe /\ pipe \in [Pipes -> Pipe]
  BY PipeTyped DEF OwnInv
<1> DEFINE Good(r) ==
      /\ r \in Pipe
      /\ r.at = "none" => r = NoPipe
      /\ r.at # "none" =>
            /\ r.login \in Logins /\ owner[r.login] \in Processes
            /\ clientId[owner[r.login]] \in Ids
            /\ r.at = "sent" => r.id \in Ids /\ r.id \in Given(owner[r.login])
            /\ r.at \in {"pooled", "lookup"} =>
                  /\ r.pool \in Logins /\ key[r.pool] \in Ids
                  /\ key[r.pool] \in Given(owner[r.login])
<1>3. Good(pipe[p])
  BY <1>2 DEF OwnInv, PipeOwned, Empty, InPool
<1>4. ASSUME NEW r, Good(r), pipe' = [pipe EXCEPT ![p] = r]
      PROVE  OwnInv'
  <2>1. TypeOK'
    BY <1>1, <1>4, <1>2 DEF OwnInv, TypeOK, Pipe, clientVars, serverVars
  <2>2. \A n : Given(n)' = Given(n)
    BY <1>1 DEF Given, clientVars, serverVars
  <2>3. PipeOwned' /\ Empty'
    BY <1>1, <1>4, <1>2, <2>2 DEF OwnInv, PipeOwned, Empty, InPool, clientVars, serverVars
  <2> QED BY <1>1, <2>1, <2>2, <2>3 DEF OwnInv, SessionOwned, KeyOK, IdOwned, clientVars, serverVars
<1>5. Good(NoPipe)
  BY NoPipeTyped
<1>6. CASE OpenPipe(p)
  <2> DEFINE s == session[owner[pipe[p].login]]
             r == [pipe[p] EXCEPT !.at = "opened", !.session = s]
  <2>1. s \in Logins \cup {None}
    BY <1>3, <1>6 DEF OwnInv, TypeOK, OpenPipe
  <2>2. Good(r)
    BY <1>2, <1>3, <1>6, <2>1 DEF OpenPipe, Pipe, PipeLabels
  <2> QED BY <1>4, <1>5, <1>6, <2>2 DEF OpenPipe
<1>7. CASE SendPipe(p)
  <2> DEFINE i == clientId[owner[pipe[p].login]]
             r == [pipe[p] EXCEPT !.at = "sent", !.id = i]
  <2>1. i \in Ids /\ i \in Given(owner[pipe[p].login])
    BY <1>3, <1>7 DEF OwnInv, TypeOK, IdOwned, SendPipe
  <2>2. Good(r)
    BY <1>2, <1>3, <1>7, <2>1 DEF SendPipe, Pipe, PipeLabels
  <2> QED BY <1>4, <1>5, <1>7, <2>2 DEF SendPipe
<1>8. CASE HandlePipe(p)
  <2> DEFINE c == managers[pipe[p].id]
             r == [pipe[p] EXCEPT !.at = "pooled", !.pool = c]
  <2>1. pipe[p].id \in Ids /\ pipe[p].id \in Given(owner[pipe[p].login])
    BY <1>3, <1>8 DEF HandlePipe
  <2>2. c # None => c \in Logins /\ key[c] = pipe[p].id
    BY <2>1 DEF OwnInv, TypeOK, KeyOK
  <2>3. c # None => Good(r)
    BY <1>2, <1>3, <1>8, <2>1, <2>2 DEF HandlePipe, Pipe, PipeLabels
  <2> QED BY <1>4, <1>5, <1>8, <2>3 DEF HandlePipe
<1>9. CASE TakeWork(p)
  <2>1. Good([pipe[p] EXCEPT !.at = "lookup"])
    BY <1>2, <1>3, <1>9 DEF TakeWork, Pipe, PipeLabels
  <2> QED BY <1>4, <1>9, <2>1 DEF TakeWork
<1>10. CASE PipeOver(p)
  BY <1>4, <1>5, <1>10 DEF PipeOver
<1>11. ASSUME NEW m \in Processes, AwaitWork(m, p) PROVE OwnInv'
  <2> DEFINE r == [NoPipe EXCEPT !.at = "asked", !.login = session[m]]
  <2>1. session[m] \in Logins /\ owner[session[m]] = m /\ clientId[m] \in Ids
    BY <1>11 DEF AwaitWork, OwnInv, SessionOwned, IdOwned
  <2>2. Good(r)
    BY <2>1, NoPipeTyped DEF Pipe, PipeLabels
  <2> QED BY <1>4, <1>11, <2>2 DEF AwaitWork
<1> QED BY <1>6, <1>7, <1>8, <1>9, <1>10, <1>11 DEF PipeStep

(* The steps of Agent.Close, of the server and of the network. *)
LEMMA ServerStepOwned ==
    ASSUME OwnInv, NEW c \in Logins, AgentClose(c) \/ ServerStep(c) \/ SessionDies(c)
    PROVE  OwnInv'
<1> USE ClientAssumption
        DEF OwnInv, TypeOK, SessionOwned, KeyOK, IdOwned, PipeOwned, Empty, InPool,
            Links, AgentLabels, HandlerLabels, RunLabels, clientVars, serverVars
<1>1. ASSUME UNCHANGED <<owner, key>> PROVE \A n : Given(n)' = Given(n)
  BY <1>1 DEF Given
<1>2. CASE AgentClose(c)
  BY <1>1, <1>2 DEF AgentClose, CloseFlag, CloseConn, CloseStream
<1>3. CASE SessionDies(c)
  BY <1>1, <1>3 DEF SessionDies
<1>4. CASE CheckLogin(c)
  <2>1. PICK i \in Ids : managers[i] = None /\ key' = [key EXCEPT ![c] = i]
    BY <1>4 DEF CheckLogin
  <2>2. /\ handler' = [handler EXCEPT ![c] = "insert"] /\ run' = [run EXCEPT ![c] = "running"]
        /\ handler[c] = "idle" /\ key[c] = None
        /\ UNCHANGED <<loop, session, clientId, owner, link, agent, managers, pipe>>
    BY <1>4 DEF CheckLogin
  <2>3. \A d \in Logins : key[d] \in Ids => key'[d] = key[d]
    BY <2>1, <2>2
  <2>4. \A n \in Processes : \A j \in Ids : j \in Given(n) => j \in Given(n)'
    BY <2>2, <2>3, GivenKept
  <2>5. TypeOK' /\ SessionOwned'
    BY <2>1, <2>2
  <2>6. KeyOK'
    BY <2>1, <2>2, <2>3
  <2>7. IdOwned'
    BY <2>2, <2>4
  <2>8. PipeOwned' /\ Empty'
    BY <2>2, <2>3, <2>4
  <2> QED BY <2>5, <2>6, <2>7, <2>8
<1>5. CASE RegisterManager(c)
  BY <1>1, <1>5 DEF RegisterManager
<1>6. CASE AwaitManagerDone(c)
  BY <1>1, <1>6 DEF AwaitManagerDone
<1> QED BY <1>2, <1>3, <1>4, <1>5, <1>6 DEF ServerStep

LEMMA StepOwned == OwnInv /\ [Next]_vars => OwnInv'
<1>1. OwnInv /\ UNCHANGED vars => OwnInv'
  BY DEF OwnInv, TypeOK, SessionOwned, KeyOK, IdOwned, PipeOwned, Empty, InPool, Given,
         vars, clientVars, serverVars
<1> QED BY <1>1, ClientRunOwned, PipeStepOwned, ServerStepOwned DEF Next

(* Every variable keeps its type: neither a late awaitWork nor the server   *)
(* ever gets hold of a login, a session or an id that nobody has.           *)
THEOREM TypeCorrect == Spec => []TypeOK
<1>1. OwnInv => TypeOK
  BY DEF OwnInv
<1> QED BY <1>1, InitOwned, StepOwned, PTL DEF Spec

(* A pipe only ever enters the pool of a manager whose id was given to the  *)
(* process that opened it, whichever of its logins asked for the pipe, and  *)
(* whoever has been given that id since: a pipe reaches another client only *)
(* if the server has given one id to both.                                  *)
THEOREM PipesComeHome == Spec => []PipesHome
<1>1. OwnInv => PipesHome
  BY DEF OwnInv, PipeOwned, PipesHome, InPool
<1> QED BY <1>1, InitOwned, StepOwned, PTL DEF Spec

-----------------------------------------------------------------------------
LEMMA ClientRunStraight ==
    ASSUME OwnInv, StraightInv, NEW m \in Processes, ClientRun(m)
    PROVE  StraightInv'
<1> USE ClientAssumption
        DEF OwnInv, TypeOK, SessionOwned, KeyOK, PipeOwned, StraightInv, IdCurrent, PipeCurrent, InPool,
            Loop, clientVars, serverVars
<1>1. CASE ConnectServer(m)
  BY <1>1 DEF ConnectServer
<1>2. CASE LoginOk(m)
  BY <1>2 DEF LoginOk
<1>3. CASE LoginFails(m)
  BY <1>3 DEF LoginFails, CloseStream
<1>4. CASE RegisterProxies(m)
  BY <1>4 DEF RegisterProxies
<1>5. CASE AgentOver(m)
  BY <1>5 DEF AgentOver
<1>6. CASE ProxiesFault(m)
  <2>1. \A p \in Pipes : pipe'[p] = pipe[p] \/ pipe'[p] = NoPipe
    BY <1>6 DEF ProxiesFault
  <2> QED BY <1>6, <2>1, NoPipeTyped DEF ProxiesFault
<1> QED BY <1>1, <1>2, <1>3, <1>4, <1>5, <1>6 DEF ClientRun

LEMMA PipeStepStraight ==
    ASSUME OwnInv, StraightInv, NEW p \in Pipes,
           PipeStep(p) \/ \E m \in Processes : AwaitWork(m, p)
    PROVE  StraightInv'
<1> USE DEF Moved
<1>1. UNCHANGED <<clientVars, serverVars>>
  BY DEF PipeStep, OpenPipe, SendPipe, HandlePipe, TakeWork, PipeOver, AwaitWork
<1>2. pipe[p] \in Pipe /\ pipe \in [Pipes -> Pipe]
  BY PipeTyped DEF OwnInv
<1> DEFINE Straight(r) ==
      r.at # "none" /\ session[owner[r.login]] = r.login =>
          /\ clientId[owner[r.login]] = key[r.login]
          /\ r.at # "asked" => r.session = r.login
          /\ r.at = "sent" => r.id = key[r.login]
          /\ r.at \in {"pooled", "lookup"} => key[r.pool] = key[r.login]
<1>3. Straight(pipe[p])
  BY DEF StraightInv, PipeCurrent, InPool
<1>4. ASSUME NEW r, Straight(r), pipe' = [pipe EXCEPT ![p] = r]
      PROVE  StraightInv'
  BY <1>1, <1>2, <1>4 DEF StraightInv, IdCurrent, PipeCurrent, InPool, clientVars, serverVars
<1>5. Straight(NoPipe)
  BY NoPipeTyped
<1>6. CASE OpenPipe(p)
  <2>1. Straight([pipe[p] EXCEPT !.at = "opened", !.session = session[owner[pipe[p].login]]])
    BY <1>2, <1>3, <1>6 DEF OpenPipe, Pipe
  <2> QED BY <1>4, <1>5, <1>6, <2>1 DEF OpenPipe
<1>7. CASE SendPipe(p)
  <2>1. Straight([pipe[p] EXCEPT !.at = "sent", !.id = clientId[owner[pipe[p].login]]])
    BY <1>2, <1>3, <1>7 DEF SendPipe, Pipe
  <2> QED BY <1>4, <1>5, <1>7, <2>1 DEF SendPipe
<1>8. CASE HandlePipe(p)
  <2> DEFINE c == managers[pipe[p].id]
  <2>1. c # None => key[c] = pipe[p].id
    BY <1>8 DEF HandlePipe, OwnInv, PipeOwned, KeyOK
  <2>2. c # None => Straight([pipe[p] EXCEPT !.at = "pooled", !.pool = c])
    BY <1>2, <1>3, <1>8, <2>1 DEF HandlePipe, Pipe
  <2> QED BY <1>4, <1>5, <1>8, <2>2 DEF HandlePipe
<1>9. CASE TakeWork(p)
  <2>1. Straight([pipe[p] EXCEPT !.at = "lookup"])
    BY <1>2, <1>3, <1>9 DEF TakeWork, Pipe
  <2> QED BY <1>4, <1>9, <2>1 DEF TakeWork
<1>10. CASE PipeOver(p)
  BY <1>4, <1>5, <1>10 DEF PipeOver
<1>11. ASSUME NEW m \in Processes, AwaitWork(m, p) PROVE StraightInv'
  <2>1. owner[session[m]] = m /\ clientId[m] = key[session[m]]
    BY <1>11 DEF AwaitWork, OwnInv, SessionOwned, StraightInv, IdCurrent
  <2>2. Straight([NoPipe EXCEPT !.at = "asked", !.login = session[m]])
    BY <2>1 DEF NoPipe
  <2> QED BY <1>4, <1>11, <2>2 DEF AwaitWork
<1> QED BY <1>6, <1>7, <1>8, <1>9, <1>10, <1>11 DEF PipeStep

LEMMA StepStraight == OwnInv /\ StraightInv /\ [Next]_vars => StraightInv'
<1>1. StraightInv /\ UNCHANGED <<loop, session, clientId, owner, key, pipe>> => StraightInv'
  BY DEF StraightInv, IdCurrent, PipeCurrent, InPool
<1>2. \A c \in Logins :
          RegisterManager(c) \/ AwaitManagerDone(c) \/ AgentClose(c) \/ SessionDies(c) =>
              UNCHANGED <<loop, session, clientId, owner, key, pipe>>
  BY DEF RegisterManager, AwaitManagerDone, AgentClose, CloseFlag, CloseConn, SessionDies,
         clientVars, serverVars
<1>3. ASSUME OwnInv, StraightInv, NEW c \in Logins, CheckLogin(c) PROVE StraightInv'
  <2>1. key[c] = None /\ UNCHANGED <<loop, session, clientId, owner, pipe>>
    BY <1>3 DEF CheckLogin, OwnInv, KeyOK, clientVars
  <2>2. \A d \in Logins : key[d] \in Ids => key'[d] = key[d]
    BY <1>3, <2>1, ClientAssumption DEF CheckLogin, OwnInv, TypeOK
  <2>3. IdCurrent'
    BY <1>3, <2>1, <2>2 DEF OwnInv, SessionOwned, IdOwned, StraightInv, IdCurrent
  <2>4. PipeCurrent'
    BY <1>3, <2>1, <2>2 DEF OwnInv, PipeOwned, StraightInv, PipeCurrent, InPool
  <2> QED BY <2>3, <2>4 DEF StraightInv
<1> QED BY <1>1, <1>2, <1>3, ClientRunStraight, PipeStepStraight DEF Next, vars, ServerStep,
        clientVars, serverVars

LEMMA InitStraight == Init => StraightInv
BY NoPipeTyped DEF Init, StraightInv, IdCurrent, PipeCurrent

(* A pipe that an awaitWork of the current login asked for runs over that   *)
(* login's session into a pool of that login's id, although awaitWork reads *)
(* Client.session and Client.ClientId at two moments of its own choice.     *)
THEOREM PipesGoStraight == Spec => []PipesStraight
<1>1. StraightInv => PipesStraight
  BY DEF StraightInv, PipeCurrent, PipesStraight, InPool
<1> QED BY <1>1, InitOwned, StepOwned, InitStraight, StepStraight, PTL DEF Spec
-----------------------------------------------------------------------------
LEMMA ClientRunStream ==
    ASSUME OwnInv, StreamInv, NEW m \in Processes, ClientRun(m)
    PROVE  StreamInv'
<1> USE ClientAssumption
        DEF OwnInv, TypeOK, SessionOwned, StreamInv, OneStream, StreamOwned, AgentKept,
            AgentLabels, Loop, clientVars, serverVars
<1>1. CASE ConnectServer(m)
  BY <1>1 DEF ConnectServer
<1>2. CASE LoginOk(m)
  BY <1>2 DEF LoginOk
<1>3. CASE LoginFails(m)
  BY <1>3 DEF LoginFails, CloseStream
<1>4. CASE RegisterProxies(m)
  BY <1>4 DEF RegisterProxies
<1>5. CASE AgentOver(m)
  BY <1>5 DEF AgentOver
<1>6. CASE ProxiesFault(m)
  BY <1>6 DEF ProxiesFault
<1> QED BY <1>1, <1>2, <1>3, <1>4, <1>5, <1>6 DEF ClientRun

LEMMA StepStream == OwnInv /\ StreamInv /\ [Next]_vars => StreamInv'
<1>1. StreamInv /\ UNCHANGED clientVars => StreamInv'
  BY DEF StreamInv, OneStream, StreamOwned, AgentKept, clientVars
<1>2. \A c \in Logins : ServerStep(c) => UNCHANGED clientVars
  BY DEF ServerStep, CheckLogin, RegisterManager, AwaitManagerDone
<1>3. \A p \in Pipes : PipeStep(p) \/ (\E m \in Processes : AwaitWork(m, p)) =>
          UNCHANGED clientVars
  BY DEF PipeStep, OpenPipe, SendPipe, HandlePipe, TakeWork, PipeOver, AwaitWork
<1>4. ASSUME OwnInv, StreamInv, NEW c \in Logins, SessionDies(c) PROVE StreamInv'
  BY <1>4 DEF SessionDies, OwnInv, TypeOK, SessionOwned, StreamInv, OneStream, StreamOwned, AgentKept
<1>5. ASSUME OwnInv, StreamInv, NEW c \in Logins, AgentClose(c) PROVE StreamInv'
  BY <1>5 DEF AgentClose, CloseFlag, CloseConn, CloseStream, OwnInv, TypeOK, SessionOwned, StreamInv,
         OneStream, StreamOwned, AgentKept
<1> QED BY <1>1, <1>2, <1>3, <1>4, <1>5, ClientRunStream DEF Next, vars

LEMMA InitStream == Init => StreamInv
BY DEF Init, StreamInv, OneStream, StreamOwned, AgentKept

(* Whichever way a login or an agent ends, its control stream is closed     *)
(* before the next one is dialled, or else the agent's Close, in another    *)
(* goroutine, is about to close it: the server is not left with a manager   *)
(* whose stream nobody will ever read or close.                             *)
THEOREM OneStreamOpen == Spec => []OneStream
<1>1. StreamInv => OneStream
  BY DEF StreamInv
<1> QED BY <1>1, InitOwned, StepOwned, InitStream, StepStream, PTL DEF Spec
=============================================================================
