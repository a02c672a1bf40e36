------------------------------- MODULE Client -------------------------------
(***************************************************************************)
(* The login loop of client processes (client/client.go): a process dials, *)
(* logs in, runs an agent, and when that ends dials again.  Each attempt   *)
(* is a login, which also names the session, the control stream, the agent *)
(* and the manager of the attempt.  The id that the server gives to it is  *)
(* any that is not in Server.managers when genId tests it, so two logins   *)
(* may be given the same id, one after the other or, because of what       *)
(* module Registry shows, at the same time.                                *)
(*                                                                         *)
(* Only the control stream is closed when an attempt or an agent ends; the *)
(* session stays up.  An awaitWork of an earlier login reads               *)
(* Client.session and Client.ClientId when it gets to them, whatever they  *)
(* are by then.  The delays between attempts, and the count of attempts    *)
(* that lengthens them, are left out.                                      *)
(***************************************************************************)
EXTENDS AeroDefs, FiniteSets

CONSTANTS
    Processes, (* client processes                                          *)
    Logins,    (* bound: attempts to log in                                 *)
    Pipes,     (* bound: awaitWork goroutines at a time                     *)
    Ids        (* what genId may return                                     *)

ASSUME ClientAssumption == None \notin Processes \cup Logins \cup Pipes \cup Ids

VARIABLES
    loop,      (* per process: where Client.Run is                          *)
    session,   (* per process: Client.session, by the login it was made for *)
    clientId,  (* per process: Client.ClientId                              *)
    owner,     (* per login: the process that makes it                      *)
    link,      (* per login: its session and its control stream             *)
    agent,     (* per login: its agent, until Agent.Close is over           *)
    handler,   (* per login: where HandleStream is                          *)
    key,       (* per login: Manager.ClientId                               *)
    run,       (* per login: Manager.Run                                    *)
    managers,  (* Server.managers                                           *)
    pipe       (* per awaitWork: how far its pipe has come                  *)

clientVars == <<loop, session, clientId, owner, link, agent>>
serverVars == <<handler, key, run, managers>>
vars       == <<clientVars, serverVars, pipe>>

LoopLabels  == {"dial", "wait", "register", "run", "crashed"}
Links       == {"none", "open", "closed", "dead", "failed"}
AgentLabels == {"none", "open", "closing"}
PipeLabels  == {"none", "asked", "opened", "sent", "pooled", "lookup"}

HandlerLabels == {"idle", "insert", "in"}
RunLabels   == {"unborn", "running", "done"}

NoPipe == [at |-> "none", login |-> None, session |-> None, id |-> None, pool |-> None]

Init ==
    /\ loop = [m \in Processes |-> "dial"] /\ session = [m \in Processes |-> None]
    /\ clientId = [m \in Processes |-> None] /\ owner = [c \in Logins |-> None]
    /\ link = [c \in Logins |-> "none"] /\ agent = [c \in Logins |-> "none"]
    /\ handler = [c \in Logins |-> "idle"] /\ key = [c \in Logins |-> None]
    /\ run = [c \in Logins |-> "unborn"] /\ managers = [i \in Ids |-> None]
    /\ pipe = [p \in Pipes |-> NoPipe]

Loop(m, from, to) == loop[m] = from /\ loop' = [loop EXCEPT ![m] = to]
-----------------------------------------------------------------------------
(* connectServer and the request of Login, as a login that nobody has made  *)
(* yet.  The new session is in place before its stream is opened; that may  *)
(* fail, and the session is left.                                           *)
ConnectServer(m) ==
    \E c \in Logins :
        /\ owner[c] = None
        /\ owner' = [owner EXCEPT ![c] = m]
        /\ session' = [session EXCEPT ![m] = c]
        /\ \/ Loop(m, "dial", "wait") /\ link' = [link EXCEPT ![c] = "open"]
           \/ Loop(m, "dial", "dial") /\ link' = [link EXCEPT ![c] = "failed"]
        /\ UNCHANGED <<clientId, agent, pipe, serverVars>>

(* Mutant: the id of the first login is kept. *)
LoginOk_KeepId(m) ==
    /\ Loop(m, "wait", "register")
    /\ handler[session[m]] = "in"
    /\ clientId' = IF clientId[m] = None
                   THEN [clientId EXCEPT ![m] = key[session[m]]] ELSE clientId
    /\ agent' = [agent EXCEPT ![session[m]] = "open"]
    /\ UNCHANGED <<session, owner, link, pipe, serverVars>>

(* Login gets its answer, and the agent is made. *)
LoginOk(m) ==
    /\ Loop(m, "wait", "register")
    /\ handler[session[m]] = "in"
    /\ clientId' = [clientId EXCEPT ![m] = key[session[m]]]
    /\ agent' = [agent EXCEPT ![session[m]] = "open"]
    /\ UNCHANGED <<session, owner, link, pipe, serverVars>>

CloseStream(c) ==
    link' = [link EXCEPT ![c] = IF @ = "open" THEN "closed" ELSE @]

(* Login is refused, gets another message first, or meets its deadline. *)
LoginFails(m) ==
    /\ Loop(m, "wait", "dial")
    /\ CloseStream(session[m])
    /\ UNCHANGED <<session, clientId, owner, agent, pipe, serverVars>>

(* Agent.Run registers the proxies, writing to the map Config.Proxies. *)
RegisterProxies(m) ==
    /\ Loop(m, "register", "run")
    /\ UNCHANGED <<session, clientId, owner, link, agent, pipe, serverVars>>

(* Run, awaitReceive or awaitSend ends, as the connection is lost or silent, *)
(* and calls Agent.Close: the flag and the channels first, ...               *)
CloseFlag(c) ==
    /\ agent[c] = "open"
    /\ agent' = [agent EXCEPT ![c] = "closing"]
    /\ UNCHANGED <<loop, session, clientId, owner, link, pipe, serverVars>>

(* Mutant: Agent.Close does not close the stream. *)
CloseConn_Forgotten(c) ==
    /\ agent[c] = "closing"
    /\ agent' = [agent EXCEPT ![c] = "none"]
    /\ UNCHANGED <<loop, session, clientId, owner, link, pipe, serverVars>>

(* ... then the stream. *)
CloseConn(c) ==
    /\ agent[c] = "closing"
    /\ agent' = [agent EXCEPT ![c] = "none"]
    /\ CloseStream(c)
    /\ UNCHANGED <<loop, session, clientId, owner, pipe, serverVars>>

(* Agent.Run returns.  Its own, deferred Close does nothing if another      *)
(* goroutine has set the flag, which may still have to close the stream.    *)
AgentOver(m) ==
    /\ Loop(m, "run", "dial")
    /\ agent[session[m]] # "open"
    /\ UNCHANGED <<session, clientId, owner, link, agent, pipe, serverVars>>

(* The network, or the other end, drops a session with all its streams. *)
SessionDies(c) ==
    /\ link[c] \in {"open", "closed"}
    /\ link' = [link EXCEPT ![c] = "dead"]
    /\ UNCHANGED <<loop, session, clientId, owner, agent, pipe, serverVars>>
-----------------------------------------------------------------------------
Usable(c) == link[c] \in {"open", "closed"}

Moved(p, to) == pipe' = [pipe EXCEPT ![p] = to]

(* Agent.Run gets a PipeRequest and starts awaitWork. *)
AwaitWork(m, p) ==
    /\ loop[m] = "run" /\ pipe[p] = NoPipe
    /\ Moved(p, [NoPipe EXCEPT !.at = "asked", !.login = session[m]])
    /\ UNCHANGED <<clientVars, serverVars>>

(* NewPipeConn: a stream of the session that the client has now, ... *)
OpenPipe(p) ==
    LET s == session[owner[pipe[p].login]] IN
    /\ pipe[p].at = "asked"
    /\ Moved(p, IF Usable(s) THEN [pipe[p] EXCEPT !.at = "opened", !.session = s]
                             ELSE NoPipe)
    /\ UNCHANGED <<clientVars, serverVars>>

(* Mutant: the name of the process is sent for its id. *)
SendPipe_Name(p) ==
    /\ pipe[p].at = "opened"
    /\ Moved(p, IF Usable(pipe[p].session)
                THEN [pipe[p] EXCEPT !.at = "sent", !.id = owner[pipe[p].login]]
                ELSE NoPipe)
    /\ UNCHANGED <<clientVars, serverVars>>

(* ... and a PipeRequest with the id that it has now. *)
SendPipe(p) ==
    /\ pipe[p].at = "opened"
    /\ Moved(p, IF Usable(pipe[p].session)
                THEN [pipe[p] EXCEPT !.at = "sent", !.id = clientId[owner[pipe[p].login]]]
                ELSE NoPipe)
    /\ UNCHANGED <<clientVars, serverVars>>

(* Mutant: a pipe with an unknown id is given to some manager. *)
HandlePipe_Fallback(p) ==
    /\ pipe[p].at = "sent"
    /\ \/ \E i \in Ids :
            /\ i = pipe[p].id \/ managers[pipe[p].id] = None
            /\ managers[i] # None /\ run[managers[i]] = "running"
            /\ Moved(p, [pipe[p] EXCEPT !.at = "pooled", !.pool = managers[i]])
       \/ Moved(p, NoPipe)
    /\ UNCHANGED <<clientVars, serverVars>>

(* HandleStream, the case of PipeRequest.  Without a manager, or with one   *)
(* that is closed or has a full pool, the pipe is closed.                   *)
HandlePipe(p) ==
    LET c == managers[pipe[p].id] IN
    /\ pipe[p].at = "sent"
    /\ \/ c # None /\ run[c] = "running"
          /\ Moved(p, [pipe[p] EXCEPT !.at = "pooled", !.pool = c])
       \/ Moved(p, NoPipe)
    /\ UNCHANGED <<clientVars, serverVars>>

(* A user takes the pipe and awaitWork gets its ConnRequest, ... *)
TakeWork(p) ==
    /\ pipe[p].at = "pooled" /\ Usable(pipe[p].session)
    /\ Moved(p, [pipe[p] EXCEPT !.at = "lookup"])
    /\ UNCHANGED <<clientVars, serverVars>>

(* ... or the pipe ends, or awaitWork looks the proxy up and serves it. *)
PipeOver(p) ==
    /\ pipe[p].at \in {"pooled", "lookup"}
    /\ Moved(p, NoPipe)
    /\ UNCHANGED <<clientVars, serverVars>>

(***************************************************************************)
(* awaitWork reads the map of proxies under the mutex of its own agent.    *)
(* When a later agent writes the map, the Go runtime may end the process.  *)
(***************************************************************************)
ProxiesFault(m) ==
    /\ Loop(m, "register", "crashed")
    /\ \E p \in Pipes : pipe[p].at = "lookup" /\ owner[pipe[p].login] = m
                            /\ pipe[p].login # session[m]
    /\ link' = [c \in Logins |-> IF owner[c] = m THEN "dead" ELSE link[c]]
    /\ agent' = [c \in Logins |-> IF owner[c] = m THEN "none" ELSE agent[c]]
    /\ pipe' = [p \in Pipes |-> IF pipe[p] # NoPipe /\ owner[pipe[p].login] = m
                                THEN NoPipe ELSE pipe[p]]
    /\ UNCHANGED <<session, clientId, owner, serverVars>>
-----------------------------------------------------------------------------
(* The server: HandleStream accepts a LoginRequest, takes an id that genId  *)
(* does not find in the map, makes a manager and starts its Run, puts it    *)
(* into the map, whatever is there by then, and answers.  A request that    *)
(* CheckLogin refuses leaves nothing behind (LoginFails).                   *)
CheckLogin(c) ==
    /\ link[c] \notin {"none", "failed"} /\ handler[c] = "idle"
    /\ \E i \in Ids : managers[i] = None /\ key' = [key EXCEPT ![c] = i]
    /\ handler' = [handler EXCEPT ![c] = "insert"]
    /\ run' = [run EXCEPT ![c] = "running"]
    /\ UNCHANGED <<clientVars, managers, pipe>>

RegisterManager(c) ==
    /\ handler[c] = "insert"
    /\ handler' = [handler EXCEPT ![c] = "in"]
    /\ managers' = [managers EXCEPT ![key[c]] = c]
    /\ UNCHANGED <<clientVars, key, run, pipe>>

(* A manager's Run ends once its stream has, and awaitManagerDone deletes   *)
(* its id, whoever has it by then.  What is between is in modules Manager   *)
(* and Registry; here the manager may take pipes until it is deleted.       *)
AwaitManagerDone(c) ==
    /\ run[c] = "running" /\ link[c] \in {"closed", "dead"}
    /\ run' = [run EXCEPT ![c] = "done"]
    /\ managers' = [managers EXCEPT ![key[c]] = None]
    /\ UNCHANGED <<clientVars, handler, key, pipe>>
-----------------------------------------------------------------------------
ClientRun(m) ==
    \/ ConnectServer(m) \/ LoginOk(m) \/ LoginFails(m)
    \/ RegisterProxies(m) \/ AgentOver(m) \/ ProxiesFault(m)

PipeStep(p) ==
    OpenPipe(p) \/ SendPipe(p) \/ HandlePipe(p) \/ TakeWork(p) \/ PipeOver(p)

AgentClose(c) == CloseFlag(c) \/ CloseConn(c)

ServerStep(c) == CheckLogin(c) \/ RegisterManager(c) \/ AwaitManagerDone(c)

Next ==
    \/ \E m \in Processes : ClientRun(m) \/ \E p \in Pipes : AwaitWork(m, p)
    \/ \E p \in Pipes : PipeStep(p)
    \/ \E c \in Logins : AgentClose(c) \/ ServerStep(c) \/ SessionDies(c)

Spec == Init /\ [][Next]_vars
-----------------------------------------------------------------------------
TypeOK ==
    /\ loop \in [Processes -> LoopLabels] /\ session \in [Processes -> Logins \cup {None}]
    /\ clientId \in [Processes -> Ids \cup {None}]
    /\ owner \in [Logins -> Processes \cup {None}] /\ link \in [Logins -> Links]
    /\ agent \in [Logins -> AgentLabels]
    /\ handler \in [Logins -> HandlerLabels] /\ key \in [Logins -> Ids \cup {None}]
    /\ run \in [Logins -> RunLabels] /\ managers \in [Ids -> Logins \cup {None}]
    /\ pipe \in [Pipes -> [at : PipeLabels, login : Logins \cup {None},
                           session : Logins \cup {None}, id : Ids \cup {None},
                           pool : Logins \cup {None}]]

InPool(p) == pipe[p].at \in {"pooled", "lookup"}

(* The ids that the server has given to process m, now or earlier. *)
Given(m) == {key[c] : c \in {d \in Logins : owner[d] = m}}

(* A pipe only ever enters the pool of a manager whose id was given to the  *)
(* process that opened the pipe, however late it is handled and however     *)
(* often that process has logged in since.  So it is the pool of that       *)
(* process, and its user does not talk to another client, unless the server *)
(* has given one id to both.                                                *)
PipesHome ==
    \A p \in Pipes : InPool(p) => key[pipe[p].pool] \in Given(owner[pipe[p].login])

(* A pipe that the current login of a process asked for runs over that      *)
(* login's session into a pool of that login's id.  (One that an earlier    *)
(* login asked for may not: awaitWork mixes the session of one login with   *)
(* the id of another.)                                                      *)
PipesStraight ==
    \A p \in Pipes : InPool(p) /\ session[owner[pipe[p].login]] = pipe[p].login =>
        pipe[p].session = pipe[p].login /\ key[pipe[p].pool] = key[pipe[p].login]

(* A process has one control stream open, that of the login it is in,       *)
(* except while the Close of an earlier agent has still to close another:   *)
(* each way out of a login closes its stream, so that the manager of an     *)
(* earlier login sees it end although the earlier session stays up.         *)
OneStream ==
    \A c \in Logins : link[c] = "open" =>
        \/ session[owner[c]] = c /\ loop[owner[c]] \in {"wait", "register", "run"}
        \/ agent[c] = "closing"
=============================================================================
