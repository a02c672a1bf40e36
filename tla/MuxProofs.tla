----------------------------- MODULE MuxProofs -----------------------------
(***************************************************************************)
(* Proofs about Mux for every number of workers, ports and requests.       *)
(***************************************************************************)
EXTENDS Mux, TLAPS, SequenceTheorems, FiniteSetTheorems

(***************************************************************************)
(* Types.  A handler that connects has a port in hand, one that waits for  *)
(* the answer has a connection, and only finitely many managers have       *)
(* logged in, so that they can be listed.                                  *)
(***************************************************************************)
DialHasPort ==
    \A r \in Requests :
        /\ pc[r] \in {"dial", "sent"} => selected[r] \in Ports /\ from[r] \in Workers
        /\ pc[r] = "sent" => conn[r] \in Workers

TypeInv == TypeOK /\ IsFiniteSet(managers) /\ DialHasPort

(* What ranging over a finite map yields: all of its keys, each one once. *)
LEMMA Listing ==
    ASSUME NEW S, IsFiniteSet(S), NEW f \in SetToSeqs(S)
    PROVE  /\ f \in Seq(S) /\ IsInjective(f)
           /\ \A x \in S : \E i \in 1 .. Len(f) : f[i] = x
<1> DEFINE n == Cardinality(S)
<1>1. n \in Nat
  BY FS_CardinalityType
<1>2. f \in [1 .. n -> S] /\ \A i, j \in 1 .. n : i # j => f[i] # f[j]
  BY DEF SetToSeqs
<1> HIDE DEF n
<1>3. f \in Seq(S) /\ Len(f) = n
  BY <1>1, <1>2
<1>4. IsInjective(f)
  BY <1>2 DEF IsInjective
<1>5. IsFiniteSet(1 .. n) /\ Cardinality(1 .. n) = n
  BY <1>1, FS_Interval
<1>6. f \in Injection(1 .. n, S)
  BY <1>2, <1>4 DEF Injection
<1>7. f \in Surjection(1 .. n, S)
  BY <1>5, <1>6, FS_Injection DEF n
<1> QED BY <1>3, <1>4, <1>7 DEF Surjection

LEMMA InitTyped == Init => TypeInv
<1> SUFFICES ASSUME Init PROVE TypeInv
  OBVIOUS
<1>1. \A r \in Requests : IsInjective(found[r])
  BY DEF Init, IsInjective
<1>2. found \in [Requests -> Seq(Workers)] /\ avail \in [Requests -> Seq([worker : Workers, port : Ports])]
  BY DEF Init
<1> QED BY <1>1, <1>2, FS_EmptySet DEF Init, TypeInv, TypeOK, DialHasPort

(* The history variables hold workers. *)
LEMMA WatchTyped ==
    ASSUME TypeInv, Watch, Serving' \subseteq Workers,
           avail' \in [Requests -> Seq([worker : Workers, port : Ports])],
           from' \in [Requests -> Workers \cup {None}]
    PROVE  steady' \in [Requests -> SUBSET Workers] /\ stale' \in [Requests -> SUBSET Workers]
<1>1. ASSUME NEW r \in Requests PROVE Read(r)' \subseteq Workers
  <2>1. avail'[r] \in Seq([worker : Workers, port : Ports]) /\ from'[r] \in Workers \cup {None}
    OBVIOUS
  <2>2. \A i \in DOMAIN avail'[r] : avail'[r][i] \in [worker : Workers, port : Ports]
    BY <2>1, ElementOfSeq, LenProperties
  <2>3. \A i \in DOMAIN avail'[r] : avail'[r][i].worker \in Workers
    BY <2>2
  <2> QED BY <2>1, <2>3 DEF Read
<1>2. ASSUME NEW r \in Requests
      PROVE  steady'[r] \subseteq Workers /\ stale'[r] \subseteq Workers
  BY <1>1 DEF Watch, TypeInv, TypeOK
<1> QED BY <1>2 DEF Watch

LEMMA ManageTyped ==
    ASSUME TypeInv, NEW w \in Workers, Manage(w), Watch
    PROVE  TypeInv'
<1> USE DEF TypeInv, TypeOK
<1>1. UNCHANGED reqVars
  BY DEF Manage, Login, Open, Publish, RemoveProxy, Unlisten, CloseFlag, CloseListener, CloseDelete,
         ManagerDone
<1>2. /\ managers' \subseteq Workers /\ IsFiniteSet(managers')
      /\ step' \in [Workers -> {"out", "idle", "opening", "removing"}]
      /\ closing' \in [Workers -> {"open", "flag", "listeners", "closed"}]
      /\ port' \in [Workers -> Ports \cup {None}] /\ proxies' \in [Workers -> Ports \cup {None}]
      /\ listener' \in [Ports -> Workers \cup {None}]
  <2>1. CASE Login(w)
    BY <2>1, FS_AddElement, ZenonT(60) DEF Login
  <2>2. CASE Open(w)
    BY <2>2 DEF Open
  <2>3. CASE Publish(w)
    BY <2>3 DEF Publish
  <2>4. CASE RemoveProxy(w)
    BY <2>4 DEF RemoveProxy
  <2>5. CASE Unlisten(w)
    BY <2>5 DEF Unlisten
  <2>6. CASE CloseFlag(w)
    BY <2>6 DEF CloseFlag
  <2>7. CASE CloseListener(w)
    BY <2>7 DEF CloseListener
  <2>8. CASE CloseDelete(w)
    BY <2>8 DEF CloseDelete
  <2>9. CASE ManagerDone(w)
    BY <2>9, FS_RemoveElement DEF ManagerDone
  <2> QED BY <2>1, <2>2, <2>3, <2>4, <2>5, <2>6, <2>7, <2>8, <2>9 DEF Manage
<1>3. Serving' \subseteq Workers
  BY <1>2 DEF Serving
<1>4. TypeOK' /\ DialHasPort'
  BY <1>1, <1>2, <1>3, WatchTyped DEF reqVars, connVars, DialHasPort
<1> QED BY <1>2, <1>4

LEMMA RequestTyped ==
    ASSUME TypeInv, NEW r \in Requests, Request(r) \/ Serve(r), Watch
    PROVE  TypeInv'
<1> USE DEF TypeInv, TypeOK, Goto
<1>1. UNCHANGED mgrVars
  BY DEF Request, Serve, FilterManagers, ReadProxy, SelectPort, Dial, Answer, Break, NoPipe
<1>2. Serving' \subseteq Workers
  BY <1>1 DEF Serving, mgrVars
<1> DEFINE ReqTyped ==
             /\ pc \in [Requests -> {"idle", "filter", "read", "dial", "sent", "hung", "done"}]
             /\ want \in [Requests -> Workers \cup {Tag}]
             /\ found \in [Requests -> Seq(Workers)] /\ \A q \in Requests : IsInjective(found[q])
             /\ avail \in [Requests -> Seq([worker : Workers, port : Ports])]
             /\ from \in [Requests -> Workers \cup {None}]
             /\ selected \in [Requests -> Ports \cup {None}]
             /\ result \in [Requests -> Workers \cup {None, "404", "refused", "failed"}]
             /\ conn \in [Requests -> Workers \cup {None}] /\ reused \in [Requests -> BOOLEAN]
             /\ idle \in [Ports -> [Workers -> Nat]]
             /\ DialHasPort
<1> SUFFICES ReqTyped'
  BY <1>1, <1>2, WatchTyped DEF mgrVars
<1>3. CASE Request(r)
  BY <1>3, ZenonT(60) DEF Request, DialHasPort
<1>4. CASE FilterManagers(r)
  <2>1. PICK order \in SetToSeqs({w \in managers : Matches(w, want[r])}) :
               found' = [found EXCEPT ![r] = order]
    BY <1>4 DEF FilterManagers
  <2>2. IsFiniteSet({w \in managers : Matches(w, want[r])})
    BY FS_Subset
  <2>3. order \in Seq({w \in managers : Matches(w, want[r])}) /\ IsInjective(order)
    BY <2>2, Listing
  <2>4. order \in Seq(Workers)
    BY <2>3, SeqMonotonic
  <2>5. found' \in [Requests -> Seq(Workers)] /\ \A q \in Requests : IsInjective(found'[q])
    BY <2>1, <2>3, <2>4
  <2> QED BY <1>4, <2>5, ZenonT(60) DEF FilterManagers, connVars, DialHasPort
<1>5. CASE ReadProxy(r)
  <2>1. found[r] \in Seq(Workers) /\ found[r] # <<>> /\ IsInjective(found[r])
    BY <1>5 DEF ReadProxy
  <2>2. Head(found[r]) \in Workers /\ Tail(found[r]) \in Seq(Workers)
    BY <2>1, HeadTailProperties
  <2>3. IsInjective(Tail(found[r]))
    <3> DEFINE s == found[r]
    <3>1. /\ Len(s) \in Nat \ {0} /\ Len(Tail(s)) = Len(s) - 1 /\ DOMAIN s = 1 .. Len(s)
          /\ DOMAIN Tail(s) = 1 .. Len(Tail(s))
          /\ \A i \in 1 .. Len(Tail(s)) : Tail(s)[i] = s[i + 1]
      BY <2>1, <2>2, HeadTailProperties, LenProperties, EmptySeq
    <3> HIDE DEF s
    <3>2. IsInjective(s)
      BY <2>1 DEF s
    <3>3. IsInjective(Tail(s))
      BY <3>1, <3>2 DEF IsInjective
    <3> QED BY <3>3 DEF s
  <2>4. found' = [found EXCEPT ![r] = Tail(found[r])]
    BY <1>5 DEF ReadProxy
  <2>5. found' \in [Requests -> Seq(Workers)] /\ \A q \in Requests : IsInjective(found'[q])
    BY <2>2, <2>3, <2>4
  <2> DEFINE w == Head(found[r])
             e == [worker |-> w, port |-> proxies[w]]
  <2>6. avail' \in [Requests -> Seq([worker : Workers, port : Ports])]
    <3>1. CASE proxies[w] = None
      BY <1>5, <3>1 DEF ReadProxy
    <3>2. CASE proxies[w] # None
      <4>1. e \in [worker : Workers, port : Ports]
        BY <2>2, <3>2
      <4>2. avail' = [avail EXCEPT ![r] = Append(avail[r], e)]
        BY <1>5, <3>2 DEF ReadProxy
      <4> HIDE DEF e
      <4>3. Append(avail[r], e) \in Seq([worker : Workers, port : Ports])
        BY <4>1, AppendProperties
      <4> QED BY <4>2, <4>3
    <3> QED BY <3>1, <3>2
  <2> QED BY <1>5, <2>5, <2>6 DEF ReadProxy, connVars, DialHasPort
<1>6. CASE SelectPort(r)
  <2>1. avail' \in [Requests -> Seq([worker : Workers, port : Ports])]
    <3>1. <<>> \in Seq([worker : Workers, port : Ports])
      OBVIOUS
    <3> QED BY <1>6, <3>1 DEF SelectPort
  <2>2. CASE avail[r] = <<>>
    BY <1>6, <2>1, <2>2, ZenonT(60) DEF SelectPort, connVars, DialHasPort
  <2>3. CASE avail[r] # <<>>
    <3>1. avail[r] \in Seq([worker : Workers, port : Ports]) /\ Len(avail[r]) \in Nat \ {0}
      BY <2>3, EmptySeq
    <3>2. Update(GetRobin, avail[r]) = avail[r][1]
      BY <3>1 DEF Update, GetRobin
    <3>3. avail[r][1] \in [worker : Workers, port : Ports]
      <4>1. 1 \in 1 .. Len(avail[r])
        BY <3>1
      <4> QED BY <3>1, <4>1, ElementOfSeq, Zenon
    <3>4. /\ from' = [from EXCEPT ![r] = avail[r][1].worker]
          /\ selected' = [selected EXCEPT ![r] = avail[r][1].port]
      BY <1>6, <2>3, <3>2 DEF SelectPort
    <3>5. from' \in [Requests -> Workers \cup {None}] /\ selected' \in [Requests -> Ports \cup {None}]
          /\ from'[r] \in Workers /\ selected'[r] \in Ports
      BY <3>3, <3>4
    <3>6. DialHasPort'
      <4>1. pc' = [pc EXCEPT ![r] = "dial"] /\ UNCHANGED conn
        BY <1>6, <2>3 DEF SelectPort, connVars
      <4> QED BY <3>4, <3>5, <4>1 DEF DialHasPort
    <3> QED BY <1>6, <2>1, <2>3, <3>5, <3>6, ZenonT(60) DEF SelectPort, connVars
  <2> QED BY <2>2, <2>3
<1>7. CASE Dial(r)
  <2>1. selected[r] \in Ports /\ from[r] \in Workers
    BY <1>7 DEF Dial, DialHasPort
  <2>2. UNCHANGED <<want, found, avail, from, selected>>
    BY <1>7 DEF Dial
  <2>3. CASE pc' = [pc EXCEPT ![r] = "sent"] /\ UNCHANGED result
    <3>1. PICK w \in Workers : conn' = [conn EXCEPT ![r] = w]
      BY <1>7, <2>1, <2>3 DEF Dial, Kept
    <3>2. idle' \in [Ports -> [Workers -> Nat]] /\ reused' \in [Requests -> BOOLEAN]
      <4>1. CASE \E v \in Kept(selected[r]) :
                   /\ idle' = [idle EXCEPT ![selected[r]][v] = @ - 1]
                   /\ reused' = [reused EXCEPT ![r] = TRUE]
        <5>1. PICK v \in Kept(selected[r]) :
                   /\ idle' = [idle EXCEPT ![selected[r]][v] = @ - 1]
                   /\ reused' = [reused EXCEPT ![r] = TRUE]
          BY <4>1
        <5>2. v \in Workers /\ idle[selected[r]][v] - 1 \in Nat
          BY <2>1 DEF Kept
        <5> QED BY <2>1, <5>1, <5>2
      <4>2. CASE UNCHANGED idle /\ reused' = [reused EXCEPT ![r] = FALSE]
        BY <4>2
      <4> QED BY <1>7, <2>3, <4>1, <4>2, ZenonT(60) DEF Dial
    <3> QED BY <2>1, <2>2, <2>3, <3>1, <3>2 DEF DialHasPort
  <2>4. CASE /\ pc' = [pc EXCEPT ![r] = "done"] /\ result' = [result EXCEPT ![r] = "refused"]
             /\ UNCHANGED connVars
    BY <2>2, <2>4 DEF DialHasPort, connVars
  <2> QED BY <1>7, <2>3, <2>4 DEF Dial
<1>8. CASE Answer(r)
  <2>1. selected[r] \in Ports /\ conn[r] \in Workers
    BY <1>8 DEF Answer, DialHasPort
  <2>2. idle' \in [Ports -> [Workers -> Nat]]
    <3>1. idle[selected[r]][conn[r]] + 1 \in Nat
      BY <2>1
    <3>2. CASE idle' = [idle EXCEPT ![selected[r]][conn[r]] = @ + 1]
      BY <2>1, <3>1, <3>2
    <3>3. CASE idle' = idle
      BY <3>3
    <3> QED BY <1>8, <3>2, <3>3 DEF Answer
  <2> QED BY <1>8, <2>1, <2>2 DEF Answer, DialHasPort
<1>9. CASE Break(r)
  <2>1. selected[r] \in Ports /\ from[r] \in Workers
    BY <1>9 DEF Break, DialHasPort
  <2>2. CASE pc' = [pc EXCEPT ![r] = "dial"] /\ UNCHANGED result
    BY <1>9, <2>1, <2>2 DEF Break, DialHasPort
  <2>3. CASE pc' = [pc EXCEPT ![r] = "done"] /\ result' = [result EXCEPT ![r] = "failed"]
    BY <1>9, <2>3 DEF Break, DialHasPort
  <2> QED BY <1>9, <2>2, <2>3 DEF Break
<1>10. CASE NoPipe(r)
  BY <1>10 DEF NoPipe, DialHasPort, connVars
<1> QED BY <1>3, <1>4, <1>5, <1>6, <1>7, <1>8, <1>9, <1>10 DEF Serve

LEMMA DropTyped ==
    ASSUME TypeInv, DropIdle, Watch
    PROVE  TypeInv'
<1> USE DEF TypeInv, TypeOK
<1>1. /\ UNCHANGED <<managers, step, closing, port, proxies, listener>>
      /\ UNCHANGED <<pc, want, found, avail, from, selected, result, conn, reused>>
  BY DEF DropIdle, mgrVars
<1>2. Serving' \subseteq Workers
  BY <1>1 DEF Serving
<1>3. idle' \in [Ports -> [Workers -> Nat]]
  <2>1. PICK p \in Ports : \E v \in Kept(p) : idle' = [idle EXCEPT ![p][v] = @ - 1]
    BY DEF DropIdle
  <2>2. PICK w \in Kept(p) : idle' = [idle EXCEPT ![p][w] = @ - 1]
    BY <2>1
  <2>3. w \in Workers /\ idle[p][w] - 1 \in Nat
    BY DEF Kept
  <2> QED BY <2>2, <2>3
<1>4. steady' \in [Requests -> SUBSET Workers] /\ stale' \in [Requests -> SUBSET Workers]
  BY <1>1, <1>2, WatchTyped
<1>5. DialHasPort'
  BY <1>1 DEF DialHasPort
<1> QED BY <1>1, <1>3, <1>4, <1>5

LEMMA StepTyped == TypeInv /\ [Next]_vars => TypeInv'
<1>1. ASSUME TypeInv, UNCHANGED vars PROVE TypeInv'
  BY <1>1 DEF TypeInv, TypeOK, DialHasPort, vars, mgrVars, reqVars, connVars
<1> QED BY <1>1, ManageTyped, RequestTyped, DropTyped DEF Next

(* Every variable keeps its type; what a handler has yet to look up lists   *)
(* no manager twice, although it ranged over the map without the mutex.     *)
THEOREM TypeCorrect == Spec => []TypeOK
<1>1. TypeInv => TypeOK
  BY DEF TypeInv
<1> QED BY <1>1, InitTyped, StepTyped, PTL DEF Spec
-----------------------------------------------------------------------------
(***************************************************************************)
(* What a request finds.  All of it is read without a mutex and in several *)
(* steps, so each part is said of the workers that served meanwhile: one   *)
(* that has served since the request came is still to be looked up or was  *)
(* seen; and of one that has served since it was read, the port that was   *)
(* read is still its port, and its listener is still there.                *)
(***************************************************************************)
(* Run publishes a proxy only where there is none. *)
OpensWhereNone == \A w \in Workers : step[w] = "opening" => proxies[w] = None

SteadyServe == \A r \in Requests : steady[r] \subseteq Serving

(* A worker that a handler relies on serves, or is known to have stopped. *)
StaleServe ==
    \A r \in Requests : pc[r] \in {"read", "dial", "sent", "hung"} => Read(r) \subseteq stale[r] \cup Serving

(* The handler's locals are filled in the order of its program. *)
PhaseOK(r) ==
    /\ pc[r] # "done" => result[r] = None
    /\ pc[r] \in {"idle", "filter", "read"} => from[r] = None
    /\ pc[r] # "read" => avail[r] = <<>>
    /\ pc[r] \notin {"sent", "hung"} => conn[r] = None

LookupOK(r) ==
    pc[r] = "read" =>
        /\ \A i \in 1 .. Len(found[r]) : Matches(found[r][i], want[r])
        /\ \A i \in 1 .. Len(avail[r]) :
               /\ Matches(avail[r][i].worker, want[r])
               /\ avail[r][i].worker \in stale[r] \/ proxies[avail[r][i].worker] = avail[r][i].port
        /\ avail[r] = <<>> =>
               \A w \in steady[r] : Matches(w, want[r]) =>
                   \E i \in 1 .. Len(found[r]) : found[r][i] = w

DialOK(r) == pc[r] \in {"dial", "sent"} => from[r] \in stale[r] \/ proxies[from[r]] = selected[r]

AnswerOK(r) ==
    /\ result[r] = "404" => ~ \E w \in steady[r] : Matches(w, want[r])
    /\ from[r] # None =>
           /\ Matches(from[r], want[r])
           /\ \/ from[r] \in stale[r]
              \/ /\ result[r] # "refused"
                 /\ \/ reused[r]
                    \/ conn[r] \in {None, from[r]} /\ result[r] \in {None, from[r], "failed"}

RequestOK(r) == PhaseOK(r) /\ LookupOK(r) /\ DialOK(r) /\ AnswerOK(r)

RouteInv == OpensWhereNone /\ SteadyServe /\ StaleServe /\ \A r \in Requests : RequestOK(r)

LEMMA InitRoute == Init => RouteInv
<1> SUFFICES ASSUME Init PROVE RouteInv
  OBVIOUS
<1>1. OpensWhereNone /\ SteadyServe /\ StaleServe
  BY DEF Init, OpensWhereNone, SteadyServe, StaleServe
<1>2. ASSUME NEW r \in Requests PROVE RequestOK(r)
  <2>1. pc[r] = "idle" /\ avail[r] = <<>> /\ from[r] = None /\ result[r] = None /\ conn[r] = None
    BY DEF Init
  <2> QED BY <2>1, MuxAssumption DEF RequestOK, PhaseOK, LookupOK, DialOK, AnswerOK
<1> QED BY <1>1, <1>2 DEF RouteInv

(* A worker's entry may vanish in a step, but never turns into another port. *)
LEMMA ManageKeepsPort ==
    ASSUME TypeInv, OpensWhereNone, NEW w \in Workers, Manage(w)
    PROVE  /\ OpensWhereNone'
           /\ \A v \in Workers : proxies[v] # None /\ proxies'[v] # None => proxies'[v] = proxies[v]
<1> USE DEF TypeInv, TypeOK, OpensWhereNone
<1>1. CASE Login(w)
  BY <1>1 DEF Login
<1>2. CASE Open(w)
  BY <1>2 DEF Open
<1>3. CASE Publish(w)
  BY <1>3 DEF Publish
<1>4. CASE RemoveProxy(w)
  BY <1>4 DEF RemoveProxy
<1>5. CASE Unlisten(w)
  BY <1>5 DEF Unlisten
<1>6. CASE CloseFlag(w)
  BY <1>6 DEF CloseFlag
<1>7. CASE CloseListener(w)
  BY <1>7 DEF CloseListener
<1>8. CASE CloseDelete(w)
  BY <1>8 DEF CloseDelete
<1>9. CASE ManagerDone(w)
  BY <1>9 DEF ManagerDone
<1> QED BY <1>1, <1>2, <1>3, <1>4, <1>5, <1>6, <1>7, <1>8, <1>9 DEF Manage

LEMMA StepKeepsPort ==
    ASSUME TypeInv, OpensWhereNone, Next
    PROVE  /\ OpensWhereNone'
           /\ \A v \in Workers : proxies[v] # None /\ proxies'[v] # None => proxies'[v] = proxies[v]
<1>1. CASE \E w \in Workers : Manage(w)
  BY <1>1, ManageKeepsPort
<1>2. CASE \E r \in Requests : Request(r) \/ Serve(r)
  <2>1. UNCHANGED mgrVars
    BY <1>2 DEF Request, Serve, FilterManagers, ReadProxy, SelectPort, Dial, Answer, Break, NoPipe
  <2> QED BY <2>1 DEF mgrVars, OpensWhereNone
<1>3. CASE DropIdle
  BY <1>3 DEF DropIdle, mgrVars, OpensWhereNone
<1> QED BY <1>1, <1>2, <1>3 DEF Next

(* Until a port is selected the steady workers only get fewer, and they have *)
(* their proxy.                                                              *)
LEMMA SteadyKept ==
    ASSUME TypeInv, RouteInv, Next, NEW r \in Requests, pc[r] \in {"filter", "read"}
    PROVE  /\ steady'[r] \subseteq steady[r]
           /\ \A w \in steady'[r] : w \in managers /\ proxies[w] # None
BY DEF Next, Watch, RouteInv, SteadyServe, Serving

LEMMA StepSteady == ASSUME Next PROVE SteadyServe'
BY DEF Next, Watch, SteadyServe

(* What is known to have stopped stays known until the next request. *)
LEMMA StaleKept ==
    ASSUME TypeInv, Next, NEW r \in Requests, pc'[r] # "filter"
    PROVE  stale[r] \subseteq stale'[r]
BY DEF Next, Watch

(* A handler that is done goes on only with the next request. *)
LEMMA DoneWaits ==
    ASSUME TypeInv, Next, NEW r \in Requests, pc[r] \in {"idle", "done"}
    PROVE  pc'[r] \in {pc[r], "filter"}
<1> USE DEF TypeInv, TypeOK, Goto
<1>1. CASE \E w \in Workers : Manage(w)
  <2>1. UNCHANGED reqVars
    BY <1>1 DEF Manage, Login, Open, Publish, RemoveProxy, Unlisten, CloseFlag, CloseListener,
           CloseDelete, ManagerDone
  <2> QED BY <2>1 DEF reqVars
<1>2. CASE DropIdle
  BY <1>2 DEF DropIdle
<1>3. CASE \E q \in Requests : Request(q) \/ Serve(q)
  <2>1. PICK q \in Requests : Request(q) \/ Serve(q)
    BY <1>3
  <2>2. CASE Request(q)
    BY <2>2 DEF Request
  <2>3. CASE Serve(q)
    <3>1. q # r
      BY <2>3 DEF Serve, FilterManagers, ReadProxy, SelectPort, Dial, Answer, Break, NoPipe
    <3>2. pc'[r] = pc[r]
      BY <2>3, <3>1 DEF Serve, FilterManagers, ReadProxy, SelectPort, Dial, Answer, Break, NoPipe
    <3> QED BY <3>2
  <2> QED BY <2>1, <2>2, <2>3
<1> QED BY <1>1, <1>2, <1>3 DEF Next

LEMMA StepStale == ASSUME TypeInv, Next PROVE StaleServe'
<1> SUFFICES ASSUME NEW r \in Requests, pc'[r] \in {"read", "dial", "sent", "hung"}
             PROVE  Read(r)' \subseteq stale'[r] \cup Serving'
  BY DEF StaleServe
<1>1. pc[r] # "done"
  BY DoneWaits
<1>2. stale'[r] = stale[r] \cup (Read(r)' \ Serving')
  BY <1>1 DEF Next, Watch
<1> QED BY <1>2

SameRequest(r) ==
    /\ pc'[r] = pc[r] /\ want'[r] = want[r] /\ found'[r] = found[r] /\ avail'[r] = avail[r]
    /\ from'[r] = from[r] /\ selected'[r] = selected[r] /\ result'[r] = result[r]
    /\ conn'[r] = conn[r] /\ reused'[r] = reused[r]

(* A worker that a handler relies on keeps its port, or is known to have    *)
(* stopped serving.                                                         *)
LEMMA ReadKept ==
    ASSUME TypeInv, RouteInv, Next, NEW r \in Requests, SameRequest(r),
           pc[r] \in {"read", "dial", "sent", "hung"}, NEW w \in Read(r)
    PROVE  w \in stale'[r] \/ proxies'[w] = proxies[w]
<1> SUFFICES ASSUME w \notin stale'[r] PROVE proxies'[w] = proxies[w]
  OBVIOUS
<1>1. Read(r)' = Read(r)
  BY DEF Read, SameRequest
<1>2. stale'[r] = stale[r] \cup (Read(r)' \ Serving')
  BY DEF Next, Watch, SameRequest
<1>3. w \in Serving /\ w \in Serving'
  BY <1>1, <1>2 DEF RouteInv, StaleServe
<1>4. w \in Workers /\ proxies[w] # None /\ proxies'[w] # None
  BY <1>3 DEF Serving, TypeInv, TypeOK
<1> QED BY <1>4, StepKeepsPort DEF RouteInv

LEMMA OtherRequest ==
    ASSUME TypeInv, RouteInv, Next, NEW r \in Requests, SameRequest(r)
    PROVE  RequestOK(r)'
<1>1. RequestOK(r)
  BY DEF RouteInv
<1>2. PhaseOK(r)'
  BY <1>1 DEF RequestOK, PhaseOK, SameRequest
<1>3. CASE pc[r] \in {"idle", "filter"}
  BY <1>1, <1>2, <1>3, MuxAssumption DEF RequestOK, PhaseOK, LookupOK, DialOK, AnswerOK, SameRequest
<1>4. CASE pc[r] \notin {"idle", "filter"}
  <2>1. stale[r] \subseteq stale'[r]
    BY <1>4, StaleKept DEF SameRequest
  <2>2. LookupOK(r)'
    <3> SUFFICES ASSUME pc[r] = "read" PROVE LookupOK(r)'
      BY DEF LookupOK, SameRequest
    <3>1. steady'[r] \subseteq steady[r]
      BY SteadyKept
    <3>2. ASSUME NEW i \in 1 .. Len(avail[r])
          PROVE  avail[r][i].worker \in stale'[r] \/ proxies'[avail[r][i].worker] = avail[r][i].port
      <4>1. i \in DOMAIN avail[r]
        BY LenProperties DEF TypeInv, TypeOK
      <4>2. avail[r][i].worker \in Read(r)
        BY <4>1 DEF Read
      <4>3. avail[r][i].worker \in stale[r] \/ proxies[avail[r][i].worker] = avail[r][i].port
        BY <1>1 DEF RequestOK, LookupOK
      <4> QED BY <2>1, <4>2, <4>3, ReadKept
    <3> QED BY <1>1, <3>1, <3>2 DEF RequestOK, LookupOK, Matches, SameRequest
  <2>3. DialOK(r)'
    <3> SUFFICES ASSUME pc[r] \in {"dial", "sent"}
                 PROVE  from[r] \in stale'[r] \/ proxies'[from[r]] = selected[r]
      BY DEF DialOK, SameRequest
    <3>1. from[r] \in Read(r)
      BY MuxAssumption DEF Read, TypeInv, DialHasPort
    <3> QED BY <1>1, <2>1, <3>1, ReadKept DEF RequestOK, DialOK
  <2>4. AnswerOK(r)'
    <3>1. result[r] = "404" => steady'[r] = {}
      <4> SUFFICES ASSUME result[r] = "404" PROVE steady'[r] = {}
        OBVIOUS
      <4>1. pc[r] = "done"
        BY <1>1, MuxAssumption DEF RequestOK, PhaseOK
      <4> QED BY <4>1 DEF Next, Watch, SameRequest
    <3> QED BY <1>1, <2>1, <3>1 DEF RequestOK, AnswerOK, Matches, SameRequest
  <2> QED BY <1>2, <2>2, <2>3, <2>4 DEF RequestOK
<1> QED BY <1>3, <1>4

LEMMA RequestRoute ==
    ASSUME TypeInv, RouteInv, Next, NEW r \in Requests, Request(r)
    PROVE  RequestOK(r)'
<1>1. PhaseOK(r) /\ pc[r] \in {"idle", "done"}
  BY DEF RouteInv, RequestOK, Request
<1>2. /\ pc'[r] = "filter" /\ result'[r] = None /\ from'[r] = None /\ avail'[r] = <<>>
      /\ conn'[r] = None
  BY <1>1 DEF PhaseOK, Request, Goto, TypeInv, TypeOK
<1> QED BY <1>2, MuxAssumption DEF RequestOK, PhaseOK, LookupOK, DialOK, AnswerOK

LEMMA FilterRoute ==
    ASSUME TypeInv, RouteInv, Next, NEW r \in Requests, FilterManagers(r)
    PROVE  RequestOK(r)'
<1>1. PhaseOK(r) /\ pc[r] = "filter"
  BY DEF RouteInv, RequestOK, FilterManagers
<1>2. /\ pc'[r] = "read" /\ result'[r] = None /\ from'[r] = None /\ avail'[r] = <<>>
      /\ want'[r] = want[r] /\ conn'[r] = None
  BY <1>1 DEF PhaseOK, FilterManagers, Goto, TypeInv, TypeOK, connVars
<1> DEFINE S == {w \in managers : Matches(w, want[r])}
<1>3. found'[r] \in SetToSeqs(S)
  BY DEF FilterManagers, TypeInv, TypeOK
<1>4. IsFiniteSet(S)
  BY FS_Subset DEF TypeInv
<1>5. found'[r] \in Seq(S) /\ \A w \in S : \E i \in 1 .. Len(found'[r]) : found'[r][i] = w
  BY <1>3, <1>4, Listing, ZenonT(60)
<1>6. \A i \in 1 .. Len(found'[r]) : found'[r][i] \in S
  BY <1>5, ElementOfSeq
<1>7. \A w \in steady'[r] : w \in managers
  BY <1>1, SteadyKept
<1>8. LookupOK(r)'
  <2>1. \A i \in 1 .. Len(found'[r]) : Matches(found'[r][i], want'[r])
    BY <1>2, <1>6
  <2>2. \A w \in steady'[r] : Matches(w, want'[r]) => \E i \in 1 .. Len(found'[r]) : found'[r][i] = w
    BY <1>2, <1>5, <1>7
  <2>3. Len(avail'[r]) = 0
    BY <1>2
  <2> HIDE DEF S
  <2> QED BY <2>1, <2>2, <2>3 DEF LookupOK, Matches
<1> QED BY <1>2, <1>8, MuxAssumption DEF RequestOK, PhaseOK, DialOK, AnswerOK

LEMMA ReadRoute ==
    ASSUME TypeInv, RouteInv, Next, NEW r \in Requests, ReadProxy(r)
    PROVE  RequestOK(r)'
<1> DEFINE w == Head(found[r])
           e == [worker |-> w, port |-> proxies[w]]
<1>1. PhaseOK(r) /\ LookupOK(r) /\ pc[r] = "read" /\ found[r] # <<>>
  BY DEF RouteInv, RequestOK, ReadProxy
<1>2. /\ pc'[r] = "read" /\ result'[r] = None /\ from'[r] = None /\ want'[r] = want[r]
      /\ conn'[r] = None /\ found'[r] = Tail(found[r])
      /\ avail'[r] = IF proxies[w] = None THEN avail[r] ELSE Append(avail[r], e)
  BY <1>1 DEF PhaseOK, ReadProxy, TypeInv, TypeOK, connVars
<1>3. /\ steady'[r] \subseteq steady[r] /\ \A v \in steady'[r] : proxies[v] # None
      /\ stale[r] \subseteq stale'[r] /\ proxies' = proxies
  BY <1>1, <1>2, SteadyKept, StaleKept DEF ReadProxy, mgrVars
<1>4. /\ found[r] \in Seq(Workers) /\ avail[r] \in Seq([worker : Workers, port : Ports])
      /\ Len(found[r]) \in Nat \ {0} /\ Len(avail[r]) \in Nat
      /\ w = found[r][1] /\ Len(found'[r]) = Len(found[r]) - 1
      /\ \A i \in 1 .. Len(found'[r]) : found'[r][i] = found[r][i + 1]
  <2>1. found[r] \in Seq(Workers) /\ avail[r] \in Seq([worker : Workers, port : Ports])
    BY DEF TypeInv, TypeOK
  <2>2. Len(found[r]) \in Nat \ {0} /\ Len(avail[r]) \in Nat
    BY <1>1, <2>1, EmptySeq, LenProperties
  <2> QED BY <1>1, <1>2, <2>1, <2>2, HeadTailProperties
<1>5. Matches(w, want[r])
  BY <1>1, <1>4 DEF LookupOK
<1>6. \A i \in 1 .. Len(found'[r]) : Matches(found'[r][i], want'[r])
  <2> SUFFICES ASSUME NEW i \in 1 .. Len(found'[r]) PROVE Matches(found'[r][i], want'[r])
    OBVIOUS
  <2>1. i + 1 \in 1 .. Len(found[r]) /\ found'[r][i] = found[r][i + 1]
    BY <1>4
  <2>2. Matches(found[r][i + 1], want[r])
    BY <1>1, <2>1 DEF LookupOK
  <2> QED BY <1>2, <2>1, <2>2
<1>7. \A i \in 1 .. Len(avail'[r]) :
          /\ Matches(avail'[r][i].worker, want'[r])
          /\ avail'[r][i].worker \in stale'[r] \/ proxies'[avail'[r][i].worker] = avail'[r][i].port
  <2>1. \A i \in 1 .. Len(avail[r]) :
          /\ Matches(avail[r][i].worker, want'[r])
          /\ avail[r][i].worker \in stale'[r] \/ proxies'[avail[r][i].worker] = avail[r][i].port
    BY <1>1, <1>2, <1>3 DEF LookupOK
  <2>2. CASE proxies[w] = None
    BY <1>2, <2>1, <2>2
  <2>3. CASE proxies[w] # None
    <3>1. e \in [worker : Workers, port : Ports]
      BY <1>4, <2>3 DEF TypeInv, TypeOK
    <3>2. e.worker = w /\ e.port = proxies[w]
      OBVIOUS
    <3> HIDE DEF e
    <3>3. /\ Len(avail'[r]) = Len(avail[r]) + 1
          /\ \A i \in 1 .. Len(avail[r]) : avail'[r][i] = avail[r][i]
          /\ avail'[r][Len(avail[r]) + 1] = e
      BY <1>2, <1>4, <2>3, <3>1, AppendProperties
    <3>4. Matches(e.worker, want'[r]) /\ proxies'[e.worker] = e.port
      BY <1>2, <1>3, <1>5, <3>2
    <3>5. ASSUME NEW i \in 1 .. Len(avail'[r])
          PROVE  i \in 1 .. Len(avail[r]) \/ i = Len(avail[r]) + 1
      BY <1>4, <3>3
    <3> QED BY <2>1, <3>3, <3>4, <3>5
  <2> QED BY <2>2, <2>3
<1>8. ASSUME avail'[r] = <<>>, NEW v \in steady'[r], Matches(v, want'[r])
      PROVE  \E i \in 1 .. Len(found'[r]) : found'[r][i] = v
  <2>1. proxies[w] = None /\ avail[r] = <<>>
    <3>1. CASE proxies[w] # None
      <4>1. e \in [worker : Workers, port : Ports]
        BY <1>4, <3>1 DEF TypeInv, TypeOK
      <4> HIDE DEF e
      <4>2. Append(avail[r], e) # <<>>
        <5>1. Len(Append(avail[r], e)) = Len(avail[r]) + 1
          BY <1>4, <4>1, AppendProperties
        <5>2. Len(avail[r]) \in Nat
          BY <1>4
        <5>3. Len(<<>>) = 0
          OBVIOUS
        <5>4. Len(Append(avail[r], e)) # 0
          BY <5>1, <5>2
        <5> QED BY <5>3, <5>4
      <4> QED BY <1>2, <1>8, <3>1, <4>2
    <3> QED BY <1>2, <1>8, <3>1
  <2>2. PICK i \in 1 .. Len(found[r]) : found[r][i] = v
    BY <1>1, <1>2, <1>3, <1>8, <2>1 DEF LookupOK
  <2>3. i # 1
    BY <1>3, <1>4, <1>8, <2>1, <2>2
  <2>4. i - 1 \in 1 .. Len(found'[r]) /\ found'[r][i - 1] = v
    BY <1>4, <2>2, <2>3
  <2> QED BY <2>4
<1>9. LookupOK(r)'
  <2> HIDE DEF w, e
  <2> QED BY <1>6, <1>7, <1>8 DEF LookupOK, Matches
<1> QED BY <1>2, <1>9, MuxAssumption DEF RequestOK, PhaseOK, DialOK, AnswerOK

LEMMA SelectRoute ==
    ASSUME TypeInv, RouteInv, Next, NEW r \in Requests, SelectPort(r)
    PROVE  RequestOK(r)'
<1>1. PhaseOK(r) /\ LookupOK(r) /\ pc[r] = "read" /\ found[r] = <<>>
  BY DEF RouteInv, RequestOK, SelectPort
<1>2. /\ want'[r] = want[r] /\ result[r] = None /\ from[r] = None /\ conn'[r] = None
      /\ avail'[r] = <<>> /\ proxies' = proxies /\ pc'[r] \in {"done", "dial"}
  BY <1>1 DEF PhaseOK, SelectPort, TypeInv, TypeOK, connVars, mgrVars, Goto
<1>3. steady'[r] \subseteq steady[r] /\ stale[r] \subseteq stale'[r]
  BY <1>1, <1>2, SteadyKept, StaleKept
<1>4. CASE avail[r] = <<>>
  <2>1. pc'[r] = "done" /\ result'[r] = "404" /\ from'[r] = None
    BY <1>2, <1>4 DEF SelectPort, Goto, TypeInv, TypeOK
  <2>2. ~ \E w \in steady'[r] : Matches(w, want'[r])
    BY <1>1, <1>2, <1>3, <1>4 DEF LookupOK
  <2> QED BY <1>2, <2>1, <2>2 DEF RequestOK, PhaseOK, LookupOK, DialOK, AnswerOK, Matches
<1>5. CASE avail[r] # <<>>
  <2>1. avail[r] \in Seq([worker : Workers, port : Ports]) /\ Len(avail[r]) \in Nat \ {0}
    BY <1>5, EmptySeq DEF TypeInv, TypeOK
  <2>2. Update(GetRobin, avail[r]) = avail[r][1] /\ 1 \in 1 .. Len(avail[r])
    BY <2>1 DEF Update, GetRobin
  <2>3. /\ pc'[r] = "dial" /\ result'[r] = None
        /\ from'[r] = avail[r][1].worker /\ selected'[r] = avail[r][1].port
    BY <1>2, <1>5, <2>2 DEF SelectPort, Goto, TypeInv, TypeOK
  <2>4. /\ Matches(from'[r], want'[r])
        /\ from'[r] \in stale'[r] \/ proxies'[from'[r]] = selected'[r]
    BY <1>1, <1>2, <1>3, <2>2, <2>3 DEF LookupOK
  <2> QED BY <1>2, <2>3, <2>4, MuxAssumption
      DEF RequestOK, PhaseOK, LookupOK, DialOK, AnswerOK, Matches
<1> QED BY <1>4, <1>5

(* What the handler of a selected port finds and keeps in each further step. *)
LEMMA ForwardKeeps ==
    ASSUME TypeInv, RouteInv, Next, NEW r \in Requests,
           Dial(r) \/ Answer(r) \/ Break(r) \/ NoPipe(r)
    PROVE  /\ PhaseOK(r) /\ DialOK(r) /\ AnswerOK(r) /\ pc[r] \in {"dial", "sent"}
           /\ selected[r] \in Ports /\ from[r] \in Workers /\ from[r] # None
           /\ want'[r] = want[r] /\ from'[r] = from[r] /\ selected'[r] = selected[r]
           /\ avail'[r] = <<>> /\ proxies' = proxies /\ stale[r] \subseteq stale'[r]
           /\ pc'[r] \in {"dial", "sent", "hung", "done"}
<1> USE DEF Dial, Answer, Break, NoPipe, Goto
<1>1. PhaseOK(r) /\ DialOK(r) /\ AnswerOK(r) /\ pc[r] \in {"dial", "sent"}
  BY DEF RouteInv, RequestOK
<1>2. selected[r] \in Ports /\ from[r] \in Workers /\ from[r] # None
  BY <1>1, MuxAssumption DEF TypeInv, DialHasPort
<1>3. /\ want'[r] = want[r] /\ from'[r] = from[r] /\ selected'[r] = selected[r]
      /\ avail'[r] = <<>> /\ proxies' = proxies
  BY <1>1 DEF PhaseOK, mgrVars
<1>4. pc'[r] \in {"dial", "sent", "hung", "done"}
  BY DEF TypeInv, TypeOK
<1>5. stale[r] \subseteq stale'[r]
  BY <1>4, StaleKept
<1> QED BY <1>1, <1>2, <1>3, <1>4, <1>5

LEMMA DialRoute ==
    ASSUME TypeInv, RouteInv, Next, NEW r \in Requests, Dial(r)
    PROVE  RequestOK(r)'
<1> USE ForwardKeeps
<1>1. from[r] \in stale'[r] \/ listener[selected[r]] = from[r]
  <2>1. from[r] \in Read(r) /\ pc[r] = "dial"
    BY DEF Read, Dial
  <2>2. from[r] \in stale[r] \/ from[r] \in Serving
    BY <2>1 DEF RouteInv, StaleServe
  <2> QED BY <2>1, <2>2 DEF DialOK, Serving
<1>2. result[r] = None /\ conn[r] = None /\ pc[r] = "dial" /\ Matches(from[r], want[r])
  BY DEF PhaseOK, AnswerOK, Dial
<1>3. CASE pc' = [pc EXCEPT ![r] = "sent"] /\ result'[r] = None
  <2>1. reused'[r] \/ conn'[r] = listener[selected[r]]
    <3>1. conn \in [Requests -> Workers \cup {None}] /\ reused \in [Requests -> BOOLEAN]
          /\ result \in [Requests -> Workers \cup {None, "404", "refused", "failed"}]
      BY DEF TypeInv, TypeOK
    <3>2. result' # [result EXCEPT ![r] = "refused"]
      BY <1>3, <3>1, MuxAssumption
    <3>3. \/ reused' = [reused EXCEPT ![r] = TRUE]
          \/ conn' = [conn EXCEPT ![r] = listener[selected[r]]]
      BY <3>2 DEF Dial
    <3> QED BY <3>1, <3>3
  <2>2. pc'[r] = "sent"
    BY <1>3 DEF TypeInv, TypeOK
  <2>3. DialOK(r)' /\ PhaseOK(r)' /\ LookupOK(r)'
    BY <1>3, <2>2 DEF DialOK, PhaseOK, LookupOK
  <2>4. AnswerOK(r)'
    BY <1>1, <1>2, <1>3, <2>1, MuxAssumption DEF AnswerOK, Matches
  <2> QED BY <2>3, <2>4 DEF RequestOK
<1>4. CASE /\ pc'[r] = "done" /\ result'[r] = "refused" /\ conn'[r] = conn[r]
           /\ listener[selected[r]] = None
  <2>1. from[r] \in stale'[r]
    BY <1>1, <1>4
  <2>2. AnswerOK(r)'
    BY <1>2, <1>4, <2>1, MuxAssumption DEF AnswerOK, Matches
  <2> QED BY <1>2, <1>4, <2>2 DEF RequestOK, DialOK, PhaseOK, LookupOK
<1> QED BY <1>2, <1>3, <1>4 DEF Dial, Goto, TypeInv, TypeOK, connVars

LEMMA SentRoute ==
    ASSUME TypeInv, RouteInv, Next, NEW r \in Requests, Answer(r) \/ Break(r) \/ NoPipe(r)
    PROVE  RequestOK(r)'
<1> USE ForwardKeeps
<1>1. /\ pc[r] = "sent" /\ result[r] = None /\ conn[r] \in Workers /\ conn[r] # None
      /\ Matches(from[r], want[r]) /\ reused'[r] = reused[r]
  BY MuxAssumption DEF PhaseOK, AnswerOK, Answer, Break, NoPipe, TypeInv, DialHasPort, connVars
<1>2. from[r] \in stale'[r] \/ reused[r] \/ conn[r] = from[r]
  BY <1>1 DEF AnswerOK
<1>3. /\ result'[r] # "refused" /\ result'[r] # "404"
      /\ conn'[r] \in {None, conn[r]} /\ result'[r] \in {None, conn[r], "failed"}
      /\ pc'[r] # "done" => result'[r] = None
      /\ pc'[r] \notin {"sent", "hung"} => conn'[r] = None
      /\ pc'[r] # "sent"
  <2> USE DEF TypeInv, TypeOK, Goto
  <2>1. CASE Answer(r)
    BY <1>1, <2>1, MuxAssumption DEF Answer
  <2>2. CASE Break(r)
    BY <1>1, <2>2, MuxAssumption DEF Break
  <2>3. CASE NoPipe(r)
    BY <1>1, <2>3, MuxAssumption DEF NoPipe, connVars
  <2> QED BY <2>1, <2>2, <2>3
<1>4. AnswerOK(r)'
  BY <1>1, <1>2, <1>3 DEF AnswerOK, Matches
<1>5. DialOK(r)' /\ PhaseOK(r)' /\ LookupOK(r)'
  BY <1>1, <1>3 DEF DialOK, PhaseOK, LookupOK
<1> QED BY <1>4, <1>5 DEF RequestOK

LEMMA StepRoute == TypeInv /\ RouteInv /\ [Next]_vars => RouteInv'
<1>1. ASSUME RouteInv, UNCHANGED vars PROVE RouteInv'
  BY <1>1 DEF RouteInv, OpensWhereNone, SteadyServe, StaleServe, Read, Serving, RequestOK, PhaseOK, LookupOK, DialOK,
         AnswerOK, Matches, vars, mgrVars, reqVars, connVars
<1>2. ASSUME TypeInv, RouteInv, Next PROVE RouteInv'
  <2>1. OpensWhereNone' /\ SteadyServe' /\ StaleServe'
    BY <1>2, StepKeepsPort, StepSteady, StepStale DEF RouteInv
  <2>2. ASSUME NEW r \in Requests PROVE RequestOK(r)'
    <3>1. CASE Request(r) \/ Serve(r)
      BY <1>2, <3>1, RequestRoute, FilterRoute, ReadRoute, SelectRoute, DialRoute, SentRoute
         DEF Serve
    <3>2. CASE \E w \in Workers : Manage(w)
      <4>1. UNCHANGED reqVars
        BY <3>2 DEF Manage, Login, Open, Publish, RemoveProxy, Unlisten, CloseFlag, CloseListener,
               CloseDelete, ManagerDone
      <4>2. SameRequest(r)
        BY <4>1 DEF reqVars, connVars, SameRequest
      <4> QED BY <1>2, <4>2, OtherRequest
    <3>3. CASE \E q \in Requests \ {r} : Request(q) \/ Serve(q)
      <4>1. PICK q \in Requests \ {r} : Request(q) \/ Serve(q)
        BY <3>3
      <4>2. SameRequest(r)
        <5> USE DEF SameRequest, TypeInv, TypeOK, Goto, connVars
        <5>1. CASE Request(q)
          BY <1>2, <5>1 DEF Request
        <5>2. CASE FilterManagers(q)
          BY <1>2, <5>2 DEF FilterManagers
        <5>3. CASE ReadProxy(q)
          BY <1>2, <5>3 DEF ReadProxy
        <5>4. CASE SelectPort(q)
          BY <1>2, <5>4 DEF SelectPort
        <5>5. CASE Dial(q)
          BY <1>2, <5>5 DEF Dial
        <5>6. CASE Answer(q)
          BY <1>2, <5>6 DEF Answer
        <5>7. CASE Break(q)
          BY <1>2, <5>7 DEF Break
        <5>8. CASE NoPipe(q)
          BY <1>2, <5>8 DEF NoPipe
        <5> QED BY <4>1, <5>1, <5>2, <5>3, <5>4, <5>5, <5>6, <5>7, <5>8 DEF Serve
      <4> QED BY <1>2, <4>2, OtherRequest
    <3>4. CASE DropIdle
      BY <1>2, <3>4, OtherRequest DEF DropIdle, SameRequest
    <3> QED BY <1>2, <3>1, <3>2, <3>3, <3>4 DEF Next
  <2> QED BY <2>1, <2>2 DEF RouteInv
<1> QED BY <1>1, <1>2

(* Though filterManagers and selectPort read the maps one after the other   *)
(* and without a mutex, no request is answered with 404 while a worker that *)
(* it names serves throughout.                                              *)
THEOREM NoServingWorkerOverlooked == Spec => []NoFalse404
<1>1. RouteInv => NoFalse404
  BY DEF RouteInv, RequestOK, AnswerOK, NoFalse404
<1> QED BY <1>1, InitTyped, StepTyped, InitRoute, StepRoute, PTL DEF Spec

(* The worker selected for a request is one that it named; and as long as   *)
(* this worker has not stopped serving since its entry was read, a          *)
(* connection made for the request is not refused and leads to it, and only *)
(* one that the HTTP client kept may lead to another worker.                *)
THEOREM RequestsReachTheirWorker == Spec => []Routed
<1>1. RouteInv => Routed
  BY DEF RouteInv, RequestOK, AnswerOK, Routed
<1> QED BY <1>1, InitTyped, StepTyped, InitRoute, StepRoute, PTL DEF Spec
=============================================================================
