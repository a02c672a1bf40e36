--------------------------- MODULE RegistryProofs ---------------------------
(***************************************************************************)
(* Proofs about Registry for every number of logins, every bound on the    *)
(* ids and every capacity of mgrDone.                                      *)
(***************************************************************************)
EXTENDS Registry, SequenceTheorems, TLAPS

(* What a login has in hand at each place of HandleStream. *)
LoginsOK ==
    \A c \in Clients :
        /\ login[c] = "copy" => buf \in Ids
        /\ login[c] = "check" \/ HasId(c) => key[c] \in Ids
        /\ run[c] # "unborn" => login[c] \in {"insert", "respond", "in"}

(* The managers in mgrDone are managers whose Run has ended. *)
NoticesTold == \A i \in 1 .. Len(mgrDone) : run[mgrDone[i]] = "told"

RegistryInv == TypeOK /\ LoginsOK /\ NoticesTold

FoundInv == RegistryInv /\ LiveFound
-----------------------------------------------------------------------------
LEMMA InitRegistry == Init => FoundInv
<1> SUFFICES ASSUME Init PROVE FoundInv
  OBVIOUS
<1>1. TypeOK
  <2>1. <<>> \in Seq(Clients) /\ Len(<<>>) = 0
    OBVIOUS
  <2>2. mgrDone \in Seq(Clients) /\ Len(mgrDone) <= DoneCap /\ buf \in 0 .. MaxIds
    BY <2>1, RegistryAssumption DEF Init
  <2> QED BY <2>2 DEF Init, TypeOK, LoginLabels, RunLabels
<1>2. LoginsOK /\ NoticesTold /\ LiveFound
  BY DEF Init, LoginsOK, NoticesTold, LiveFound, HasId
<1> QED BY <1>1, <1>2 DEF FoundInv, RegistryInv

(* A step of HandleStream leaves the other logins where they are. *)
LEMMA StepEffect ==
    ASSUME TypeOK, NEW c \in Clients, NEW from \in LoginLabels, NEW to \in LoginLabels,
           Step(c, from, to)
    PROVE  /\ login[c] = from /\ login'[c] = to
           /\ \A d \in Clients \ {c} : login'[d] = login[d]
           /\ login' \in [Clients -> LoginLabels]
BY DEF TypeOK, Step

LEMMA LoginRegistry ==
    ASSUME RegistryInv, NEW c \in Clients, CheckLogin(c) \/ HandleLogin(c)
    PROVE  RegistryInv'
<1> USE DEF RegistryInv
<1>0. UNCHANGED <<mgrDone, crash>>
  BY DEF CheckLogin, HandleLogin, RandFill, RandCopy, GenId, SpawnRun, Insert, Respond
<1>1. CASE CheckLogin(c)
  <2>1. PICK to \in {"fill", "refused"} : Step(c, "idle", to)
    BY <1>1 DEF CheckLogin
  <2>2. /\ login[c] = "idle" /\ login'[c] = to
        /\ \A d \in Clients \ {c} : login'[d] = login[d]
        /\ login' \in [Clients -> LoginLabels]
    BY <2>1, StepEffect DEF LoginLabels
  <2> QED BY <1>1, <2>2 DEF CheckLogin, TypeOK, LoginsOK, NoticesTold, HasId
<1>2. CASE RandFill(c)
  <2>1. /\ login[c] = "fill" /\ login'[c] = "copy"
        /\ \A d \in Clients \ {c} : login'[d] = login[d]
        /\ login' \in [Clients -> LoginLabels]
    BY <1>2, StepEffect DEF RandFill, LoginLabels
  <2>2. buf' \in Ids
    BY <1>2, RegistryAssumption DEF RandFill, TypeOK, Ids
  <2> QED BY <1>2, <2>1, <2>2, RegistryAssumption
          DEF RandFill, TypeOK, LoginsOK, NoticesTold, HasId, Ids
<1>3. CASE RandCopy(c)
  <2>1. /\ login[c] = "copy" /\ login'[c] = "check"
        /\ \A d \in Clients \ {c} : login'[d] = login[d]
        /\ login' \in [Clients -> LoginLabels]
    BY <1>3, StepEffect DEF RandCopy, LoginLabels
  <2> QED BY <1>3, <2>1 DEF RandCopy, TypeOK, LoginsOK, NoticesTold, HasId
<1>4. CASE GenId(c)
  <2>1. PICK to \in {"spawn", "fill"} : Step(c, "check", to)
    BY <1>4 DEF GenId
  <2>2. /\ login[c] = "check" /\ login'[c] = to
        /\ \A d \in Clients \ {c} : login'[d] = login[d]
        /\ login' \in [Clients -> LoginLabels]
    BY <2>1, StepEffect DEF LoginLabels
  <2> QED BY <1>4, <2>2 DEF GenId, TypeOK, LoginsOK, NoticesTold, HasId
<1>5. CASE SpawnRun(c)
  <2>1. /\ login[c] = "spawn" /\ login'[c] = "insert"
        /\ \A d \in Clients \ {c} : login'[d] = login[d]
        /\ login' \in [Clients -> LoginLabels]
    BY <1>5, StepEffect DEF SpawnRun, LoginLabels
  <2>2. run[c] = "unborn"
    BY <2>1 DEF LoginsOK
  <2>3. TypeOK' /\ LoginsOK'
    BY <1>5, <2>1 DEF SpawnRun, TypeOK, LoginsOK, HasId, RunLabels
  <2>4. NoticesTold'
    BY <1>5, <2>2 DEF SpawnRun, NoticesTold, TypeOK
  <2> QED BY <2>3, <2>4
<1>6. CASE Insert(c)
  <2>1. /\ login[c] = "insert" /\ login'[c] = "respond"
        /\ \A d \in Clients \ {c} : login'[d] = login[d]
        /\ login' \in [Clients -> LoginLabels]
    BY <1>6, StepEffect DEF Insert, LoginLabels
  <2> QED BY <1>6, <2>1 DEF Insert, TypeOK, LoginsOK, NoticesTold, HasId
<1>7. CASE Respond(c)
  <2>1. /\ login[c] = "respond" /\ login'[c] = "in"
        /\ \A d \in Clients \ {c} : login'[d] = login[d]
        /\ login' \in [Clients -> LoginLabels]
    BY <1>7, StepEffect DEF Respond, LoginLabels
  <2> QED BY <1>7, <2>1 DEF Respond, TypeOK, LoginsOK, NoticesTold, HasId
<1> QED BY <1>1, <1>2, <1>3, <1>4, <1>5, <1>6, <1>7 DEF HandleLogin

(* The end of a Run, its notice, and awaitManagerDone. *)
LEMMA EndRegistry ==
    ASSUME RegistryInv,
           (\E c \in Clients : RunEnd(c) \/ RunNotify(c)) \/ AwaitManagerDone \/ MapFault
    PROVE  RegistryInv'
<1> USE DEF RegistryInv
<1>1. mgrDone \in Seq(Clients) /\ Len(mgrDone) \in Nat /\ DoneCap \in Nat
  BY LenProperties, RegistryAssumption DEF TypeOK
<1>2. \A i \in 1 .. Len(mgrDone) : mgrDone[i] \in Clients
  BY <1>1, LenProperties
<1>3. ASSUME NEW c \in Clients, RunEnd(c) PROVE RegistryInv'
  <2>1. TypeOK' /\ LoginsOK'
    BY <1>3 DEF RunEnd, TypeOK, LoginsOK, HasId, RunLabels
  <2>2. NoticesTold'
    BY <1>2, <1>3 DEF RunEnd, NoticesTold, TypeOK
  <2> QED BY <2>1, <2>2
<1>4. ASSUME NEW c \in Clients, RunNotify(c) PROVE RegistryInv'
  <2>1. /\ Append(mgrDone, c) \in Seq(Clients)
        /\ Len(Append(mgrDone, c)) = Len(mgrDone) + 1
        /\ \A i \in 1 .. Len(mgrDone) : Append(mgrDone, c)[i] = mgrDone[i]
        /\ Append(mgrDone, c)[Len(mgrDone) + 1] = c
    BY <1>1, AppendProperties
  <2>2. TypeOK' /\ LoginsOK'
    BY <1>1, <1>4, <2>1 DEF RunNotify, TypeOK, LoginsOK, HasId, RunLabels
  <2>3. NoticesTold'
    <3> SUFFICES ASSUME NEW i \in 1 .. Len(mgrDone) + 1
                 PROVE  run'[Append(mgrDone, c)[i]] = "told"
      BY <1>4, <2>1 DEF RunNotify, NoticesTold
    <3>1. run'[c] = "told" /\ \A d \in Clients \ {c} : run'[d] = run[d]
      BY <1>4 DEF RunNotify, TypeOK
    <3>2. CASE i = Len(mgrDone) + 1
      BY <2>1, <3>1, <3>2
    <3>3. CASE i \in 1 .. Len(mgrDone)
      BY <1>2, <2>1, <3>1, <3>3 DEF NoticesTold
    <3> QED BY <1>1, <3>2, <3>3
  <2> QED BY <2>2, <2>3
<1>5. CASE AwaitManagerDone
  <2>1. /\ Tail(mgrDone) \in Seq(Clients) /\ Len(Tail(mgrDone)) = Len(mgrDone) - 1
        /\ \A i \in 1 .. Len(Tail(mgrDone)) : Tail(mgrDone)[i] = mgrDone[i + 1]
    BY <1>1, <1>5, HeadTailProperties DEF AwaitManagerDone
  <2>2. mgrDone' \in Seq(Clients) /\ Len(mgrDone') <= DoneCap
    BY <1>1, <1>5, <2>1 DEF AwaitManagerDone, TypeOK
  <2>3. TypeOK' /\ LoginsOK'
    BY <1>5, <2>2 DEF AwaitManagerDone, TypeOK, LoginsOK, HasId
  <2>4. NoticesTold'
    BY <1>1, <1>5, <2>1 DEF AwaitManagerDone, NoticesTold
  <2> QED BY <2>3, <2>4
<1>6. CASE MapFault
  BY <1>6 DEF MapFault, TypeOK, LoginsOK, NoticesTold, HasId
<1> QED BY <1>3, <1>4, <1>5, <1>6

LEMMA NextRegistry == RegistryInv /\ [Next]_vars => RegistryInv'
<1> SUFFICES ASSUME RegistryInv, [Next]_vars PROVE RegistryInv'
  OBVIOUS
<1>1. CASE UNCHANGED vars
  BY <1>1 DEF vars, RegistryInv, TypeOK, LoginsOK, NoticesTold, HasId
<1>2. CASE Next
  BY <1>2, LoginRegistry, EndRegistry DEF Next
<1> QED BY <1>1, <1>2

(***************************************************************************)
(* An id that a login has got stays its id.                                *)
(***************************************************************************)
LEMMA IdsStay ==
    ASSUME RegistryInv, [Next]_vars, NEW c \in Clients, HasId(c)
    PROVE  HasId(c)' /\ key'[c] = key[c]
<1> USE DEF RegistryInv, HasId
<1>1. CASE UNCHANGED vars
  BY <1>1 DEF vars
<1>2. ASSUME NEW d \in Clients, CheckLogin(d) \/ HandleLogin(d)
      PROVE  HasId(c)' /\ key'[c] = key[c]
  BY <1>2
     DEF CheckLogin, HandleLogin, RandFill, RandCopy, GenId, SpawnRun, Insert, Respond,
         Step, TypeOK
<1>3. ASSUME (\E d \in Clients : RunEnd(d) \/ RunNotify(d)) \/ AwaitManagerDone \/ MapFault
      PROVE  HasId(c)' /\ key'[c] = key[c]
  BY <1>3 DEF RunEnd, RunNotify, AwaitManagerDone, MapFault
<1> QED BY <1>1, <1>2, <1>3 DEF Next

(***************************************************************************)
(* The steps that can disturb LiveFound: a login that enters the map, and  *)
(* awaitManagerDone, which deletes by id.  The manager it deletes has told *)
(* its end, so that it is another one than a manager that runs, and has    *)
(* another id.                                                             *)
(***************************************************************************)
LEMMA NextFound == FoundInv /\ [Next]_vars => FoundInv'
<1> SUFFICES ASSUME RegistryInv, LiveFound, [Next]_vars, RegistryInv', NoCollision',
                    NEW d \in Clients, login'[d] \in {"respond", "in"}, run'[d] = "running"
             PROVE  managers'[key'[d]] = d
  BY NextRegistry DEF FoundInv, LiveFound
<1>1. NoCollision
  BY IdsStay DEF NoCollision
<1>2. \A c \in Clients : login[c] \in {"respond", "in"} /\ run[c] = "running" =>
        managers[key[c]] = c
  BY <1>1 DEF LiveFound
<1>3. CASE UNCHANGED vars
  BY <1>2, <1>3 DEF vars
<1>4. ASSUME NEW c \in Clients, Insert(c) PROVE managers'[key'[d]] = d
  <2>1. /\ login[c] = "insert" /\ login'[c] = "respond"
        /\ \A e \in Clients \ {c} : login'[e] = login[e]
    BY <1>4, StepEffect DEF Insert, LoginLabels, RegistryInv
  <2>2. key[c] \in Ids /\ UNCHANGED <<key, run>>
    BY <1>4, <2>1 DEF Insert, RegistryInv, LoginsOK, HasId
  <2>3. CASE d = c
    BY <1>4, <2>2, <2>3 DEF Insert, RegistryInv, TypeOK
  <2>4. CASE d # c
    <3>1. key[d] # key[c]
      BY <2>1, <2>2, <2>4 DEF NoCollision, HasId
    <3>2. managers[key[d]] = d
      BY <1>2, <2>1, <2>2, <2>4
    <3>3. key[d] \in Ids
      BY <2>1, <2>4 DEF RegistryInv, LoginsOK, HasId
    <3> QED BY <1>4, <2>2, <3>1, <3>2, <3>3 DEF Insert, RegistryInv, TypeOK
  <2> QED BY <2>3, <2>4
<1>5. ASSUME AwaitManagerDone PROVE managers'[key'[d]] = d
  <2>1. mgrDone \in Seq(Clients) /\ mgrDone # <<>>
    BY <1>5 DEF AwaitManagerDone, RegistryInv, TypeOK
  <2>2. Head(mgrDone) \in Clients /\ run[Head(mgrDone)] = "told"
    <3>1. Len(mgrDone) \in Nat /\ Len(mgrDone) # 0 /\ Head(mgrDone) = mgrDone[1]
      BY <2>1, LenProperties, EmptySeq
    <3> QED BY <2>1, <3>1, HeadTailProperties DEF RegistryInv, NoticesTold
  <2>3. UNCHANGED <<login, key, run>>
    BY <1>5 DEF AwaitManagerDone
  <2>4. HasId(Head(mgrDone)) /\ HasId(d) /\ d # Head(mgrDone)
    BY <2>2, <2>3 DEF RegistryInv, LoginsOK, HasId
  <2>5. key[d] # key[Head(mgrDone)] /\ key[d] \in Ids
    BY <1>1, <2>2, <2>4 DEF NoCollision, RegistryInv, LoginsOK
  <2>6. managers[key[d]] = d
    BY <1>2, <2>3
  <2> QED BY <1>5, <2>3, <2>5, <2>6 DEF AwaitManagerDone, RegistryInv, TypeOK
<1>6. ASSUME NEW c \in Clients,
             CheckLogin(c) \/ RandFill(c) \/ RandCopy(c) \/ GenId(c) \/ SpawnRun(c)
             \/ Respond(c) \/ RunEnd(c) \/ RunNotify(c)
      PROVE  managers'[key'[d]] = d
  <2>1. managers' = managers
    BY <1>6
       DEF CheckLogin, RandFill, RandCopy, GenId, SpawnRun, Respond, RunEnd, RunNotify
  <2>2. login[d] \in {"respond", "in"}
    BY <1>6
       DEF CheckLogin, RandFill, RandCopy, GenId, SpawnRun, Respond, RunEnd, RunNotify,
           Step, RegistryInv, TypeOK
  <2>3. run[d] = "running"
    BY <1>6, <2>2
       DEF CheckLogin, RandFill, RandCopy, GenId, SpawnRun, Respond, RunEnd, RunNotify,
           Step, RegistryInv, TypeOK
  <2>4. key'[d] = key[d]
    BY <2>2, IdsStay DEF HasId
  <2> QED BY <1>2, <2>1, <2>2, <2>3, <2>4
<1>7. CASE MapFault
  BY <1>2, <1>7 DEF MapFault
<1> QED BY <1>3, <1>4, <1>5, <1>6, <1>7 DEF Next, HandleLogin

LEMMA FoundInvariant == Spec => []FoundInv
BY InitRegistry, NextFound, PTL DEF Spec
-----------------------------------------------------------------------------
(* Type correctness: a login reads the shared buffer only after some draw,  *)
(* and whatever awaitManagerDone takes from mgrDone has an id to delete.    *)
THEOREM TypeCorrect == Spec => []TypeOK
BY FoundInvariant, PTL DEF FoundInv, RegistryInv

(* Unless two logins got the same id, a client that was told its id is in   *)
(* Server.managers under it until its Run ends: neither the logins that     *)
(* RegisterManager puts into the map nor the deletions of awaitManagerDone, *)
(* which go by the id, ever take its place away.                            *)
THEOREM LiveAreFound == Spec => []LiveFound
BY FoundInvariant, PTL DEF FoundInv
=============================================================================
