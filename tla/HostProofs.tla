----------------------------- MODULE HostProofs -----------------------------
(***************************************************************************)
(* Proofs about what the server takes from its host: the ports (Ports),    *)
(* for every range, every number of managers and every choice of the ports *)
(* that others use, and the log files (RotatingFile), for every number of  *)
(* goroutines, backups and bytes.  The two parts share no state.           *)
(***************************************************************************)
EXTENDS Ports, RotatingFile, FiniteSetTheorems, SequenceTheorems, WellFoundedInduction, TLAPS

(* The record of a caller at work has every port that somebody else holds. *)
BusyCovers == \A c \in Callers : pc[c] \notin Over => Others(c, holder) \subseteq busy[c]

(***************************************************************************)
(* Where a search stands that began with the port of the request: that is  *)
(* the port in hand, or it was in use or refused.  Once the search draws   *)
(* from randPool, only the second can be.                                  *)
(***************************************************************************)
SearchKept ==
    \A c \in Callers : FirstChoice(want[c]) > 0 =>
        /\ pc[c] = "first" => port[c] = want[c]
        /\ pc[c] \in {"draw", "probe"} => want[c] \in busy[c]
        /\ pc[c] \in {"probing", "listen", "up"} =>
               port[c] = want[c] \/ want[c] \in busy[c]

(***************************************************************************)
(* Where a search stands that must stay in the range: it has turns left or *)
(* has met a port of the range that was in use or refused.                 *)
(***************************************************************************)
RangeTried(c) == busy[c] \cap (Start .. End - 1) # {}

RangeKept ==
    ForceRange => \A c \in Callers :
        /\ pc[c] = "first" => left[c] > 0
        /\ pc[c] = "draw" => left[c] > 0 \/ RangeTried(c)
        /\ pc[c] = "probe" => port[c] \in Start .. End - 1
        /\ pc[c] \in {"first", "probing"} => InRange(port[c])
        /\ pc[c] \in {"listen", "up"} => InRange(port[c]) \/ RangeTried(c)

(* A caller that probes has a port in hand. *)
InHand == \A c \in Callers : pc[c] \in {"first", "probe", "probing", "up"} => port[c] \in PortSet

PortsInv ==
    TypeOK /\ InHand /\ NoListenerLeft /\ BusyCovers /\ SearchKept /\ RangeKept
-----------------------------------------------------------------------------
(* What randInts yields is a finite sequence of ports of the range. *)
LEMMA PermutationTyped ==
    ASSUME NEW s \in SetToSeqs(Start .. End - 1)
    PROVE  s \in Seq(Start .. End - 1)
<1>1. Cardinality(Start .. End - 1) \in Nat
  BY FS_Interval, FS_CardinalityType, PortsAssumption
<1>2. s \in [1 .. Cardinality(Start .. End - 1) -> Start .. End - 1]
  BY DEF SetToSeqs
<1> QED BY <1>1, <1>2, SeqDef

LEMMA RangeIsPorts == Start .. End - 1 \subseteq PortSet
BY PortsAssumption DEF PortSet

(* The first port tried is none or the one that the request names. *)
LEMMA FirstChoiceAsked ==
    ASSUME NEW w \in Asked \cup {0}
    PROVE  /\ FirstChoice(w) \in PortSet \cup {0} /\ FirstChoice(w) \in Nat
           /\ FirstChoice(w) > 0 => FirstChoice(w) = w /\ w \in PortSet
BY PortsAssumption DEF FirstChoice, PortSet

(* With forceRange the loop has a turn, whatever port is tried first. *)
LEMMA FirstChoiceInRange ==
    ASSUME NEW w \in Asked, ForceRange
    PROVE  /\ FirstChoice(w) > 0 => InRange(FirstChoice(w))
           /\ Turns(IF FirstChoice(w) > 0 THEN FirstChoice(w) ELSE Start) > 0
BY PortsAssumption DEF FirstChoice, InRange, Turns

LEMMA TurnsTyped ==
    ASSUME NEW i \in Nat PROVE Turns(i) \in Nat
BY PortsAssumption DEF Turns

(***************************************************************************)
(* A port changes hands: the other ports keep their holders, and the       *)
(* records of the callers at work grow by what others hold now.            *)
(***************************************************************************)
LEMMA HoldEffect ==
    ASSUME TypeOK, pc' \in [Callers -> Labels],
           NEW p \in PortSet, NEW who \in Callers \cup {Free, Other}, Hold(p, who)
    PROVE  /\ holder' \in [PortSet -> Callers \cup {Free, Other}]
           /\ busy' \in [Callers -> SUBSET PortSet]
           /\ holder'[p] = who /\ \A q \in PortSet \ {p} : holder'[q] = holder[q]
           /\ BusyCovers'
           /\ \A c \in Callers : pc'[c] \notin Over => busy[c] \subseteq busy'[c]
<1>1. holder' \in [PortSet -> Callers \cup {Free, Other}]
  BY DEF TypeOK, Hold
<1>2. \A c \in Callers : Others(c, holder') \subseteq PortSet
  BY DEF Others
<1>3. busy' \in [Callers -> SUBSET PortSet]
  BY <1>2 DEF Hold, TypeOK
<1>4. \A c \in Callers : pc'[c] \notin Over => busy'[c] = busy[c] \cup Others(c, holder')
  BY DEF Hold
<1>5. holder'[p] = who /\ \A q \in PortSet \ {p} : holder'[q] = holder[q]
  BY DEF Hold, TypeOK
<1> QED BY <1>1, <1>3, <1>4, <1>5 DEF BusyCovers

(* Somebody who is neither Free nor c is on a port of PortSet: c's record has it. *)
LEMMA TakenIsBusy ==
    ASSUME PortsInv, NEW c \in Callers, NEW p \in PortSet,
           pc[c] \notin Over \cup {"probing", "up"}, holder[p] # Free
    PROVE  p \in busy[c]
BY DEF PortsInv, NoListenerLeft, BusyCovers, Others

LEMMA InitPorts == Init => PortsInv
<1> SUFFICES ASSUME Init PROVE PortsInv
  OBVIOUS
<1>1. TypeOK
  <2>1. <<>> \in Seq(Start .. End - 1) /\ Len(<<>>) = 0
    OBVIOUS
  <2> QED BY <2>1, PortsAssumption DEF Init, TypeOK, Labels
<1>2. InHand /\ NoListenerLeft /\ BusyCovers /\ SearchKept /\ RangeKept
  BY PortsAssumption
     DEF Init, InHand, NoListenerLeft, BusyCovers, SearchKept, RangeKept, Over
<1> QED BY <1>1, <1>2 DEF PortsInv

LEMMA RandIntsPorts ==
    ASSUME PortsInv, RandInts PROVE PortsInv'
<1>1. UNCHANGED <<holder, pc, want, left, port, busy>>
  BY DEF RandInts, Permute, Yield
<1>2. /\ perm' \in Seq(Start .. End - 1) /\ queue' \in Seq(Start .. End - 1)
      /\ Len(queue') <= ChanCap
  <2>1. CASE Permute
    BY <2>1, PermutationTyped DEF Permute, PortsInv, TypeOK
  <2>2. CASE Yield
    <3>1. /\ perm \in Seq(Start .. End - 1) /\ perm # <<>>
          /\ queue \in Seq(Start .. End - 1) /\ Len(queue) < ChanCap
      BY <2>2 DEF Yield, PortsInv, TypeOK
    <3>2. Head(perm) \in Start .. End - 1 /\ Tail(perm) \in Seq(Start .. End - 1)
      BY <3>1, HeadTailProperties
    <3>3. /\ Append(queue, Head(perm)) \in Seq(Start .. End - 1)
          /\ Len(Append(queue, Head(perm))) = Len(queue) + 1
      BY <3>1, <3>2, AppendProperties
    <3>4. Len(queue) \in Nat /\ ChanCap \in Nat
      BY <3>1, LenProperties, PortsAssumption
    <3> QED BY <2>2, <3>1, <3>2, <3>3, <3>4 DEF Yield
  <2> QED BY <2>1, <2>2 DEF RandInts
<1>3. TypeOK'
  BY <1>1, <1>2 DEF PortsInv, TypeOK
<1>4. (InHand /\ NoListenerLeft /\ BusyCovers /\ SearchKept /\ RangeKept)'
  BY <1>1
     DEF PortsInv, InHand, NoListenerLeft, BusyCovers, SearchKept, RangeKept, RangeTried
<1> QED BY <1>3, <1>4 DEF PortsInv

(* RegisterProxy begins with an empty hand and a fresh record. *)
LEMMA RegisterPorts ==
    ASSUME PortsInv, NEW c \in Callers, Register(c) PROVE PortsInv'
<1>1. PICK w \in Asked :
        /\ want' = [want EXCEPT ![c] = w]
        /\ port' = [port EXCEPT ![c] = FirstChoice(w)]
        /\ pc' = [pc EXCEPT ![c] = IF FirstChoice(w) > 0 THEN "first" ELSE "draw"]
        /\ left' = [left EXCEPT
                       ![c] = Turns(IF FirstChoice(w) > 0 THEN FirstChoice(w) ELSE Start)]
  BY DEF Register, Goto
<1>2. /\ pc[c] \in Over
      /\ busy' = [busy EXCEPT ![c] = Others(c, holder)]
      /\ UNCHANGED <<perm, queue, holder>>
  BY DEF Register
<1>3. /\ FirstChoice(w) \in PortSet \cup {0} /\ FirstChoice(w) \in Nat
      /\ FirstChoice(w) > 0 => FirstChoice(w) = w /\ w \in PortSet
  BY FirstChoiceAsked
<1>4. Turns(IF FirstChoice(w) > 0 THEN FirstChoice(w) ELSE Start) \in Nat
  BY <1>3, TurnsTyped, PortsAssumption
<1>5. Others(c, holder) \subseteq PortSet
  BY DEF Others
<1>6. TypeOK'
  BY <1>1, <1>2, <1>3, <1>4, <1>5 DEF PortsInv, TypeOK, Labels
<1>7. InHand' /\ NoListenerLeft' /\ BusyCovers'
  BY <1>1, <1>2, <1>3
     DEF PortsInv, TypeOK, InHand, NoListenerLeft, BusyCovers, Over
<1>8. SearchKept'
  BY <1>1, <1>2, <1>3 DEF PortsInv, TypeOK, SearchKept
<1>9. RangeKept'
  <2>1. ForceRange =>
          /\ FirstChoice(w) > 0 => InRange(FirstChoice(w))
          /\ Turns(IF FirstChoice(w) > 0 THEN FirstChoice(w) ELSE Start) > 0
    BY FirstChoiceInRange
  <2> QED BY <1>1, <1>2, <2>1 DEF PortsInv, TypeOK, RangeKept, RangeTried
<1> QED BY <1>6, <1>7, <1>8, <1>9 DEF PortsInv

LEMMA DrawPorts ==
    ASSUME PortsInv, NEW c \in Callers, Draw(c) PROVE PortsInv'
<1>1. pc[c] = "draw" /\ UNCHANGED <<perm, holder, want, busy>>
  BY DEF Draw
<1>2. CASE /\ left[c] > 0 /\ queue # <<>>
           /\ port' = [port EXCEPT ![c] = Head(queue)]
           /\ queue' = Tail(queue)
           /\ left' = [left EXCEPT ![c] = @ - 1]
           /\ Goto(c, "probe")
  <2>1. queue \in Seq(Start .. End - 1) /\ Len(queue) <= ChanCap
    BY DEF PortsInv, TypeOK
  <2>2. /\ Head(queue) \in Start .. End - 1
        /\ Tail(queue) \in Seq(Start .. End - 1) /\ Len(Tail(queue)) = Len(queue) - 1
    BY <1>2, <2>1, HeadTailProperties
  <2>3. Head(queue) \in PortSet
    BY <2>2, RangeIsPorts
  <2>4. Len(queue) \in Nat /\ ChanCap \in Nat
    BY <2>1, LenProperties, PortsAssumption
  <2>5. TypeOK'
    BY <1>1, <1>2, <2>1, <2>2, <2>3, <2>4 DEF PortsInv, TypeOK, Labels, Goto
  <2>6. InHand' /\ NoListenerLeft' /\ BusyCovers' /\ SearchKept'
    BY <1>1, <1>2, <2>3
       DEF PortsInv, TypeOK, InHand, NoListenerLeft, BusyCovers, SearchKept, Goto, Over
  <2>7. RangeKept'
    BY <1>1, <1>2, <2>2 DEF PortsInv, TypeOK, RangeKept, RangeTried, Goto
  <2> QED BY <2>5, <2>6, <2>7 DEF PortsInv
<1>3. CASE /\ left[c] = 0
           /\ port' = [port EXCEPT ![c] = 0]
           /\ Goto(c, "listen")
           /\ UNCHANGED <<queue, left>>
  <2>1. TypeOK'
    BY <1>1, <1>3 DEF PortsInv, TypeOK, Labels, Goto
  <2>2. InHand' /\ NoListenerLeft' /\ BusyCovers' /\ SearchKept'
    BY <1>1, <1>3
       DEF PortsInv, TypeOK, InHand, NoListenerLeft, BusyCovers, SearchKept, Goto, Over
  <2>3. RangeKept'
    BY <1>1, <1>3 DEF PortsInv, TypeOK, RangeKept, RangeTried, Goto
  <2> QED BY <2>1, <2>2, <2>3 DEF PortsInv
<1> QED BY <1>2, <1>3 DEF Draw

(***************************************************************************)
(* net.Listen of a probe.  A port that is taken is in the record of the    *)
(* caller, who holds no port itself; one that is refused enters it.        *)
(***************************************************************************)
LEMMA ProbePorts ==
    ASSUME PortsInv, NEW c \in Callers, Probe(c) PROVE PortsInv'
<1>1. /\ pc[c] \in {"first", "probe"} /\ port[c] \in PortSet
      /\ UNCHANGED <<perm, queue, want, port>>
  BY DEF Probe, PortsInv, InHand
<1>2. CASE /\ holder[port[c]] = Free /\ Goto(c, "probing") /\ Hold(port[c], c)
           /\ left' = [left EXCEPT ![c] = 0]
  <2>1. pc' \in [Callers -> Labels]
    BY <1>2 DEF PortsInv, TypeOK, Labels, Goto
  <2>2. /\ holder' \in [PortSet -> Callers \cup {Free, Other}]
        /\ busy' \in [Callers -> SUBSET PortSet]
        /\ holder'[port[c]] = c /\ \A q \in PortSet \ {port[c]} : holder'[q] = holder[q]
        /\ BusyCovers'
        /\ \A d \in Callers : pc'[d] \notin Over => busy[d] \subseteq busy'[d]
    BY <1>1, <1>2, <2>1, HoldEffect DEF PortsInv
  <2>3. TypeOK'
    BY <1>1, <1>2, <2>1, <2>2 DEF PortsInv, TypeOK
  <2>4. NoListenerLeft'
    BY <1>1, <1>2, <2>2, PortsAssumption DEF PortsInv, TypeOK, NoListenerLeft, Goto
  <2>5. InHand' /\ SearchKept'
    BY <1>1, <1>2, <2>2, ZenonT(60) DEF PortsInv, TypeOK, InHand, SearchKept, Goto, Over
  <2>6. RangeKept'
    <3>1. \A d \in Callers : pc'[d] \notin Over => (RangeTried(d) => RangeTried(d)')
      BY <2>2 DEF RangeTried
    <3>2. ForceRange => InRange(port[c])
      BY <1>1, PortsAssumption DEF PortsInv, RangeKept, InRange
    <3>3. \A d \in Callers \ {c} : pc'[d] = pc[d] /\ left'[d] = left[d]
      BY <1>2 DEF PortsInv, TypeOK, Goto
    <3>4. pc'[c] = "probing"
      BY <1>2 DEF PortsInv, TypeOK, Goto
    <3> QED BY <1>1, <3>1, <3>2, <3>3, <3>4 DEF PortsInv, RangeKept, InRange, Over
  <2> QED BY <2>2, <2>3, <2>4, <2>5, <2>6 DEF PortsInv
<1>3. CASE /\ Goto(c, "draw") /\ UNCHANGED <<holder, left>>
           /\ \/ holder[port[c]] # Free /\ UNCHANGED busy
              \/ busy' = [busy EXCEPT ![c] = @ \cup {port[c]}]
  <2>1. holder[port[c]] # Free => port[c] \in busy[c]
    BY <1>1, TakenIsBusy DEF Over
  <2>2. /\ busy' \in [Callers -> SUBSET PortSet] /\ port[c] \in busy'[c]
        /\ \A d \in Callers : busy[d] \subseteq busy'[d]
    <3>1. busy \in [Callers -> SUBSET PortSet]
      BY DEF PortsInv, TypeOK
    <3>2. CASE holder[port[c]] # Free /\ busy' = busy
      BY <2>1, <3>1, <3>2
    <3>3. CASE busy' = [busy EXCEPT ![c] = @ \cup {port[c]}]
      BY <1>1, <3>1, <3>3
    <3> QED BY <1>3, <3>2, <3>3
  <2>3. TypeOK' /\ InHand' /\ NoListenerLeft'
    <3>1. /\ pc' = [pc EXCEPT ![c] = "draw"] /\ holder' = holder /\ left' = left
          /\ UNCHANGED <<perm, queue, want, port>>
      BY <1>1, <1>3 DEF Goto
    <3> QED BY <1>1, <2>2, <3>1 DEF PortsInv, TypeOK, Labels, InHand, NoListenerLeft
  <2>4. BusyCovers'
    <3>1. \A d \in Callers : pc'[d] \notin Over => pc[d] \notin Over
      BY <1>1, <1>3 DEF PortsInv, TypeOK, Goto, Over
    <3>2. holder' = holder
      BY <1>3
    <3> QED BY <2>2, <3>1, <3>2 DEF PortsInv, BusyCovers
  <2>5. SearchKept'
    BY <1>1, <1>3, <2>2 DEF PortsInv, TypeOK, SearchKept, Goto
  <2>6. RangeKept'
    BY <1>1, <1>3, <2>2 DEF PortsInv, TypeOK, RangeKept, RangeTried, Goto
  <2> QED BY <2>3, <2>4, <2>5, <2>6 DEF PortsInv
<1> QED BY <1>2, <1>3 DEF Probe

LEMMA ProbeClosePorts ==
    ASSUME PortsInv, NEW c \in Callers, ProbeClose(c) PROVE PortsInv'
<1>1. /\ pc[c] = "probing" /\ port[c] \in PortSet /\ Goto(c, "listen")
      /\ Hold(port[c], Free) /\ UNCHANGED <<perm, queue, want, left, port>>
  BY DEF ProbeClose, PortsInv, InHand
<1>2. pc' \in [Callers -> Labels]
  BY <1>1 DEF PortsInv, TypeOK, Labels, Goto
<1>3. /\ holder' \in [PortSet -> Callers \cup {Free, Other}]
      /\ busy' \in [Callers -> SUBSET PortSet]
      /\ holder'[port[c]] = Free
      /\ \A q \in PortSet \ {port[c]} : holder'[q] = holder[q]
      /\ BusyCovers'
      /\ \A d \in Callers : pc'[d] \notin Over => busy[d] \subseteq busy'[d]
  BY <1>1, <1>2, HoldEffect DEF PortsInv
<1>4. TypeOK'
  BY <1>1, <1>2, <1>3 DEF PortsInv, TypeOK
<1>5. NoListenerLeft'
  BY <1>1, <1>3, PortsAssumption DEF PortsInv, TypeOK, NoListenerLeft, Goto
<1>6. InHand' /\ SearchKept'
  BY <1>1, <1>3, ZenonT(60) DEF PortsInv, TypeOK, InHand, SearchKept, Goto, Over
<1>7. RangeKept'
  BY <1>1, <1>3 DEF PortsInv, TypeOK, RangeKept, RangeTried, Goto, Over
<1> QED BY <1>3, <1>4, <1>5, <1>6, <1>7 DEF PortsInv

(* NewProxy takes the port that was found, or one of the system's choice    *)
(* when the search found none; if it fails, nothing is left of the search.  *)
LEMMA NewProxyPorts ==
    ASSUME PortsInv, NEW c \in Callers, NewProxy(c) PROVE PortsInv'
<1> DEFINE tried == IF port[c] = 0 THEN OsPorts ELSE {port[c]}
<1>1. pc[c] = "listen" /\ UNCHANGED <<perm, queue>>
  BY DEF NewProxy
<1>2. tried \subseteq PortSet
  BY DEF PortsInv, TypeOK, PortSet
<1>3. ASSUME NEW p \in tried, holder[p] = Free, Goto(c, "up"), Hold(p, c),
             port' = [port EXCEPT ![c] = p], UNCHANGED <<want, left>>
      PROVE  PortsInv'
  <2>1. pc' \in [Callers -> Labels]
    BY <1>3 DEF PortsInv, TypeOK, Labels, Goto
  <2>2. /\ holder' \in [PortSet -> Callers \cup {Free, Other}]
        /\ busy' \in [Callers -> SUBSET PortSet]
        /\ holder'[p] = c /\ \A q \in PortSet \ {p} : holder'[q] = holder[q]
        /\ BusyCovers'
        /\ \A d \in Callers : pc'[d] \notin Over => busy[d] \subseteq busy'[d]
    BY <1>2, <1>3, <2>1, HoldEffect DEF PortsInv
  <2>3. TypeOK' /\ InHand'
    BY <1>1, <1>2, <1>3, <2>1, <2>2 DEF PortsInv, TypeOK, InHand, Goto
  <2>4. NoListenerLeft'
    BY <1>1, <1>2, <1>3, <2>2, PortsAssumption
       DEF PortsInv, TypeOK, NoListenerLeft, Goto
  <2>5. \A d \in Callers : FirstChoice(want[d]) > 0 => want[d] # 0
    BY FirstChoiceAsked DEF PortsInv, TypeOK
  <2>6. SearchKept'
    BY <1>1, <1>3, <2>2, <2>5 DEF PortsInv, TypeOK, SearchKept, Goto, Over
  <2>7. RangeKept'
    <3>1. \A d \in Callers : pc'[d] \notin Over => (RangeTried(d) => RangeTried(d)')
      BY <2>2 DEF RangeTried
    <3>2. ForceRange => InRange(p) \/ RangeTried(c)
      BY <1>1, <1>3, PortsAssumption DEF PortsInv, RangeKept, InRange
    <3>3. \A d \in Callers \ {c} : pc'[d] = pc[d] /\ port'[d] = port[d]
      BY <1>3 DEF PortsInv, TypeOK, Goto
    <3>4. pc'[c] = "up" /\ port'[c] = p
      BY <1>3 DEF PortsInv, TypeOK, Goto
    <3> QED BY <1>3, <3>1, <3>2, <3>3, <3>4 DEF PortsInv, RangeKept, InRange, Over
  <2> QED BY <2>2, <2>3, <2>4, <2>6, <2>7 DEF PortsInv
<1>4. CASE Forget(c, "failed") /\ busy' = [busy EXCEPT ![c] = {}] /\ UNCHANGED holder
  <2>1. TypeOK' /\ InHand' /\ NoListenerLeft' /\ BusyCovers'
    BY <1>1, <1>4
       DEF PortsInv, TypeOK, Labels, InHand, NoListenerLeft, BusyCovers, Forget, Goto, Over
  <2>2. SearchKept' /\ RangeKept'
    BY <1>1, <1>4 DEF PortsInv, TypeOK, SearchKept, RangeKept, RangeTried, Forget, Goto
  <2> QED BY <2>1, <2>2 DEF PortsInv
<1> QED BY <1>3, <1>4 DEF NewProxy

LEMMA CloseProxyPorts ==
    ASSUME PortsInv, NEW c \in Callers, CloseProxy(c) PROVE PortsInv'
<1>1. /\ pc[c] = "up" /\ port[c] \in PortSet /\ Goto(c, "idle")
      /\ Hold(port[c], Free)
      /\ want' = [want EXCEPT ![c] = 0] /\ left' = [left EXCEPT ![c] = 0]
      /\ port' = [port EXCEPT ![c] = 0] /\ UNCHANGED <<perm, queue>>
  BY DEF CloseProxy, Forget, PortsInv, InHand
<1>2. pc' \in [Callers -> Labels]
  BY <1>1 DEF PortsInv, TypeOK, Labels, Goto
<1>3. /\ holder' \in [PortSet -> Callers \cup {Free, Other}]
      /\ busy' \in [Callers -> SUBSET PortSet]
      /\ holder'[port[c]] = Free
      /\ \A q \in PortSet \ {port[c]} : holder'[q] = holder[q]
      /\ BusyCovers'
      /\ \A d \in Callers : pc'[d] \notin Over => busy[d] \subseteq busy'[d]
  BY <1>1, <1>2, HoldEffect DEF PortsInv
<1>4. TypeOK' /\ InHand'
  BY <1>1, <1>2, <1>3 DEF PortsInv, TypeOK, InHand, Goto
<1>5. NoListenerLeft'
  BY <1>1, <1>3, PortsAssumption DEF PortsInv, TypeOK, NoListenerLeft, Goto
<1>6. SearchKept' /\ RangeKept'
  BY <1>1, <1>3 DEF PortsInv, TypeOK, SearchKept, RangeKept, RangeTried, Goto, Over
<1> QED BY <1>3, <1>4, <1>5, <1>6 DEF PortsInv

(* Another process takes a port that is free, or gives up one of its own. *)
LEMMA OthersPorts ==
    ASSUME PortsInv, OtherTakes \/ OtherFrees PROVE PortsInv'
<1>1. UNCHANGED <<perm, queue, pc, want, left, port>>
  BY DEF OtherTakes, OtherFrees
<1>2. PICK p \in Foreign, who \in {Free, Other} :
        holder[p] \in {Free, Other} /\ Hold(p, who)
  BY DEF OtherTakes, OtherFrees
<1>3. p \in PortSet
  BY DEF PortSet
<1>4. /\ holder' \in [PortSet -> Callers \cup {Free, Other}]
      /\ busy' \in [Callers -> SUBSET PortSet]
      /\ holder'[p] = who /\ \A q \in PortSet \ {p} : holder'[q] = holder[q]
      /\ BusyCovers'
      /\ \A d \in Callers : pc'[d] \notin Over => busy[d] \subseteq busy'[d]
  BY <1>1, <1>2, <1>3, HoldEffect DEF PortsInv, TypeOK
<1>5. TypeOK' /\ InHand'
  BY <1>1, <1>4 DEF PortsInv, TypeOK, InHand
<1>6. NoListenerLeft'
  BY <1>1, <1>2, <1>3, <1>4, PortsAssumption DEF PortsInv, TypeOK, NoListenerLeft
<1>7. SearchKept' /\ RangeKept'
  BY <1>1, <1>4 DEF PortsInv, SearchKept, RangeKept, RangeTried, Over
<1> QED BY <1>4, <1>5, <1>6, <1>7 DEF PortsInv

LEMMA PortsInvariant == Spec => []PortsInv
<1>1. PortsInv /\ [Next]_vars => PortsInv'
  <2> SUFFICES ASSUME PortsInv, [Next]_vars PROVE PortsInv'
    OBVIOUS
  <2>1. CASE UNCHANGED vars
    BY <2>1
       DEF vars, PortsInv, TypeOK, InHand, NoListenerLeft, BusyCovers, SearchKept,
           RangeKept, RangeTried
  <2>2. CASE Next
    BY <2>2, RandIntsPorts, OthersPorts, RegisterPorts, DrawPorts, ProbePorts,
       ProbeClosePorts, NewProxyPorts, CloseProxyPorts DEF Next, Search
  <2> QED BY <2>1, <2>2
<1> QED BY InitPorts, <1>1, PTL DEF Spec
-----------------------------------------------------------------------------
(* Type correctness, whatever the range, the capacity of randPool and the   *)
(* ports that requests name: what randInts yields is always a port.         *)
THEOREM TypeCorrect == Spec => []TypeOK
BY PortsInvariant, PTL DEF PortsInv

(* No way through FindAvailablePort and NewProxy leaves a listener open     *)
(* that nobody closes: a manager listens on a port only while it probes it  *)
(* or has its proxy there.                                                  *)
THEOREM NoLeak == Spec => []NoListenerLeft
BY PortsInvariant, PTL DEF PortsInv

(* RegisterProxy gives a request another port than the one it names only if *)
(* somebody else has held that one since the request came, or the system    *)
(* refused it to the probe.                                                 *)
THEOREM RequestsKept == Spec => []RequestKept
<1>1. PortsInv => RequestKept
  BY DEF PortsInv, SearchKept, RequestKept
<1> QED BY PortsInvariant, <1>1, PTL

(* With forceRange, RegisterProxy leaves the range only after a port that   *)
(* FindAvailablePort drew from it was in use or refused, whatever the       *)
(* request names: the loop has at least one turn for every port of the      *)
(* range, the last one included, and for none.                              *)
THEOREM RangesLeftOnlyIfBusy == Spec => []RangeLeftOnlyIfBusy
<1>1. PortsInv => RangeLeftOnlyIfBusy
  BY DEF PortsInv, RangeKept, RangeTried, RangeLeftOnlyIfBusy
<1> QED BY PortsInvariant, <1>1, PTL
-----------------------------------------------------------------------------
(***************************************************************************)
(* The log files.  First the arithmetic: SizeOf is a fold, and Total adds  *)
(* the size of a line that is appended (TotalAppend); SizeLimit is room    *)
(* for one line of each goroutine (Limit).                                 *)
(***************************************************************************)
(* Induction, with a set of numbers in the place of a predicate. *)
LEMMA Induction ==
    ASSUME NEW P \in SUBSET Nat, 0 \in P, \A n \in P : n + 1 \in P
    PROVE  P = Nat
<1> SUFFICES ASSUME Nat \ P # {} PROVE FALSE
  OBVIOUS
<1> DEFINE R == OpToRel(<, Nat)
<1>1. \E x \in Nat \ P : \A y \in Nat \ P : ~ (<<y, x>> \in R)
  <2>1. IsWellFoundedOn(R, Nat) /\ Nat \ P \subseteq Nat
    BY NatLessThanWellFounded
  <2> HIDE DEF R
  <2> QED BY <2>1, WFMin, Zenon
<1>2. PICK x \in Nat \ P : \A y \in Nat \ P : ~ (y < x)
  BY <1>1 DEF OpToRel
<1>3. x # 0
  OBVIOUS
<1>4. x - 1 \in Nat /\ x - 1 < x
  BY <1>3
<1>5. x - 1 \in P
  BY <1>2, <1>4
<1> QED BY <1>4, <1>5

(* SizeOf, of the lines themselves. *)
Total(c) == FoldLeft(LAMBDA sum, line : sum + line.size, 0, c)

(* g adds up, for each set of places in c, the sizes that are there. *)
AddsUp(c, D, g) == g = [s \in SUBSET D |-> IF s = {} THEN 0 ELSE g[s \ {Max(s)}] + c[Max(s)].size]

(* Sets of numbers up to k + 1, with the greatest of them and without.      *)
LEMMA Intervals ==
    ASSUME NEW k \in Nat
    PROVE  /\ (1 .. k + 1) \ {k + 1} = 1 .. k /\ k + 1 \in 1 .. k + 1
           /\ \A s \in SUBSET (1 .. k + 1) : k + 1 \notin s => s \in SUBSET (1 .. k)
OBVIOUS

LEMMA MaxTop ==
    ASSUME NEW k \in Nat, NEW s \in SUBSET (1 .. k + 1), k + 1 \in s
    PROVE  Max(s) = k + 1
<1>1. \A x \in s : x \in Int /\ x <= k + 1
  OBVIOUS
<1>2. \A x \in s : (\A y \in s : x >= y) => x = k + 1
  BY <1>1
<1>3. \A y \in s : k + 1 >= y
  BY <1>1
<1> QED BY <1>2, <1>3 DEF Max

(* There is such a g for every number of places. *)
LEMMA SumExists ==
    ASSUME NEW c
    PROVE  \A k \in Nat : \E g : AddsUp(c, 1 .. k, g)
<1> DEFINE P == {k \in Nat : \E g : AddsUp(c, 1 .. k, g)}
<1>1. 0 \in P
  <2> DEFINE g == [s \in SUBSET (1 .. 0) |-> 0]
  <2>1. SUBSET (1 .. 0) = {{}}
    OBVIOUS
  <2>2. g = [s \in SUBSET (1 .. 0) |-> IF s = {} THEN 0 ELSE g[s \ {Max(s)}] + c[Max(s)].size]
    BY <2>1
  <2>3. AddsUp(c, 1 .. 0, g)
    BY <2>2 DEF AddsUp
  <2> QED BY <2>3
<1>2. ASSUME NEW k \in P PROVE k + 1 \in P
  <2>1. PICK g : AddsUp(c, 1 .. k, g)
    OBVIOUS
  <2> DEFINE h == [s \in SUBSET (1 .. k + 1) |->
                      IF k + 1 \in s THEN g[s \ {k + 1}] + c[k + 1].size ELSE g[s]]
  <2>2. ASSUME NEW s \in SUBSET (1 .. k + 1)
        PROVE  h[s] = IF s = {} THEN 0 ELSE h[s \ {Max(s)}] + c[Max(s)].size
    <3>1. CASE k + 1 \in s
      <4>1. Max(s) = k + 1
        BY <3>1, MaxTop
      <4>2. s \ {k + 1} \in SUBSET (1 .. k + 1) /\ k + 1 \notin s \ {k + 1}
        OBVIOUS
      <4>3. h[s \ {k + 1}] = g[s \ {k + 1}] /\ h[s] = g[s \ {k + 1}] + c[k + 1].size
        BY <3>1, <4>2
      <4> QED BY <3>1, <4>1, <4>3
    <3>2. CASE k + 1 \notin s
      <4>1. s \in SUBSET (1 .. k) /\ s \ {Max(s)} \in SUBSET (1 .. k + 1) /\ k + 1 \notin s \ {Max(s)}
        <5>1. s \in SUBSET (1 .. k)
          BY <3>2, Intervals
        <5> QED BY <3>2, <5>1, Zenon
      <4>2. \A r \in SUBSET (1 .. k + 1) : k + 1 \notin r => h[r] = g[r]
        OBVIOUS
      <4>3. g[s] = IF s = {} THEN 0 ELSE g[s \ {Max(s)}] + c[Max(s)].size
        BY <2>1, <4>1, Zenon DEF AddsUp
      <4> HIDE DEF h
      <4> QED BY <3>2, <4>1, <4>2, <4>3, Zenon
    <3> QED BY <3>1, <3>2
  <2>3. h = [s \in SUBSET (1 .. k + 1) |-> h[s]]
    OBVIOUS
  <2>4. AddsUp(c, 1 .. k + 1, h)
    <3> HIDE DEF h
    <3> QED BY <2>2, <2>3, Zenon DEF AddsUp
  <2>5. \E f : AddsUp(c, 1 .. k + 1, f)
    BY <2>4, Zenon
  <2> QED BY <2>5
<1>3. P = Nat
  <2> HIDE DEF P
  <2>1. P \in SUBSET Nat
    BY DEF P
  <2> QED BY <1>1, <1>2, <2>1, Induction
<1> QED BY <1>3

Agree(c, d, n) == \A i \in 1 .. n : c[i] = d[i]

(* The sum over the first j places depends on these places alone. *)
LEMMA SumUnique ==
    ASSUME NEW c, NEW d, NEW n \in Nat, NEW m \in Nat, n <= m, Agree(c, d, n),
           NEW g, AddsUp(c, 1 .. n, g), NEW h, AddsUp(d, 1 .. m, h)
    PROVE  g[1 .. n] = h[1 .. n]
<1> DEFINE P == {j \in Nat : j <= n => \A s \in SUBSET (1 .. j) : g[s] = h[s]}
<1>1. 0 \in P
  <2>1. \A s \in SUBSET (1 .. 0) : s = {}
    OBVIOUS
  <2>2. {} \in SUBSET (1 .. n) /\ {} \in SUBSET (1 .. m)
    OBVIOUS
  <2>3. g[{}] = 0 /\ h[{}] = 0
    BY <2>2 DEF AddsUp
  <2> QED BY <2>1, <2>3
<1>2. ASSUME NEW j \in P PROVE j + 1 \in P
  <2>0. j \in Nat /\ j + 1 \in Nat /\ (j + 1 <= n => j <= n)
    OBVIOUS
  <2> SUFFICES ASSUME j + 1 <= n, NEW s \in SUBSET (1 .. j + 1) PROVE g[s] = h[s]
    BY <2>0, Zenon
  <2>1. \A r \in SUBSET (1 .. j) : g[r] = h[r]
    BY <2>0, Zenon
  <2>2. CASE j + 1 \notin s
    <3>1. s \in SUBSET (1 .. j)
      BY <2>2
    <3> QED BY <2>1, <3>1
  <2>3. CASE j + 1 \in s
    <3>1. Max(s) = j + 1
      BY <2>3, MaxTop
    <3>2. s \ {j + 1} \in SUBSET (1 .. j)
      OBVIOUS
    <3>3. s \in SUBSET (1 .. n) /\ s \in SUBSET (1 .. m) /\ s # {} /\ j + 1 \in 1 .. n
      BY <2>3
    <3>4. g[s] = g[s \ {j + 1}] + c[j + 1].size
      BY <3>1, <3>3, Zenon DEF AddsUp
    <3>5. h[s] = h[s \ {j + 1}] + d[j + 1].size
      BY <3>1, <3>3, Zenon DEF AddsUp
    <3> QED BY <2>1, <3>2, <3>3, <3>4, <3>5 DEF Agree
  <2> QED BY <2>2, <2>3
<1>3. P = Nat
  <2> HIDE DEF P
  <2>1. P \in SUBSET Nat
    BY DEF P
  <2> QED BY <1>1, <1>2, <2>1, Induction
<1>4. n \in P
  BY <1>3
<1> QED BY <1>4

(* FoldLeft is that sum, over all places of c. *)
LEMMA TotalIsSum ==
    ASSUME NEW T, NEW c \in Seq(T), NEW g, AddsUp(c, 1 .. Len(c), g)
    PROVE  Total(c) = g[1 .. Len(c)]
<1> DEFINE G == CHOOSE f : AddsUp(c, DOMAIN c, f)
<1>1. Total(c) = G[DOMAIN c]
  BY DEF Total, FoldLeft, MapThenFoldSet, AddsUp
<1>2. DOMAIN c = 1 .. Len(c) /\ Len(c) \in Nat
  BY LenProperties
<1>3. AddsUp(c, 1 .. Len(c), G)
  BY <1>2, Zenon
<1>4. G[1 .. Len(c)] = g[1 .. Len(c)]
  <2>1. Agree(c, c, Len(c)) /\ Len(c) <= Len(c)
    BY <1>2 DEF Agree
  <2> HIDE DEF G
  <2> QED BY <1>2, <1>3, <2>1, SumUnique
<1> QED BY <1>1, <1>2, <1>4

LEMMA TotalEmpty == Total(<<>>) = 0
<1>1. PICK g : AddsUp(<<>>, 1 .. 0, g)
  BY SumExists
<1>2. <<>> \in Seq({}) /\ Len(<<>>) = 0 /\ 1 .. 0 = {}
  OBVIOUS
<1>3. Total(<<>>) = g[1 .. 0]
  BY <1>1, <1>2, TotalIsSum
<1>4. g[{}] = 0
  BY <1>1, <1>2 DEF AddsUp
<1> QED BY <1>2, <1>3, <1>4

(* A line more adds its length. *)
LEMMA TotalAppend ==
    ASSUME NEW T, NEW c \in Seq(T), NEW x \in T
    PROVE  Total(Append(c, x)) = Total(c) + x.size
<1> DEFINE d == Append(c, x)
           n == Len(c)
<1>1. d \in Seq(T) /\ Len(d) = n + 1 /\ n \in Nat /\ d[n + 1] = x /\ \A i \in 1 .. n : c[i] = d[i]
  BY AppendProperties
<1>2. PICK g : AddsUp(c, 1 .. n, g)
  BY <1>1, SumExists
<1>3. PICK h : AddsUp(d, 1 .. n + 1, h)
  <2>1. n + 1 \in Nat
    BY <1>1
  <2> QED BY <2>1, SumExists, Zenon
<1>4. Total(c) = g[1 .. n]
  BY <1>2, TotalIsSum, Zenon
<1>5. Total(d) = h[1 .. n + 1]
  <2>1. AddsUp(d, 1 .. Len(d), h)
    BY <1>1, <1>3, Zenon
  <2>2. Total(d) = h[1 .. Len(d)]
    BY <1>1, <2>1, TotalIsSum, Zenon
  <2> QED BY <1>1, <2>2, Zenon
<1>6. g[1 .. n] = h[1 .. n]
  <2> DEFINE m == n + 1
  <2>1. m \in Nat /\ n <= m /\ AddsUp(d, 1 .. m, h)
    BY <1>1, <1>3
  <2> HIDE DEF d, n, m
  <2>2. n \in Nat /\ Agree(c, d, n)
    BY <1>1, Zenon DEF Agree
  <2>3. AddsUp(c, 1 .. n, g)
    BY <1>2
  <2> QED BY <2>1, <2>2, <2>3, SumUnique
<1>7. h[1 .. n + 1] = h[1 .. n] + x.size
  <2>1. n \in Nat /\ (1 .. n + 1) \ {n + 1} = 1 .. n /\ n + 1 \in 1 .. n + 1
    BY <1>1, Intervals
  <2> HIDE DEF d, n
  <2>2. Max(1 .. n + 1) = n + 1
    BY <2>1, MaxTop
  <2>3. 1 .. n + 1 \in SUBSET (1 .. n + 1) /\ 1 .. n + 1 # {}
    BY <2>1, Zenon
  <2>4. h[1 .. n + 1] = h[(1 .. n + 1) \ {n + 1}] + d[n + 1].size
    BY <1>3, <2>2, <2>3, Zenon DEF AddsUp
  <2> QED BY <1>1, <2>1, <2>4, Zenon
<1> QED BY <1>4, <1>5, <1>6, <1>7
-----------------------------------------------------------------------------
(* A finite set of numbers that is not empty has a greatest one. *)
LEMMA Greatest ==
    ASSUME NEW S \in SUBSET Nat, IsFiniteSet(S), S # {}
    PROVE  Max(S) \in S /\ \A y \in S : y <= Max(S)
<1>0. PICK n \in Nat : ExistsSurjection(1 .. n, S)
  BY FS_NatSurjection
<1>1. PICK f \in [1 .. n -> S] : \A y \in S : \E i \in 1 .. n : f[i] = y
  BY <1>0 DEF ExistsSurjection, Surjection
<1>2. \A i \in 1 .. n : f[i] \in Nat
  BY <1>1
<1>5. n # 0
  <2>1. PICK y \in S : TRUE
    OBVIOUS
  <2>2. PICK i \in 1 .. n : f[i] = y
    BY <1>1
  <2> QED BY <2>2
<1> DEFINE Top(k) == k = 0 \/ n < k \/ \E j \in 1 .. k : \A i \in 1 .. k : f[i] <= f[j]
           P == {k \in Nat : Top(k)}
<1>3. ASSUME NEW k \in Nat, Top(k) PROVE Top(k + 1)
  <2>1. CASE n < k + 1
    BY <2>1
  <2>2. CASE k + 1 <= n
    <3>1. f[k + 1] \in Nat /\ \A i \in 1 .. k + 1 : f[i] \in Nat /\ (i \in 1 .. k \/ i = k + 1)
      BY <1>2, <2>2
    <3>2. CASE k = 0 \/ \A i \in 1 .. k : f[i] <= f[k + 1]
      <4>1. \A i \in 1 .. k + 1 : f[i] <= f[k + 1]
        BY <3>1, <3>2
      <4> QED BY <4>1
    <3>3. CASE ~(k = 0 \/ \A i \in 1 .. k : f[i] <= f[k + 1])
      <4>1. PICK j \in 1 .. k : \A i \in 1 .. k : f[i] <= f[j]
        BY <1>3, <2>2, <3>3
      <4>2. j \in 1 .. k + 1 /\ f[k + 1] <= f[j]
        BY <3>1, <3>3, <4>1
      <4>3. \A i \in 1 .. k + 1 : f[i] <= f[j]
        BY <3>1, <4>1, <4>2
      <4> QED BY <4>2, <4>3
    <3> QED BY <3>2, <3>3
  <2> QED BY <2>1, <2>2
<1>4. P = Nat
  <2>1. 0 \in P /\ \A k \in P : k + 1 \in P
    <3>1. Top(0)
      OBVIOUS
    <3> HIDE DEF Top
    <3> QED BY <1>3, <3>1
  <2>2. P \in SUBSET Nat
    OBVIOUS
  <2> HIDE DEF P
  <2> QED BY <2>1, <2>2, Induction
<1>6. PICK j \in 1 .. n : \A i \in 1 .. n : f[i] <= f[j]
  <2>1. Top(n)
    <3> HIDE DEF Top
    <3> QED BY <1>4
  <2> QED BY <1>5, <2>1
<1>7. f[j] \in S /\ \A y \in S : f[j] >= y
  BY <1>1, <1>2, <1>6
<1>8. Max(S) \in S /\ \A y \in S : Max(S) >= y
  BY <1>7 DEF Max
<1> QED BY <1>8

(* The bound of SizeBound, in steps of one line. *)
Most == Max(Sizes)
Room(k) == k * Most

LEMMA RoomStep ==
    /\ Most \in Nat /\ \A s \in Sizes : s \in Nat /\ s <= Most
    /\ \A k \in Nat : Room(k) \in Nat /\ Room(k + 1) = Room(k) + Most
    /\ \A k \in Nat : k >= 1 => Room(k - 1) \in Nat /\ Room(k) = Room(k - 1) + Most
    /\ \A k, m \in Nat : k <= m => Room(k) <= Room(m)
<1>1. Most \in Nat /\ \A s \in Sizes : s \in Nat /\ s <= Most
  BY RotatingFileAssumption, Greatest DEF Most
<1>2. \A k \in Nat : k * Most \in Nat /\ (k + 1) * Most = k * Most + Most
  BY <1>1
<1>3. \A k \in Nat : k >= 1 => (k - 1) * Most \in Nat /\ k * Most = (k - 1) * Most + Most
  BY <1>1
<1>4. \A k, m \in Nat : k <= m => k * Most <= m * Most
  BY <1>1
<1> QED BY <1>1, <1>2, <1>3, <1>4 DEF Room

(* SizeLimit is a file that is not full, or holds one line, and room for    *)
(* one line of each other goroutine.                                        *)
LEMMA Limit ==
    /\ Cardinality(Writers) \in Nat /\ Cardinality(Writers) >= 1
    /\ Cardinality(Writers) - 1 \in Nat
    /\ \E base \in Nat : base >= MaxBytes - 1 /\ base >= Most
                         /\ SizeLimit = base + Room(Cardinality(Writers) - 1)
<1>1. Cardinality(Writers) \in Nat /\ Cardinality(Writers) >= 1
  BY RotatingFileAssumption, FS_CardinalityType, FS_EmptySet
<1>2. Most \in Nat /\ MaxBytes - 1 \in Nat
  BY RoomStep, RotatingFileAssumption
<1> DEFINE base == Max({MaxBytes - 1, Most})
<1>3. base \in Nat /\ base >= MaxBytes - 1 /\ base >= Most
  <2>1. \E x \in {MaxBytes - 1, Most} : \A y \in {MaxBytes - 1, Most} : x >= y
    BY <1>2
  <2>2. base \in {MaxBytes - 1, Most} /\ \A y \in {MaxBytes - 1, Most} : base >= y
    BY <2>1 DEF Max
  <2> QED BY <1>2, <2>2
<1>4. SizeLimit = base + Room(Cardinality(Writers) - 1)
  BY DEF SizeLimit, Most, Room
<1> QED BY <1>1, <1>3, <1>4
-----------------------------------------------------------------------------
(***************************************************************************)
(* Types.  LogTypeInv adds to LogTypeOK that the files and the handles are *)
(* sequences, and of a call in a rotation that there are backups and that  *)
(* the loop over them is inside its bounds.  What each step does to the    *)
(* directory, the files and the handles is stated once (RenameMoves,       *)
(* Opened, Written, CloseCloses) and used in every proof below.            *)
(***************************************************************************)
Line == [n : Nat, size : Sizes]
HandleSet == [file : Nat, open : BOOLEAN]

(* What the files and the calls look like, besides LogTypeOK. *)
FilesOK == content \in Seq(Seq(Line)) /\ handle \in Seq(HandleSet)
CallsOK ==
    \A w \in Writers :
        /\ call[w].at # "idle" => call[w].size \in Sizes
        /\ call[w].at \in Rotating \cup {"stat"} => Backups > 0
        /\ call[w].at = "shift" => call[w].i \in 1 .. Backups - 1

LogTypeInv == LogTypeOK /\ FilesOK /\ CallsOK

(* What the provers need to know of these types. *)
LEMMA Shape ==
    ASSUME LogTypeInv
    PROVE  /\ Len(content) \in Nat /\ DOMAIN content = 1 .. Len(content)
           /\ Len(handle) \in Nat /\ DOMAIN handle = 1 .. Len(handle)
           /\ \A f \in 1 .. Len(content) : content[f] \in Seq(Line)
           /\ \A h \in 1 .. Len(handle) : handle[h] \in [file : 1 .. Len(content), open : BOOLEAN]
           /\ 0 \in Names /\ lines \in Nat /\ name[0] \in Nat
<1>1. Len(content) \in Nat /\ DOMAIN content = 1 .. Len(content)
  BY DEF LogTypeInv, FilesOK
<1>2. Len(handle) \in Nat /\ DOMAIN handle = 1 .. Len(handle)
  BY DEF LogTypeInv, FilesOK
<1>3. \A f \in 1 .. Len(content) : content[f] \in Seq(Line)
  BY ElementOfSeq DEF LogTypeInv, FilesOK
<1>4. \A h \in 1 .. Len(handle) : handle[h] \in [file : 1 .. Len(content), open : BOOLEAN]
  BY <1>1, <1>2 DEF LogTypeInv, LogTypeOK
<1>5. 0 \in Names
  BY RotatingFileAssumption DEF Names
<1>6. lines \in Nat
  BY RotatingFileAssumption DEF LogTypeInv, LogTypeOK
<1>7. name[0] \in Nat
  BY <1>1, <1>5 DEF LogTypeInv, LogTypeOK
<1> QED BY <1>1, <1>2, <1>3, <1>4, <1>5, <1>6, <1>7

(* What os.OpenFile does to the directory, the files and the handles hs. *)
Opened(hs) ==
    /\ content' \in Seq(Seq(Line)) /\ handle' \in Seq(HandleSet)
    /\ Len(content') \in Nat /\ Len(content) <= Len(content')
    /\ \A f \in 1 .. Len(content) : content'[f] = content[f]
    /\ \A f \in 1 .. Len(content') : f \in 1 .. Len(content) \/ content'[f] = <<>>
    /\ name' \in [Names -> 0 .. Len(content')] /\ name'[0] \in 1 .. Len(content')
    /\ \A i \in Names : i # 0 => name'[i] = name[i]
    /\ name[0] = NoFile => content'[name'[0]] = <<>> /\ name'[0] \notin 1 .. Len(content)
    /\ name[0] # NoFile => name'[0] = name[0]
    /\ file' = Len(hs) + 1 /\ Len(handle') = Len(hs) + 1
    /\ handle'[file'] = [file |-> name'[0], open |-> TRUE]
    /\ \A h \in 1 .. Len(hs) : handle'[h] = hs[h]
    /\ lines' = lines

LEMMA OpenLogOpens ==
    ASSUME LogTypeInv, NEW hs \in Seq(HandleSet), OpenLog(hs)
    PROVE  Opened(hs)
<1> DEFINE new == name[0] = NoFile
           f0 == IF new THEN Len(content) + 1 ELSE name[0]
<1>0. /\ Len(content) \in Nat /\ 0 \in Names /\ name \in [Names -> 0 .. Len(content)]
      /\ content \in Seq(Seq(Line)) /\ Len(hs) \in Nat
  BY Shape DEF LogTypeInv, LogTypeOK, FilesOK
<1>1. /\ name' = [name EXCEPT ![0] = f0]
      /\ content' = IF new THEN Append(content, <<>>) ELSE content
      /\ handle' = Append(hs, [file |-> f0, open |-> TRUE])
      /\ file' = Len(hs) + 1 /\ lines' = lines
  BY DEF OpenLog
<1>2. f0 \in Nat
  BY <1>0
<1>3. /\ handle' \in Seq(HandleSet) /\ Len(handle') = Len(hs) + 1
      /\ handle'[Len(hs) + 1] = [file |-> f0, open |-> TRUE]
      /\ \A h \in 1 .. Len(hs) : handle'[h] = hs[h]
  <2>1. [file |-> f0, open |-> TRUE] \in HandleSet
    BY <1>2 DEF HandleSet
  <2> HIDE DEF f0
  <2> QED BY <1>1, <2>1, AppendProperties
<1>4. name'[0] = f0 /\ \A i \in Names : i # 0 => name'[i] = name[i]
  BY <1>0, <1>1
<1>5. CASE new
  <2>1. <<>> \in Seq(Line)
    OBVIOUS
  <2>2. /\ content' \in Seq(Seq(Line)) /\ Len(content') = Len(content) + 1
        /\ content'[Len(content) + 1] = <<>> /\ \A f \in 1 .. Len(content) : content'[f] = content[f]
    BY <1>0, <1>1, <1>5, <2>1, AppendProperties
  <2>3. f0 = Len(content) + 1
    BY <1>5
  <2>4. name' \in [Names -> 0 .. Len(content')] /\ name'[0] \in 1 .. Len(content')
    BY <1>0, <1>1, <2>2, <2>3
  <2>5. \A f \in 1 .. Len(content') : f \in 1 .. Len(content) \/ content'[f] = <<>>
    BY <1>0, <2>2
  <2> QED BY <1>0, <1>1, <1>3, <1>4, <1>5, <2>2, <2>3, <2>4, <2>5 DEF Opened
<1>6. CASE ~new
  <2>1. f0 = name[0] /\ content' = content /\ name[0] \in 1 .. Len(content)
    BY <1>0, <1>1, <1>6 DEF NoFile
  <2>2. name' \in [Names -> 0 .. Len(content')]
    BY <1>0, <1>1, <2>1
  <2> QED BY <1>0, <1>1, <1>3, <1>4, <1>6, <2>1, <2>2 DEF Opened
<1> QED BY <1>5, <1>6

(* What os.Rename does to the directory. *)
LEMMA RenameMoves ==
    ASSUME LogTypeInv, NEW i \in Names, NEW j \in Names, i # j, Rename(i, j)
    PROVE  /\ name' \in [Names -> 0 .. Len(content)] /\ content' = content /\ lines' = lines
           /\ name'[i] = NoFile
           /\ name'[j] = IF name[i] = NoFile THEN name[j] ELSE name[i]
           /\ \A k \in Names : k # i /\ k # j => name'[k] = name[k]
<1>1. name \in [Names -> 0 .. Len(content)] /\ Len(content) \in Nat
  BY Shape, ZenonT(60) DEF LogTypeInv, LogTypeOK
<1> QED BY <1>1 DEF Rename, NoFile

(* What os.File.Write does to the files. *)
Written(f, s) ==
    /\ content' \in Seq(Seq(Line)) /\ Len(content') = Len(content)
    /\ content'[f] = Append(content[f], [n |-> lines + 1, size |-> s])
    /\ \A e \in 1 .. Len(content) : e # f => content'[e] = content[e]
    /\ lines' = lines + 1 /\ lines < MaxLines

LEMMA WriteAppends ==
    ASSUME LogTypeInv, NEW w \in Writers, WriteFile(w), IsOpen(call[w].h)
    PROVE  /\ call[w].h \in 1 .. Len(handle) /\ handle[call[w].h].file \in 1 .. Len(content)
           /\ Written(handle[call[w].h].file, call[w].size)
<1>1. call[w].h \in 1 .. Len(handle)
  BY Shape DEF LogTypeInv, LogTypeOK, IsOpen, Nil
<1> DEFINE f == handle[call[w].h].file
           line == [n |-> lines + 1, size |-> call[w].size]
<1>2. f \in 1 .. Len(content)
  BY <1>1, Shape
<1>3. line \in Line /\ content[f] \in Seq(Line)
  <2>1. call[w].size \in Sizes
    BY DEF WriteFile, LogTypeInv, CallsOK
  <2>2. lines + 1 \in Nat /\ content[f] \in Seq(Line)
    BY <1>2, Shape, SMTT(60)
  <2> QED BY <2>1, <2>2 DEF Line
<1>4. Append(content[f], line) \in Seq(Line)
  BY <1>3, AppendProperties
<1>5. content' = [content EXCEPT ![f] = Append(content[f], line)] /\ lines' = lines + 1 /\ lines < MaxLines
  BY DEF WriteFile
<1>6. content \in Seq(Seq(Line)) /\ Len(content) \in Nat
  BY Shape DEF LogTypeInv, FilesOK
<1> HIDE DEF f, line
<1>7. /\ content' \in Seq(Seq(Line)) /\ Len(content') = Len(content)
      /\ content'[f] = Append(content[f], line)
      /\ \A e \in 1 .. Len(content) : e # f => content'[e] = content[e]
  BY <1>2, <1>4, <1>5, <1>6, ExceptSeq
<1> QED BY <1>1, <1>2, <1>5, <1>7, Zenon DEF Written, f, line
-----------------------------------------------------------------------------
(* What os.File.Close does to the handles. *)
LEMMA CloseCloses ==
    ASSUME LogTypeInv, NEW w \in Writers, CloseFile(w)
    PROVE  /\ handle' \in Seq(HandleSet) /\ Len(handle') = Len(handle)
           /\ \A h \in 1 .. Len(handle) : handle'[h].file = handle[h].file
           /\ \A h \in 1 .. Len(handle) : handle'[h].open = (handle[h].open /\ h # file)
<1>1. handle \in Seq(HandleSet) /\ file \in 0 .. Len(handle) /\ Len(handle) \in Nat
  BY Shape DEF LogTypeInv, LogTypeOK, FilesOK
<1>2. \A h \in 1 .. Len(handle) : handle[h] \in HandleSet
  BY <1>1, ElementOfSeq
<1>3. CASE file = 0
  BY <1>1, <1>2, <1>3 DEF CloseFile, Nil, HandleSet
<1>4. CASE file # 0
  <2> DEFINE e == [handle[file] EXCEPT !.open = FALSE]
  <2>0. file \in 1 .. Len(handle)
    BY <1>1, <1>4
  <2>1. e \in HandleSet /\ e.file = handle[file].file /\ e.open = FALSE
    <3>1. handle[file] \in HandleSet
      BY <1>2, <2>0
    <3> QED BY <3>1 DEF HandleSet
  <2>2. handle' = [handle EXCEPT ![file] = e]
    BY <1>4 DEF CloseFile, Nil
  <2> HIDE DEF e
  <2>3. /\ handle' \in Seq(HandleSet) /\ Len(handle') = Len(handle)
        /\ \A h \in 1 .. Len(handle) : handle'[h] = IF h = file THEN e ELSE handle[h]
    BY <1>1, <2>0, <2>1, <2>2, ExceptSeq
  <2> QED BY <1>2, <2>1, <2>3 DEF HandleSet
<1> QED BY <1>3, <1>4

(* LogTypeOK speaks of the domains of sequences: what it says of lines and *)
(* handles, in terms of their lengths.                                      *)
LEMMA LinesByLength ==
    ASSUME NEW c \in Seq(Seq(Line)), NEW l
    PROVE  (\A f \in DOMAIN c : \A k \in DOMAIN c[f] : c[f][k] \in [n : 1 .. l, size : Sizes])
           <=> \A f \in 1 .. Len(c) : \A k \in 1 .. Len(c[f]) :
                   c[f][k] \in [n : 1 .. l, size : Sizes]
<1>1. DOMAIN c = 1 .. Len(c)
  OBVIOUS
<1>2. \A f \in 1 .. Len(c) : DOMAIN c[f] = 1 .. Len(c[f])
  <2>1. \A f \in 1 .. Len(c) : c[f] \in Seq(Line)
    BY ElementOfSeq
  <2> QED BY <2>1
<1> QED BY <1>1, <1>2

LEMMA HandlesByLength ==
    ASSUME NEW c \in Seq(Seq(Line)), NEW hs \in Seq(HandleSet)
    PROVE  (\A h \in DOMAIN hs : hs[h] \in [file : DOMAIN c, open : BOOLEAN])
           <=> \A h \in 1 .. Len(hs) : hs[h].file \in 1 .. Len(c)
<1>1. DOMAIN c = 1 .. Len(c) /\ DOMAIN hs = 1 .. Len(hs)
  OBVIOUS
<1>2. \A h \in 1 .. Len(hs) : hs[h] \in HandleSet
  BY ElementOfSeq
<1> QED BY <1>1, <1>2 DEF HandleSet

(* A step that leaves the disk, the handles and rf.file alone. *)
LEMMA CallTyped ==
    ASSUME LogTypeInv, UNCHANGED <<name, content, lines, handle, file, restarts>>, overlap' \in BOOLEAN,
           call' \in [Writers -> [at : CallLabels, size : Sizes \cup {0}, i : Names,
                                  h : 0 .. Len(handle)]],
           CallsOK'
    PROVE  LogTypeInv'
<1>1. FilesOK'
  BY DEF LogTypeInv, FilesOK
<1>2. LogTypeOK'
  BY Zenon DEF LogTypeInv, LogTypeOK
<1> QED BY <1>1, <1>2 DEF LogTypeInv

(* The calls and the bounds that are left, when nothing is said of the disk. *)
RestOK ==
    /\ file \in 0 .. Len(handle)
    /\ call \in [Writers -> [at : CallLabels, size : Sizes \cup {0}, i : Names, h : 0 .. Len(handle)]]
    /\ overlap \in BOOLEAN /\ lines \in 0 .. MaxLines /\ restarts \in 0 .. MaxRestarts

(* Types after the step, and before it, with lengths in place of domains. *)
LEMMA Retyped ==
    ASSUME content' \in Seq(Seq(Line)), handle' \in Seq(HandleSet), RestOK', CallsOK',
           name' \in [Names -> 0 .. Len(content')],
           \A f \in 1 .. Len(content') : \A k \in 1 .. Len(content'[f]) :
               content'[f][k] \in [n : 1 .. lines', size : Sizes],
           \A h \in 1 .. Len(handle') : handle'[h].file \in 1 .. Len(content')
    PROVE  LogTypeInv'
<1>1. \A f \in DOMAIN content' : \A k \in DOMAIN content'[f] :
          content'[f][k] \in [n : 1 .. lines', size : Sizes]
  BY LinesByLength
<1>2. \A h \in DOMAIN handle' : handle'[h] \in [file : DOMAIN content', open : BOOLEAN]
  BY HandlesByLength
<1>3. LogTypeOK'
  BY <1>1, <1>2, Zenon DEF LogTypeOK, RestOK
<1> QED BY <1>3, Zenon DEF LogTypeInv, FilesOK

LEMMA Typed ==
    ASSUME LogTypeInv
    PROVE  /\ RestOK /\ CallsOK /\ content \in Seq(Seq(Line)) /\ handle \in Seq(HandleSet)
           /\ name \in [Names -> 0 .. Len(content)]
           /\ \A f \in 1 .. Len(content) : \A k \in 1 .. Len(content[f]) :
                  content[f][k] \in [n : 1 .. lines, size : Sizes]
           /\ \A h \in 1 .. Len(handle) : handle[h].file \in 1 .. Len(content)
<1>1. content \in Seq(Seq(Line)) /\ handle \in Seq(HandleSet)
  BY DEF LogTypeInv, FilesOK
<1>2. \A f \in 1 .. Len(content) : \A k \in 1 .. Len(content[f]) :
           content[f][k] \in [n : 1 .. lines, size : Sizes]
  BY <1>1, LinesByLength DEF LogTypeInv, LogTypeOK
<1>3. \A h \in 1 .. Len(handle) : handle[h].file \in 1 .. Len(content)
  BY <1>1, HandlesByLength DEF LogTypeInv, LogTypeOK
<1> QED BY <1>1, <1>2, <1>3, Zenon DEF LogTypeInv, LogTypeOK, RestOK

(* A name that is taken is one of a file. *)
LEMMA Named ==
    ASSUME LogTypeInv
    PROVE  \A i \in Names : name[i] = NoFile \/ name[i] \in 1 .. Len(content)
<1>1. name \in [Names -> 0 .. Len(content)] /\ Len(content) \in Nat
  BY Typed, Shape
<1> QED BY <1>1 DEF NoFile

LEMMA LogInitTyped ==
    ASSUME LogInit PROVE LogTypeInv
<1>1. content = <<<<>>>> /\ handle = <<[file |-> 1, open |-> TRUE]>> /\ file = 1
      /\ name = [i \in Names |-> IF i = 0 THEN 1 ELSE NoFile] /\ call = [w \in Writers |-> Idle]
      /\ overlap = FALSE /\ lines = 0 /\ restarts = 0
  BY DEF LogInit
<1>2. FilesOK /\ Len(content) = 1 /\ Len(handle) = 1
  <2>1. <<>> \in Seq(Line) /\ [file |-> 1, open |-> TRUE] \in HandleSet
    BY DEF HandleSet
  <2>2. \A T : \A x \in T : <<x>> \in Seq(T) /\ Len(<<x>>) = 1
    OBVIOUS
  <2>3. content \in Seq(Seq(Line)) /\ Len(content) = 1
    BY <1>1, <2>1, <2>2, Zenon
  <2>4. handle \in Seq(HandleSet) /\ Len(handle) = 1
    BY <1>1, <2>1, <2>2, Zenon
  <2> QED BY <2>3, <2>4 DEF FilesOK
<1>3. \A w \in Writers : call[w] = Idle
  BY <1>1
<1>4. CallsOK
  <2>1. Idle.at = "idle" /\ "idle" \notin Rotating \cup {"stat"} /\ "idle" # "shift"
    BY DEF Idle, Rotating
  <2> QED BY <1>3, <2>1, Zenon DEF CallsOK
<1>5. Idle \in [at : CallLabels, size : Sizes \cup {0}, i : Names, h : 0 .. Len(handle)]
  <2>1. "idle" \in CallLabels /\ 0 \in Names /\ 0 \in 0 .. Len(handle)
    BY <1>2, RotatingFileAssumption DEF CallLabels, Names
  <2> QED BY <2>1 DEF Idle, Nil
<1>6. name \in [Names -> 0 .. Len(content)]
  BY <1>1, <1>2 DEF NoFile
<1>7. RestOK
  <2>1. file \in 0 .. Len(handle) /\ lines \in 0 .. MaxLines /\ restarts \in 0 .. MaxRestarts
    BY <1>1, <1>2, RotatingFileAssumption
  <2> QED BY <1>1, <1>5, <2>1, Zenon DEF RestOK
<1>8. \A f \in DOMAIN content : \A k \in DOMAIN content[f] :
          content[f][k] \in [n : 1 .. lines, size : Sizes]
  BY <1>1
<1>9. \A h \in DOMAIN handle : handle[h] \in [file : DOMAIN content, open : BOOLEAN]
  <2>1. \A h \in 1 .. Len(handle) : handle[h].file \in 1 .. Len(content)
    BY <1>1, <1>2
  <2> QED BY <1>2, <2>1, HandlesByLength DEF FilesOK
<1> QED BY <1>2, <1>4, <1>6, <1>7, <1>8, <1>9, Zenon DEF LogTypeInv, LogTypeOK, RestOK
-----------------------------------------------------------------------------
Calls(len) == [at : CallLabels, size : Sizes \cup {0}, i : Names, h : 0 .. len]

(* One call changes: it is a call again, and what CallsOK says of it holds. *)
CallOK(c) ==
    /\ c.at # "idle" => c.size \in Sizes
    /\ c.at \in Rotating \cup {"stat"} => Backups > 0
    /\ c.at = "shift" => c.i \in 1 .. Backups - 1

LEMMA OneCall ==
    ASSUME LogTypeInv, NEW w \in Writers, NEW len \in Nat, Len(handle) <= len,
           NEW c \in Calls(len), CallOK(c), call' = [call EXCEPT ![w] = c]
    PROVE  call' \in [Writers -> Calls(len)] /\ CallsOK'
<1>1. Len(handle) \in Nat /\ call \in [Writers -> Calls(Len(handle))] /\ CallsOK
  BY Shape DEF LogTypeInv, LogTypeOK, Calls
<1>2. 0 .. Len(handle) \subseteq 0 .. len
  BY <1>1
<1>3. Calls(Len(handle)) \subseteq Calls(len)
  BY <1>2 DEF Calls
<1>4. call' \in [Writers -> Calls(len)]
  BY <1>1, <1>3
<1>5. \A v \in Writers : call'[v] = IF v = w THEN c ELSE call[v]
  BY <1>1
<1>6. CallsOK'
  BY <1>1, <1>5, Zenon DEF CallsOK, CallOK
<1> QED BY <1>4, <1>6

LEMMA CallShape ==
    ASSUME LogTypeInv, NEW w \in Writers
    PROVE  call[w] \in Calls(Len(handle)) /\ CallOK(call[w]) /\ Len(handle) \in Nat
BY Shape DEF LogTypeInv, LogTypeOK, CallsOK, CallOK, Calls

(* An advance keeps the rest of the call. *)
LEMMA AdvanceOK ==
    ASSUME LogTypeInv, NEW w \in Writers, NEW from, NEW to, from # "idle", to \in CallLabels,
           to # "shift", to # "stat", from \in Rotating \/ to \notin Rotating, Advance(w, from, to)
    PROVE  \E c \in Calls(Len(handle)) :
              /\ CallOK(c) /\ call' = [call EXCEPT ![w] = c]
              /\ c.at = to /\ c.size = call[w].size /\ c.h = call[w].h
<1>1. call[w] \in Calls(Len(handle)) /\ CallOK(call[w]) /\ call[w].at = from
  BY CallShape DEF Advance
<1> DEFINE c == [call[w] EXCEPT !.at = to]
<1>2. c \in Calls(Len(handle)) /\ c.at = to /\ c.size = call[w].size /\ c.h = call[w].h
  BY <1>1 DEF Calls
<1>3. CallOK(c)
  BY <1>1, <1>2 DEF CallOK
<1>4. call' = [call EXCEPT ![w] = c]
  BY DEF Advance
<1> QED BY <1>2, <1>3, <1>4
-----------------------------------------------------------------------------
(* The disk, the handles and rf.file stay: the new call decides. *)
LEMMA QuietTyped ==
    ASSUME LogTypeInv, UNCHANGED <<disk, handle, file, restarts>>, overlap' \in BOOLEAN,
           NEW w \in Writers, NEW c \in Calls(Len(handle)), CallOK(c), call' = [call EXCEPT ![w] = c]
    PROVE  LogTypeInv'
<1>1. call' \in [Writers -> Calls(Len(handle))] /\ CallsOK'
  <2>1. Len(handle) \in Nat /\ Len(handle) <= Len(handle)
    BY Shape
  <2> QED BY <2>1, OneCall
<1> QED BY <1>1, CallTyped, Zenon DEF disk, Calls

LEMMA IdleCall ==
    ASSUME NEW len \in Nat PROVE Idle \in Calls(len) /\ CallOK(Idle)
<1>1. "idle" \in CallLabels /\ 0 \in Names /\ 0 \in 0 .. len
  BY RotatingFileAssumption DEF CallLabels, Names
<1>2. Idle \in Calls(len)
  BY <1>1 DEF Idle, Nil, Calls
<1>3. CallOK(Idle)
  BY DEF Idle, CallOK, Rotating
<1> QED BY <1>2, <1>3

LEMMA WriteTyped ==
    ASSUME LogTypeInv, NEW w \in Writers, Write(w) PROVE LogTypeInv'
<1>1. PICK n \in Sizes : call' = [call EXCEPT ![w] = [Idle EXCEPT
          !.at = IF Backups < 1 THEN "load" ELSE "stat", !.size = n]]
  BY DEF Write
<1> DEFINE c == [Idle EXCEPT !.at = IF Backups < 1 THEN "load" ELSE "stat", !.size = n]
<1>2. c.at = (IF Backups < 1 THEN "load" ELSE "stat") /\ c.size = n
  BY DEF Idle
<1>3. c \in Calls(Len(handle))
  <2>1. Idle \in Calls(Len(handle))
    BY Shape, IdleCall
  <2>2. (IF Backups < 1 THEN "load" ELSE "stat") \in CallLabels /\ n \in Sizes \cup {0}
    BY DEF CallLabels
  <2> QED BY <2>1, <2>2 DEF Calls
<1>4. CallOK(c)
  <2> HIDE DEF c
  <2> QED BY <1>2, RotatingFileAssumption DEF CallOK, Rotating
<1>5. UNCHANGED <<disk, handle, file, overlap, restarts>> /\ overlap \in BOOLEAN
  BY DEF Write, LogTypeInv, LogTypeOK
<1> QED BY <1>1, <1>3, <1>4, <1>5, QuietTyped

LEMMA StatTyped ==
    ASSUME LogTypeInv, NEW w \in Writers, Stat(w) PROVE LogTypeInv'
<1> DEFINE rotate == IsOpen(file) /\ Full(w)
           c == [call[w] EXCEPT !.at = IF ~rotate THEN "load"
                                       ELSE IF Backups > 1 THEN "shift" ELSE "close",
                                !.i = IF rotate THEN Backups - 1 ELSE 0]
<1>1. call' = [call EXCEPT ![w] = c] /\ call[w].at = "stat"
  BY DEF Stat
<1>2. call[w] \in Calls(Len(handle)) /\ CallOK(call[w])
  BY CallShape
<1>3. Backups \in Nat /\ Backups > 0 /\ call[w].size \in Sizes
  BY <1>1, <1>2, RotatingFileAssumption DEF CallOK
<1> HIDE DEF rotate
<1>4. /\ c.at = IF ~rotate THEN "load" ELSE IF Backups > 1 THEN "shift" ELSE "close"
      /\ c.i = (IF rotate THEN Backups - 1 ELSE 0) /\ c.size = call[w].size
  BY <1>2 DEF Calls
<1>5. c \in Calls(Len(handle))
  <2>1. (IF ~rotate THEN "load" ELSE IF Backups > 1 THEN "shift" ELSE "close") \in CallLabels
    BY DEF CallLabels
  <2>2. (IF rotate THEN Backups - 1 ELSE 0) \in Names
    BY <1>3 DEF Names
  <2> QED BY <1>2, <2>1, <2>2 DEF Calls
<1>6. CallOK(c)
  <2> HIDE DEF c
  <2> QED BY <1>3, <1>4 DEF CallOK
<1>7. UNCHANGED <<disk, handle, file, restarts>> /\ overlap' \in BOOLEAN
  BY DEF Stat
<1> HIDE DEF c
<1> QED BY <1>1, <1>5, <1>6, <1>7, QuietTyped

LEMMA LoadTyped ==
    ASSUME LogTypeInv, NEW w \in Writers, Load(w) PROVE LogTypeInv'
<1> DEFINE c == [call[w] EXCEPT !.at = "write", !.h = file]
<1>1. call' = [call EXCEPT ![w] = c] /\ call[w].at = "load"
  BY DEF Load
<1>2. call[w] \in Calls(Len(handle)) /\ CallOK(call[w])
  BY CallShape
<1>3. c.at = "write" /\ c.size = call[w].size /\ c \in Calls(Len(handle))
  BY <1>2 DEF Calls, CallLabels, LogTypeInv, LogTypeOK
<1>4. CallOK(c)
  <2> HIDE DEF c
  <2> QED BY <1>1, <1>2, <1>3 DEF CallOK, Rotating
<1>5. UNCHANGED <<disk, handle, file, overlap, restarts>> /\ overlap \in BOOLEAN
  BY DEF Load, LogTypeInv, LogTypeOK
<1> HIDE DEF c
<1> QED BY <1>1, <1>3, <1>4, <1>5, QuietTyped

(* A rename, by either of the two renaming steps. *)
LEMMA RenameTyped ==
    ASSUME LogTypeInv, NEW i \in Names, NEW j \in Names, i # j, Rename(i, j),
           UNCHANGED <<handle, file, overlap, restarts>>,
           NEW w \in Writers, NEW c \in Calls(Len(handle)), CallOK(c), call' = [call EXCEPT ![w] = c]
    PROVE  LogTypeInv'
<1>1. name' \in [Names -> 0 .. Len(content)] /\ content' = content /\ lines' = lines
  BY RenameMoves
<1>2. call' \in [Writers -> Calls(Len(handle))] /\ CallsOK'
  <2>1. Len(handle) \in Nat /\ Len(handle) <= Len(handle)
    BY Shape
  <2> QED BY <2>1, OneCall
<1>3. LogTypeOK'
  BY <1>1, <1>2, Zenon DEF LogTypeInv, LogTypeOK, Calls
<1>4. FilesOK'
  BY <1>1 DEF LogTypeInv, FilesOK
<1> QED BY <1>2, <1>3, <1>4 DEF LogTypeInv

LEMMA ShiftTyped ==
    ASSUME LogTypeInv, NEW w \in Writers, Shift(w) PROVE LogTypeInv'
<1> DEFINE c == [call[w] EXCEPT !.i = @ - 1, !.at = IF call[w].i > 1 THEN "shift" ELSE "close"]
<1>1. /\ call' = [call EXCEPT ![w] = c] /\ call[w].at = "shift"
      /\ Rename(call[w].i, call[w].i + 1) /\ UNCHANGED <<handle, file, overlap, restarts>>
  BY DEF Shift
<1>2. call[w] \in Calls(Len(handle)) /\ CallOK(call[w])
  BY CallShape
<1>3. Backups \in Nat /\ call[w].i \in 1 .. Backups - 1 /\ call[w].size \in Sizes
  BY <1>1, <1>2, RotatingFileAssumption DEF CallOK
<1>4. /\ c.at = (IF call[w].i > 1 THEN "shift" ELSE "close") /\ c.i = call[w].i - 1
      /\ c.size = call[w].size
  BY <1>2 DEF Calls
<1>5. c \in Calls(Len(handle))
  <2>1. (IF call[w].i > 1 THEN "shift" ELSE "close") \in CallLabels
    BY DEF CallLabels
  <2>2. call[w].i - 1 \in Names
    BY <1>3 DEF Names
  <2> QED BY <1>2, <2>1, <2>2 DEF Calls
<1>6. CallOK(c)
  <2> HIDE DEF c
  <2> QED BY <1>3, <1>4 DEF CallOK
<1>7. call[w].i \in Names /\ call[w].i + 1 \in Names /\ call[w].i # call[w].i + 1
  BY <1>3 DEF Names
<1> HIDE DEF c
<1> QED BY <1>1, <1>5, <1>6, <1>7, RenameTyped

LEMMA RenameFileTyped ==
    ASSUME LogTypeInv, NEW w \in Writers, RenameFile(w) PROVE LogTypeInv'
<1>1. PICK c \in Calls(Len(handle)) : CallOK(c) /\ call' = [call EXCEPT ![w] = c]
  <2>1. Advance(w, "rename", "open") /\ "open" \in CallLabels /\ "rename" \in Rotating
    BY DEF RenameFile, CallLabels, Rotating
  <2>2. "rename" # "idle" /\ "open" # "shift" /\ "open" # "stat"
    OBVIOUS
  <2> QED BY <2>1, <2>2, AdvanceOK, Zenon
<1>2. 0 \in Names /\ 1 \in Names
  <2>1. call[w].at = "rename" /\ CallOK(call[w])
    BY CallShape DEF RenameFile, Advance
  <2> QED BY <2>1, RotatingFileAssumption DEF CallOK, Rotating, Names
<1>3. Rename(0, 1) /\ 0 # 1 /\ UNCHANGED <<handle, file, overlap, restarts>>
  BY DEF RenameFile
<1> QED BY <1>1, <1>2, <1>3, RenameTyped
-----------------------------------------------------------------------------
LEMMA CloseFileTyped ==
    ASSUME LogTypeInv, NEW w \in Writers, CloseFile(w) PROVE LogTypeInv'
<1>1. PICK c \in Calls(Len(handle)) : CallOK(c) /\ call' = [call EXCEPT ![w] = c]
  <2>1. Advance(w, "close", "rename") /\ "rename" \in CallLabels /\ "close" \in Rotating
    BY DEF CloseFile, CallLabels, Rotating
  <2>2. "close" # "idle" /\ "rename" # "shift" /\ "rename" # "stat"
    OBVIOUS
  <2> QED BY <2>1, <2>2, AdvanceOK, Zenon
<1>2. call' \in [Writers -> Calls(Len(handle))] /\ CallsOK'
  <2>1. Len(handle) \in Nat /\ Len(handle) <= Len(handle)
    BY Shape
  <2> QED BY <1>1, <2>1, OneCall
<1>3. /\ handle' \in Seq(HandleSet) /\ Len(handle') = Len(handle)
      /\ \A h \in 1 .. Len(handle) : handle'[h].file = handle[h].file
  BY CloseCloses
<1>4. UNCHANGED <<name, content, lines, file, overlap, restarts>>
  BY DEF CloseFile, disk
<1>5. RestOK'
  <2>1. RestOK
    BY Typed
  <2> QED BY <1>2, <1>3, <1>4, <2>1, Zenon DEF RestOK, Calls
<1>6. \A h \in 1 .. Len(handle') : handle'[h].file \in 1 .. Len(content')
  BY <1>3, <1>4, Typed
<1>7. /\ content' \in Seq(Seq(Line)) /\ name' \in [Names -> 0 .. Len(content')]
      /\ \A f \in 1 .. Len(content') : \A k \in 1 .. Len(content'[f]) :
             content'[f][k] \in [n : 1 .. lines', size : Sizes]
  BY <1>4, Typed, Zenon
<1> QED BY <1>2, <1>3, <1>5, <1>6, <1>7, Retyped, Zenon

(* os.OpenFile, whichever handles the process has; the lines stay. *)
LEMMA OpenedTyped ==
    ASSUME LogTypeInv, NEW hs \in Seq(HandleSet), Opened(hs),
           \A h \in 1 .. Len(hs) : hs[h].file \in 1 .. Len(content),
           call' \in [Writers -> Calls(Len(hs) + 1)], CallsOK',
           overlap' = overlap, restarts' \in 0 .. MaxRestarts
    PROVE  LogTypeInv'
<1>0. Len(hs) \in Nat /\ Len(content) \in Nat
  BY Shape
<1>1. /\ content' \in Seq(Seq(Line)) /\ handle' \in Seq(HandleSet)
      /\ name' \in [Names -> 0 .. Len(content')] /\ lines' = lines
      /\ file' = Len(hs) + 1 /\ Len(handle') = Len(hs) + 1
      /\ Len(content') \in Nat /\ Len(content) <= Len(content')
  BY DEF Opened
<1>2. RestOK'
  <2>1. RestOK
    BY Typed
  <2>2. file' \in 0 .. Len(handle')
    BY <1>0, <1>1
  <2> QED BY <1>1, <2>1, <2>2, Zenon DEF RestOK, Calls
<1>3. \A f \in 1 .. Len(content') : \A k \in 1 .. Len(content'[f]) :
             content'[f][k] \in [n : 1 .. lines', size : Sizes]
  <2> SUFFICES ASSUME NEW f \in 1 .. Len(content'), NEW k \in 1 .. Len(content'[f])
               PROVE  content'[f][k] \in [n : 1 .. lines', size : Sizes]
    OBVIOUS
  <2>1. content'[f] # <<>>
    OBVIOUS
  <2>2. f \in 1 .. Len(content) /\ content'[f] = content[f]
    BY <2>1 DEF Opened
  <2> QED BY <1>1, <2>2, Typed
<1>4. \A h \in 1 .. Len(handle') : handle'[h].file \in 1 .. Len(content')
  <2> SUFFICES ASSUME NEW h \in 1 .. Len(handle') PROVE handle'[h].file \in 1 .. Len(content')
    OBVIOUS
  <2>1. CASE h \in 1 .. Len(hs)
    <3>1. handle'[h] = hs[h]
      BY <2>1 DEF Opened
    <3> QED BY <1>0, <1>1, <2>1, <3>1
  <2>2. CASE h = file'
    <3>1. handle'[h].file = name'[0] /\ name'[0] \in 1 .. Len(content')
      BY <2>2 DEF Opened
    <3> QED BY <3>1
  <2> QED BY <1>0, <1>1, <2>1, <2>2
<1> QED BY <1>1, <1>2, <1>3, <1>4, Retyped, Zenon

LEMMA OpenFileTyped ==
    ASSUME LogTypeInv, NEW w \in Writers, OpenFile(w) PROVE LogTypeInv'
<1>1. PICK c \in Calls(Len(handle)) : CallOK(c) /\ call' = [call EXCEPT ![w] = c]
  <2>1. Advance(w, "open", "load") /\ "load" \in CallLabels /\ "open" \in Rotating
    BY DEF OpenFile, CallLabels, Rotating
  <2>2. "open" # "idle" /\ "load" # "shift" /\ "load" # "stat"
    OBVIOUS
  <2> QED BY <2>1, <2>2, AdvanceOK, Zenon
<1>2. call' \in [Writers -> Calls(Len(handle) + 1)] /\ CallsOK'
  <2>1. Len(handle) \in Nat /\ Len(handle) + 1 \in Nat /\ Len(handle) <= Len(handle) + 1
    BY Shape
  <2>2. c \in Calls(Len(handle) + 1)
    <3>1. 0 .. Len(handle) \subseteq 0 .. Len(handle) + 1
      BY <2>1
    <3> QED BY <3>1 DEF Calls
  <2> QED BY <1>1, <2>1, <2>2, OneCall
<1>3. OpenLog(handle) /\ UNCHANGED <<overlap, restarts>>
  BY DEF OpenFile
<1>4. /\ handle \in Seq(HandleSet) /\ restarts \in 0 .. MaxRestarts
      /\ \A h \in 1 .. Len(handle) : handle[h].file \in 1 .. Len(content)
  BY Typed DEF RestOK
<1>5. Opened(handle)
  BY <1>3, <1>4, OpenLogOpens
<1> QED BY <1>2, <1>3, <1>4, <1>5, OpenedTyped, Zenon

LEMMA OpenFailsTyped ==
    ASSUME LogTypeInv, NEW w \in Writers, OpenFails(w) PROVE LogTypeInv'
<1>1. PICK c \in Calls(Len(handle)) : CallOK(c) /\ call' = [call EXCEPT ![w] = c]
  <2>1. Advance(w, "open", "load") /\ "load" \in CallLabels /\ "open" \in Rotating
    BY DEF OpenFails, CallLabels, Rotating
  <2>2. "open" # "idle" /\ "load" # "shift" /\ "load" # "stat"
    OBVIOUS
  <2> QED BY <2>1, <2>2, AdvanceOK, Zenon
<1>2. call' \in [Writers -> Calls(Len(handle))] /\ CallsOK'
  <2>1. Len(handle) \in Nat /\ Len(handle) <= Len(handle)
    BY Shape
  <2> QED BY <1>1, <2>1, OneCall
<1>3. UNCHANGED <<name, content, lines, handle, overlap, restarts>> /\ file' = 0
  BY DEF OpenFails, disk, Nil
<1>4. RestOK'
  <2>1. RestOK
    BY Typed
  <2>2. file' \in 0 .. Len(handle')
    BY <1>3, Shape
  <2> QED BY <1>2, <1>3, <2>1, <2>2, Zenon DEF RestOK, Calls
<1>5. /\ content' \in Seq(Seq(Line)) /\ name' \in [Names -> 0 .. Len(content')]
      /\ handle' \in Seq(HandleSet)
      /\ \A f \in 1 .. Len(content') : \A k \in 1 .. Len(content'[f]) :
             content'[f][k] \in [n : 1 .. lines', size : Sizes]
      /\ \A h \in 1 .. Len(handle') : handle'[h].file \in 1 .. Len(content')
  BY <1>3, Typed, Zenon
<1> QED BY <1>2, <1>4, <1>5, Retyped, Zenon

LEMMA RestartTyped ==
    ASSUME LogTypeInv, Restart PROVE LogTypeInv'
<1>1. <<>> \in Seq(HandleSet) /\ Len(<<>>) = 0
  OBVIOUS
<1>2. OpenLog(<<>>) /\ restarts' = restarts + 1 /\ restarts < MaxRestarts /\ overlap' = overlap
      /\ call' = [v \in Writers |-> Idle]
  BY DEF Restart
<1>3. Opened(<<>>)
  BY <1>1, <1>2, OpenLogOpens
<1>4. call' \in [Writers -> Calls(Len(<<>>) + 1)] /\ CallsOK'
  <2>1. Idle \in Calls(1) /\ CallOK(Idle)
    BY IdleCall
  <2>2. \A v \in Writers : call'[v] = Idle
    BY <1>2
  <2>3. CallsOK'
    BY <2>1, <2>2, Zenon DEF CallsOK, CallOK
  <2>4. Len(<<>>) + 1 = 1
    OBVIOUS
  <2> QED BY <1>2, <2>1, <2>3, <2>4
<1>5. restarts' \in 0 .. MaxRestarts
  BY <1>2, Typed, RotatingFileAssumption DEF RestOK
<1>6. \A h \in 1 .. Len(<<>>) : <<>>[h].file \in 1 .. Len(content)
  BY <1>1
<1> QED BY <1>1, <1>2, <1>3, <1>4, <1>5, <1>6, OpenedTyped, Zenon

(* What File.Write does to the files and the numbers of lines, or nothing. *)
LEMMA WriteFileTyped ==
    ASSUME LogTypeInv, NEW w \in Writers, WriteFile(w) PROVE LogTypeInv'
<1>1. call' \in [Writers -> Calls(Len(handle))] /\ CallsOK'
  <2>1. Len(handle) \in Nat /\ Len(handle) <= Len(handle)
    BY Shape
  <2>2. Idle \in Calls(Len(handle)) /\ CallOK(Idle)
    BY <2>1, IdleCall
  <2>3. call' = [call EXCEPT ![w] = Idle]
    BY DEF WriteFile
  <2> QED BY <2>1, <2>2, <2>3, OneCall
<1>2. UNCHANGED <<name, handle, file, overlap, restarts>>
  BY DEF WriteFile
<1>3. CASE ~IsOpen(call[w].h)
  <2>1. UNCHANGED <<content, lines>>
    BY <1>3 DEF WriteFile
  <2> QED BY <1>1, <1>2, <2>1, CallTyped, Typed, Zenon DEF RestOK, Calls
<1>4. CASE IsOpen(call[w].h)
  <2> DEFINE f == handle[call[w].h].file
             line == [n |-> lines + 1, size |-> call[w].size]
  <2>1. f \in 1 .. Len(content) /\ Written(f, call[w].size)
    BY <1>4, WriteAppends
  <2> HIDE DEF f
  <2>2. /\ content' \in Seq(Seq(Line)) /\ Len(content') = Len(content)
        /\ content'[f] = Append(content[f], line)
        /\ \A e \in 1 .. Len(content) : e # f => content'[e] = content[e]
        /\ lines' = lines + 1 /\ lines < MaxLines
    BY <2>1 DEF Written
  <2>3. lines \in Nat /\ lines' \in 0 .. MaxLines
    <3>1. lines \in Nat
      BY Shape
    <3>2. MaxLines \in Nat /\ lines' = lines + 1 /\ lines < MaxLines
      BY <2>2, RotatingFileAssumption
    <3> QED BY <3>1, <3>2
  <2>4. RestOK'
    <3>1. RestOK
      BY Typed
    <3> QED BY <1>1, <1>2, <2>3, <3>1, Zenon DEF RestOK, Calls
  <2>5. line \in [n : 1 .. lines', size : Sizes]
    <3>1. call[w].size \in Sizes
      BY CallShape DEF CallOK, WriteFile
    <3>2. lines + 1 \in 1 .. lines'
      BY <2>2, <2>3
    <3> QED BY <3>1, <3>2
  <2>6. \A e \in 1 .. Len(content') : \A k \in 1 .. Len(content'[e]) :
             content'[e][k] \in [n : 1 .. lines', size : Sizes]
    <3> SUFFICES ASSUME NEW e \in 1 .. Len(content'), NEW k \in 1 .. Len(content'[e])
                 PROVE  content'[e][k] \in [n : 1 .. lines', size : Sizes]
      OBVIOUS
    <3> HIDE DEF line
    <3>0. /\ e \in 1 .. Len(content) /\ content[e] \in Seq(Line)
          /\ \A m \in 1 .. Len(content[e]) : content[e][m] \in [n : 1 .. lines, size : Sizes]
      BY <2>2, Shape, Typed
    <3>1. [n : 1 .. lines, size : Sizes] \subseteq [n : 1 .. lines', size : Sizes]
      <4>1. 1 .. lines \subseteq 1 .. lines'
        BY <2>2, <2>3
      <4> QED BY <4>1
    <3>2. CASE e # f
      BY <2>2, <3>0, <3>1, <3>2
    <3>3. CASE e = f
      <4>1. line \in Line
        BY <2>5, <2>3 DEF Line
      <4>2. /\ content'[e] = Append(content[e], line) /\ Len(Append(content[e], line)) = Len(content[e]) + 1
            /\ \A m \in 1 .. Len(content[e]) : Append(content[e], line)[m] = content[e][m]
            /\ Append(content[e], line)[Len(content[e]) + 1] = line
        BY <2>2, <3>0, <3>3, <4>1, AppendProperties
      <4>3. k \in 1 .. Len(content[e]) \/ k = Len(content[e]) + 1
        BY <3>0, <4>2
      <4> QED BY <2>5, <3>0, <3>1, <4>2, <4>3
    <3> QED BY <3>2, <3>3
  <2>7. \A h \in 1 .. Len(handle') : handle'[h].file \in 1 .. Len(content')
    BY <1>2, <2>2, Typed
  <2>8. name' \in [Names -> 0 .. Len(content')] /\ handle' \in Seq(HandleSet)
    BY <1>2, <2>2, Typed
  <2> QED BY <1>1, <2>2, <2>4, <2>6, <2>7, <2>8, Retyped, Zenon
<1> QED BY <1>3, <1>4

(* Every step keeps the types. *)
LEMMA LogStepTyped ==
    ASSUME LogTypeInv, [LogNext]_logVars PROVE LogTypeInv'
<1>1. CASE UNCHANGED logVars
  BY <1>1, CallTyped, Typed, Zenon DEF logVars, disk, RestOK, CallsOK
<1>2. ASSUME NEW w \in Writers, Write(w) PROVE LogTypeInv'
  BY <1>2, WriteTyped
<1>3. ASSUME NEW w \in Writers, Stat(w) PROVE LogTypeInv'
  BY <1>3, StatTyped
<1>4. ASSUME NEW w \in Writers, Rotate(w) PROVE LogTypeInv'
  BY <1>4, ShiftTyped, CloseFileTyped, RenameFileTyped, OpenFileTyped, OpenFailsTyped DEF Rotate
<1>5. ASSUME NEW w \in Writers, Load(w) PROVE LogTypeInv'
  BY <1>5, LoadTyped
<1>6. ASSUME NEW w \in Writers, WriteFile(w) PROVE LogTypeInv'
  BY <1>6, WriteFileTyped
<1>7. CASE Restart
  BY <1>7, RestartTyped
<1> QED BY <1>1, <1>2, <1>3, <1>4, <1>5, <1>6, <1>7 DEF LogNext

LEMMA LogTypeInvariance == LogSpec => []LogTypeInv
BY LogInitTyped, LogStepTyped, PTL DEF LogSpec

(* Directory, files, handles and calls have their types: no rename of the  *)
(* loop over the backups leaves the names, no call uses a handle that does *)
(* not exist, and every line of a file is numbered.                        *)
THEOREM LogTypeCorrect == LogSpec => []LogTypeOK
<1>1. LogTypeInv => LogTypeOK
  BY DEF LogTypeInv
<1> QED BY <1>1, LogTypeInvariance, PTL
-----------------------------------------------------------------------------
(***************************************************************************)
(* Rotations.  The fields of the call that a step changes come first; then *)
(* the invariant: no file has two names, and as long as no two rotations   *)
(* have overlapped, the one that is open is the log, nothing is open while *)
(* the log is renamed, and the next name of the one rotation is free.      *)
(***************************************************************************)
(* Only the call of w goes on. *)
Alone(w) == \A v \in Writers : v # w => call'[v] = call[v]

LEMMA AdvanceDoes ==
    ASSUME LogTypeInv, NEW w \in Writers, NEW from, NEW to, Advance(w, from, to)
    PROVE  /\ Alone(w) /\ call[w].at = from /\ call'[w].at = to
           /\ call'[w].size = call[w].size /\ call'[w].i = call[w].i /\ call'[w].h = call[w].h
<1>1. call \in [Writers -> Calls(Len(handle))]
  BY DEF LogTypeInv, LogTypeOK, Calls
<1>2. call[w].at = from /\ call' = [call EXCEPT ![w].at = to]
  BY DEF Advance
<1>3. Alone(w) /\ call'[w] = [call[w] EXCEPT !.at = to]
  BY <1>1, <1>2 DEF Alone
<1> QED BY <1>1, <1>2, <1>3 DEF Calls

LEMMA WriteDoes ==
    ASSUME LogTypeInv, NEW w \in Writers, Write(w)
    PROVE  /\ Alone(w) /\ UNCHANGED <<name, content, lines, handle, file, overlap>>
           /\ call[w].at = "idle" /\ call'[w].at = IF Backups < 1 THEN "load" ELSE "stat"
<1>1. call \in [Writers -> Calls(Len(handle))]
  BY DEF LogTypeInv, LogTypeOK, Calls
<1>2. PICK n \in Sizes : call' = [call EXCEPT ![w] = [Idle EXCEPT
          !.at = IF Backups < 1 THEN "load" ELSE "stat", !.size = n]]
  BY DEF Write
<1>3. Alone(w) /\ call'[w] = [Idle EXCEPT !.at = IF Backups < 1 THEN "load" ELSE "stat", !.size = n]
  BY <1>1, <1>2 DEF Alone
<1>4. call'[w].at = IF Backups < 1 THEN "load" ELSE "stat"
  BY <1>3 DEF Idle
<1> QED BY <1>3, <1>4 DEF Write, disk

LEMMA StatDoes ==
    ASSUME LogTypeInv, NEW w \in Writers, Stat(w)
    PROVE  /\ Alone(w) /\ UNCHANGED <<name, content, lines, handle, file>>
           /\ call[w].at = "stat" /\ call'[w].size = call[w].size
           /\ \/ /\ IsOpen(file) /\ Full(w)
                 /\ call'[w].at = (IF Backups > 1 THEN "shift" ELSE "close") /\ call'[w].i = Backups - 1
                 /\ ~overlap' => ~overlap /\ \A v \in Writers : call[v].at \notin Rotating
              \/ /\ ~(IsOpen(file) /\ Full(w)) /\ call'[w].at = "load" /\ overlap' = overlap
<1> DEFINE rotate == IsOpen(file) /\ Full(w)
<1>1. call \in [Writers -> Calls(Len(handle))] /\ overlap \in BOOLEAN
  BY DEF LogTypeInv, LogTypeOK, Calls
<1>2. /\ call[w].at = "stat" /\ UNCHANGED <<name, content, lines, handle, file>>
      /\ call' = [call EXCEPT ![w].at = IF ~rotate THEN "load"
                                        ELSE IF Backups > 1 THEN "shift" ELSE "close",
                              ![w].i = IF rotate THEN Backups - 1 ELSE 0]
      /\ overlap' = (overlap \/ (rotate /\ \E v \in Writers : call[v].at \in Rotating))
  BY DEF Stat, disk
<1> HIDE DEF rotate
<1>3. /\ Alone(w)
      /\ call'[w] = [call[w] EXCEPT !.at = IF ~rotate THEN "load"
                                           ELSE IF Backups > 1 THEN "shift" ELSE "close",
                                    !.i = IF rotate THEN Backups - 1 ELSE 0]
  BY <1>1, <1>2 DEF Alone
<1>4. /\ call'[w].size = call[w].size /\ call'[w].i = (IF rotate THEN Backups - 1 ELSE 0)
      /\ call'[w].at = IF ~rotate THEN "load" ELSE IF Backups > 1 THEN "shift" ELSE "close"
  BY <1>1, <1>3 DEF Calls
<1>5. CASE rotate
  <2>1. ~overlap' => ~overlap /\ \A v \in Writers : call[v].at \notin Rotating
    BY <1>2, <1>5, Zenon
  <2> QED BY <1>2, <1>3, <1>4, <1>5, <2>1 DEF rotate
<1>6. CASE ~rotate
  <2>1. overlap' = overlap
    BY <1>1, <1>2, <1>6, Zenon
  <2> QED BY <1>2, <1>3, <1>4, <1>6, <2>1 DEF rotate
<1> QED BY <1>5, <1>6

LEMMA ShiftDoes ==
    ASSUME LogTypeInv, NEW w \in Writers, Shift(w)
    PROVE  /\ Alone(w) /\ UNCHANGED <<content, lines, handle, file, overlap>>
           /\ call[w].at = "shift" /\ call[w].i \in 1 .. Backups - 1
           /\ Rename(call[w].i, call[w].i + 1)
           /\ call'[w].i = call[w].i - 1 /\ call'[w].at = IF call[w].i > 1 THEN "shift" ELSE "close"
<1>1. call \in [Writers -> Calls(Len(handle))]
  BY DEF LogTypeInv, LogTypeOK, Calls
<1>2. /\ call[w].at = "shift" /\ UNCHANGED <<content, lines, handle, file, overlap>>
      /\ Rename(call[w].i, call[w].i + 1)
      /\ call' = [call EXCEPT ![w].i = @ - 1, ![w].at = IF call[w].i > 1 THEN "shift" ELSE "close"]
  BY DEF Shift, Rename
<1>3. /\ Alone(w)
      /\ call'[w] = [call[w] EXCEPT !.i = call[w].i - 1,
                                    !.at = IF call[w].i > 1 THEN "shift" ELSE "close"]
  BY <1>1, <1>2 DEF Alone
<1>4. call'[w].i = call[w].i - 1 /\ call'[w].at = IF call[w].i > 1 THEN "shift" ELSE "close"
  BY <1>1, <1>3 DEF Calls
<1>5. call[w].i \in 1 .. Backups - 1
  BY <1>2, CallShape DEF CallOK
<1> QED BY <1>2, <1>3, <1>4, <1>5

LEMMA LoadDoes ==
    ASSUME LogTypeInv, NEW w \in Writers, Load(w)
    PROVE  /\ Alone(w) /\ UNCHANGED <<name, content, lines, handle, file, overlap>>
           /\ call[w].at = "load" /\ call'[w].at = "write" /\ call'[w].h = file
           /\ call'[w].size = call[w].size
<1>1. call \in [Writers -> Calls(Len(handle))]
  BY DEF LogTypeInv, LogTypeOK, Calls
<1>2. call[w].at = "load" /\ call' = [call EXCEPT ![w].at = "write", ![w].h = file]
  BY DEF Load
<1>3. Alone(w) /\ call'[w] = [call[w] EXCEPT !.at = "write", !.h = file]
  BY <1>1, <1>2 DEF Alone
<1>4. call'[w].at = "write" /\ call'[w].h = file /\ call'[w].size = call[w].size
  BY <1>1, <1>3 DEF Calls
<1> QED BY <1>2, <1>3, <1>4 DEF Load, disk

LEMMA WriteFileDoes ==
    ASSUME LogTypeInv, NEW w \in Writers, WriteFile(w)
    PROVE  /\ Alone(w) /\ UNCHANGED <<name, handle, file, overlap>>
           /\ call[w].at = "write" /\ call'[w].at = "idle"
           /\ ~IsOpen(call[w].h) => UNCHANGED <<content, lines>>
<1>1. call \in [Writers -> Calls(Len(handle))]
  BY DEF LogTypeInv, LogTypeOK, Calls
<1>2. call[w].at = "write" /\ call' = [call EXCEPT ![w] = Idle]
  BY DEF WriteFile
<1>3. Alone(w) /\ call'[w] = Idle /\ Idle.at = "idle"
  BY <1>1, <1>2 DEF Alone, Idle
<1> QED BY <1>2, <1>3 DEF WriteFile

(* The directory never gives two names to a file. *)
Injective == \A i, j \in Names : name[i] = name[j] /\ name[i] # NoFile => i = j

LEMMA RenameInjective ==
    ASSUME LogTypeInv, Injective, NEW i \in Names, NEW j \in Names, i # j, Rename(i, j)
    PROVE  Injective'
<1>1. /\ name'[i] = NoFile /\ name'[j] = IF name[i] = NoFile THEN name[j] ELSE name[i]
      /\ \A k \in Names : k # i /\ k # j => name'[k] = name[k]
  BY RenameMoves
<1> QED BY <1>1, ZenonT(60) DEF Injective

LEMMA OpenedInjective ==
    ASSUME LogTypeInv, Injective, NEW hs, Opened(hs)
    PROVE  Injective'
<1>1. /\ \A i \in Names : i # 0 => name'[i] = name[i]
      /\ name[0] = NoFile => name'[0] \notin 1 .. Len(content)
      /\ name[0] # NoFile => name'[0] = name[0]
  BY DEF Opened
<1>2. \A i \in Names : name[i] = NoFile \/ name[i] \in 1 .. Len(content)
  BY Named
<1> QED BY <1>1, <1>2, Shape, Zenon DEF Injective

-----------------------------------------------------------------------------
(* Of one rotation at a time: who holds the log open, and which name is free. *)
OneRotates == \A v, w \in Writers : call[v].at \in Rotating /\ call[w].at \in Rotating => v = w
OpenIsLog  == \A h \in 1 .. Len(handle) : handle[h].open => h = file /\ handle[h].file = name[0]
NoneOpen   == \A h \in 1 .. Len(handle) : ~handle[h].open
Ready(w) ==
    /\ call[w].at \in {"rename", "open"} => NoneOpen
    /\ call[w].at = "shift" => call[w].i = Backups - 1 \/ name[call[w].i + 1] = NoFile
    /\ call[w].at \in {"close", "rename"} => Backups = 1 \/ name[1] = NoFile
    /\ call[w].at = "open" => name[0] = NoFile
RotateInv == ~overlap => OneRotates /\ OpenIsLog /\ \A w \in Writers : Ready(w)

(* A call that is not in a rotation needs no name. *)
LEMMA NotRotating ==
    ASSUME NEW w, call'[w].at \notin Rotating
    PROVE  Ready(w)'
BY DEF Ready, Rotating

(* A step outside the rotation, that leaves directory and handles alone. *)
LEMMA QuietRotate ==
    ASSUME RotateInv, UNCHANGED <<name, handle, file, overlap>>, NEW w \in Writers, Alone(w),
           call'[w].at \notin Rotating
    PROVE  RotateInv'
<1> SUFFICES ASSUME ~overlap' PROVE (OneRotates /\ OpenIsLog /\ \A v \in Writers : Ready(v))'
  BY DEF RotateInv
<1>0. OneRotates /\ OpenIsLog /\ \A v \in Writers : Ready(v)
  BY DEF RotateInv
<1>1. OneRotates'
  BY <1>0, Zenon DEF OneRotates, Alone
<1>2. OpenIsLog'
  BY <1>0 DEF OpenIsLog
<1>3. ASSUME NEW v \in Writers PROVE Ready(v)'
  <2>1. CASE v = w
    BY <2>1, NotRotating
  <2>2. CASE v # w
    <3>1. call'[v] = call[v] /\ Ready(v)
      BY <1>0, <2>2 DEF Alone
    <3> QED BY <3>1, Zenon DEF Ready, NoneOpen
  <2> QED BY <2>1, <2>2
<1> QED BY <1>1, <1>2, <1>3

(* The others while w rotates. *)
LEMMA AlsoRotates ==
    ASSUME OneRotates, NEW w \in Writers, call[w].at \in Rotating, Alone(w)
    PROVE  OneRotates' /\ \A v \in Writers : v # w => Ready(v)'
<1>1. \A v \in Writers : v # w => call'[v] = call[v] /\ call'[v].at \notin Rotating
  BY Zenon DEF OneRotates, Alone
<1>2. OneRotates'
  BY <1>1, Zenon DEF OneRotates
<1> QED BY <1>1, <1>2, NotRotating, Zenon

(* RotateInv, step by step. *)
LEMMA StatRotate ==
    ASSUME LogTypeInv, RotateInv, NEW w \in Writers, Stat(w)
    PROVE  RotateInv'
<1>0. Alone(w) /\ UNCHANGED <<name, handle, file>> /\ call[w].at = "stat"
  BY StatDoes
<1>1. CASE call'[w].at = "load" /\ overlap' = overlap
  <2>1. call'[w].at \notin Rotating
    BY <1>1 DEF Rotating
  <2> QED BY <1>0, <1>1, <2>1, QuietRotate
<1>2. CASE /\ call'[w].at = (IF Backups > 1 THEN "shift" ELSE "close") /\ call'[w].i = Backups - 1
           /\ ~overlap' => ~overlap /\ \A v \in Writers : call[v].at \notin Rotating
  <2> SUFFICES ASSUME ~overlap' PROVE (OneRotates /\ OpenIsLog /\ \A v \in Writers : Ready(v))'
    BY DEF RotateInv
  <2>1. OpenIsLog /\ \A v \in Writers : v # w => call'[v].at \notin Rotating
    BY <1>0, <1>2 DEF RotateInv, Alone
  <2>2. OneRotates'
    BY <2>1, Zenon DEF OneRotates
  <2>3. OpenIsLog'
    BY <1>0, <2>1 DEF OpenIsLog
  <2>4. Ready(w)'
    <3>1. Backups \in Nat /\ Backups > 0
      BY <1>0, CallShape, RotatingFileAssumption DEF CallOK
    <3> QED BY <1>2, <3>1 DEF Ready
  <2> QED BY <2>1, <2>2, <2>3, <2>4, NotRotating, Zenon
<1> QED BY <1>1, <1>2, StatDoes

LEMMA ShiftRotate ==
    ASSUME LogTypeInv, RotateInv, NEW w \in Writers, Shift(w)
    PROVE  RotateInv'
<1> SUFFICES ASSUME ~overlap' PROVE (OneRotates /\ OpenIsLog /\ \A v \in Writers : Ready(v))'
  BY DEF RotateInv
<1> DEFINE i == call[w].i
<1>1. /\ Alone(w) /\ UNCHANGED <<handle, file, overlap>> /\ call[w].at = "shift"
      /\ i \in 1 .. Backups - 1 /\ Rename(i, i + 1)
      /\ call'[w].i = i - 1 /\ call'[w].at = IF i > 1 THEN "shift" ELSE "close"
  BY ShiftDoes
<1> HIDE DEF i
<1>2. OneRotates /\ OpenIsLog /\ call[w].at \in Rotating
  BY <1>1 DEF RotateInv, Rotating
<1>3. OneRotates' /\ \A v \in Writers : v # w => Ready(v)'
  BY <1>1, <1>2, AlsoRotates
<1>4. Backups \in Nat /\ i \in Names /\ i + 1 \in Names /\ i # i + 1 /\ 0 \in Names
  BY <1>1, RotatingFileAssumption DEF Names
<1>5. name'[i] = NoFile /\ \A k \in Names : k # i /\ k # i + 1 => name'[k] = name[k]
  BY <1>1, <1>4, RenameMoves
<1>6. OpenIsLog'
  <2>1. name'[0] = name[0]
    BY <1>1, <1>4, <1>5
  <2> QED BY <1>1, <1>2, <2>1 DEF OpenIsLog
<1>7. Ready(w)'
  <2>1. CASE i > 1
    <3>1. call'[w].at = "shift" /\ call'[w].i + 1 = i
      BY <1>1, <1>4, <2>1
    <3> QED BY <1>5, <3>1 DEF Ready
  <2>2. CASE ~(i > 1)
    <3>1. call'[w].at = "close" /\ i = 1
      BY <1>1, <1>4, <2>2
    <3> QED BY <1>5, <3>1 DEF Ready
  <2> QED BY <2>1, <2>2
<1> QED BY <1>3, <1>6, <1>7

LEMMA CloseFileRotate ==
    ASSUME LogTypeInv, RotateInv, NEW w \in Writers, CloseFile(w)
    PROVE  RotateInv'
<1> SUFFICES ASSUME ~overlap' PROVE (OneRotates /\ OpenIsLog /\ \A v \in Writers : Ready(v))'
  BY DEF RotateInv
<1>1. /\ Alone(w) /\ UNCHANGED <<name, file, overlap>>
      /\ call[w].at = "close" /\ call'[w].at = "rename"
  BY AdvanceDoes DEF CloseFile, disk
<1>2. OneRotates /\ OpenIsLog /\ Ready(w) /\ call[w].at \in Rotating
  BY <1>1 DEF RotateInv, Rotating
<1>3. OneRotates' /\ \A v \in Writers : v # w => Ready(v)'
  BY <1>1, <1>2, AlsoRotates
<1>4. NoneOpen'
  BY <1>2, CloseCloses DEF NoneOpen, OpenIsLog
<1>5. OpenIsLog' /\ Ready(w)'
  BY <1>1, <1>2, <1>4 DEF OpenIsLog, NoneOpen, Ready
<1> QED BY <1>3, <1>5

LEMMA RenameFileRotate ==
    ASSUME LogTypeInv, RotateInv, NEW w \in Writers, RenameFile(w)
    PROVE  RotateInv'
<1> SUFFICES ASSUME ~overlap' PROVE (OneRotates /\ OpenIsLog /\ \A v \in Writers : Ready(v))'
  BY DEF RotateInv
<1>1. /\ Alone(w) /\ UNCHANGED <<handle, file, overlap>> /\ Rename(0, 1)
      /\ call[w].at = "rename" /\ call'[w].at = "open"
  BY AdvanceDoes DEF RenameFile
<1>2. OneRotates /\ Ready(w) /\ call[w].at \in Rotating
  BY <1>1 DEF RotateInv, Rotating
<1>3. OneRotates' /\ \A v \in Writers : v # w => Ready(v)'
  BY <1>1, <1>2, AlsoRotates
<1>4. NoneOpen'
  BY <1>1, <1>2 DEF Ready, NoneOpen
<1>5. name'[0] = NoFile
  <2>1. 0 \in Names /\ 1 \in Names /\ 0 # 1
    BY <1>2, CallShape, RotatingFileAssumption DEF CallOK, Names
  <2> QED BY <1>1, <2>1, RenameMoves
<1>6. OpenIsLog' /\ Ready(w)'
  BY <1>1, <1>4, <1>5 DEF OpenIsLog, NoneOpen, Ready
<1> QED BY <1>3, <1>6

LEMMA OpenFileRotate ==
    ASSUME LogTypeInv, RotateInv, NEW w \in Writers, OpenFile(w)
    PROVE  RotateInv'
<1> SUFFICES ASSUME ~overlap' PROVE (OneRotates /\ OpenIsLog /\ \A v \in Writers : Ready(v))'
  BY DEF RotateInv
<1>1. /\ Alone(w) /\ overlap' = overlap /\ OpenLog(handle)
      /\ call[w].at = "open" /\ call'[w].at = "load"
  BY AdvanceDoes DEF OpenFile
<1>2. OneRotates /\ Ready(w) /\ call[w].at \in Rotating /\ call'[w].at \notin Rotating
  BY <1>1 DEF RotateInv, Rotating
<1>3. OneRotates' /\ \A v \in Writers : Ready(v)'
  BY <1>1, <1>2, AlsoRotates, NotRotating
<1>4. NoneOpen
  BY <1>1, <1>2 DEF Ready
<1>5. OpenIsLog'
  <2>1. handle \in Seq(HandleSet) /\ Len(handle) \in Nat
    BY Typed, Shape
  <2>2. Opened(handle)
    BY <1>1, <2>1, OpenLogOpens
  <2>3. /\ file' = Len(handle) + 1 /\ Len(handle') = Len(handle) + 1
        /\ handle'[file'].file = name'[0] /\ \A h \in 1 .. Len(handle) : handle'[h] = handle[h]
    BY <2>2 DEF Opened
  <2>4. \A h \in 1 .. Len(handle') : h \in 1 .. Len(handle) \/ h = file'
    BY <2>1, <2>3
  <2> QED BY <1>4, <2>3, <2>4, Zenon DEF OpenIsLog, NoneOpen
<1> QED BY <1>3, <1>5

LEMMA OpenFailsRotate ==
    ASSUME LogTypeInv, RotateInv, NEW w \in Writers, OpenFails(w)
    PROVE  RotateInv'
<1> SUFFICES ASSUME ~overlap' PROVE (OneRotates /\ OpenIsLog /\ \A v \in Writers : Ready(v))'
  BY DEF RotateInv
<1>1. /\ Alone(w) /\ UNCHANGED <<handle, overlap>>
      /\ call[w].at = "open" /\ call'[w].at = "load"
  BY AdvanceDoes DEF OpenFails
<1>2. OneRotates /\ Ready(w) /\ call[w].at \in Rotating /\ call'[w].at \notin Rotating
  BY <1>1 DEF RotateInv, Rotating
<1>3. OneRotates' /\ \A v \in Writers : Ready(v)'
  BY <1>1, <1>2, AlsoRotates, NotRotating
<1>4. OpenIsLog'
  BY <1>1, <1>2 DEF Ready, NoneOpen, OpenIsLog
<1> QED BY <1>3, <1>4

LEMMA RestartRotate ==
    ASSUME LogTypeInv, RotateInv, Restart
    PROVE  RotateInv'
<1>1. call' = [v \in Writers |-> Idle] /\ OpenLog(<<>>) /\ <<>> \in Seq(HandleSet) /\ Len(<<>>) = 0
  BY DEF Restart
<1>2. \A v \in Writers : call'[v].at \notin Rotating
  BY <1>1 DEF Idle, Rotating
<1>3. OneRotates' /\ \A v \in Writers : Ready(v)'
  BY <1>2, NotRotating, Zenon DEF OneRotates
<1>4. Opened(<<>>)
  BY <1>1, OpenLogOpens
<1>5. file' = 1 /\ Len(handle') = 1 /\ handle'[file'] = [file |-> name'[0], open |-> TRUE]
  BY <1>1, <1>4 DEF Opened
<1>6. OpenIsLog'
  BY <1>5 DEF OpenIsLog
<1> QED BY <1>3, <1>6 DEF RotateInv

LEMMA RotateStep ==
    ASSUME LogTypeInv, RotateInv, [LogNext]_logVars
    PROVE  RotateInv'
<1>1. CASE UNCHANGED logVars
  BY <1>1, Zenon DEF logVars, disk, RotateInv, OneRotates, OpenIsLog, NoneOpen, Ready
<1>2. ASSUME NEW w \in Writers, Write(w) \/ Load(w) \/ WriteFile(w) PROVE RotateInv'
  <2>1. Alone(w) /\ UNCHANGED <<name, handle, file, overlap>> /\ call'[w].at \in {"load", "stat", "write", "idle"}
    BY <1>2, WriteDoes, LoadDoes, WriteFileDoes
  <2>2. call'[w].at \notin Rotating
    BY <2>1 DEF Rotating
  <2> QED BY <2>1, <2>2, QuietRotate
<1>3. ASSUME NEW w \in Writers, Stat(w) PROVE RotateInv'
  BY <1>3, StatRotate
<1>4. ASSUME NEW w \in Writers, Rotate(w) PROVE RotateInv'
  BY <1>4, ShiftRotate, CloseFileRotate, RenameFileRotate, OpenFileRotate, OpenFailsRotate DEF Rotate
<1>5. CASE Restart
  BY <1>5, RestartRotate
<1> QED BY <1>1, <1>2, <1>3, <1>4, <1>5 DEF LogNext

(* The steps that rename, and the ones that open the log. *)
LEMMA Renames ==
    ASSUME LogTypeInv, NEW w \in Writers, Shift(w) \/ RenameFile(w)
    PROVE  \E i \in Names : /\ i + 1 \in Names /\ i # i + 1 /\ Rename(i, i + 1) /\ overlap' = overlap
                            /\ Ready(w) => i + 1 = Backups \/ name[i + 1] = NoFile
<1>1. CASE Shift(w)
  <2>1. /\ call[w].i \in 1 .. Backups - 1 /\ Rename(call[w].i, call[w].i + 1) /\ call[w].at = "shift"
        /\ overlap' = overlap
    BY <1>1, ShiftDoes
  <2>2. /\ call[w].i \in Names /\ call[w].i + 1 \in Names /\ call[w].i # call[w].i + 1
        /\ Backups \in Nat
    BY <2>1, RotatingFileAssumption DEF Names
  <2>3. Ready(w) => call[w].i + 1 = Backups \/ name[call[w].i + 1] = NoFile
    BY <2>1, <2>2 DEF Ready
  <2> QED BY <2>1, <2>2, <2>3
<1>2. CASE RenameFile(w)
  <2>1. Rename(0, 1) /\ 0 # 1 /\ call[w].at = "rename" /\ overlap' = overlap
    BY <1>2 DEF RenameFile, Advance
  <2>2. 0 \in Names /\ 1 \in Names /\ 0 + 1 = 1
    BY <2>1, CallShape, RotatingFileAssumption DEF CallOK, Rotating, Names
  <2>3. Ready(w) => 1 = Backups \/ name[1] = NoFile
    BY <2>1 DEF Ready
  <2> QED BY <2>1, <2>2, <2>3
<1> QED BY <1>1, <1>2

LEMMA Opens ==
    ASSUME LogTypeInv, Restart \/ \E w \in Writers : OpenFile(w)
    PROVE  overlap' = overlap /\ \E hs : Opened(hs)
<1>1. CASE Restart
  <2>1. OpenLog(<<>>) /\ <<>> \in Seq(HandleSet) /\ overlap' = overlap
    BY <1>1 DEF Restart
  <2> QED BY <2>1, OpenLogOpens, Zenon
<1>2. ASSUME NEW w \in Writers, OpenFile(w) PROVE overlap' = overlap /\ \E hs : Opened(hs)
  <2>1. OpenLog(handle) /\ handle \in Seq(HandleSet) /\ overlap' = overlap
    BY <1>2, Typed DEF OpenFile
  <2> QED BY <2>1, OpenLogOpens
<1> QED BY <1>1, <1>2

LEMMA InjectiveStep ==
    ASSUME LogTypeInv, Injective, [LogNext]_logVars
    PROVE  Injective'
<1>1. CASE name' = name
  BY <1>1 DEF Injective
<1>2. ASSUME NEW w \in Writers, Shift(w) \/ RenameFile(w) PROVE Injective'
  BY <1>2, Renames, RenameInjective
<1>3. CASE Restart \/ \E w \in Writers : OpenFile(w)
  BY <1>3, Opens, OpenedInjective
<1> QED BY <1>1, <1>2, <1>3, Zenon
        DEF LogNext, logVars, disk, Write, Stat, Rotate, CloseFile, OpenFails, Load, WriteFile

LEMMA LogInitRotate ==
    ASSUME LogInit PROVE RotateInv /\ Injective
<1>1. \A w \in Writers : call[w].at = "idle"
  BY DEF LogInit, Idle
<1>2. OneRotates /\ \A w \in Writers : Ready(w)
  BY <1>1 DEF OneRotates, Ready, Rotating
<1>3. handle = <<[file |-> 1, open |-> TRUE]>> /\ Len(handle) = 1 /\ file = 1 /\ name[0] = 1
  BY RotatingFileAssumption DEF LogInit, Names
<1>4. OpenIsLog
  BY <1>3 DEF OpenIsLog
<1>5. Injective
  BY DEF LogInit, Injective, NoFile
<1> QED BY <1>2, <1>4, <1>5 DEF RotateInv

(* The directory, and who is in it, in every state. *)
RotatesInv == LogTypeInv /\ Injective /\ RotateInv

(* It holds initially, every step keeps it, and so it holds for good. *)
LEMMA RotatesInvariance == LogSpec => []RotatesInv
<1>1. LogInit => RotatesInv
  BY LogInitTyped, LogInitRotate DEF RotatesInv
<1>2. RotatesInv /\ [LogNext]_logVars => RotatesInv'
  BY LogStepTyped, InjectiveStep, RotateStep DEF RotatesInv
<1> QED BY <1>1, <1>2, PTL DEF LogSpec
-----------------------------------------------------------------------------
(* A step takes the file of name i out of the directory; a rename to a name *)
(* that is free or the oldest does so to no other file, and opening to none. *)
Loses(i) == name[i] # NoFile /\ \A j \in Names : name'[j] # name[i]

LEMMA RenameLoses ==
    ASSUME LogTypeInv, NEW i \in Names, NEW j \in Names, i # j, Rename(i, j),
           j = Backups \/ name[j] = NoFile, NEW k \in Names \ {Backups}
    PROVE  ~Loses(k)
<1>1. /\ name'[j] = IF name[i] = NoFile THEN name[j] ELSE name[i]
      /\ \A m \in Names : m # i /\ m # j => name'[m] = name[m]
  BY RenameMoves
<1> QED BY <1>1, Zenon DEF Loses

LEMMA OpenedLoses ==
    ASSUME NEW hs, Opened(hs), NEW k \in Names
    PROVE  ~Loses(k)
<1>1. /\ \A i \in Names : i # 0 => name'[i] = name[i]
      /\ name[0] # NoFile => name'[0] = name[0]
  BY Zenon DEF Opened
<1> QED BY <1>1, Zenon DEF Loses

LEMMA StepLoses ==
    ASSUME RotatesInv, [LogNext]_logVars, ~overlap, NEW k \in Names \ {Backups}
    PROVE  ~Loses(k)
<1> USE DEF RotatesInv
<1>1. CASE name' = name
  BY <1>1 DEF Loses
<1>2. ASSUME NEW w \in Writers, Shift(w) \/ RenameFile(w) PROVE ~Loses(k)
  <2>1. Ready(w)
    BY DEF RotateInv
  <2> QED BY <1>2, <2>1, Renames, RenameLoses
<1>3. CASE Restart \/ \E w \in Writers : OpenFile(w)
  BY <1>3, Opens, OpenedLoses
<1> QED BY <1>1, <1>2, <1>3, Zenon
        DEF LogNext, logVars, disk, Write, Stat, Rotate, CloseFile, OpenFails, Load, WriteFile

(* No step takes a file but the oldest backup out of the directory, unless *)
(* two rotations have overlapped.                                           *)
THEOREM LosesOnlyOldest == LogSpec => OnlyOldestLost
<1>1. RotatesInv /\ [LogNext]_logVars =>
        [\A i \in Names \ {Backups} :
            name[i] # NoFile /\ (\A j \in Names : name'[j] # name[i]) => overlap]_logVars
  BY StepLoses, Zenon DEF Loses
<1> QED BY <1>1, RotatesInvariance, PTL DEF LogSpec, OnlyOldestLost
-----------------------------------------------------------------------------
(***************************************************************************)
(* Order.  OldestFirst is inductive once the rotations are known: a line   *)
(* that is written is the last line of the log, a rename moves a file to a *)
(* place between the same neighbours, and what it overwrites comes before  *)
(* all lines that stay.  These are facts about functions from names to     *)
(* lines (LatestAppend, LatestMove).                                       *)
(***************************************************************************)
(* The lines per name, and what it is for them to be the latest, in order. *)
LogOf(nm, ct) == [i \in Names |-> IF nm[i] = NoFile THEN <<>> ELSE ct[nm[i]]]

Holds(l, x) == \E j \in Names : \E m \in 1 .. Len(l[j]) : l[j][m].n = x
LatestInOrder(l, last) ==
    /\ \A i \in Names : \A k \in 1 .. Len(l[i]) : l[i][k].n \in 1 .. last
    /\ \A i, j \in Names : \A k \in 1 .. Len(l[i]), m \in 1 .. Len(l[j]) :
            i > j \/ (i = j /\ k < m) => l[i][k].n < l[j][m].n
    /\ \A i \in Names : \A k \in 1 .. Len(l[i]) : \A x \in l[i][k].n .. last : Holds(l, x)

(* A line more at the end of the log. *)
LEMMA LatestAppend ==
    ASSUME NEW l, NEW last \in Nat, LatestInOrder(l, last), \A i \in Names : l[i] \in Seq(Line),
           NEW s \in Sizes, NEW r, r[0] = Append(l[0], [n |-> last + 1, size |-> s]),
           \A i \in Names : i # 0 => r[i] = l[i]
    PROVE  LatestInOrder(r, last + 1)
<1> DEFINE line == [n |-> last + 1, size |-> s]
           e == Len(l[0]) + 1
<1>0. /\ 0 \in Names /\ Names \subseteq Nat /\ l[0] \in Seq(Line) /\ Len(l[0]) \in Nat /\ line \in Line
      /\ \A i \in Names : ~(0 > i)
  <2>1. 0 \in Names /\ Names \subseteq Nat /\ \A i \in Names : ~(0 > i)
    BY RotatingFileAssumption DEF Names
  <2>2. l[0] \in Seq(Line) /\ Len(l[0]) \in Nat
    BY <2>1
  <2>3. line \in Line
    BY DEF Line
  <2> QED BY <2>1, <2>2, <2>3
<1>l. line.n = last + 1
  OBVIOUS
<1> HIDE DEF line
<1>1. /\ Len(r[0]) = e /\ r[0][e].n = last + 1
      /\ \A k \in 1 .. Len(l[0]) : r[0][k] = l[0][k]
  BY <1>0, <1>l, AppendProperties DEF line
<1>2. 1 .. e = 1 .. Len(l[0]) \cup {e} /\ e \notin 1 .. Len(l[0]) /\ \A k \in 1 .. e : ~(e < k)
  BY <1>0
<1>3. \A i \in Names : \A k \in 1 .. Len(l[i]) : k \in 1 .. Len(r[i]) /\ r[i][k] = l[i][k]
  BY <1>1, <1>2
<1>4. \A i \in Names : \A k \in 1 .. Len(r[i]) : k \in 1 .. Len(l[i]) \/ (i = 0 /\ k = e)
  BY <1>1, <1>2
<1> HIDE DEF e
<1>5. \A i \in Names : \A k \in 1 .. Len(l[i]) : l[i][k].n \in 1 .. last
  BY Zenon DEF LatestInOrder
<1>6. ASSUME NEW i \in Names, NEW k \in 1 .. Len(r[i]) PROVE r[i][k].n \in 1 .. last + 1
  <2>1. CASE k \in 1 .. Len(l[i])
    <3>1. r[i][k].n \in 1 .. last
      BY <1>3, <1>5, <2>1, Zenon
    <3> QED BY <3>1
  <2>2. CASE i = 0 /\ k = e
    BY <1>1, <2>2
  <2> QED BY <1>4, <2>1, <2>2
<1>7. ASSUME NEW i \in Names, NEW j \in Names, NEW k \in 1 .. Len(r[i]), NEW m \in 1 .. Len(r[j]),
             i > j \/ (i = j /\ k < m)
      PROVE  r[i][k].n < r[j][m].n
  <2>1. k \in 1 .. Len(l[i])
    <3>1. ASSUME i = 0, k = e PROVE FALSE
      BY <1>0, <1>1, <1>2, <1>7, <3>1
    <3> QED BY <1>4, <3>1
  <2>2. CASE m \in 1 .. Len(l[j])
    <3>1. l[i][k].n < l[j][m].n
      BY <1>7, <2>1, <2>2, Zenon DEF LatestInOrder
    <3> QED BY <1>3, <2>1, <2>2, <3>1
  <2>3. CASE j = 0 /\ m = e
    <3>1. r[i][k].n \in 1 .. last
      BY <1>3, <1>5, <2>1
    <3>2. r[j][m].n = last + 1
      BY <1>1, <2>3
    <3> QED BY <3>1, <3>2
  <2> QED BY <1>4, <2>2, <2>3
<1>8. ASSUME NEW i \in Names, NEW k \in 1 .. Len(r[i]), NEW x \in r[i][k].n .. last + 1
      PROVE  Holds(r, x)
  <2>1. CASE x = last + 1
    <3>1. e \in 1 .. Len(r[0])
      BY <1>1, <1>2
    <3> QED BY <1>0, <1>1, <2>1, <3>1 DEF Holds
  <2>2. CASE x # last + 1
    <3>1. r[i][k].n \in 1 .. last + 1
      BY <1>6
    <3>2. r[i][k].n # last + 1 /\ x \in r[i][k].n .. last
      BY <2>2, <3>1
    <3>3. k \in 1 .. Len(l[i]) /\ r[i][k] = l[i][k]
      BY <1>1, <1>3, <1>4, <3>2
    <3>4. Holds(l, x)
      BY <3>2, <3>3, Zenon DEF LatestInOrder
    <3> QED BY <1>3, <3>4, Zenon DEF Holds
  <2> QED BY <2>1, <2>2
<1> QED BY <1>6, <1>7, <1>8, Zenon DEF LatestInOrder

(* A file takes the next name, which is free or the oldest. *)
LEMMA LatestMove ==
    ASSUME NEW l, NEW last \in Nat, LatestInOrder(l, last),
           NEW i \in Names, i + 1 \in Names, i + 1 = Backups \/ l[i + 1] = <<>>,
           NEW r, r[i + 1] = l[i], r[i] = <<>>, \A k \in Names : k # i /\ k # i + 1 => r[k] = l[k]
    PROVE  LatestInOrder(r, last)
<1> DEFINE From(j) == IF j = i + 1 THEN i ELSE j
<1>0. Names \subseteq Nat /\ Backups \in Nat /\ \A k \in Names : k <= Backups
  BY RotatingFileAssumption DEF Names
<1>1. \A j \in Names : \A k \in 1 .. Len(r[j]) : j # i
  OBVIOUS
<1>2. \A j \in Names : j # i => From(j) \in Names /\ From(j) # i + 1 /\ r[j] = l[From(j)]
  BY <1>0
<1>3. \A j, m \in Names : j # i /\ m # i /\ j > m => From(j) > From(m)
  BY <1>0
<1>4. \A j \in Names : j # i + 1 => \E m \in Names : r[m] = l[j]
  OBVIOUS
<1>5. \A j \in Names : j # i /\ i + 1 = Backups => i + 1 > From(j)
  BY <1>0
<1> HIDE DEF From
<1>6. ASSUME NEW j \in Names, NEW k \in 1 .. Len(r[j]) PROVE r[j][k].n \in 1 .. last
  <2>1. From(j) \in Names /\ r[j] = l[From(j)]
    BY <1>1, <1>2
  <2> QED BY <2>1, Zenon DEF LatestInOrder
<1>7. ASSUME NEW j \in Names, NEW q \in Names, NEW k \in 1 .. Len(r[j]), NEW m \in 1 .. Len(r[q]),
             j > q \/ (j = q /\ k < m)
      PROVE  r[j][k].n < r[q][m].n
  <2>1. From(j) \in Names /\ r[j] = l[From(j)] /\ From(q) \in Names /\ r[q] = l[From(q)]
    BY <1>1, <1>2
  <2>2. From(j) > From(q) \/ (From(j) = From(q) /\ k < m)
    BY <1>1, <1>3, <1>7
  <2> QED BY <2>1, <2>2, Zenon DEF LatestInOrder
<1>8. ASSUME NEW j \in Names, NEW k \in 1 .. Len(r[j]), NEW x \in r[j][k].n .. last
      PROVE  Holds(r, x)
  <2>1. From(j) \in Names /\ r[j] = l[From(j)] /\ j # i
    BY <1>1, <1>2
  <2>2. PICK q \in Names : \E m \in 1 .. Len(l[q]) : l[q][m].n = x
    <3>1. Holds(l, x)
      BY <2>1, Zenon DEF LatestInOrder
    <3> QED BY <3>1 DEF Holds
  <2>3. PICK m \in 1 .. Len(l[q]) : l[q][m].n = x
    BY <2>2
  <2>4. q # i + 1
    <3> SUFFICES ASSUME q = i + 1 PROVE FALSE
      OBVIOUS
    <3>1. i + 1 = Backups
      BY <2>3
    <3>2. q > From(j)
      BY <1>5, <2>1, <3>1
    <3>3. l[q][m].n < l[From(j)][k].n
      BY <2>1, <3>2, Zenon DEF LatestInOrder
    <3>4. r[j][k].n \in 1 .. last
      BY <1>6
    <3> QED BY <2>1, <2>3, <3>3, <3>4
  <2>5. PICK p \in Names : r[p] = l[q]
    BY <1>4, <2>4
  <2> QED BY <2>3, <2>5 DEF Holds
<1> QED BY <1>6, <1>7, <1>8, Zenon DEF LatestInOrder
-----------------------------------------------------------------------------
(* What OldestFirst says, of these functions. *)
OldestInv == ~overlap => LatestInOrder(LogOf(name, content), lines)

LEMMA LinesAreLines ==
    ASSUME RotatesInv
    PROVE  \A i \in Names : LogOf(name, content)[i] = LinesOf(i) /\ LinesOf(i) \in Seq(Line)
<1>1. \A f \in 1 .. Len(content) : content[f] \in Seq(Line)
  BY Shape DEF RotatesInv
<1>2. \A i \in Names : name[i] = NoFile \/ name[i] \in 1 .. Len(content)
  BY Named DEF RotatesInv
<1> QED BY <1>1, <1>2 DEF LogOf, LinesOf

(* The same lines under each name. *)
LEMMA SameLog ==
    ASSUME OldestInv, overlap' = overlap, lines' = lines,
           \A i \in Names : LogOf(name', content')[i] = LogOf(name, content)[i]
    PROVE  OldestInv'
<1>1. LogOf(name', content') = LogOf(name, content)
  BY DEF LogOf
<1> QED BY <1>1 DEF OldestInv

(* OldestInv, step by step. *)
LEMMA RenameOldest ==
    ASSUME RotatesInv, OldestInv, overlap' = overlap, NEW i \in Names, i + 1 \in Names, i # i + 1,
           Rename(i, i + 1), ~overlap => i + 1 = Backups \/ name[i + 1] = NoFile
    PROVE  OldestInv'
<1> DEFINE l == LogOf(name, content)
           r == LogOf(name', content')
<1>1. /\ content' = content /\ lines' = lines /\ name'[i] = NoFile
      /\ name'[i + 1] = IF name[i] = NoFile THEN name[i + 1] ELSE name[i]
      /\ \A k \in Names : k # i /\ k # i + 1 => name'[k] = name[k]
  BY RenameMoves DEF RotatesInv
<1>2. CASE name[i] = NoFile
  <2>1. \A k \in Names : name'[k] = name[k]
    BY <1>1, <1>2
  <2>2. \A k \in Names : r[k] = l[k]
    BY <1>1, <2>1 DEF LogOf
  <2> QED BY <1>1, <2>2, SameLog
<1>3. CASE name[i] # NoFile
  <2> SUFFICES ASSUME ~overlap PROVE LatestInOrder(r, lines)
    BY <1>1 DEF OldestInv
  <2>1. r[i + 1] = l[i] /\ r[i] = <<>> /\ \A k \in Names : k # i /\ k # i + 1 => r[k] = l[k]
    BY <1>1, <1>3 DEF LogOf
  <2>2. i + 1 = Backups \/ l[i + 1] = <<>>
    BY DEF LogOf
  <2>3. LatestInOrder(l, lines) /\ lines \in Nat
    BY Shape DEF OldestInv, RotatesInv
  <2> HIDE DEF l, r
  <2> QED BY <2>1, <2>2, <2>3, LatestMove
<1> QED BY <1>2, <1>3

LEMMA OpenedOldest ==
    ASSUME RotatesInv, OldestInv, overlap' = overlap, NEW hs, Opened(hs)
    PROVE  OldestInv'
<1>1. \A i \in Names : name[i] = NoFile \/ name[i] \in 1 .. Len(content)
  BY Named DEF RotatesInv
<1>2. /\ lines' = lines /\ \A f \in 1 .. Len(content) : content'[f] = content[f]
      /\ \A i \in Names : i # 0 => name'[i] = name[i]
      /\ name[0] = NoFile => content'[name'[0]] = <<>>
      /\ name[0] # NoFile => name'[0] = name[0]
  BY DEF Opened
<1>3. \A i \in Names : LogOf(name', content')[i] = LogOf(name, content)[i]
  BY <1>1, <1>2 DEF LogOf
<1> QED BY <1>2, <1>3, SameLog

LEMMA WriteFileOldest ==
    ASSUME RotatesInv, OldestInv, NEW w \in Writers, WriteFile(w)
    PROVE  OldestInv'
<1>1. UNCHANGED <<name, handle, file, overlap>> /\ (~IsOpen(call[w].h) => UNCHANGED <<content, lines>>)
  BY WriteFileDoes DEF RotatesInv
<1>2. CASE ~IsOpen(call[w].h)
  BY <1>1, <1>2, SameLog
<1>3. CASE IsOpen(call[w].h)
  <2> SUFFICES ASSUME ~overlap PROVE LatestInOrder(LogOf(name', content'), lines')
    BY <1>1 DEF OldestInv
  <2> DEFINE f == handle[call[w].h].file
             l == LogOf(name, content)
             r == LogOf(name', content')
  <2>1. call[w].h \in 1 .. Len(handle) /\ f \in 1 .. Len(content) /\ Written(f, call[w].size)
    BY <1>3, WriteAppends DEF RotatesInv
  <2>2. f = name[0] /\ f # NoFile
    BY <1>3, <2>1, Shape DEF RotatesInv, RotateInv, OpenIsLog, IsOpen, NoFile
  <2>3. call[w].size \in Sizes
    BY CallShape DEF RotatesInv, CallOK, WriteFile
  <2>4. \A i \in Names : i # 0 => name[i] # f
    BY <2>2, Shape DEF RotatesInv, Injective
  <2> HIDE DEF f
  <2>5. /\ content'[f] = Append(content[f], [n |-> lines + 1, size |-> call[w].size])
        /\ \A e \in 1 .. Len(content) : e # f => content'[e] = content[e]
        /\ lines' = lines + 1
    BY <2>1 DEF Written
  <2>6. 0 \in Names /\ lines \in Nat /\ \A i \in Names : name[i] = NoFile \/ name[i] \in 1 .. Len(content)
    BY Named, Shape DEF RotatesInv
  <2>7. l[0] = content[f] /\ r[0] = content'[f]
    BY <1>1, <2>2, <2>6 DEF LogOf
  <2>8. \A i \in Names : i # 0 => r[i] = l[i]
    BY <1>1, <2>4, <2>5, <2>6 DEF LogOf
  <2>9. LatestInOrder(l, lines) /\ \A i \in Names : l[i] \in Seq(Line)
    BY LinesAreLines DEF OldestInv
  <2> HIDE DEF l, r
  <2>10. r[0] = Append(l[0], [n |-> lines + 1, size |-> call[w].size])
    BY <2>5, <2>7
  <2>11. LatestInOrder(r, lines + 1)
    BY <2>3, <2>6, <2>8, <2>9, <2>10, LatestAppend, Zenon
  <2> QED BY <2>5, <2>11 DEF r
<1> QED BY <1>2, <1>3

LEMMA OldestStep ==
    ASSUME RotatesInv, OldestInv, [LogNext]_logVars
    PROVE  OldestInv'
<1> USE DEF RotatesInv
<1>1. CASE UNCHANGED <<name, content, lines, overlap>>
  BY <1>1, SameLog
<1>2. ASSUME NEW w \in Writers, Stat(w) PROVE OldestInv'
  <2>1. UNCHANGED <<name, content, lines>> /\ (~overlap' => ~overlap)
    BY <1>2, StatDoes
  <2> QED BY <2>1 DEF OldestInv
<1>3. ASSUME NEW w \in Writers, Shift(w) \/ RenameFile(w) PROVE OldestInv'
  <2>1. ~overlap => Ready(w)
    BY DEF RotateInv
  <2> QED BY <1>3, <2>1, Renames, RenameOldest
<1>4. CASE Restart \/ \E w \in Writers : OpenFile(w)
  BY <1>4, Opens, OpenedOldest
<1>5. ASSUME NEW w \in Writers, WriteFile(w) PROVE OldestInv'
  BY <1>5, WriteFileOldest
<1> QED BY <1>1, <1>2, <1>3, <1>4, <1>5
        DEF LogNext, logVars, disk, Write, Rotate, CloseFile, OpenFails, Load

LEMMA LogInitOldest ==
    ASSUME LogInit PROVE OldestInv
<1>1. content = <<<<>>>> /\ name = [i \in Names |-> IF i = 0 THEN 1 ELSE NoFile]
  BY DEF LogInit
<1>2. \A i \in Names : LogOf(name, content)[i] = <<>>
  BY <1>1 DEF LogOf
<1>3. \A i \in Names : \A k \in 1 .. Len(LogOf(name, content)[i]) : FALSE
  BY <1>2
<1> QED BY <1>3, Zenon DEF OldestInv, LatestInOrder

(* Back to the words of OldestFirst. *)
LEMMA OldestInOrder ==
    ASSUME RotatesInv, OldestInv PROVE OldestFirst
<1> SUFFICES ASSUME ~overlap
             PROVE  /\ \A i, j \in Names : \A k \in DOMAIN LinesOf(i), m \in DOMAIN LinesOf(j) :
                            i > j \/ (i = j /\ k < m) => LinesOf(i)[k].n < LinesOf(j)[m].n
                    /\ \A n \in Kept : n .. lines \subseteq Kept
  BY DEF OldestFirst
<1> DEFINE l == LogOf(name, content)
<1>1. \A i \in Names : l[i] = LinesOf(i) /\ DOMAIN LinesOf(i) = 1 .. Len(l[i])
  BY LinesAreLines
<1>2. LatestInOrder(l, lines)
  BY DEF OldestInv
<1> HIDE DEF l
<1>3. \A i, j \in Names : \A k \in DOMAIN LinesOf(i), m \in DOMAIN LinesOf(j) :
          i > j \/ (i = j /\ k < m) => LinesOf(i)[k].n < LinesOf(j)[m].n
  <2>1. ASSUME NEW i \in Names, NEW j \in Names, NEW k \in DOMAIN LinesOf(i), NEW m \in DOMAIN LinesOf(j),
               i > j \/ (i = j /\ k < m)
        PROVE  LinesOf(i)[k].n < LinesOf(j)[m].n
    <3>1. k \in 1 .. Len(l[i]) /\ m \in 1 .. Len(l[j]) /\ l[i] = LinesOf(i) /\ l[j] = LinesOf(j)
      BY <1>1
    <3>2. l[i][k].n < l[j][m].n
      BY <1>2, <2>1, <3>1, Zenon DEF LatestInOrder
    <3> QED BY <3>1, <3>2
  <2> QED BY <2>1
<1>4. \A x : x \in Kept <=> Holds(l, x)
  <2>1. \A x : x \in Kept <=> \E i \in Names : \E k \in DOMAIN LinesOf(i) : LinesOf(i)[k].n = x
    BY DEF Kept
  <2> QED BY <1>1, <2>1 DEF Holds
<1>5. ASSUME NEW n \in Kept, NEW x \in n .. lines PROVE x \in Kept
  <2>1. PICK j \in Names : \E m \in 1 .. Len(l[j]) : l[j][m].n = n
    BY <1>4 DEF Holds
  <2>2. PICK m \in 1 .. Len(l[j]) : l[j][m].n = n
    BY <2>1
  <2>3. Holds(l, x)
    BY <1>2, <2>2, Zenon DEF LatestInOrder
  <2> QED BY <1>4, <2>3
<1> QED BY <1>3, <1>5

(* As long as no two rotations overlap, the files hold the latest lines, in *)
(* order and without a gap.                                                 *)
THEOREM LatestLinesInOrder == LogSpec => []OldestFirst
<1>1. LogInit => OldestInv
  BY LogInitOldest
<1>2. RotatesInv /\ OldestInv /\ [LogNext]_logVars => OldestInv'
  BY OldestStep
<1>3. RotatesInv /\ OldestInv => OldestFirst
  BY OldestInOrder
<1> QED BY <1>1, <1>2, <1>3, RotatesInvariance, PTL DEF LogSpec
-----------------------------------------------------------------------------
(***************************************************************************)
(* Size.  The bound on the files is not inductive: a file that just fits   *)
(* may have goroutines on their way to it.  DueFit counts them: the line   *)
(* of one of them and the longest line for each other one still fit.  Stat *)
(* restores this when it finds the file not full, an open because the file *)
(* is new, and a write takes one goroutine and one line out of the count   *)
(* (OneLess).                                                              *)
(***************************************************************************)
(* The goroutines that will write to the file that is open now without     *)
(* another look at its size.                                               *)
Due == {w \in Writers : call[w].at = "load" \/ (call[w].at = "write" /\ call[w].h = file)}

(* Sizes, as totals of the lines, before the step and after it. *)
LEMMA SizeIsTotal == \A f : SizeOf(f) = Total(content[f]) /\ SizeOf(f)' = Total(content'[f])
<1> SUFFICES ASSUME NEW f PROVE SizeOf(f) = Total(content[f]) /\ SizeOf(f)' = Total(content'[f])
  OBVIOUS
<1>1. SizeOf(f) = Total(content[f])
  BY DEF SizeOf, Total
<1>2. (SizeOf(f) = Total(content[f]))'
  BY DEF SizeOf, Total
<1> QED BY <1>1, <1>2

(* The size of the file that is open after the step. *)
LEMMA NextSizeIsTotal ==
    SizeOf(handle[file].file)' = Total(content'[handle'[file'].file])
<1>1. (SizeOf(handle[file].file) = Total(content[handle[file].file]))'
  BY DEF SizeOf, Total
<1> QED BY <1>1

(* The invariant of the sizes. *)
SizesAre == \A f \in 1 .. Len(content) : SizeOf(f) \in Nat
Fits     == \A f \in 1 .. Len(content) : SizeOf(f) <= SizeLimit
DueFit   == IsOpen(file) /\ Due # {} =>
                \E w \in Due : SizeOf(handle[file].file) + call[w].size + Room(Cardinality(Due) - 1)
                                   <= SizeLimit
SizeInv == SizesAre /\ (~overlap /\ Backups > 0 => Fits /\ DueFit)

(* One line of the file, and one of each other goroutine. *)
LEMMA RoomForAll ==
    ASSUME NEW D \in SUBSET Writers, D # {}, NEW n \in Nat, n <= MaxBytes - 1 \/ n <= Most
    PROVE  n + Room(Cardinality(D) - 1) <= SizeLimit
<1>1. PICK base \in Nat : base >= MaxBytes - 1 /\ base >= Most
                          /\ SizeLimit = base + Room(Cardinality(Writers) - 1)
  BY Limit
<1>2. /\ Cardinality(D) \in Nat /\ Cardinality(D) >= 1 /\ Cardinality(D) <= Cardinality(Writers)
      /\ Cardinality(Writers) \in Nat
  BY RotatingFileAssumption, FS_Subset, FS_CardinalityType, FS_EmptySet
<1>3. Cardinality(D) - 1 \in Nat /\ Cardinality(Writers) - 1 \in Nat
      /\ Cardinality(D) - 1 <= Cardinality(Writers) - 1
  BY <1>2
<1>4. /\ Room(Cardinality(D) - 1) <= Room(Cardinality(Writers) - 1)
      /\ Room(Cardinality(D) - 1) \in Nat /\ Room(Cardinality(Writers) - 1) \in Nat
  BY <1>3, RoomStep
<1>5. n <= base
  <2>1. Most \in Nat /\ MaxBytes - 1 \in Nat
    BY RoomStep, RotatingFileAssumption
  <2>2. base \in Nat /\ base >= MaxBytes - 1 /\ base >= Most
    BY <1>1
  <2> HIDE <1>1
  <2> QED BY <2>1, <2>2
<1> QED BY <1>1, <1>4, <1>5

(* The files stay; the ones that are due, and what they write, too. *)
LEMMA SameSizes ==
    ASSUME SizeInv, UNCHANGED <<content, overlap>>,
           ~overlap /\ Backups > 0 /\ DueFit => DueFit'
    PROVE  SizeInv'
<1>1. \A f : SizeOf(f)' = SizeOf(f)
  BY SizeIsTotal
<1> QED BY <1>1 DEF SizeInv, SizesAre, Fits

LEMMA SameDue ==
    ASSUME UNCHANGED <<content, handle, file>>, Due' = Due, \A v \in Due : call'[v].size = call[v].size,
           DueFit
    PROVE  DueFit'
<1>1. SizeOf(handle[file].file)' = SizeOf(handle[file].file)
  <2>1. SizeOf(handle[file].file)' = Total(content'[handle'[file'].file])
    BY NextSizeIsTotal
  <2> QED BY <2>1, SizeIsTotal
<1>2. IsOpen(file)' = IsOpen(file)
  BY DEF IsOpen
<1> QED BY <1>1, <1>2, Zenon DEF DueFit

LEMMA NotOpen == ASSUME ~IsOpen(file)' PROVE DueFit'
BY DEF DueFit

(* SizeInv, step by step. *)
LEMMA WriteSize ==
    ASSUME RotatesInv, SizeInv, NEW w \in Writers, Write(w)
    PROVE  SizeInv'
<1>1. /\ Alone(w) /\ UNCHANGED <<content, handle, file, overlap>>
      /\ call[w].at = "idle" /\ call'[w].at = IF Backups < 1 THEN "load" ELSE "stat"
  BY WriteDoes DEF RotatesInv
<1>2. ASSUME Backups > 0 PROVE Due' = Due /\ \A v \in Due : call'[v].size = call[v].size
  <2>1. call'[w].at = "stat"
    BY <1>1, <1>2, RotatingFileAssumption
  <2> QED BY <1>1, <2>1 DEF Due, Alone
<1> QED BY <1>1, <1>2, SameDue, SameSizes

(* A step of a rotation before its end. *)
LEMMA RotatingSize ==
    ASSUME RotatesInv, SizeInv, NEW w \in Writers, Shift(w) \/ CloseFile(w) \/ RenameFile(w)
    PROVE  SizeInv'
<1> USE DEF RotatesInv
<1>1. /\ Alone(w) /\ UNCHANGED <<content, file, overlap>>
      /\ call[w].at \in Rotating /\ call'[w].at \in Rotating
  <2>1. CASE Shift(w)
    BY <2>1, ShiftDoes DEF Rotating
  <2>2. CASE CloseFile(w)
    BY <2>2, AdvanceDoes DEF CloseFile, disk, Rotating
  <2>3. CASE RenameFile(w)
    BY <2>3, AdvanceDoes DEF RenameFile, Rename, Rotating
  <2> QED BY <2>1, <2>2, <2>3
<1>2. Due' = Due /\ \A v \in Due : call'[v].size = call[v].size
  BY <1>1 DEF Due, Alone, Rotating
<1>3. DueFit => DueFit'
  <2>1. CASE UNCHANGED handle
    BY <1>1, <1>2, <2>1, SameDue
  <2>2. CASE CloseFile(w)
    <3>1. ~IsOpen(file)'
      <4>1. file = 0 \/ file \in 1 .. Len(handle)
        BY Typed, Shape DEF RestOK
      <4>2. file \in 1 .. Len(handle) => handle'[file].open = FALSE
        BY <2>2, CloseCloses
      <4> QED BY <1>1, <4>1, <4>2 DEF IsOpen, Nil
    <3> QED BY <3>1, NotOpen
  <2> QED BY <2>1, <2>2 DEF Shift, RenameFile
<1> QED BY <1>1, <1>3, SameSizes

LEMMA LoadSize ==
    ASSUME RotatesInv, SizeInv, NEW w \in Writers, Load(w)
    PROVE  SizeInv'
<1>1. /\ Alone(w) /\ UNCHANGED <<content, handle, file, overlap>> /\ call[w].at = "load"
      /\ call'[w].at = "write" /\ call'[w].h = file /\ call'[w].size = call[w].size
  BY LoadDoes DEF RotatesInv
<1>2. Due' = Due /\ \A v \in Due : call'[v].size = call[v].size
  BY <1>1 DEF Due, Alone
<1> QED BY <1>1, <1>2, SameDue, SameSizes

LEMMA OpenFailsSize ==
    ASSUME RotatesInv, SizeInv, NEW w \in Writers, OpenFails(w)
    PROVE  SizeInv'
<1>1. UNCHANGED <<content, overlap>> /\ ~IsOpen(file)'
  BY DEF OpenFails, disk, IsOpen
<1> QED BY <1>1, NotOpen, SameSizes

LEMMA StatSize ==
    ASSUME RotatesInv, SizeInv, NEW w \in Writers, Stat(w)
    PROVE  SizeInv'
<1> USE DEF RotatesInv
<1>1. Alone(w) /\ UNCHANGED <<content, handle, file>> /\ call[w].at = "stat" /\ call'[w].size = call[w].size
  BY StatDoes
<1>2. CASE /\ call'[w].at = (IF Backups > 1 THEN "shift" ELSE "close")
           /\ ~overlap' => ~overlap
  <2>1. Due' = Due /\ \A v \in Due : call'[v].size = call[v].size
    BY <1>1, <1>2 DEF Due, Alone
  <2>2. DueFit => DueFit'
    BY <1>1, <2>1, SameDue
  <2>3. \A f : SizeOf(f)' = SizeOf(f)
    BY <1>1, SizeIsTotal
  <2> QED BY <1>1, <1>2, <2>2, <2>3 DEF SizeInv, SizesAre, Fits
<1>3. CASE ~(IsOpen(file) /\ Full(w)) /\ call'[w].at = "load" /\ overlap' = overlap
  <2>1. DueFit'
    <3>1. CASE ~IsOpen(file)
      <4>1. ~IsOpen(file)'
        BY <1>1, <3>1 DEF IsOpen
      <4> QED BY <4>1, NotOpen
    <3>2. CASE IsOpen(file)
      <4> DEFINE n == SizeOf(handle[file].file) + call[w].size
      <4>1. file \in 1 .. Len(handle) /\ handle[file].file \in 1 .. Len(content)
        BY <3>2, Typed, Shape DEF RestOK, IsOpen, Nil
      <4>2. SizeOf(handle[file].file) \in Nat /\ call[w].size \in Nat
        <5>1. call[w].size \in Sizes
          BY <1>1, CallShape DEF CallOK
        <5> QED BY <4>1, <5>1, RotatingFileAssumption DEF SizeInv, SizesAre
      <4>3. n \in Nat /\ n <= MaxBytes - 1
        BY <1>3, <3>2, <4>2, RotatingFileAssumption DEF Full
      <4>4. w \in Due' /\ Due' \in SUBSET Writers
        BY <1>3 DEF Due
      <4>5. n = SizeOf(handle[file].file)' + call'[w].size
        BY <1>1, SizeIsTotal, NextSizeIsTotal
      <4> HIDE DEF n
      <4>6. n + Room(Cardinality(Due') - 1) <= SizeLimit
        BY <4>3, <4>4, RoomForAll
      <4> QED BY <4>4, <4>5, <4>6, Zenon DEF DueFit
    <3> QED BY <3>1, <3>2
  <2> QED BY <1>1, <1>3, <2>1, SameSizes
<1> QED BY <1>2, <1>3, StatDoes

(* A new file is empty; the others stay. *)
LEMMA OpenedSizes ==
    ASSUME RotatesInv, SizeInv, NEW hs, Opened(hs), overlap' = overlap
    PROVE  SizesAre' /\ (~overlap /\ Backups > 0 => Fits')
<1>1. /\ \A f \in 1 .. Len(content) : content'[f] = content[f]
      /\ \A f \in 1 .. Len(content') : f \in 1 .. Len(content) \/ content'[f] = <<>>
  BY DEF Opened
<1>2. \A f \in 1 .. Len(content') :
          (f \in 1 .. Len(content) /\ SizeOf(f)' = SizeOf(f)) \/ SizeOf(f)' = 0
  BY <1>1, SizeIsTotal, TotalEmpty
<1>3. 0 <= SizeLimit
  BY Limit, RoomStep
<1> QED BY <1>2, <1>3 DEF SizeInv, SizesAre, Fits

LEMMA OpenFileSize ==
    ASSUME RotatesInv, SizeInv, NEW w \in Writers, OpenFile(w)
    PROVE  SizeInv'
<1> USE DEF RotatesInv
<1>1. /\ overlap' = overlap /\ OpenLog(handle) /\ call[w].at = "open" /\ call'[w].at = "load"
      /\ call'[w].size = call[w].size
  BY AdvanceDoes DEF OpenFile
<1>2. Opened(handle)
  BY <1>1, Typed, OpenLogOpens
<1>3. ASSUME ~overlap PROVE DueFit'
  <2>1. name[0] = NoFile
    BY <1>1, <1>3 DEF RotateInv, Ready
  <2>2. handle'[file'].file = name'[0] /\ content'[name'[0]] = <<>>
    BY <1>2, <2>1 DEF Opened
  <2>3. SizeOf(handle[file].file)' = 0
    <3>1. SizeOf(handle[file].file)' = Total(content'[handle'[file'].file])
      BY NextSizeIsTotal
    <3> QED BY <2>2, <3>1, TotalEmpty
  <2>4. call'[w].size \in Nat /\ call'[w].size <= Most
    <3>1. call[w].size \in Sizes
      BY <1>1, CallShape DEF CallOK
    <3> QED BY <1>1, <3>1, RoomStep
  <2>5. w \in Due' /\ Due' \in SUBSET Writers
    BY <1>1 DEF Due
  <2>6. call'[w].size + Room(Cardinality(Due') - 1) <= SizeLimit
    BY <2>4, <2>5, RoomForAll
  <2>7. 0 + call'[w].size = call'[w].size
    BY <2>4
  <2>8. SizeOf(handle[file].file)' + call'[w].size + Room(Cardinality(Due') - 1) <= SizeLimit
    BY <2>3, <2>6, <2>7
  <2> QED BY <2>5, <2>8, Zenon DEF DueFit
<1> QED BY <1>1, <1>2, <1>3, OpenedSizes DEF SizeInv

LEMMA RestartSize ==
    ASSUME RotatesInv, SizeInv, Restart
    PROVE  SizeInv'
<1>1. /\ overlap' = overlap /\ OpenLog(<<>>) /\ call' = [v \in Writers |-> Idle]
      /\ <<>> \in Seq(HandleSet)
  BY DEF Restart
<1>2. Opened(<<>>)
  BY <1>1, OpenLogOpens DEF RotatesInv
<1>3. Due' = {}
  BY <1>1 DEF Due, Idle
<1> QED BY <1>1, <1>2, <1>3, OpenedSizes DEF SizeInv, DueFit

(* One of those that are due writes its line: the others still fit. *)
LEMMA OneLess ==
    ASSUME NEW D \in SUBSET Writers, NEW w \in D, NEW size \in [D -> Sizes], NEW n \in Nat,
           \E u \in D : n + size[u] + Room(Cardinality(D) - 1) <= SizeLimit
    PROVE  /\ n + size[w] <= SizeLimit
           /\ D \ {w} # {} => \E u \in D \ {w} :
                  n + size[w] + size[u] + Room(Cardinality(D \ {w}) - 1) <= SizeLimit
<1>0. /\ IsFiniteSet(D) /\ Cardinality(D) \in Nat /\ Cardinality(D) >= 1
      /\ Cardinality(D \ {w}) = Cardinality(D) - 1 /\ (D \ {w} # {} => Cardinality(D) - 1 >= 1)
  <2>1. IsFiniteSet(D)
    BY RotatingFileAssumption, FS_Subset
  <2>2. IsFiniteSet(D \ {w}) /\ Cardinality(D \ {w}) = Cardinality(D) - 1
    BY <2>1, FS_RemoveElement
  <2>3. Cardinality(D) \in Nat /\ Cardinality(D \ {w}) \in Nat
    BY <2>1, <2>2, FS_CardinalityType
  <2>4. (Cardinality(D) = 0 <=> D = {}) /\ (Cardinality(D \ {w}) = 0 <=> D \ {w} = {})
    BY <2>1, <2>2, FS_EmptySet
  <2>5. D # {}
    OBVIOUS
  <2> QED BY <2>1, <2>2, <2>3, <2>4, <2>5
<1>1. PICK u \in D : n + size[u] + Room(Cardinality(D) - 1) <= SizeLimit
  OBVIOUS
<1>2. \A v \in D : size[v] \in Nat /\ size[v] <= Most
  BY RoomStep
<1> DEFINE c == Cardinality(D) - 1
<1>3. c \in Nat /\ Room(c) \in Nat /\ SizeLimit \in Nat /\ Most \in Nat
  <2>1. c \in Nat
    BY <1>0
  <2>2. Room(c) \in Nat /\ Most \in Nat /\ Room(Cardinality(Writers) - 1) \in Nat
    BY <2>1, RoomStep, Limit
  <2>3. SizeLimit \in Nat
    BY <2>2, Limit
  <2> QED BY <2>1, <2>2, <2>3
<1>4. c >= 1 => Room(c - 1) \in Nat /\ Room(c) = Room(c - 1) + Most
  BY <1>3, RoomStep
<1> HIDE DEF c
<1>5. n + size[u] + Room(c) <= SizeLimit /\ size[u] \in Nat /\ size[w] \in Nat /\ size[w] <= Most /\ size[u] <= Most
  BY <1>1, <1>2 DEF c
<1>6. CASE u = w
  <2>1. n + size[w] <= SizeLimit
    BY <1>3, <1>5, <1>6
  <2>2. ASSUME NEW v \in D \ {w} PROVE n + size[w] + size[v] + Room(c - 1) <= SizeLimit
    <3>1. c >= 1 /\ size[v] \in Nat /\ size[v] <= Most
      BY <1>0, <1>2, <2>2 DEF c
    <3> QED BY <1>3, <1>4, <1>5, <1>6, <3>1
  <2> QED BY <1>0, <2>1, <2>2 DEF c
<1>7. CASE u # w
  <2>1. c >= 1 /\ u \in D \ {w}
    BY <1>0, <1>7 DEF c
  <2>2. n + size[w] + size[u] + Room(c - 1) <= SizeLimit /\ n + size[w] <= SizeLimit
    BY <1>3, <1>4, <1>5, <2>1
  <2> QED BY <1>0, <2>1, <2>2 DEF c
<1> QED BY <1>6, <1>7

(* The sizes after a line is written. *)
LEMMA WrittenSizes ==
    ASSUME LogTypeInv, SizeInv, NEW f \in 1 .. Len(content), NEW s \in Sizes, Written(f, s)
    PROVE  /\ SizesAre' /\ SizeOf(f) \in Nat /\ SizeOf(f)' = SizeOf(f) + s
           /\ \A e \in 1 .. Len(content) : e # f => SizeOf(e)' = SizeOf(e)
           /\ Len(content') = Len(content)
<1> DEFINE line == [n |-> lines + 1, size |-> s]
<1>1. content[f] \in Seq(Line) /\ lines \in Nat
  BY Shape
<1>2. line \in Line /\ line.size = s
  BY <1>1 DEF Line
<1>3. /\ content'[f] = Append(content[f], line) /\ Len(content') = Len(content)
      /\ \A e \in 1 .. Len(content) : e # f => content'[e] = content[e]
  BY DEF Written
<1> HIDE DEF line
<1>4. Total(content'[f]) = Total(content[f]) + s
  BY <1>1, <1>2, <1>3, TotalAppend
<1>5. SizeOf(f)' = SizeOf(f) + s /\ \A e \in 1 .. Len(content) : e # f => SizeOf(e)' = SizeOf(e)
  BY <1>3, <1>4, SizeIsTotal
<1>6. SizeOf(f) \in Nat /\ s \in Nat /\ \A e \in 1 .. Len(content) : SizeOf(e) \in Nat
  BY RotatingFileAssumption DEF SizeInv, SizesAre
<1>7. SizesAre'
  BY <1>3, <1>5, <1>6 DEF SizesAre
<1> QED BY <1>3, <1>5, <1>6, <1>7

LEMMA WriteFileSize ==
    ASSUME RotatesInv, SizeInv, NEW w \in Writers, WriteFile(w)
    PROVE  SizeInv'
<1> USE DEF RotatesInv
<1>1. /\ Alone(w) /\ UNCHANGED <<handle, file, overlap>> /\ call[w].at = "write" /\ call'[w].at = "idle"
      /\ ~IsOpen(call[w].h) => UNCHANGED <<content, lines>>
  BY WriteFileDoes
<1>2. Due' = Due \ {w} /\ \A v \in Due \ {w} : call'[v].size = call[v].size
  BY <1>1 DEF Due, Alone
<1>3. CASE ~IsOpen(call[w].h)
  <2>1. DueFit => DueFit'
    <3>1. CASE call[w].h = file
      <4>1. ~IsOpen(file)'
        BY <1>1, <1>3, <3>1 DEF IsOpen
      <4> QED BY <4>1, NotOpen
    <3>2. CASE call[w].h # file
      <4>1. w \notin Due
        BY <1>1, <3>2 DEF Due
      <4>2. Due' = Due /\ \A v \in Due : call'[v].size = call[v].size
        BY <1>2, <4>1
      <4> QED BY <1>1, <1>3, <4>2, SameDue
    <3> QED BY <3>1, <3>2
  <2> QED BY <1>1, <1>3, <2>1, SameSizes
<1>4. CASE IsOpen(call[w].h)
  <2>0. PICK f : f = handle[call[w].h].file
    OBVIOUS
  <2>1. call[w].h \in 1 .. Len(handle) /\ f \in 1 .. Len(content) /\ Written(f, call[w].size)
    BY <1>4, <2>0, WriteAppends
  <2>2. call[w].size \in Sizes
    BY <1>1, CallShape DEF CallOK
  <2>3. /\ SizesAre' /\ SizeOf(f) \in Nat /\ SizeOf(f)' = SizeOf(f) + call[w].size
        /\ \A e \in 1 .. Len(content) : e # f => SizeOf(e)' = SizeOf(e)
        /\ Len(content') = Len(content)
    BY <2>1, <2>2, WrittenSizes
  <2> SUFFICES ASSUME ~overlap, Backups > 0 PROVE Fits' /\ DueFit'
    BY <1>1, <2>3 DEF SizeInv
  <2>4. call[w].h = file /\ IsOpen(file) /\ w \in Due
    BY <1>1, <1>4, <2>1 DEF RotateInv, OpenIsLog, IsOpen, Due
  <2> DEFINE size == [v \in Due |-> call[v].size]
  <2>5. size \in [Due -> Sizes] /\ Due \in SUBSET Writers
    <3>1. \A v \in Due : v \in Writers /\ call[v].size \in Sizes
      BY CallShape DEF CallOK, Due
    <3> QED BY <3>1
  <2>6. \E u \in Due : SizeOf(f) + size[u] + Room(Cardinality(Due) - 1) <= SizeLimit
    <3>1. DueFit
      BY DEF SizeInv
    <3> QED BY <2>0, <2>4, <3>1 DEF DueFit
  <2>7. size[w] = call[w].size /\ \A u \in Due \ {w} : size[u] = call'[u].size
    BY <1>2, <2>4
  <2> HIDE DEF size
  <2>8. /\ SizeOf(f) + size[w] <= SizeLimit
        /\ Due \ {w} # {} => \E u \in Due \ {w} :
               SizeOf(f) + size[w] + size[u] + Room(Cardinality(Due \ {w}) - 1) <= SizeLimit
    <3>1. SizeOf(f) \in Nat
      BY <2>3
    <3>2. PICK n \in Nat : n = SizeOf(f)
      BY <3>1
    <3>3. PICK D \in SUBSET Writers : D = Due
      BY <2>5
    <3>4. PICK g \in [D -> Sizes] : g = size
      BY <2>5, <3>3
    <3>5. w \in D /\ \E u \in D : n + g[u] + Room(Cardinality(D) - 1) <= SizeLimit
      BY <2>4, <2>6, <3>2, <3>3, <3>4
    <3>6. n + g[w] <= SizeLimit
      BY <3>5, OneLess
    <3>7. D \ {w} # {} => \E u \in D \ {w} :
              n + g[w] + g[u] + Room(Cardinality(D \ {w}) - 1) <= SizeLimit
      BY <3>5, OneLess
    <3> QED BY <3>2, <3>3, <3>4, <3>6, <3>7
  <2>9. Fits'
    <3>1. Fits
      BY DEF SizeInv
    <3> QED BY <2>3, <2>7, <2>8, <3>1 DEF Fits
  <2>10. DueFit'
    <3> SUFFICES ASSUME Due' # {}
                 PROVE  \E u \in Due' : SizeOf(handle[file].file)' + call'[u].size
                                          + Room(Cardinality(Due') - 1) <= SizeLimit
      BY Zenon DEF DueFit
    <3>1. SizeOf(handle[file].file)' = SizeOf(f) + size[w]
      <4>1. handle'[file'].file = f
        BY <1>1, <2>0, <2>4
      <4> QED BY <2>3, <2>7, <4>1, SizeIsTotal, NextSizeIsTotal
    <3>2. PICK u \in Due \ {w} : SizeOf(f) + size[w] + size[u] + Room(Cardinality(Due \ {w}) - 1) <= SizeLimit
      BY <1>2, <2>8
    <3>3. u \in Due' /\ size[u] = call'[u].size
      BY <1>2, <2>7
    <3>4. SizeOf(handle[file].file)' + call'[u].size + Room(Cardinality(Due') - 1) <= SizeLimit
      BY <1>2, <3>1, <3>2, <3>3, Zenon
    <3> QED BY <3>3, <3>4
  <2> QED BY <2>9, <2>10
<1> QED BY <1>3, <1>4

LEMMA SizeStep ==
    ASSUME RotatesInv, SizeInv, [LogNext]_logVars
    PROVE  SizeInv'
<1>1. CASE UNCHANGED logVars
  <2>1. UNCHANGED <<content, handle, file, overlap>> /\ Due' = Due /\ \A v \in Due : call'[v].size = call[v].size
    BY <1>1 DEF logVars, disk, Due
  <2> QED BY <2>1, SameDue, SameSizes
<1>2. ASSUME NEW w \in Writers, Write(w) PROVE SizeInv'
  BY <1>2, WriteSize
<1>3. ASSUME NEW w \in Writers, Stat(w) PROVE SizeInv'
  BY <1>3, StatSize
<1>4. ASSUME NEW w \in Writers, Rotate(w) PROVE SizeInv'
  BY <1>4, RotatingSize, OpenFileSize, OpenFailsSize DEF Rotate
<1>5. ASSUME NEW w \in Writers, Load(w) PROVE SizeInv'
  BY <1>5, LoadSize
<1>6. ASSUME NEW w \in Writers, WriteFile(w) PROVE SizeInv'
  BY <1>6, WriteFileSize
<1>7. CASE Restart
  BY <1>7, RestartSize
<1> QED BY <1>1, <1>2, <1>3, <1>4, <1>5, <1>6, <1>7 DEF LogNext

LEMMA LogInitSize ==
    ASSUME LogInit PROVE SizeInv
<1>1. content = <<<<>>>> /\ Len(content) = 1 /\ content[1] = <<>>
  BY DEF LogInit
<1>2. \A f \in 1 .. Len(content) : SizeOf(f) = 0
  BY <1>1, SizeIsTotal, TotalEmpty
<1>3. 0 <= SizeLimit
  BY Limit, RoomStep
<1>4. Due = {}
  BY DEF LogInit, Due, Idle
<1> QED BY <1>2, <1>3, <1>4 DEF SizeInv, SizesAre, Fits, DueFit

(* As long as no two rotations overlap, a file outgrows maxBytes by no more *)
(* than one line of each other goroutine.                                   *)
THEOREM FilesStaySmall == LogSpec => []SizeBound
<1>1. LogInit => SizeInv
  BY LogInitSize
<1>2. RotatesInv /\ SizeInv /\ [LogNext]_logVars => SizeInv'
  BY SizeStep
<1>3. RotatesInv /\ SizeInv => SizeBound
  BY Shape DEF RotatesInv, SizeInv, Fits, SizeBound
<1> QED BY <1>1, <1>2, <1>3, RotatesInvariance, PTL DEF LogSpec
=============================================================================
