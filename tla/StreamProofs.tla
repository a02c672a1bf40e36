---------------------------- MODULE StreamProofs ----------------------------
(***************************************************************************)
(* Proofs about Stream for every number of bytes, every size of the length *)
(* field and every window: what each application gets is a prefix of what  *)
(* the other one sent.                                                     *)
(***************************************************************************)
EXTENDS Stream, TLAPS, SequenceTheorems

(***************************************************************************)
(* Both directions look alike: bytes enter at the first joint, cross the   *)
(* pipe and leave at the last joint.                                       *)
(***************************************************************************)
FirstJoint(d) == IF d = "there" THEN "server" ELSE "client"
LastJoint(d)  == IF d = "there" THEN "client" ELSE "server"

Kinds == {"<", ">", "l", "h", "p", "q", "w", "length", "body", "data"}
Cells == [kind : Kinds, n : Nat]
CopyLabels == {"idle", "start", "read", "write", "close", "over"}
WorkLabels == {"head", "swallow", "connect", "join", "over"} \cup MessageTypes

(***************************************************************************)
(* Types: TypeOK, with the types of what it leaves out.                    *)
(***************************************************************************)
ShapeOK ==
    /\ wire \in [Directions -> [1 .. 3 -> Seq(Cells)]]
    /\ sent \in [Directions -> Nat]
    /\ handle \in {"request", "join", "over"} /\ work \in WorkLabels
    /\ free \in [Joints -> SUBSET Buffers]
    /\ buf \in [Joints -> [Directions -> Buffers \cup {NoBuffer}]]
    /\ cell \in [Joints -> [Buffers -> Cells]]

(* No more is on its way to the first joint than was sent. *)
FirstBound == \A d \in Directions : Len(wire[d][FirstHop(d)]) <= sent[d]

(* A joint copies only after the request, which comes before everything else. *)
OrderOK ==
    /\ handle # "join" =>
           /\ \A d \in Directions : copy["server"][d] = "idle"
           /\ wire["there"][2] = <<>> /\ work \in {"head", "over"}
    /\ work # "join" => \A d \in Directions : copy["client"][d] = "idle"
    /\ lost => \A d \in Directions : wire[d][2] = <<>>

(* A copy that runs has a buffer, out of the pool and not the other copy's. *)
InUse(j, d) == copy[j][d] \in {"read", "write"}
BuffersOK ==
    \A j \in Joints :
        /\ \A d \in Directions : InUse(j, d) => buf[j][d] \in Buffers
        /\ InUse(j, "there") /\ InUse(j, "back") => buf[j]["there"] # buf[j]["back"]
        /\ \A b \in Buffers :
               b \in free[j] <=> \A d \in Directions : InUse(j, d) => buf[j][d] # b

TypeInv == TypeOK /\ ShapeOK /\ FirstBound /\ OrderOK /\ BuffersOK
-----------------------------------------------------------------------------
(***************************************************************************)
(* The bytes of one direction, counted from the end that gets them: a are  *)
(* there, then one may be held by the last copy, then come the ones in the *)
(* pipe behind the header, then one held by the first copy, then the ones  *)
(* before the first joint.  What is behind a place where bytes have been   *)
(* dropped never comes through, and nothing is said about it.              *)
(***************************************************************************)
Count(b) == IF b THEN 1 ELSE 0

FlowOK(w3, hasL, heldL, w2, hdr, hasF, heldF, w1, total, open3, open2, open1) ==
    /\ Len(w3) <= total /\ \A i \in 1 .. Len(w3) : w3[i] = Data(i)
    /\ open3 =>
          /\ Len(w3) + Count(hasL) <= total
          /\ hasL => heldL = Data(Len(w3) + 1)
    /\ open2 =>
          /\ hdr <= Len(w2)
          /\ Len(w3) + Count(hasL) + (Len(w2) - hdr) + Count(hasF) <= total
          /\ \A i \in hdr + 1 .. Len(w2) : w2[i] = Data(Len(w3) + Count(hasL) + (i - hdr))
          /\ hasF => heldF = Data(Len(w3) + Count(hasL) + (Len(w2) - hdr) + 1)
    /\ open1 =>
          /\ Len(w3) + Count(hasL) + (Len(w2) - hdr) + Count(hasF) + Len(w1) = total
          /\ \A i \in 1 .. Len(w1) :
                 w1[i] = Data(Len(w3) + Count(hasL) + (Len(w2) - hdr) + Count(hasF) + i)

(* The cells of the ConnRequest that awaitWork has yet to take off the pipe. *)
Header(d) ==
    IF d = "there" /\ handle = "join"
    THEN IF work = "head" THEN LenSize + 3 ELSE IF work = "ConnRequest" THEN LenSize + 1 ELSE 0
    ELSE 0

Running == {"idle", "start", "read", "write"}
AtWork  == {"head", "ConnRequest", "connect", "join"}

Holds(j, d) == copy[j][d] = "write"
Held(j, d)  == cell[j][buf[j][d]]

Open3(d) == Receiver(LastHop(d), d) \notin closed
Open2(d) ==
    /\ Open3(d) /\ copy[LastJoint(d)][d] \in Running
    /\ Receiver(2, d) \notin closed /\ ~lost
    /\ d = "there" => work \in AtWork
Open1(d) ==
    /\ Open2(d) /\ copy[FirstJoint(d)][d] \in Running
    /\ Receiver(FirstHop(d), d) \notin closed

Flow(d) ==
    FlowOK(wire[d][LastHop(d)], Holds(LastJoint(d), d), Held(LastJoint(d), d),
           wire[d][2], Header(d), Holds(FirstJoint(d), d), Held(FirstJoint(d), d),
           wire[d][FirstHop(d)], sent[d], Open3(d), Open2(d), Open1(d))

FlowInv == \A d \in Directions : Flow(d)

LEMMA DataTyped == \A n \in Nat : Data(n) \in Cells
BY DEF Data, Cell, Cells, Kinds

(* What is in the buffer of a copy that holds nothing does not matter. *)
LEMMA FlowHeldLast ==
    ASSUME NEW w3, NEW w2, NEW w1, NEW hasL, NEW hasF, NEW heldL, NEW heldF,
           NEW hdr, NEW total, NEW o3, NEW o2, NEW o1,
           FlowOK(w3, hasL, heldL, w2, hdr, hasF, heldF, w1, total, o3, o2, o1),
           NEW other, hasL => other = heldL
    PROVE  FlowOK(w3, hasL, other, w2, hdr, hasF, heldF, w1, total, o3, o2, o1)
BY DEF FlowOK

LEMMA FlowHeldFirst ==
    ASSUME NEW w3, NEW w2, NEW w1, NEW hasL, NEW hasF, NEW heldL, NEW heldF,
           NEW hdr, NEW total, NEW o3, NEW o2, NEW o1,
           FlowOK(w3, hasL, heldL, w2, hdr, hasF, heldF, w1, total, o3, o2, o1),
           NEW other, hasF => other = heldF
    PROVE  FlowOK(w3, hasL, heldL, w2, hdr, hasF, other, w1, total, o3, o2, o1)
BY DEF FlowOK

(* The application sends a byte. *)
LEMMA FlowSend ==
    ASSUME NEW w3 \in Seq(Cells), NEW w2 \in Seq(Cells), NEW w1 \in Seq(Cells),
           NEW hasL \in BOOLEAN, NEW hasF \in BOOLEAN, NEW heldL, NEW heldF,
           NEW hdr \in Nat, NEW total \in Nat,
           NEW o3 \in BOOLEAN, NEW o2 \in BOOLEAN, NEW o1 \in BOOLEAN, o1 => o2, o2 => o3,
           FlowOK(w3, hasL, heldL, w2, hdr, hasF, heldF, w1, total, o3, o2, o1)
    PROVE  FlowOK(w3, hasL, heldL, w2, hdr, hasF, heldF, Append(w1, Data(total + 1)), total + 1, o3, o2, o1)
<1> DEFINE v1 == Append(w1, Data(total + 1))
<1>1. /\ Len(w1) \in Nat /\ Len(w2) \in Nat /\ Len(w3) \in Nat /\ Len(v1) = Len(w1) + 1
      /\ \A i \in 1 .. Len(w1) : v1[i] = w1[i]
      /\ v1[Len(w1) + 1] = Data(total + 1)
  BY AppendProperties, LenProperties, DataTyped
<1> HIDE DEF v1
<1>2. Count(hasL) \in Nat /\ Count(hasF) \in Nat
  BY DEF Count
<1>3. ASSUME o1
      PROVE  /\ Len(w3) + Count(hasL) + (Len(w2) - hdr) + Count(hasF) + Len(v1) = total + 1
             /\ \A i \in 1 .. Len(v1) :
                    v1[i] = Data(Len(w3) + Count(hasL) + (Len(w2) - hdr) + Count(hasF) + i)
  <2> DEFINE base == Len(w3) + Count(hasL) + (Len(w2) - hdr) + Count(hasF)
  <2>1. base \in Int /\ base + Len(w1) = total /\ \A i \in 1 .. Len(w1) : w1[i] = Data(base + i)
    BY <1>1, <1>2, <1>3 DEF FlowOK
  <2> HIDE DEF base
  <2>2. base + Len(v1) = total + 1 /\ base + (Len(w1) + 1) = total + 1
    BY <1>1, <2>1
  <2>3. \A i \in 1 .. Len(v1) : i \in 1 .. Len(w1) \/ i = Len(w1) + 1
    BY <1>1
  <2>4. \A i \in 1 .. Len(v1) : v1[i] = Data(base + i)
    BY <1>1, <2>1, <2>2, <2>3
  <2> QED BY <2>2, <2>4 DEF base
<1>4. /\ Len(w3) <= total + 1 /\ \A i \in 1 .. Len(w3) : w3[i] = Data(i)
      /\ o3 => Len(w3) + Count(hasL) <= total + 1 /\ (hasL => heldL = Data(Len(w3) + 1))
  BY <1>1, <1>2 DEF FlowOK
<1>5. o2 =>
          /\ hdr <= Len(w2)
          /\ Len(w3) + Count(hasL) + (Len(w2) - hdr) + Count(hasF) <= total + 1
          /\ \A i \in hdr + 1 .. Len(w2) : w2[i] = Data(Len(w3) + Count(hasL) + (i - hdr))
          /\ hasF => heldF = Data(Len(w3) + Count(hasL) + (Len(w2) - hdr) + 1)
  BY <1>1, <1>2, SMTT(60) DEF FlowOK
<1> QED BY <1>3, <1>4, <1>5 DEF FlowOK, v1


LEMMA TailFacts ==
    ASSUME NEW q \in Seq(Cells), q # <<>>
    PROVE  /\ Len(q) \in Nat \ {0} /\ Head(q) = q[1] /\ Head(q) \in Cells
           /\ Tail(q) \in Seq(Cells) /\ Len(Tail(q)) \in Nat /\ Len(Tail(q)) = Len(q) - 1
           /\ \A i \in 1 .. Len(Tail(q)) : Tail(q)[i] = q[i + 1]
<1>1. Len(q) \in Nat \ {0}
  BY EmptySeq
<1>2. Head(q) = q[1]
  BY <1>1
<1> QED BY <1>1, <1>2, HeadTailProperties, LenProperties

(* A copy has no byte before or after a step, and one on the other side. *)
NoYes(no, yes) == ~no /\ yes
Adds(v, w, c)  == v = Append(w, c)

(* The first copy reads a byte that the application has sent ... *)
LEMMA FlowReadFirst ==
    ASSUME NEW no \in BOOLEAN, NEW yes \in BOOLEAN, NoYes(no, yes),
           NEW w3 \in Seq(Cells), NEW w2 \in Seq(Cells), NEW w1 \in Seq(Cells),
           NEW hasL \in BOOLEAN, NEW heldL, NEW heldF,
           NEW hdr \in Nat, NEW total \in Nat,
           NEW o3 \in BOOLEAN, NEW o2 \in BOOLEAN, NEW o1 \in BOOLEAN, o1 => o2, o2 => o3,
           FlowOK(w3, hasL, heldL, w2, hdr, no, heldF, w1, total, o3, o2, o1),
           w1 # <<>>, o2 => o1
    PROVE  FlowOK(w3, hasL, heldL, w2, hdr, yes, Head(w1), Tail(w1), total, o3, o2, o1)
<1>0. ~no /\ yes
  BY DEF NoYes
<1> DEFINE v1 == Tail(w1)
<1>1. /\ Len(w1) \in Nat \ {0} /\ Len(w2) \in Nat /\ Len(w3) \in Nat /\ Len(v1) \in Nat
      /\ Len(v1) = Len(w1) - 1 /\ Head(w1) = w1[1]
      /\ \A i \in 1 .. Len(v1) : v1[i] = w1[i + 1]
  BY TailFacts, LenProperties
<1> HIDE DEF v1
<1>2. Count(hasL) \in Nat /\ Count(no) = 0 /\ Count(yes) = 1
  BY <1>0 DEF Count
<1> DEFINE base == Len(w3) + Count(hasL) + (Len(w2) - hdr)
<1>3. base \in Int
  BY <1>1, <1>2
<1>4. ASSUME o2
      PROVE  base + Len(w1) = total /\ \A i \in 1 .. Len(w1) : w1[i] = Data(base + i)
  <2>1. /\ base + Count(no) + Len(w1) = total
        /\ \A i \in 1 .. Len(w1) : w1[i] = Data(base + Count(no) + i)
    BY <1>4 DEF FlowOK
  <2> HIDE DEF base
  <2>2. base + Count(no) = base
    BY <1>0, <1>3 DEF Count
  <2> QED BY <2>1, <2>2
<1>5. ASSUME o2
      PROVE  /\ base + 1 <= total /\ base + 1 + Len(v1) = total /\ Head(w1) = Data(base + 1)
             /\ \A i \in 1 .. Len(v1) : v1[i] = Data(base + 1 + i)
  <2> HIDE DEF base
  <2>1. \A i \in 1 .. Len(v1) : i + 1 \in 1 .. Len(w1) /\ base + (i + 1) = base + 1 + i
    BY <1>1, <1>3
  <2>2. 1 \in 1 .. Len(w1)
    BY <1>1
  <2>3. \A i \in 1 .. Len(v1) : v1[i] = Data(base + 1 + i)
    BY <1>1, <1>4, <1>5, <2>1
  <2>4. base + 1 <= total /\ base + 1 + Len(v1) = total
    BY <1>1, <1>3, <1>4, <1>5
  <2> QED BY <1>1, <1>4, <1>5, <2>2, <2>3, <2>4
<1> QED BY <1>2, <1>5 DEF FlowOK, v1

(* ... and writes it into the pipe. *)
LEMMA FlowWriteFirst ==
    ASSUME NEW no \in BOOLEAN, NEW yes \in BOOLEAN, NoYes(no, yes),
           NEW w3 \in Seq(Cells), NEW w2 \in Seq(Cells), NEW w1 \in Seq(Cells),
           NEW hasL \in BOOLEAN, NEW heldL, NEW heldF,
           NEW hdr \in Nat, NEW total \in Nat,
           NEW o3 \in BOOLEAN, NEW o2 \in BOOLEAN, NEW o1 \in BOOLEAN, o1 => o2, o2 => o3,
           FlowOK(w3, hasL, heldL, w2, hdr, yes, heldF, w1, total, o3, o2, o1),
           heldF \in Cells, NEW v2, Adds(v2, w2, heldF)
    PROVE  FlowOK(w3, hasL, heldL, v2, hdr, no, heldF, w1, total, o3, o2, o1)
<1>0. ~no /\ yes
  BY DEF NoYes
<1>1. /\ Len(w1) \in Nat /\ Len(w2) \in Nat /\ Len(w3) \in Nat /\ Len(v2) = Len(w2) + 1
      /\ \A i \in 1 .. Len(w2) : v2[i] = w2[i]
      /\ v2[Len(w2) + 1] = heldF
  <2> DEFINE u == Append(w2, heldF)
  <2>1. /\ Len(u) = Len(w2) + 1 /\ \A i \in 1 .. Len(w2) : u[i] = w2[i]
        /\ u[Len(w2) + 1] = heldF
    BY AppendProperties
  <2>2. v2 = u
    BY DEF Adds
  <2> HIDE DEF u
  <2> QED BY <2>1, <2>2, LenProperties
<1>2. Count(hasL) \in Nat /\ Count(no) = 0 /\ Count(yes) = 1
  BY <1>0 DEF Count
<1> DEFINE base == Len(w3) + Count(hasL)
<1>3. base \in Nat
  BY <1>1, <1>2
<1>4. ASSUME o2
      PROVE  /\ hdr <= Len(w2) /\ base + (Len(w2) - hdr) + 1 <= total
             /\ \A i \in hdr + 1 .. Len(w2) : w2[i] = Data(base + (i - hdr))
             /\ heldF = Data(base + (Len(w2) - hdr) + 1)
  BY <1>0, <1>1, <1>2, <1>4 DEF FlowOK
<1>5. ASSUME o1
      PROVE  /\ base + (Len(w2) - hdr) + 1 + Len(w1) = total
             /\ \A i \in 1 .. Len(w1) : w1[i] = Data(base + (Len(w2) - hdr) + 1 + i)
  BY <1>1, <1>2, <1>5 DEF FlowOK
<1>6. (Len(w2) - hdr) + 1 = Len(v2) - hdr /\ (Len(w2) - hdr) + 1 = (Len(w2) + 1) - hdr
  BY <1>1
<1>7. ASSUME o2
      PROVE  /\ hdr <= Len(v2) /\ base + (Len(v2) - hdr) + 0 <= total
             /\ \A i \in hdr + 1 .. Len(v2) : v2[i] = Data(base + (i - hdr))
  <2> HIDE DEF base
  <2>1. \A i \in hdr + 1 .. Len(v2) :
            (i \in hdr + 1 .. Len(w2) /\ i \in 1 .. Len(w2)) \/ i = Len(w2) + 1
    BY <1>1
  <2>2. base + (Len(w2) - hdr) + 1 = base + ((Len(w2) + 1) - hdr)
    BY <1>1, <1>3
  <2>3. \A i \in hdr + 1 .. Len(v2) : v2[i] = Data(base + (i - hdr))
    BY <1>1, <1>4, <1>7, <2>1, <2>2
  <2>4. hdr <= Len(v2) /\ base + (Len(v2) - hdr) + 0 <= total
    BY <1>1, <1>3, <1>4, <1>7
  <2> QED BY <2>3, <2>4
<1>8. ASSUME o1
      PROVE  /\ base + (Len(v2) - hdr) + 0 + Len(w1) = total
             /\ \A i \in 1 .. Len(w1) : w1[i] = Data(base + (Len(v2) - hdr) + 0 + i)
  <2> HIDE DEF base
  <2>1. base + (Len(v2) - hdr) + 0 = base + (Len(w2) - hdr) + 1
    BY <1>1, <1>3
  <2> QED BY <1>5, <1>8, <2>1
<1> QED BY <1>0, <1>2, <1>7, <1>8 DEF FlowOK

(* The last copy reads a byte from the pipe, the header being gone, ... *)
LEMMA FlowReadLast ==
    ASSUME NEW no \in BOOLEAN, NEW yes \in BOOLEAN, NoYes(no, yes),
           NEW w3 \in Seq(Cells), NEW w2 \in Seq(Cells), NEW w1 \in Seq(Cells),
           NEW hasF \in BOOLEAN, NEW heldL, NEW heldF,
           NEW total \in Nat,
           NEW o3 \in BOOLEAN, NEW o2 \in BOOLEAN, NEW o1 \in BOOLEAN, o1 => o2, o2 => o3,
           FlowOK(w3, no, heldL, w2, 0, hasF, heldF, w1, total, o3, o2, o1),
           w2 # <<>>, o3 => o2
    PROVE  FlowOK(w3, yes, Head(w2), Tail(w2), 0, hasF, heldF, w1, total, o3, o2, o1)
<1>0. ~no /\ yes
  BY DEF NoYes
<1> DEFINE v2 == Tail(w2)
<1>1. /\ Len(w2) \in Nat \ {0} /\ Len(w1) \in Nat /\ Len(w3) \in Nat /\ Len(v2) \in Nat
      /\ Len(v2) = Len(w2) - 1 /\ Head(w2) = w2[1]
      /\ \A i \in 1 .. Len(v2) : v2[i] = w2[i + 1]
  BY TailFacts, LenProperties
<1> HIDE DEF v2
<1> DEFINE f == Count(hasF)
<1>2. f \in Nat
  BY DEF Count
<1>3. ASSUME o3
      PROVE  /\ Len(w3) + 0 + (Len(w2) - 0) + f <= total
             /\ \A i \in 0 + 1 .. Len(w2) : w2[i] = Data(Len(w3) + 0 + (i - 0))
             /\ hasF => heldF = Data(Len(w3) + 0 + (Len(w2) - 0) + 1)
  BY <1>0, <1>3 DEF FlowOK, Count
<1>4. ASSUME o1
      PROVE  /\ Len(w3) + 0 + (Len(w2) - 0) + f + Len(w1) = total
             /\ \A i \in 1 .. Len(w1) : w1[i] = Data(Len(w3) + 0 + (Len(w2) - 0) + f + i)
  BY <1>0, <1>4 DEF FlowOK, Count
<1> HIDE DEF f
<1>5. Len(w3) + 0 + (Len(w2) - 0) = Len(w3) + 1 + (Len(v2) - 0)
  BY <1>1
<1>6. ASSUME o3
      PROVE  /\ 0 <= Len(v2) /\ Len(w3) + 1 + (Len(v2) - 0) + f <= total /\ Len(w3) + 1 <= total
             /\ \A i \in 0 + 1 .. Len(v2) : v2[i] = Data(Len(w3) + 1 + (i - 0))
             /\ hasF => heldF = Data(Len(w3) + 1 + (Len(v2) - 0) + 1)
             /\ Head(w2) = Data(Len(w3) + 1)
  <2>1. \A i \in 0 + 1 .. Len(v2) :
            i + 1 \in 0 + 1 .. Len(w2) /\ i \in 1 .. Len(v2)
            /\ Len(w3) + 0 + ((i + 1) - 0) = Len(w3) + 1 + (i - 0)
    BY <1>1
  <2>2. \A i \in 0 + 1 .. Len(v2) : v2[i] = Data(Len(w3) + 1 + (i - 0))
    BY <1>1, <1>3, <1>6, <2>1
  <2>3. Head(w2) = Data(Len(w3) + 1)
    <3>1. 1 \in 0 + 1 .. Len(w2) /\ Len(w3) + 0 + (1 - 0) = Len(w3) + 1
      BY <1>1
    <3> QED BY <1>1, <1>3, <1>6, <3>1
  <2>4. 0 <= Len(v2) /\ Len(w3) + 1 + (Len(v2) - 0) + f <= total /\ Len(w3) + 1 <= total
    BY <1>1, <1>2, <1>3, <1>6
  <2>5. hasF => heldF = Data(Len(w3) + 1 + (Len(v2) - 0) + 1)
    BY <1>3, <1>5, <1>6
  <2> QED BY <2>2, <2>3, <2>4, <2>5
<1>7. ASSUME o1
      PROVE  /\ Len(w3) + 1 + (Len(v2) - 0) + f + Len(w1) = total
             /\ \A i \in 1 .. Len(w1) : w1[i] = Data(Len(w3) + 1 + (Len(v2) - 0) + f + i)
  BY <1>4, <1>5, <1>7
<1>8. Len(w3) <= total /\ \A i \in 1 .. Len(w3) : w3[i] = Data(i)
  BY DEF FlowOK
<1> USE DEF f
<1> QED BY <1>0, <1>6, <1>7, <1>8 DEF FlowOK, v2, Count

(* ... and writes it to the application. *)
LEMMA FlowWriteLast ==
    ASSUME NEW no \in BOOLEAN, NEW yes \in BOOLEAN, NoYes(no, yes),
           NEW w3 \in Seq(Cells), NEW w2 \in Seq(Cells), NEW w1 \in Seq(Cells),
           NEW hasF \in BOOLEAN, NEW heldL, NEW heldF,
           NEW hdr \in Nat, NEW total \in Nat,
           NEW o3 \in BOOLEAN, NEW o2 \in BOOLEAN, NEW o1 \in BOOLEAN, o1 => o2, o2 => o3,
           FlowOK(w3, yes, heldL, w2, hdr, hasF, heldF, w1, total, o3, o2, o1),
           NoYes(no, o3), heldL \in Cells, NEW v3, Adds(v3, w3, heldL)
    PROVE  FlowOK(v3, no, heldL, w2, hdr, hasF, heldF, w1, total, o3, o2, o1)
<1>0. ~no /\ yes /\ o3
  BY DEF NoYes
<1>1. /\ Len(w1) \in Nat /\ Len(w2) \in Nat /\ Len(w3) \in Nat /\ Len(v3) = Len(w3) + 1
      /\ \A i \in 1 .. Len(w3) : v3[i] = w3[i]
      /\ v3[Len(w3) + 1] = heldL
  <2> DEFINE u == Append(w3, heldL)
  <2>1. /\ Len(u) = Len(w3) + 1 /\ \A i \in 1 .. Len(w3) : u[i] = w3[i]
        /\ u[Len(w3) + 1] = heldL
    BY AppendProperties
  <2>2. v3 = u
    BY DEF Adds
  <2> HIDE DEF u
  <2> QED BY <2>1, <2>2, LenProperties
<1>2. Len(w3) + 1 <= total /\ heldL = Data(Len(w3) + 1) /\ \A i \in 1 .. Len(w3) : w3[i] = Data(i)
  BY <1>0 DEF FlowOK, Count
<1>3. \A i \in 1 .. Len(v3) : i \in 1 .. Len(w3) \/ i = Len(w3) + 1
  BY <1>1
<1>4. \A i \in 1 .. Len(v3) : v3[i] = Data(i)
  BY <1>1, <1>2, <1>3
<1>5. Len(v3) <= total /\ Len(v3) + 0 <= total /\ Len(v3) + 0 = Len(w3) + 1
  BY <1>1, <1>2
<1>6. o2 => /\ hdr <= Len(w2)
            /\ Len(v3) + 0 + (Len(w2) - hdr) + Count(hasF) <= total
            /\ \A i \in hdr + 1 .. Len(w2) : w2[i] = Data(Len(v3) + 0 + (i - hdr))
            /\ hasF => heldF = Data(Len(v3) + 0 + (Len(w2) - hdr) + 1)
  BY <1>0, <1>5 DEF FlowOK, Count
<1>7. o1 => /\ Len(v3) + 0 + (Len(w2) - hdr) + Count(hasF) + Len(w1) = total
            /\ \A i \in 1 .. Len(w1) :
                   w1[i] = Data(Len(v3) + 0 + (Len(w2) - hdr) + Count(hasF) + i)
  BY <1>0, <1>5 DEF FlowOK, Count
<1> QED BY <1>0, <1>4, <1>5, <1>6, <1>7 DEF FlowOK, Count

(* awaitWork takes n cells of the header off the pipe. *)
TakesOff(n, w2, hdr, v2, rest) ==
    n <= hdr /\ n <= Len(w2) /\ v2 = SubSeq(w2, n + 1, Len(w2)) /\ rest = hdr - n

LEMMA FlowTake ==
    ASSUME NEW w3 \in Seq(Cells), NEW w2 \in Seq(Cells), NEW w1 \in Seq(Cells),
           NEW hasL \in BOOLEAN, NEW hasF \in BOOLEAN, NEW heldL, NEW heldF,
           NEW hdr \in Nat, NEW total \in Nat,
           NEW o3 \in BOOLEAN, NEW o2 \in BOOLEAN, NEW o1 \in BOOLEAN, o1 => o2, o2 => o3,
           FlowOK(w3, hasL, heldL, w2, hdr, hasF, heldF, w1, total, o3, o2, o1),
           NEW n \in Nat, NEW v2, NEW rest, TakesOff(n, w2, hdr, v2, rest)
    PROVE  FlowOK(w3, hasL, heldL, v2, rest, hasF, heldF, w1, total, o3, o2, o1)
<1>0. n <= hdr /\ n <= Len(w2) /\ v2 = SubSeq(w2, n + 1, Len(w2)) /\ rest = hdr - n
  BY DEF TakesOff
<1>1. Len(w1) \in Nat /\ Len(w2) \in Nat /\ Len(w3) \in Nat /\ n + 1 \in Int
  BY LenProperties
<1>2. \A i \in n + 1 .. Len(w2) : w2[i] \in Cells
  BY <1>1, ElementOfSeq
<1>3. /\ v2 \in Seq(Cells) /\ Len(v2) = (IF n + 1 <= Len(w2) THEN Len(w2) - (n + 1) + 1 ELSE 0)
      /\ \A i \in 1 .. Len(w2) - (n + 1) + 1 : v2[i] = w2[(n + 1) + i - 1]
  <2> DEFINE u == SubSeq(w2, n + 1, Len(w2))
  <2>1. /\ u \in Seq(Cells) /\ Len(u) = (IF n + 1 <= Len(w2) THEN Len(w2) - (n + 1) + 1 ELSE 0)
        /\ \A i \in 1 .. Len(w2) - (n + 1) + 1 : u[i] = w2[(n + 1) + i - 1]
    BY <1>1, <1>2, SubSeqProperties, SMTT(60)
  <2>2. v2 = u
    BY <1>0
  <2> HIDE DEF u
  <2> QED BY <2>1, <2>2
<1>4. Len(v2) = Len(w2) - n /\ Len(v2) - (hdr - n) = Len(w2) - hdr
  BY <1>0, <1>1, <1>3
<1>5. ASSUME o2
      PROVE  /\ hdr <= Len(w2)
             /\ \A i \in hdr + 1 .. Len(w2) : w2[i] = Data(Len(w3) + Count(hasL) + (i - hdr))
  BY <1>5 DEF FlowOK
<1>6. ASSUME o2
      PROVE  /\ hdr - n <= Len(v2)
             /\ \A i \in (hdr - n) + 1 .. Len(v2) :
                    v2[i] = Data(Len(w3) + Count(hasL) + (i - (hdr - n)))
  <2>1. hdr - n <= Len(v2)
    BY <1>0, <1>1, <1>4, <1>5, <1>6
  <2>2. \A i \in (hdr - n) + 1 .. Len(v2) :
           /\ i + n \in hdr + 1 .. Len(w2) /\ i \in 1 .. Len(w2) - (n + 1) + 1
           /\ (n + 1) + i - 1 = i + n /\ (i + n) - hdr = i - (hdr - n)
    BY <1>0, <1>1, <1>4
  <2> QED BY <1>3, <1>5, <1>6, <2>1, <2>2
<1> QED BY <1>0, <1>3, <1>4, <1>6 DEF FlowOK

(* handle writes the header into the empty pipe. *)
LEMMA FlowHeader ==
    ASSUME NEW w3 \in Seq(Cells), NEW w1 \in Seq(Cells),
           NEW hasL \in BOOLEAN, NEW hasF \in BOOLEAN, NEW heldL, NEW heldF,
           NEW total \in Nat,
           NEW o3 \in BOOLEAN, NEW o2 \in BOOLEAN, NEW o1 \in BOOLEAN, o1 => o2, o2 => o3,
           FlowOK(w3, hasL, heldL, <<>>, 0, hasF, heldF, w1, total, o3, o2, o1),
           NEW v2 \in Seq(Cells)
    PROVE  FlowOK(w3, hasL, heldL, v2, Len(v2), hasF, heldF, w1, total, o3, o2, o1)
<1>1. /\ Len(w1) \in Nat /\ Len(w3) \in Nat /\ Len(v2) \in Nat /\ Len(<<>>) = 0
      /\ Len(v2) - Len(v2) = Len(<<>>) - 0 /\ Len(v2) <= Len(v2)
  BY LenProperties
<1>2. \A i \in Len(v2) + 1 .. Len(v2) : FALSE
  BY <1>1
<1> QED BY <1>1, <1>2 DEF FlowOK
-----------------------------------------------------------------------------
(* The ends that the two processes close. *)
Inner == {Right(1), Left(2), Right(2), Left(3)}

LEMMA Geometry ==
    ASSUME NEW d \in Directions
    PROVE  /\ FirstJoint(d) \in Joints /\ LastJoint(d) \in Joints /\ FirstJoint(d) # LastJoint(d)
           /\ \A j \in Joints : j = FirstJoint(d) \/ j = LastJoint(d)
           /\ FirstHop(d) \in 1 .. 3 /\ LastHop(d) \in 1 .. 3 /\ 2 \in 1 .. 3
           /\ FirstHop(d) # 2 /\ LastHop(d) # 2 /\ FirstHop(d) # LastHop(d)
           /\ \A h \in 1 .. 3 : h = FirstHop(d) \/ h = 2 \/ h = LastHop(d)
           /\ From(FirstJoint(d), d) = FirstHop(d) /\ To(FirstJoint(d), d) = 2
           /\ From(LastJoint(d), d) = 2 /\ To(LastJoint(d), d) = LastHop(d)
<1>1. CASE d = "there"
  BY <1>1 DEF FirstJoint, LastJoint, Joints, FirstHop, LastHop, From, To
<1>2. CASE d = "back"
  BY <1>2 DEF FirstJoint, LastJoint, Joints, FirstHop, LastHop, From, To
<1> QED BY <1>1, <1>2 DEF Directions

LEMMA InnerEnds ==
    ASSUME NEW d \in Directions
    PROVE  /\ \A j \in Joints : Receiver(From(j, d), d) \in Inner /\ Sender(To(j, d), d) \in Inner
           /\ Receiver(LastHop(d), d) \notin Inner
           /\ Inner \subseteq Ends /\ Source(d) \in Ends
<1>1. CASE d = "there"
  BY <1>1 DEF Joints, LastHop, From, To, Inner, Ends, Receiver, Sender, Left, Right, Source, UserEnd, TargetEnd
<1>2. CASE d = "back"
  BY <1>2 DEF Joints, LastHop, From, To, Inner, Ends, Receiver, Sender, Left, Right, Source, UserEnd, TargetEnd
<1> QED BY <1>1, <1>2 DEF Directions

LEMMA TypeNames ==
    MessageTypes = {"HeartbeatRequest", "LoginRequest", "ProxyRequest", "PipeRequest", "ConnRequest",
                    "HeartbeatResponse", "LoginResponse", "ProxyResponse", "unknown"}
<1>1. DOMAIN TypeReqMap = {"h", "l", "p", "q", "w"} /\ DOMAIN TypeRespMap = {"h", "l", "p"}
  BY DEF TypeReqMap, TypeRespMap
<1>2. /\ TypeReqMap["h"] = "HeartbeatRequest" /\ TypeReqMap["l"] = "LoginRequest"
      /\ TypeReqMap["p"] = "ProxyRequest" /\ TypeReqMap["q"] = "PipeRequest"
      /\ TypeReqMap["w"] = "ConnRequest"
      /\ TypeRespMap["h"] = "HeartbeatResponse" /\ TypeRespMap["l"] = "LoginResponse"
      /\ TypeRespMap["p"] = "ProxyResponse"
  BY DEF TypeReqMap, TypeRespMap
<1> QED BY <1>1, <1>2 DEF MessageTypes

LEMMA MsgTypeTyped == \A flag, typ : MsgType(flag, typ) \in MessageTypes
BY DEF MsgType, MessageTypes

LEMMA FrameTyped == Frame("ConnRequest") \in Seq(Cells) /\ Len(Frame("ConnRequest")) = LenSize + 3
<1> DEFINE a == <<Cell("<", 0), Cell("w", 0)>>
           b == [i \in 1 .. LenSize |-> Cell("length", i)]
           c == <<Cell("body", 0)>>
<1>1. LenSize \in Nat
  BY StreamAssumption
<1>2. \A i \in Nat, k \in Kinds : Cell(k, i) \in Cells
  BY DEF Cell, Cells
<1>3. a \in Seq(Cells) /\ Len(a) = 2
  BY <1>2 DEF Kinds
<1>4. b \in Seq(Cells) /\ Len(b) = LenSize
  <2>1. \A i \in 1 .. LenSize : Cell("length", i) \in Cells
    BY <1>1, <1>2 DEF Kinds
  <2> QED BY <1>1, <2>1
<1>5. c \in Seq(Cells) /\ Len(c) = 1
  BY <1>2 DEF Kinds
<1>6. Frame("ConnRequest") = (a \o b) \o c
  BY DEF Frame, MsgInfo
<1> HIDE DEF a, b, c
<1>7. a \o b \in Seq(Cells) /\ Len(a \o b) = Len(a) + Len(b)
  BY <1>3, <1>4, ConcatProperties
<1>8. (a \o b) \o c \in Seq(Cells) /\ Len((a \o b) \o c) = Len(a \o b) + Len(c)
  BY <1>5, <1>7, ConcatProperties
<1> QED BY <1>1, <1>3, <1>4, <1>5, <1>6, <1>7, <1>8, SMTT(60)

(* What closing an end of a process does to the hops. *)
LEMMA CloseEndWire ==
    ASSUME ShapeOK, NEW e \in Inner, CloseEnd(e)
    PROVE  /\ wire' \in [Directions -> [1 .. 3 -> Seq(Cells)]]
           /\ \A d \in Directions, h \in 1 .. 3 :
                  /\ wire'[d][h] = <<>> \/ wire'[d][h] = wire[d][h]
                  /\ Receiver(h, d) \notin closed' => wire'[d][h] = wire[d][h]
           /\ \A d \in Directions : wire'[d][LastHop(d)] = wire[d][LastHop(d)]
           /\ closed' = closed \cup {e}
<1>1. wire' = [d \in Directions |-> [h \in 1 .. 3 |-> IF Receiver(h, d) = e THEN <<>> ELSE wire[d][h]]]
      /\ closed' = closed \cup {e}
  BY DEF CloseEnd
<1>2. \A d \in Directions, h \in 1 .. 3 : wire[d][h] \in Seq(Cells)
  BY DEF ShapeOK
<1>3. \A d \in Directions, h \in 1 .. 3 :
         wire'[d][h] = IF Receiver(h, d) = e THEN <<>> ELSE wire[d][h]
  BY <1>1
<1>4. wire' \in [Directions -> [1 .. 3 -> Seq(Cells)]]
  BY <1>1, <1>2, EmptySeq
<1>5. ASSUME NEW d \in Directions PROVE wire'[d][LastHop(d)] = wire[d][LastHop(d)]
  <2>1. Receiver(LastHop(d), d) # e /\ LastHop(d) \in 1 .. 3
    BY InnerEnds, Geometry
  <2> QED BY <1>3, <2>1
<1>6. ASSUME NEW d \in Directions, NEW h \in 1 .. 3
      PROVE  /\ wire'[d][h] = <<>> \/ wire'[d][h] = wire[d][h]
             /\ Receiver(h, d) \notin closed' => wire'[d][h] = wire[d][h]
  BY <1>1, <1>3
<1> QED BY <1>1, <1>4, <1>5, <1>6
-----------------------------------------------------------------------------
(* Replacing the content of one hop, and the label of one copy. *)
PutWire(d, h, v) == wire' = [wire EXCEPT ![d][h] = v]

LEMMA SetWire ==
    ASSUME ShapeOK, NEW d \in Directions, NEW h \in 1 .. 3, NEW v \in Seq(Cells), PutWire(d, h, v)
    PROVE  /\ wire' \in [Directions -> [1 .. 3 -> Seq(Cells)]]
           /\ wire'[d][h] = v
           /\ \A e \in Directions, g \in 1 .. 3 : e # d \/ g # h => wire'[e][g] = wire[e][g]
BY DEF ShapeOK, PutWire

LEMMA SetCopy ==
    ASSUME copy \in [Joints -> [Directions -> CopyLabels]], NEW j \in Joints, NEW d \in Directions,
           NEW from, NEW to \in CopyLabels, Copy(j, d, from, to)
    PROVE  /\ copy' \in [Joints -> [Directions -> CopyLabels]]
           /\ copy[j][d] = from /\ copy'[j][d] = to
           /\ \A k \in Joints, e \in Directions : k # j \/ e # d => copy'[k][e] = copy[k][e]
BY DEF Copy

(* The parts of TypeInv, by the variables that they are about. *)
WireOK ==
    /\ wire \in [Directions -> [1 .. 3 -> Seq(Cells)]] /\ sent \in [Directions -> Nat]
    /\ \A d \in Directions, h \in 1 .. 3 : Len(wire[d][h]) <= Room(h, d)
    /\ \A d \in Directions : sent[d] \in 0 .. MaxBytes[d] /\ Len(wire[d][FirstHop(d)]) <= sent[d]
FlagsOK ==
    /\ closed \subseteq Ends /\ half \subseteq Directions /\ lost \in BOOLEAN
    /\ handle \in {"request", "join", "over"} /\ work \in WorkLabels
CopiesOK ==
    /\ copy \in [Joints -> [Directions -> CopyLabels]]
    /\ free \in [Joints -> SUBSET Buffers]
    /\ buf \in [Joints -> [Directions -> Buffers \cup {NoBuffer}]]
    /\ cell \in [Joints -> [Buffers -> Cells]]

LEMMA Parts == TypeInv <=> WireOK /\ FlagsOK /\ CopiesOK /\ OrderOK /\ BuffersOK
BY DEF TypeInv, TypeOK, ShapeOK, FirstBound, WireOK, FlagsOK, CopiesOK, CopyLabels

LEMMA PartsPrime == (WireOK /\ FlagsOK /\ CopiesOK /\ OrderOK /\ BuffersOK)' => TypeInv'
BY DEF TypeInv, TypeOK, ShapeOK, FirstBound, WireOK, FlagsOK, CopiesOK, CopyLabels

(* Hops that a step empties or leaves alone. *)
LEMMA WireShrinks ==
    ASSUME TypeInv, wire' \in [Directions -> [1 .. 3 -> Seq(Cells)]], sent' = sent,
           \A d \in Directions, h \in 1 .. 3 :
               wire'[d][h] = <<>> \/ wire'[d][h] = wire[d][h] \/ Len(wire'[d][h]) <= Len(wire[d][h])
    PROVE  WireOK'
<1>1. \A d \in Directions, h \in 1 .. 3 : wire[d][h] \in Seq(Cells) /\ wire'[d][h] \in Seq(Cells)
  BY Parts DEF WireOK
<1>2. \A d \in Directions, h \in 1 .. 3 :
         /\ Len(wire[d][h]) \in Nat /\ Len(wire'[d][h]) \in Nat
         /\ Len(wire'[d][h]) <= Len(wire[d][h])
  <2> TAKE d \in Directions, h \in 1 .. 3
  <2>1. Len(wire[d][h]) \in Nat /\ Len(wire'[d][h]) \in Nat
    BY <1>1, LenProperties
  <2>2. CASE wire'[d][h] = <<>>
    <3>1. Len(wire'[d][h]) = 0
      BY <2>2
    <3> QED BY <2>1, <3>1
  <2>3. CASE wire'[d][h] = wire[d][h]
    <3>1. Len(wire'[d][h]) = Len(wire[d][h])
      BY <2>3
    <3> QED BY <2>1, <3>1
  <2>4. CASE Len(wire'[d][h]) <= Len(wire[d][h])
    BY <2>1, <2>4
  <2> QED BY <2>2, <2>3, <2>4
<1>3. \A d \in Directions, h \in 1 .. 3 : Room(h, d) \in Nat /\ Len(wire[d][h]) <= Room(h, d)
  BY StreamAssumption, Parts DEF WireOK, Room
<1>4. ASSUME NEW d \in Directions, NEW h \in 1 .. 3 PROVE Len(wire'[d][h]) <= Room(h, d)
  <2>1. /\ Len(wire[d][h]) \in Nat /\ Len(wire'[d][h]) \in Nat /\ Room(h, d) \in Nat
        /\ Len(wire'[d][h]) <= Len(wire[d][h]) /\ Len(wire[d][h]) <= Room(h, d)
    BY <1>2, <1>3
  <2> QED BY <2>1, SMTT(60)
<1>5. \A d \in Directions : Len(wire'[d][FirstHop(d)]) <= sent[d]
  <2> TAKE d \in Directions
  <2>1. FirstHop(d) \in 1 .. 3 /\ Len(wire[d][FirstHop(d)]) <= sent[d] /\ sent[d] \in Nat
    BY Geometry, Parts DEF WireOK
  <2> QED BY <1>2, <2>1, SMTT(60)
<1> QED BY <1>4, <1>5, Parts DEF WireOK

LEMMA AppTyped ==
    ASSUME TypeInv, NEW d \in Directions, AppSend(d) \/ AppClose(d) \/ AppShutdown(d)
    PROVE  TypeInv'
<1>1. CASE AppSend(d)
  <2>1. /\ wire' = [wire EXCEPT ![d][FirstHop(d)] = Append(wire[d][FirstHop(d)], Data(sent[d] + 1))]
        /\ sent' = [sent EXCEPT ![d] = sent[d] + 1] /\ sent[d] < MaxBytes[d] /\ sent[d] \in Nat
        /\ MaxBytes[d] \in Nat
    BY <1>1, Parts, StreamAssumption DEF AppSend, WireOK
  <2> DEFINE v == Append(wire[d][FirstHop(d)], Data(sent[d] + 1))
  <2>2. wire[d][FirstHop(d)] \in Seq(Cells) /\ Data(sent[d] + 1) \in Cells
    <3>1. sent[d] + 1 \in Nat /\ FirstHop(d) \in 1 .. 3
      BY <2>1, Geometry
    <3>2. wire \in [Directions -> [1 .. 3 -> Seq(Cells)]]
      BY Parts DEF WireOK
    <3> QED BY <3>1, <3>2, DataTyped
  <2>3. v \in Seq(Cells) /\ Len(v) = Len(wire[d][FirstHop(d)]) + 1
    BY <2>2, AppendProperties
  <2>4. Len(wire[d][FirstHop(d)]) \in Nat /\ Len(wire[d][FirstHop(d)]) <= sent[d]
    BY <2>2, LenProperties, Parts DEF WireOK
  <2>5. FirstHop(d) \in 1 .. 3 /\ FirstHop(d) # 2
    BY Geometry
  <2>a. PutWire(d, FirstHop(d), v) /\ ShapeOK
    BY <2>1 DEF TypeInv, PutWire
  <2> HIDE DEF v
  <2>6. /\ wire' \in [Directions -> [1 .. 3 -> Seq(Cells)]] /\ wire'[d][FirstHop(d)] = v
        /\ \A e \in Directions, g \in 1 .. 3 : e # d \/ g # FirstHop(d) => wire'[e][g] = wire[e][g]
    BY <2>a, <2>3, <2>5, SetWire
  <2>7. Len(v) <= sent[d] + 1 /\ Len(v) <= Room(FirstHop(d), d)
    BY <2>1, <2>3, <2>4, <2>5, SMTT(60) DEF Room
  <2>8. WireOK'
    <3>1. sent' \in [Directions -> Nat] /\ \A e \in Directions : sent'[e] \in 0 .. MaxBytes[e]
      BY <2>1, Parts, StreamAssumption, SMTT(60) DEF WireOK
    <3>2. \A e \in Directions, h \in 1 .. 3 : Len(wire'[e][h]) <= Room(h, e)
      BY <2>6, <2>7, Parts DEF WireOK
    <3>3. ASSUME NEW e \in Directions PROVE Len(wire'[e][FirstHop(e)]) <= sent'[e]
      <4>1. FirstHop(e) \in 1 .. 3
        BY Geometry
      <4>2. CASE e = d
        BY <2>1, <2>6, <2>7, <4>2, Parts DEF WireOK
      <4>3. CASE e # d
        BY <2>1, <2>6, <4>1, <4>3, Parts DEF WireOK
      <4> QED BY <4>2, <4>3
    <3> QED BY <2>6, <3>1, <3>2, <3>3 DEF WireOK
  <2>9. \A e \in Directions : wire'[e][2] = wire[e][2]
    BY <2>5, <2>6
  <2>10. OrderOK'
    <3>1. "there" \in Directions
      BY DEF Directions
    <3> QED BY <1>1, <2>9, <3>1, Parts DEF AppSend, copyVars, OrderOK
  <2>11. (FlagsOK /\ CopiesOK /\ BuffersOK)'
    BY <1>1, Parts DEF AppSend, copyVars, FlagsOK, CopiesOK, BuffersOK, InUse
  <2> QED BY <2>8, <2>10, <2>11, PartsPrime
<1>2. CASE AppClose(d) \/ AppShutdown(d)
  <2>1. UNCHANGED <<wire, sent, lost, handle, work, copy, free, buf, cell>>
        /\ closed' \subseteq Ends /\ half' \subseteq Directions
    BY <1>2, InnerEnds, Parts DEF AppClose, AppShutdown, copyVars, FlagsOK
  <2> QED BY <2>1, Parts, PartsPrime DEF WireOK, FlagsOK, CopiesOK, OrderOK, BuffersOK, InUse
<1> QED BY <1>1, <1>2

LEMMA SessionLostTyped == TypeInv /\ SessionLost => TypeInv'
<1> SUFFICES ASSUME TypeInv, SessionLost PROVE TypeInv'
  OBVIOUS
<1>0. WireOK /\ FlagsOK /\ CopiesOK /\ OrderOK /\ BuffersOK
  BY Parts
<1>1. wire' = [d \in Directions |-> [wire[d] EXCEPT ![2] = <<>>]]
  BY DEF SessionLost
<1>2. wire \in [Directions -> [1 .. 3 -> Seq(Cells)]] /\ <<>> \in Seq(Cells)
  BY <1>0, EmptySeq DEF WireOK
<1>3. /\ wire' \in [Directions -> [1 .. 3 -> Seq(Cells)]]
      /\ \A d \in Directions, h \in 1 .. 3 : wire'[d][h] = <<>> \/ wire'[d][h] = wire[d][h]
      /\ \A d \in Directions : wire'[d][2] = <<>>
  BY <1>1, <1>2
<1>4. WireOK'
  <2>1. sent' = sent
    BY DEF SessionLost
  <2> QED BY <1>3, <2>1, WireShrinks
<1>5. OrderOK'
  <2>1. "there" \in Directions
    BY DEF Directions
  <2> QED BY <1>0, <1>3, <2>1 DEF SessionLost, OrderOK, copyVars
<1>6. (FlagsOK /\ CopiesOK /\ BuffersOK)'
  BY <1>0 DEF SessionLost, FlagsOK, CopiesOK, BuffersOK, InUse, copyVars
<1> QED BY <1>4, <1>5, <1>6, PartsPrime

(* Closing an inner end keeps the hops within their bounds, and an empty one empty. *)
LEMMA CloseTyped ==
    ASSUME TypeInv, NEW e \in Inner, CloseEnd(e), sent' = sent
    PROVE  /\ WireOK' /\ closed' \subseteq Ends
           /\ \A d \in Directions : wire[d][2] = <<>> => wire'[d][2] = <<>>
<1>0. WireOK /\ FlagsOK /\ ShapeOK
  BY Parts DEF TypeInv
<1>1. /\ wire' \in [Directions -> [1 .. 3 -> Seq(Cells)]]
      /\ \A d \in Directions, h \in 1 .. 3 : wire'[d][h] = <<>> \/ wire'[d][h] = wire[d][h]
      /\ closed' = closed \cup {e}
  BY <1>0, CloseEndWire
<1>2. WireOK'
  BY <1>1, WireShrinks
<1>3. e \in Ends
  BY DEF Inner, Ends
<1> QED BY <1>0, <1>1, <1>2, <1>3 DEF FlagsOK

LEMMA SendRequestTyped == TypeInv /\ SendRequest => TypeInv'
<1> SUFFICES ASSUME TypeInv, SendRequest PROVE TypeInv'
  OBVIOUS
<1>0. WireOK /\ FlagsOK /\ CopiesOK /\ OrderOK /\ BuffersOK /\ ShapeOK
  BY Parts DEF TypeInv
<1>1. /\ handle = "request" /\ UNCHANGED <<sent, half, lost, work, free, buf, cell>>
      /\ "there" \in Directions /\ "back" \in Directions
      /\ "server" \in Joints /\ "client" \in Joints /\ "server" # "client"
  BY DEF SendRequest, Directions, Joints
<1>2. /\ \A d \in Directions : copy["server"][d] = "idle"
      /\ wire["there"][2] = <<>> /\ work \in {"head", "over"}
  BY <1>0, <1>1 DEF OrderOK
<1>3. CASE lost \/ Right(2) \in closed
  <2>1. handle' = "over" /\ CloseEnd(Left(2)) /\ copy' = copy
    BY <1>3 DEF SendRequest
  <2>2. /\ WireOK' /\ closed' \subseteq Ends
        /\ \A d \in Directions : wire[d][2] = <<>> => wire'[d][2] = <<>>
    BY <1>1, <2>1, CloseTyped DEF Inner
  <2>3. OrderOK'
    BY <1>0, <1>1, <1>2, <2>1, <2>2 DEF OrderOK
  <2>4. (FlagsOK /\ CopiesOK /\ BuffersOK)'
    BY <1>0, <1>1, <2>1, <2>2 DEF FlagsOK, CopiesOK, BuffersOK, InUse
  <2> QED BY <2>2, <2>3, <2>4, PartsPrime
<1>4. CASE ~(lost \/ Right(2) \in closed)
  <2> DEFINE v == wire["there"][2] \o Frame("ConnRequest")
  <2>1. /\ handle' = "join" /\ PutWire("there", 2, v) /\ closed' = closed
        /\ copy' = [copy EXCEPT !["server"] = [d \in Directions |-> "start"]]
    BY <1>4 DEF SendRequest, PutWire
  <2>2. v \in Seq(Cells) /\ Len(v) = LenSize + 3
    <3>1. <<>> \in Seq(Cells) /\ Len(<<>>) = 0
      BY EmptySeq
    <3>2. Len(v) = Len(<<>>) + Len(Frame("ConnRequest")) /\ v \in Seq(Cells)
      BY <1>2, <3>1, FrameTyped, ConcatProperties
    <3> QED BY <3>1, <3>2, FrameTyped, StreamAssumption
  <2> HIDE DEF v
  <2>3. /\ wire' \in [Directions -> [1 .. 3 -> Seq(Cells)]] /\ wire'["there"][2] = v
        /\ \A e \in Directions, g \in 1 .. 3 : e # "there" \/ g # 2 => wire'[e][g] = wire[e][g]
    BY <1>0, <1>1, <2>1, <2>2, SetWire
  <2>4. WireOK'
    <3>1. Len(v) <= Room(2, "there")
      BY <2>2, StreamAssumption DEF Room
    <3>2. \A e \in Directions, g \in 1 .. 3 : Len(wire'[e][g]) <= Room(g, e)
      BY <1>0, <2>3, <3>1 DEF WireOK
    <3>3. \A e \in Directions : wire'[e][FirstHop(e)] = wire[e][FirstHop(e)]
      BY <2>3, Geometry
    <3> QED BY <1>0, <1>1, <2>3, <3>2, <3>3 DEF WireOK
  <2>5. /\ copy' \in [Joints -> [Directions -> CopyLabels]]
        /\ \A d \in Directions : copy'["server"][d] = "start" /\ copy'["client"][d] = copy["client"][d]
    BY <1>0, <1>1, <2>1 DEF CopiesOK, CopyLabels
  <2>6. OrderOK'
    BY <1>0, <1>1, <1>4, <2>1, <2>5 DEF OrderOK
  <2>7. \A j \in Joints, d \in Directions : InUse(j, d)' = InUse(j, d)
    BY <1>2, <2>5 DEF InUse, Joints
  <2>8. BuffersOK'
    BY <1>0, <1>1, <2>7 DEF BuffersOK
  <2>9. (FlagsOK /\ CopiesOK)'
    BY <1>0, <1>1, <2>1, <2>5 DEF FlagsOK, CopiesOK
  <2> QED BY <2>4, <2>6, <2>8, <2>9, PartsPrime
<1> QED BY <1>3, <1>4

(* awaitWork takes cells off the pipe, without joining ... *)
TakeQuiet == UNCHANGED <<sent, half, lost, handle, free, buf, cell>>

LEMMA TakeWire ==
    ASSUME ShapeOK, NEW n \in Nat, n <= Len(wire["there"][2]), Take(n)
    PROVE  /\ wire' \in [Directions -> [1 .. 3 -> Seq(Cells)]]
           /\ wire'["there"][2] = SubSeq(wire["there"][2], n + 1, Len(wire["there"][2]))
           /\ Len(wire'["there"][2]) <= Len(wire["there"][2])
           /\ \A e \in Directions, g \in 1 .. 3 : e # "there" \/ g # 2 => wire'[e][g] = wire[e][g]
<1> DEFINE w == wire["there"][2]
           v == SubSeq(w, n + 1, Len(w))
<1>1. "there" \in Directions /\ 2 \in 1 .. 3
  BY DEF Directions
<1>2. w \in Seq(Cells) /\ Len(w) \in Nat
  BY <1>1, LenProperties DEF ShapeOK
<1>3. PutWire("there", 2, v)
  BY DEF PutWire, Take
<1>4. v \in Seq(Cells) /\ Len(v) <= Len(w)
  <2> HIDE DEF w
  <2>1. \A i \in n + 1 .. Len(w) : w[i] \in Cells
    BY <1>2, ElementOfSeq
  <2>2. v \in Seq(Cells) /\ Len(v) = (IF n + 1 <= Len(w) THEN Len(w) - (n + 1) + 1 ELSE 0)
    BY <1>2, <2>1, SubSeqProperties
  <2> QED BY <1>2, <2>2
<1> HIDE DEF v
<1>5. /\ wire' \in [Directions -> [1 .. 3 -> Seq(Cells)]] /\ wire'["there"][2] = v
      /\ \A e \in Directions, g \in 1 .. 3 : e # "there" \/ g # 2 => wire'[e][g] = wire[e][g]
  BY <1>1, <1>3, <1>4, SetWire
<1> QED BY <1>4, <1>5 DEF v

LEMMA TakeTyped ==
    ASSUME TypeInv, NEW n \in Nat \ {0}, n <= Len(wire["there"][2]), Take(n), TakeQuiet,
           work # "join", work' # "join", work' \in WorkLabels, closed' \subseteq Ends, copy' = copy
    PROVE  TypeInv'
<1>0. WireOK /\ FlagsOK /\ CopiesOK /\ OrderOK /\ BuffersOK /\ ShapeOK
  BY Parts DEF TypeInv
<1>1. /\ wire' \in [Directions -> [1 .. 3 -> Seq(Cells)]]
      /\ Len(wire'["there"][2]) <= Len(wire["there"][2])
      /\ \A e \in Directions, g \in 1 .. 3 : e # "there" \/ g # 2 => wire'[e][g] = wire[e][g]
  BY <1>0, TakeWire
<1>2. \A e \in Directions, g \in 1 .. 3 :
         wire'[e][g] = wire[e][g] \/ Len(wire'[e][g]) <= Len(wire[e][g])
  BY <1>1
<1>3. WireOK'
  BY <1>1, <1>2, WireShrinks DEF TakeQuiet
<1>4. wire["there"][2] # <<>> /\ "there" \in Directions
  <2>1. Len(<<>>) = 0
    OBVIOUS
  <2> QED BY <2>1 DEF Directions
<1>5. handle = "join" /\ ~lost
  BY <1>0, <1>4 DEF OrderOK, FlagsOK
<1>6. OrderOK'
  BY <1>0, <1>5 DEF OrderOK, TakeQuiet
<1>7. (FlagsOK /\ CopiesOK /\ BuffersOK)'
  BY <1>0 DEF FlagsOK, CopiesOK, BuffersOK, InUse, TakeQuiet
<1> QED BY <1>3, <1>6, <1>7, PartsPrime

(* ... or gives up. *)
LEMMA WorkOverTyped ==
    ASSUME TypeInv, WorkOver, work # "join", TakeQuiet
    PROVE  TypeInv'
<1>0. WireOK /\ FlagsOK /\ CopiesOK /\ OrderOK /\ BuffersOK
  BY Parts
<1>1. work' = "over" /\ CloseEnd(Right(2)) /\ copy' = copy /\ sent' = sent
  BY DEF WorkOver, TakeQuiet
<1>2. /\ WireOK' /\ closed' \subseteq Ends
      /\ \A d \in Directions : wire[d][2] = <<>> => wire'[d][2] = <<>>
  BY <1>1, CloseTyped DEF Inner
<1>3. OrderOK'
  <2>1. "there" \in Directions
    BY DEF Directions
  <2> QED BY <1>0, <1>1, <1>2, <2>1 DEF OrderOK, TakeQuiet
<1>4. (FlagsOK /\ CopiesOK /\ BuffersOK)'
  BY <1>0, <1>1, <1>2 DEF FlagsOK, CopiesOK, BuffersOK, InUse, TakeQuiet, WorkLabels
<1> QED BY <1>2, <1>3, <1>4, PartsPrime

LEMMA WorkTyped == TypeInv /\ Work => TypeInv'
<1> SUFFICES ASSUME TypeInv, Work PROVE TypeInv'
  OBVIOUS
<1>0. WireOK /\ FlagsOK /\ CopiesOK /\ OrderOK /\ BuffersOK
  BY Parts
<1>1. CASE ReadHead
  <2>1. TakeQuiet /\ work # "join" /\ work = "head"
    BY <1>1 DEF ReadHead, TakeQuiet
  <2>2. CASE AtEnd(2, "there") /\ WorkOver
    BY <2>1, <2>2, WorkOverTyped
  <2>3. ASSUME NEW n \in 1 .. 2, n <= Len(wire["there"][2]), Take(n),
               work' = IF n = 1 THEN "swallow"
                       ELSE MsgType(wire["there"][2][1].kind, wire["there"][2][2].kind),
               UNCHANGED <<closed, copy>>
        PROVE  TypeInv'
    <3>1. work' \in {"swallow"} \cup MessageTypes
      BY <2>3, MsgTypeTyped
    <3>2. work' \in WorkLabels /\ work' # "join"
      BY <3>1, TypeNames DEF WorkLabels
    <3>3. n \in Nat \ {0} /\ closed' \subseteq Ends /\ copy' = copy
      BY <1>0, <2>3 DEF FlagsOK
    <3> QED BY <2>1, <2>3, <3>2, <3>3, TakeTyped
  <2> QED BY <1>1, <2>2, <2>3 DEF ReadHead
<1>2. CASE ReadBody
  <2>1. TakeQuiet /\ work # "join"
    BY <1>2, TypeNames DEF ReadBody, TakeQuiet
  <2>2. CASE AtEnd(2, "there") /\ WorkOver
    BY <2>1, <2>2, WorkOverTyped
  <2>3. CASE /\ Len(wire["there"][2]) >= LenSize + 1 /\ Take(LenSize + 1)
             /\ work' = IF work = "ConnRequest" THEN "connect" ELSE "over"
             /\ closed' = IF work = "ConnRequest" THEN closed ELSE closed \cup {Right(2)}
             /\ UNCHANGED copy
    <3>1. work' \in WorkLabels /\ work' # "join" /\ copy' = copy
      BY <2>3 DEF WorkLabels
    <3>2. Right(2) \in Ends
      BY DEF Ends
    <3>3. closed' \subseteq Ends
      BY <1>0, <2>3, <3>2 DEF FlagsOK
    <3>4. LenSize + 1 \in Nat \ {0} /\ LenSize + 1 <= Len(wire["there"][2])
      <4>1. wire["there"][2] \in Seq(Cells)
        BY <1>0 DEF WireOK, Directions
      <4>2. Len(wire["there"][2]) \in Nat
        BY <4>1, LenProperties
      <4> QED BY <2>3, <4>2, StreamAssumption
    <3> QED BY <2>1, <2>3, <3>1, <3>3, <3>4, TakeTyped
  <2> QED BY <1>2, <2>2, <2>3 DEF ReadBody
<1>3. CASE Swallow
  <2>1. TakeQuiet /\ work # "join" /\ work = "swallow"
    BY <1>3 DEF Swallow, TakeQuiet
  <2>2. CASE AtEnd(2, "there") /\ WorkOver
    BY <2>1, <2>2, WorkOverTyped
  <2>3. CASE wire["there"][2] # <<>> /\ Take(1) /\ UNCHANGED <<work, closed, copy>>
    <3>1. wire["there"][2] \in Seq(Cells)
      BY <1>0 DEF WireOK, Directions
    <3>2. 1 \in Nat \ {0} /\ 1 <= Len(wire["there"][2])
      BY <2>3, <3>1, TailFacts
    <3>3. work' # "join" /\ work' \in WorkLabels /\ closed' \subseteq Ends /\ copy' = copy
      BY <1>0, <2>1, <2>3 DEF FlagsOK
    <3> QED BY <2>1, <2>3, <3>2, <3>3, TakeTyped
  <2> QED BY <1>3, <2>2, <2>3 DEF Swallow
<1>4. CASE NoTarget
  BY <1>4, WorkOverTyped DEF NoTarget, TakeQuiet
<1>5. CASE Connect
  <2>1. /\ work = "connect" /\ work' = "join"
        /\ copy' = [copy EXCEPT !["client"] = [d \in Directions |-> "start"]]
        /\ UNCHANGED <<wire, sent, closed, half, lost, handle, free, buf, cell>>
    BY <1>5 DEF Connect
  <2>2. handle = "join" /\ \A d \in Directions : copy["client"][d] = "idle"
    BY <1>0, <2>1 DEF OrderOK
  <2>3. /\ copy' \in [Joints -> [Directions -> CopyLabels]]
        /\ \A d \in Directions : copy'["client"][d] = "start" /\ copy'["server"][d] = copy["server"][d]
    <3>1. "client" \in Joints /\ "server" \in Joints /\ "client" # "server"
      BY DEF Joints
    <3> QED BY <1>0, <2>1, <3>1 DEF CopiesOK, CopyLabels
  <2>4. OrderOK'
    BY <1>0, <2>1, <2>2 DEF OrderOK
  <2>5. \A j \in Joints, d \in Directions : InUse(j, d)' = InUse(j, d)
    BY <2>2, <2>3 DEF InUse, Joints
  <2>6. BuffersOK'
    <3>1. "there" \in Directions /\ "back" \in Directions
      BY DEF Directions
    <3> QED BY <1>0, <2>1, <2>5, <3>1 DEF BuffersOK
  <2>7. (FlagsOK /\ CopiesOK /\ WireOK)'
    BY <1>0, <2>1, <2>3 DEF FlagsOK, CopiesOK, WorkLabels, WireOK
  <2> QED BY <2>4, <2>6, <2>7, PartsPrime
<1> QED BY <1>1, <1>2, <1>3, <1>4, <1>5 DEF Work

(* The copies.  A copy that has started comes after the request. *)
LEMMA CopyOrder ==
    ASSUME TypeInv, NEW j \in Joints, NEW d \in Directions, NEW from \in CopyLabels \ {"idle"},
           NEW to \in CopyLabels, Copy(j, d, from, to), UNCHANGED <<handle, work, lost>>,
           lost => \A e \in Directions : wire'[e][2] = <<>>
    PROVE  /\ OrderOK' /\ handle = "join" /\ (j = "client" => work = "join")
           /\ copy' \in [Joints -> [Directions -> CopyLabels]]
           /\ copy[j][d] = from /\ copy'[j][d] = to
           /\ \A k \in Joints, e \in Directions : k # j \/ e # d => copy'[k][e] = copy[k][e]
<1>0. CopiesOK /\ OrderOK /\ FlagsOK
  BY Parts
<1>1. /\ copy' \in [Joints -> [Directions -> CopyLabels]]
      /\ copy[j][d] = from /\ copy'[j][d] = to
      /\ \A k \in Joints, e \in Directions : k # j \/ e # d => copy'[k][e] = copy[k][e]
  BY <1>0, SetCopy DEF CopiesOK
<1>2. handle = "join" /\ (j = "client" => work = "join")
  <2>1. CASE j = "server"
    BY <1>0, <1>1, <2>1 DEF OrderOK
  <2>2. CASE j = "client"
    BY <1>0, <1>1, <2>2 DEF OrderOK
  <2> QED BY <2>1, <2>2 DEF Joints
<1>3. work # "join" => \A e \in Directions : copy'["client"][e] = "idle"
  <2>1. work # "join" => j # "client" /\ \A e \in Directions : copy["client"][e] = "idle"
    BY <1>0, <1>2 DEF OrderOK
  <2> QED BY <1>1, <2>1 DEF Joints
<1>4. OrderOK'
  BY <1>2, <1>3 DEF OrderOK
<1> QED BY <1>1, <1>2, <1>4

LEMMA GetBufTyped ==
    ASSUME TypeInv, NEW j \in Joints, NEW d \in Directions, GetBuf(j, d)
    PROVE  TypeInv'
<1>0. WireOK /\ FlagsOK /\ CopiesOK /\ OrderOK /\ BuffersOK
  BY Parts
<1> DEFINE b == CHOOSE x \in free[j] : \A y \in free[j] : x <= y
<1>1. /\ Copy(j, d, "start", "read") /\ buf' = [buf EXCEPT ![j][d] = b]
      /\ free' = [free EXCEPT ![j] = free[j] \ {b}]
      /\ UNCHANGED <<wire, sent, closed, half, lost, handle, work, cell>>
  BY DEF GetBuf
<1>2. /\ OrderOK' /\ copy' \in [Joints -> [Directions -> CopyLabels]]
      /\ copy[j][d] = "start" /\ copy'[j][d] = "read"
      /\ \A k \in Joints, e \in Directions : k # j \/ e # d => copy'[k][e] = copy[k][e]
  <2>1. lost => \A e \in Directions : wire'[e][2] = <<>>
    BY <1>0, <1>1 DEF OrderOK
  <2>2. "start" \in CopyLabels \ {"idle"} /\ "read" \in CopyLabels
    BY DEF CopyLabels
  <2> QED BY <1>1, <2>1, <2>2, CopyOrder
<1>3. b \in free[j] /\ b \in Buffers
  <2>1. free[j] \subseteq {1, 2}
    BY <1>0 DEF CopiesOK, Buffers
  <2>2. \E x \in {1, 2} : x \in free[j]
    <3>1. ~InUse(j, d)
      BY <1>2 DEF InUse
    <3>2. PICK o \in Directions : \A e \in Directions : e = d \/ e = o
      BY DEF Directions
    <3>3. \A x \in {1, 2} : x # buf[j][o] => x \in free[j]
      BY <1>0, <3>1, <3>2 DEF BuffersOK, Buffers
    <3> QED BY <3>3
  <2>3. \E x \in free[j] : \A y \in free[j] : x <= y
    <3>1. CASE 1 \in free[j]
      BY <2>1, <3>1
    <3>2. CASE 1 \notin free[j]
      BY <2>1, <2>2, <3>2
    <3> QED BY <3>1, <3>2
  <2> QED BY <2>1, <2>3 DEF Buffers
<1> HIDE DEF b
<1>4. /\ buf' \in [Joints -> [Directions -> Buffers \cup {NoBuffer}]] /\ buf'[j][d] = b
      /\ \A k \in Joints, e \in Directions : k # j \/ e # d => buf'[k][e] = buf[k][e]
  BY <1>0, <1>1, <1>3 DEF CopiesOK
<1>5. /\ free' \in [Joints -> SUBSET Buffers] /\ free'[j] = free[j] \ {b}
      /\ \A k \in Joints : k # j => free'[k] = free[k]
  BY <1>0, <1>1 DEF CopiesOK
<1>6. /\ InUse(j, d)' /\ ~InUse(j, d)
      /\ \A k \in Joints, e \in Directions : k # j \/ e # d => InUse(k, e)' = InUse(k, e)
  BY <1>2 DEF InUse
<1>7. BuffersOK'
  <2> SUFFICES ASSUME NEW k \in Joints
               PROVE  /\ \A e \in Directions : InUse(k, e)' => buf'[k][e] \in Buffers
                      /\ InUse(k, "there")' /\ InUse(k, "back")' => buf'[k]["there"] # buf'[k]["back"]
                      /\ \A c \in Buffers :
                            c \in free'[k] <=> \A e \in Directions : InUse(k, e)' => buf'[k][e] # c
    BY DEF BuffersOK
  <2>1. CASE k # j
    <3>1. \A e \in Directions : InUse(k, e)' = InUse(k, e) /\ buf'[k][e] = buf[k][e]
      BY <1>4, <1>6, <2>1
    <3>2. free'[k] = free[k]
      BY <1>5, <2>1
    <3> QED BY <1>0, <3>1, <3>2 DEF BuffersOK, Directions
  <2>2. CASE k = j
    <3>1. \A e \in Directions : InUse(j, e)' => buf'[j][e] \in Buffers
      BY <1>0, <1>3, <1>4, <1>6 DEF BuffersOK
    <3>2. \A e \in Directions : InUse(j, e) => buf[j][e] # b
      BY <1>0, <1>3 DEF BuffersOK
    <3>3. InUse(j, "there")' /\ InUse(j, "back")' => buf'[j]["there"] # buf'[j]["back"]
      <4>1. CASE d = "there"
        BY <1>4, <1>6, <3>2, <4>1 DEF Directions
      <4>2. CASE d = "back"
        BY <1>4, <1>6, <3>2, <4>2 DEF Directions
      <4> QED BY <4>1, <4>2 DEF Directions
    <3>4. ASSUME NEW c \in Buffers
          PROVE  c \in free'[j] <=> \A e \in Directions : InUse(j, e)' => buf'[j][e] # c
      <4>1. c \in free[j] <=> \A e \in Directions : InUse(j, e) => buf[j][e] # c
        BY <1>0 DEF BuffersOK
      <4>2. CASE c = b
        BY <1>4, <1>5, <1>6, <4>2
      <4>3. CASE c # b
        BY <1>4, <1>5, <1>6, <4>1, <4>3
      <4> QED BY <4>2, <4>3
    <3> QED BY <2>2, <3>1, <3>3, <3>4
  <2> QED BY <2>1, <2>2
<1>8. (WireOK /\ FlagsOK /\ CopiesOK)'
  BY <1>0, <1>1, <1>2, <1>4, <1>5 DEF WireOK, FlagsOK, CopiesOK
<1> QED BY <1>2, <1>7, <1>8, PartsPrime

LEMMA CopyReadTyped ==
    ASSUME TypeInv, NEW j \in Joints, NEW d \in Directions, CopyRead(j, d)
    PROVE  TypeInv'
<1>0. WireOK /\ FlagsOK /\ CopiesOK /\ OrderOK /\ BuffersOK /\ ShapeOK
  BY Parts DEF TypeInv
<1> DEFINE h == From(j, d)
           w == wire[d][h]
<1>1. /\ Copy(j, d, "read", "write") /\ w # <<>>
      /\ cell' = [cell EXCEPT ![j][buf[j][d]] = Head(w)] /\ PutWire(d, h, Tail(w))
      /\ UNCHANGED <<sent, closed, half, lost, handle, work, free, buf>>
  BY DEF CopyRead, PutWire
<1>2. h \in 1 .. 3
  BY Geometry
<1>3. w \in Seq(Cells)
  BY <1>0, <1>2 DEF WireOK
<1> HIDE DEF h
<1>4. /\ Head(w) \in Cells /\ Tail(w) \in Seq(Cells) /\ Len(w) \in Nat
      /\ Len(Tail(w)) \in Nat /\ Len(Tail(w)) = Len(w) - 1
  BY <1>1, <1>3, TailFacts
<1>5. /\ wire' \in [Directions -> [1 .. 3 -> Seq(Cells)]] /\ wire'[d][h] = Tail(w)
      /\ \A e \in Directions, g \in 1 .. 3 : e # d \/ g # h => wire'[e][g] = wire[e][g]
  <2>1. ShapeOK /\ h \in 1 .. 3 /\ Tail(w) \in Seq(Cells) /\ PutWire(d, h, Tail(w))
    BY <1>0, <1>1, <1>2, <1>4
  <2> HIDE DEF w
  <2> QED BY <2>1, SetWire, ZenonT(60)
<1>6. WireOK'
  <2>1. Len(wire'[d][h]) <= Len(wire[d][h])
    BY <1>4, <1>5
  <2>2. \A e \in Directions, g \in 1 .. 3 :
           wire'[e][g] = wire[e][g] \/ Len(wire'[e][g]) <= Len(wire[e][g])
    BY <1>5, <2>1
  <2> QED BY <1>1, <1>5, <2>2, WireShrinks
<1>7. /\ OrderOK' /\ copy' \in [Joints -> [Directions -> CopyLabels]]
      /\ copy[j][d] = "read" /\ copy'[j][d] = "write"
      /\ \A k \in Joints, e \in Directions : k # j \/ e # d => copy'[k][e] = copy[k][e]
  <2>1. lost => \A e \in Directions : wire'[e][2] = <<>>
    <3>1. lost => \A e \in Directions : wire[e][2] = <<>>
      BY <1>0 DEF OrderOK
    <3>2. lost => h # 2
      BY <1>1, <3>1
    <3>3. \A e \in Directions : h # 2 => wire'[e][2] = wire[e][2]
      BY <1>5
    <3> QED BY <3>1, <3>2, <3>3
  <2>2. "read" \in CopyLabels \ {"idle"} /\ "write" \in CopyLabels
    BY DEF CopyLabels
  <2> QED BY <1>1, <2>1, <2>2, CopyOrder
<1>8. \A k \in Joints, e \in Directions : InUse(k, e)' = InUse(k, e)
  BY <1>7 DEF InUse
<1>9. BuffersOK'
  <2>1. "there" \in Directions /\ "back" \in Directions
    BY DEF Directions
  <2> QED BY <1>0, <1>1, <1>8, <2>1 DEF BuffersOK
<1>10. cell' \in [Joints -> [Buffers -> Cells]]
  BY <1>0, <1>1, <1>4 DEF CopiesOK
<1>11. (FlagsOK /\ CopiesOK)'
  BY <1>0, <1>1, <1>7, <1>10 DEF FlagsOK, CopiesOK
<1> QED BY <1>6, <1>7, <1>9, <1>11, PartsPrime

LEMMA CopyWriteTyped ==
    ASSUME TypeInv, NEW j \in Joints, NEW d \in Directions, CopyWrite(j, d)
    PROVE  TypeInv' /\ buf[j][d] \in Buffers /\ cell[j][buf[j][d]] \in Cells
<1>0. WireOK /\ FlagsOK /\ CopiesOK /\ OrderOK /\ BuffersOK /\ ShapeOK
  BY Parts DEF TypeInv
<1> DEFINE h == To(j, d)
           w == wire[d][h]
           c == cell[j][buf[j][d]]
<1>1. /\ Copy(j, d, "write", "read") /\ ~Broken(h)
      /\ cell' = [cell EXCEPT ![j][buf[j][d]] = Data(0)]
      /\ wire' = wire \/ (Len(w) < Room(h, d) /\ PutWire(d, h, Append(w, c)))
      /\ UNCHANGED <<sent, closed, half, lost, handle, work, free, buf>>
  BY DEF CopyWrite, PutWire
<1>2. h \in 1 .. 3 /\ h # FirstHop(d)
  BY Geometry
<1>3. w \in Seq(Cells) /\ Len(w) \in Nat
  BY <1>0, <1>2, LenProperties DEF WireOK
<1>a. copy[j][d] = "write" /\ InUse(j, d)
  BY <1>1 DEF Copy, InUse
<1>4. buf[j][d] \in Buffers /\ c \in Cells
  <2>1. buf[j][d] \in Buffers
    BY <1>0, <1>a DEF BuffersOK
  <2> QED BY <1>0, <2>1 DEF CopiesOK
<1>5. lost => h # 2
  BY <1>1 DEF Broken
<1>6. WireOK' /\ (lost => \A e \in Directions : wire'[e][2] = <<>>)
  <2>0. lost => \A e \in Directions : wire[e][2] = <<>>
    BY <1>0 DEF OrderOK
  <2>1. CASE wire' = wire
    BY <1>0, <1>1, <2>0, <2>1 DEF WireOK
  <2>2. CASE Len(w) < Room(h, d) /\ PutWire(d, h, Append(w, c))
    <3> DEFINE v == Append(w, c)
    <3>1. v \in Seq(Cells) /\ Len(v) = Len(w) + 1
      BY <1>3, <1>4, AppendProperties
    <3>2. PutWire(d, h, v)
      BY <2>2
    <3> HIDE DEF v, h
    <3>3. /\ wire' \in [Directions -> [1 .. 3 -> Seq(Cells)]] /\ wire'[d][h] = v
          /\ \A e \in Directions, g \in 1 .. 3 : e # d \/ g # h => wire'[e][g] = wire[e][g]
      BY <1>0, <1>2, <3>1, <3>2, SetWire
    <3>4. Len(v) <= Room(h, d)
      <4>1. Room(h, d) \in Nat
        BY StreamAssumption DEF Room
      <4> QED BY <1>3, <2>2, <3>1, <4>1
    <3>5. \A e \in Directions, g \in 1 .. 3 : Len(wire'[e][g]) <= Room(g, e)
      BY <1>0, <3>3, <3>4 DEF WireOK
    <3>6. \A e \in Directions : wire'[e][FirstHop(e)] = wire[e][FirstHop(e)]
      BY <1>2, <3>3, Geometry, ZenonT(60)
    <3>7. WireOK'
      BY <1>0, <1>1, <3>3, <3>5, <3>6 DEF WireOK
    <3>8. \A e \in Directions : h # 2 => wire'[e][2] = wire[e][2]
      BY <3>3
    <3> QED BY <1>5, <2>0, <3>7, <3>8
  <2> QED BY <1>1, <2>1, <2>2
<1>7. /\ OrderOK' /\ copy' \in [Joints -> [Directions -> CopyLabels]]
      /\ copy[j][d] = "write" /\ copy'[j][d] = "read"
      /\ \A k \in Joints, e \in Directions : k # j \/ e # d => copy'[k][e] = copy[k][e]
  <2>2. "write" \in CopyLabels \ {"idle"} /\ "read" \in CopyLabels
    BY DEF CopyLabels
  <2> QED BY <1>1, <1>6, <2>2, CopyOrder
<1>8. \A k \in Joints, e \in Directions : InUse(k, e)' = InUse(k, e)
  BY <1>7 DEF InUse
<1>9. BuffersOK'
  <2>1. "there" \in Directions /\ "back" \in Directions
    BY DEF Directions
  <2> QED BY <1>0, <1>1, <1>8, <2>1 DEF BuffersOK
<1>10. cell' \in [Joints -> [Buffers -> Cells]]
  BY <1>0, <1>1, DataTyped DEF CopiesOK
<1>11. (FlagsOK /\ CopiesOK)'
  BY <1>0, <1>1, <1>7, <1>10 DEF FlagsOK, CopiesOK
<1> QED BY <1>4, <1>6, <1>7, <1>9, <1>11, PartsPrime

(* A copy ends, and closes the input and then the output. *)
LEMMA CopyEndTyped ==
    ASSUME TypeInv, NEW j \in Joints, NEW d \in Directions, CopyEnd(j, d)
    PROVE  TypeInv'
<1>0. WireOK /\ FlagsOK /\ CopiesOK /\ OrderOK /\ BuffersOK
  BY Parts
<1>1. PICK from \in {"read", "write"} : Copy(j, d, from, "close")
  BY DEF CopyEnd
<1>2. /\ free' = [free EXCEPT ![j] = free[j] \cup {buf[j][d]}]
      /\ buf' = [buf EXCEPT ![j][d] = NoBuffer]
      /\ CloseEnd(Receiver(From(j, d), d))
      /\ UNCHANGED <<sent, half, lost, handle, work, cell>>
  BY DEF CopyEnd
<1>3. /\ WireOK' /\ closed' \subseteq Ends
      /\ \A e \in Directions : wire[e][2] = <<>> => wire'[e][2] = <<>>
  <2>1. Receiver(From(j, d), d) \in Inner
    BY InnerEnds
  <2> QED BY <1>2, <2>1, CloseTyped
<1>4. /\ OrderOK' /\ copy' \in [Joints -> [Directions -> CopyLabels]]
      /\ copy[j][d] = from /\ copy'[j][d] = "close"
      /\ \A k \in Joints, e \in Directions : k # j \/ e # d => copy'[k][e] = copy[k][e]
  <2>1. lost => \A e \in Directions : wire'[e][2] = <<>>
    BY <1>0, <1>3 DEF OrderOK
  <2>2. from \in CopyLabels \ {"idle"} /\ "close" \in CopyLabels
    BY DEF CopyLabels
  <2>3. UNCHANGED <<handle, work, lost>>
    BY <1>2
  <2> QED BY <1>1, <2>1, <2>2, <2>3, CopyOrder
<1>5. /\ InUse(j, d) /\ ~InUse(j, d)'
      /\ \A k \in Joints, e \in Directions : k # j \/ e # d => InUse(k, e)' = InUse(k, e)
  BY <1>4 DEF InUse
<1>6. buf[j][d] \in Buffers
  BY <1>0, <1>5 DEF BuffersOK
<1>7. /\ buf' \in [Joints -> [Directions -> Buffers \cup {NoBuffer}]]
      /\ \A k \in Joints, e \in Directions : k # j \/ e # d => buf'[k][e] = buf[k][e]
  BY <1>0, <1>2 DEF CopiesOK
<1>8. /\ free' \in [Joints -> SUBSET Buffers] /\ free'[j] = free[j] \cup {buf[j][d]}
      /\ \A k \in Joints : k # j => free'[k] = free[k]
  BY <1>0, <1>2, <1>6 DEF CopiesOK
<1>9. BuffersOK'
  <2> SUFFICES ASSUME NEW k \in Joints
               PROVE  /\ \A e \in Directions : InUse(k, e)' => buf'[k][e] \in Buffers
                      /\ InUse(k, "there")' /\ InUse(k, "back")' => buf'[k]["there"] # buf'[k]["back"]
                      /\ \A c \in Buffers :
                            c \in free'[k] <=> \A e \in Directions : InUse(k, e)' => buf'[k][e] # c
    BY DEF BuffersOK
  <2>1. CASE k # j
    <3>1. \A e \in Directions : InUse(k, e)' = InUse(k, e) /\ buf'[k][e] = buf[k][e]
      BY <1>5, <1>7, <2>1
    <3>2. free'[k] = free[k]
      BY <1>8, <2>1
    <3> QED BY <1>0, <3>1, <3>2 DEF BuffersOK, Directions
  <2>2. CASE k = j
    <3>1. \A e \in Directions : InUse(j, e)' => e # d /\ InUse(j, e) /\ buf'[j][e] = buf[j][e]
      BY <1>5, <1>7
    <3>2. \A e \in Directions : e # d /\ InUse(j, e) => InUse(j, e)' /\ buf[j][e] # buf[j][d]
      BY <1>0, <1>5 DEF BuffersOK, Directions
    <3>3. \A e \in Directions : InUse(j, e)' => buf'[j][e] \in Buffers
      BY <1>0, <3>1 DEF BuffersOK
    <3>4. ~(InUse(j, "there")' /\ InUse(j, "back")')
      BY <3>1 DEF Directions
    <3>5. ASSUME NEW c \in Buffers
          PROVE  c \in free'[j] <=> \A e \in Directions : InUse(j, e)' => buf'[j][e] # c
      <4>1. c \in free[j] <=> \A e \in Directions : InUse(j, e) => buf[j][e] # c
        BY <1>0 DEF BuffersOK
      <4>2. CASE c = buf[j][d]
        BY <1>8, <3>1, <3>2, <4>2
      <4>3. CASE c # buf[j][d]
        <5>1. c \in free'[j] <=> c \in free[j]
          BY <1>8, <4>3
        <5>2. (\A e \in Directions : InUse(j, e) => buf[j][e] # c)
                 <=> \A e \in Directions : InUse(j, e)' => buf'[j][e] # c
          BY <1>7, <3>1, <3>2, <4>3
        <5> QED BY <4>1, <5>1, <5>2
      <4> QED BY <4>2, <4>3
    <3> QED BY <2>2, <3>3, <3>4, <3>5
  <2> QED BY <2>1, <2>2
<1>10. (FlagsOK /\ CopiesOK)'
  BY <1>0, <1>2, <1>3, <1>4, <1>7, <1>8 DEF FlagsOK, CopiesOK
<1> QED BY <1>3, <1>4, <1>9, <1>10, PartsPrime

LEMMA CloseToTyped ==
    ASSUME TypeInv, NEW j \in Joints, NEW d \in Directions, CloseTo(j, d)
    PROVE  TypeInv'
<1>0. WireOK /\ FlagsOK /\ CopiesOK /\ OrderOK /\ BuffersOK
  BY Parts
<1>1. /\ Copy(j, d, "close", "over") /\ CloseEnd(Sender(To(j, d), d))
      /\ UNCHANGED <<sent, half, lost, handle, work, free, buf, cell>>
  BY DEF CloseTo
<1>2. /\ WireOK' /\ closed' \subseteq Ends
      /\ \A e \in Directions : wire[e][2] = <<>> => wire'[e][2] = <<>>
  <2>1. Sender(To(j, d), d) \in Inner
    BY InnerEnds
  <2> QED BY <1>1, <2>1, CloseTyped
<1>3. /\ OrderOK' /\ copy' \in [Joints -> [Directions -> CopyLabels]]
      /\ copy[j][d] = "close" /\ copy'[j][d] = "over"
      /\ \A k \in Joints, e \in Directions : k # j \/ e # d => copy'[k][e] = copy[k][e]
  <2>1. lost => \A e \in Directions : wire'[e][2] = <<>>
    BY <1>0, <1>2 DEF OrderOK
  <2>2. "close" \in CopyLabels \ {"idle"} /\ "over" \in CopyLabels
    BY DEF CopyLabels
  <2> QED BY <1>1, <2>1, <2>2, CopyOrder
<1>4. \A k \in Joints, e \in Directions : InUse(k, e)' = InUse(k, e)
  BY <1>3 DEF InUse
<1>5. BuffersOK'
  <2>1. "there" \in Directions /\ "back" \in Directions
    BY DEF Directions
  <2> QED BY <1>0, <1>1, <1>4, <2>1 DEF BuffersOK
<1>6. (FlagsOK /\ CopiesOK)'
  BY <1>0, <1>1, <1>2, <1>3 DEF FlagsOK, CopiesOK
<1> QED BY <1>2, <1>3, <1>5, <1>6, PartsPrime

LEMMA TypeStep == TypeInv /\ [Next]_vars => TypeInv'
<1>1. ASSUME TypeInv, NEW j \in Joints, NEW d \in Directions, Pipe(j, d) PROVE TypeInv'
  BY <1>1, GetBufTyped, CopyReadTyped, CopyWriteTyped, CopyEndTyped, CloseToTyped DEF Pipe
<1>2. ASSUME TypeInv, UNCHANGED vars PROVE TypeInv'
  BY <1>2, Parts, PartsPrime
     DEF vars, WireOK, FlagsOK, CopiesOK, OrderOK, BuffersOK, InUse
<1> QED
  BY <1>1, <1>2, AppTyped, SessionLostTyped, SendRequestTyped, WorkTyped DEF Next, Process

LEMMA InitTyped == Init => TypeInv
<1> SUFFICES ASSUME Init PROVE TypeInv
  OBVIOUS
<1>1. <<>> \in Seq(Cells) /\ Len(<<>>) = 0
  BY EmptySeq
<1>2. wire = [d \in Directions |-> [h \in 1 .. 3 |-> <<>>]]
  BY DEF Init
<1>3. /\ wire \in [Directions -> [1 .. 3 -> Seq(Cells)]]
      /\ \A d \in Directions, h \in 1 .. 3 : wire[d][h] = <<>>
  BY <1>1, <1>2
<1>4. WireOK
  <2>1. \A d \in Directions, h \in 1 .. 3 : Room(h, d) \in Nat
    BY StreamAssumption DEF Room
  <2>2. \A d \in Directions, h \in 1 .. 3 : Len(wire[d][h]) = 0
    BY <1>1, <1>3
  <2>3. sent = [d \in Directions |-> 0]
    BY DEF Init
  <2>4. \A d \in Directions : sent[d] \in 0 .. MaxBytes[d] /\ Len(wire[d][FirstHop(d)]) <= sent[d]
    BY <2>2, <2>3, StreamAssumption, Geometry
  <2> QED BY <1>3, <2>1, <2>2, <2>3, <2>4 DEF WireOK
<1>5. FlagsOK
  BY DEF Init, FlagsOK, WorkLabels
<1>6. CopiesOK
  <2>1. Data(0) \in Cells
    BY DataTyped
  <2> QED BY <2>1 DEF Init, CopiesOK, CopyLabels
<1>7. OrderOK
  <2>1. "there" \in Directions /\ "server" \in Joints /\ "client" \in Joints
    BY DEF Directions, Joints
  <2>2. \A j \in Joints, d \in Directions : copy[j][d] = "idle"
    BY DEF Init
  <2> QED BY <1>3, <2>1, <2>2 DEF Init, OrderOK
<1>8. BuffersOK
  <2>1. \A j \in Joints, d \in Directions : ~InUse(j, d)
    BY DEF Init, InUse
  <2>2. "there" \in Directions /\ \A j \in Joints : free[j] = Buffers
    BY DEF Init, Directions
  <2> QED BY <2>1, <2>2 DEF BuffersOK
<1> QED BY <1>4, <1>5, <1>6, <1>7, <1>8, Parts

(***************************************************************************)
(* The hops, the copies and the buffers are of their types; no hop holds   *)
(* more than its room, which for the pipe is the window.                   *)
(***************************************************************************)
THEOREM TypeCorrect == Spec => []TypeOK
<1>1. TypeInv => TypeOK
  BY DEF TypeInv
<1> QED BY <1>1, InitTyped, TypeStep, PTL DEF Spec
-----------------------------------------------------------------------------
(* The types of what Flow is about. *)
Kit(d) ==
    /\ wire[d][LastHop(d)] \in Seq(Cells) /\ wire[d][2] \in Seq(Cells)
    /\ wire[d][FirstHop(d)] \in Seq(Cells)
    /\ Holds(LastJoint(d), d) \in BOOLEAN /\ Holds(FirstJoint(d), d) \in BOOLEAN
    /\ Header(d) \in Nat /\ sent[d] \in Nat
    /\ Open3(d) \in BOOLEAN /\ Open2(d) \in BOOLEAN /\ Open1(d) \in BOOLEAN
    /\ (Open1(d) => Open2(d)) /\ (Open2(d) => Open3(d))

LEMMA KitTyped == ASSUME TypeInv, NEW d \in Directions PROVE Kit(d)
<1>1. wire \in [Directions -> [1 .. 3 -> Seq(Cells)]] /\ sent[d] \in Nat
  BY DEF TypeInv, ShapeOK
<1>2. LastHop(d) \in 1 .. 3 /\ 2 \in 1 .. 3 /\ FirstHop(d) \in 1 .. 3
  BY Geometry
<1>3. Header(d) \in Nat
  BY StreamAssumption DEF Header
<1>4. /\ Holds(LastJoint(d), d) \in BOOLEAN /\ Holds(FirstJoint(d), d) \in BOOLEAN
      /\ Open3(d) \in BOOLEAN /\ Open2(d) \in BOOLEAN /\ Open1(d) \in BOOLEAN
      /\ (Open1(d) => Open2(d)) /\ (Open2(d) => Open3(d))
  BY DEF Holds, Open3, Open2, Open1
<1> QED BY <1>1, <1>2, <1>3, <1>4 DEF Kit

LEMMA KitPrime == ASSUME TypeInv', NEW d \in Directions PROVE Kit(d)'
<1>1. wire' \in [Directions -> [1 .. 3 -> Seq(Cells)]] /\ sent'[d] \in Nat
  BY DEF TypeInv, ShapeOK
<1>2. LastHop(d) \in 1 .. 3 /\ 2 \in 1 .. 3 /\ FirstHop(d) \in 1 .. 3
  BY Geometry
<1>3. Header(d)' \in Nat
  BY StreamAssumption DEF Header
<1>4. /\ Holds(LastJoint(d), d)' \in BOOLEAN /\ Holds(FirstJoint(d), d)' \in BOOLEAN
      /\ Open3(d)' \in BOOLEAN /\ Open2(d)' \in BOOLEAN /\ Open1(d)' \in BOOLEAN
      /\ (Open1(d)' => Open2(d)') /\ (Open2(d)' => Open3(d)')
  BY DEF Holds, Open3, Open2, Open1
<1> QED BY <1>1, <1>2, <1>3, <1>4 DEF Kit

(* A step that moves no byte of d: bytes may get lost, with what they are in. *)
Fades(d) ==
    /\ wire'[d][LastHop(d)] = wire[d][LastHop(d)] /\ sent'[d] = sent[d]
    /\ Open3(d)' =>
           /\ Open3(d)
           /\ Holds(LastJoint(d), d)' =>
                  Holds(LastJoint(d), d) /\ Held(LastJoint(d), d)' = Held(LastJoint(d), d)
    /\ Open2(d)' =>
           /\ Open2(d) /\ wire'[d][2] = wire[d][2] /\ Header(d)' = Header(d)
           /\ Holds(LastJoint(d), d)' = Holds(LastJoint(d), d)
           /\ Holds(FirstJoint(d), d)' =>
                  Holds(FirstJoint(d), d) /\ Held(FirstJoint(d), d)' = Held(FirstJoint(d), d)
    /\ Open1(d)' =>
           /\ Open1(d) /\ wire'[d][FirstHop(d)] = wire[d][FirstHop(d)]
           /\ Holds(FirstJoint(d), d)' = Holds(FirstJoint(d), d)

LEMMA Fade ==
    ASSUME TypeInv, TypeInv', NEW d \in Directions, Flow(d), Fades(d)
    PROVE  Flow(d)'
<1>1. Kit(d) /\ Kit(d)'
  BY KitTyped, KitPrime
<1> DEFINE w3 == wire[d][LastHop(d)]
           w2 == wire[d][2]
           w1 == wire[d][FirstHop(d)]
           v2 == wire'[d][2]
           v1 == wire'[d][FirstHop(d)]
           hasL == Holds(LastJoint(d), d)
           heldL == Held(LastJoint(d), d)
           hasF == Holds(FirstJoint(d), d)
           heldF == Held(FirstJoint(d), d)
           hasL2 == Holds(LastJoint(d), d)'
           heldL2 == Held(LastJoint(d), d)'
           hasF2 == Holds(FirstJoint(d), d)'
           heldF2 == Held(FirstJoint(d), d)'
           hdr == Header(d)
           hdr2 == Header(d)'
           total == sent[d]
           o3 == Open3(d)
           o2 == Open2(d)
           o1 == Open1(d)
           p3 == Open3(d)'
           p2 == Open2(d)'
           p1 == Open1(d)'
<1>2. FlowOK(w3, hasL, heldL, w2, hdr, hasF, heldF, w1, total, o3, o2, o1)
  BY DEF Flow
<1>3. /\ w3 \in Seq(Cells) /\ w2 \in Seq(Cells) /\ w1 \in Seq(Cells)
      /\ v2 \in Seq(Cells) /\ v1 \in Seq(Cells)
      /\ hasL \in BOOLEAN /\ hasF \in BOOLEAN /\ hasL2 \in BOOLEAN /\ hasF2 \in BOOLEAN
      /\ hdr \in Nat /\ hdr2 \in Nat /\ total \in Nat
      /\ o3 \in BOOLEAN /\ o2 \in BOOLEAN /\ o1 \in BOOLEAN
      /\ p3 \in BOOLEAN /\ p2 \in BOOLEAN /\ p1 \in BOOLEAN
      /\ (o1 => o2) /\ (o2 => o3) /\ (p1 => p2) /\ (p2 => p3)
  BY <1>1 DEF Kit
<1>4. /\ (p3 => o3) /\ (p2 => o2) /\ (p1 => o1) /\ (p2 => v2 = w2) /\ (p1 => v1 = w1)
      /\ (p3 /\ hasL2 => hasL /\ heldL2 = heldL) /\ (p2 => hasL2 = hasL)
      /\ (p2 /\ hasF2 => hasF /\ heldF2 = heldF) /\ (p1 => hasF2 = hasF)
      /\ (p2 => hdr2 = hdr)
  BY DEF Fades
<1>5. w3 = wire'[d][LastHop(d)] /\ total = sent'[d]
  BY DEF Fades
<1>6. FlowOK(w3, hasL2, heldL2, v2, hdr2, hasF2, heldF2, v1, total, p3, p2, p1)
  <2> HIDE DEF w3, w2, w1, v2, v1, hasL, heldL, hasF, heldF, hasL2, heldL2, hasF2, heldF2,
               hdr, hdr2, total, o3, o2, o1, p3, p2, p1
  <2>1. Len(w1) \in Nat /\ Len(w2) \in Nat /\ Len(w3) \in Nat
    BY <1>3, LenProperties
  <2>2. /\ Count(hasL) \in Nat /\ Count(hasL2) \in Nat
        /\ (hasL2 => hasL) => Count(hasL2) <= Count(hasL)
        /\ Count(hasF) \in Nat /\ Count(hasF2) \in Nat
        /\ (hasF2 => hasF) => Count(hasF2) <= Count(hasF)
    BY <1>3 DEF Count
  <2>3. Len(w3) <= total /\ \A i \in 1 .. Len(w3) : w3[i] = Data(i)
    BY <1>2 DEF FlowOK
  <2>4. ASSUME p3
        PROVE  Len(w3) + Count(hasL2) <= total /\ (hasL2 => heldL2 = Data(Len(w3) + 1))
    <3>1. Len(w3) + Count(hasL) <= total /\ (hasL => heldL = Data(Len(w3) + 1))
      BY <1>2, <1>4, <2>4 DEF FlowOK
    <3>2. hasL2 => hasL /\ heldL2 = heldL
      BY <1>4, <2>4
    <3>3. Count(hasL2) <= Count(hasL)
      BY <2>2, <3>2
    <3>4. Len(w3) + Count(hasL2) <= total
      BY <1>3, <2>1, <2>2, <3>1, <3>3, SMTT(60)
    <3>5. hasL2 => heldL2 = Data(Len(w3) + 1)
      BY <3>1, <3>2
    <3> QED BY <3>4, <3>5
  <2>5. ASSUME p2
        PROVE  /\ hdr2 <= Len(v2)
               /\ Len(w3) + Count(hasL2) + (Len(v2) - hdr2) + Count(hasF2) <= total
               /\ \A i \in hdr2 + 1 .. Len(v2) : v2[i] = Data(Len(w3) + Count(hasL2) + (i - hdr2))
               /\ hasF2 => heldF2 = Data(Len(w3) + Count(hasL2) + (Len(v2) - hdr2) + 1)
    <3>0. hasL2 = hasL /\ hdr2 = hdr /\ v2 = w2 /\ o2
      BY <1>3, <1>4, <2>5
    <3>1. /\ hdr <= Len(w2)
          /\ Len(w3) + Count(hasL) + (Len(w2) - hdr) + Count(hasF) <= total
          /\ \A i \in hdr + 1 .. Len(w2) : w2[i] = Data(Len(w3) + Count(hasL) + (i - hdr))
          /\ hasF => heldF = Data(Len(w3) + Count(hasL) + (Len(w2) - hdr) + 1)
      BY <1>2, <3>0 DEF FlowOK
    <3>2. hasF2 => hasF /\ heldF2 = heldF
      BY <1>3, <1>4, <2>5
    <3>3. Count(hasF2) <= Count(hasF)
      BY <2>2, <3>2
    <3>4. Len(w3) + Count(hasL) + (Len(w2) - hdr) + Count(hasF2) <= total
      BY <1>3, <2>1, <2>2, <3>1, <3>3, SMTT(60)
    <3>5. hasF2 => heldF2 = Data(Len(w3) + Count(hasL) + (Len(w2) - hdr) + 1)
      BY <3>1, <3>2
    <3> QED BY <3>0, <3>1, <3>4, <3>5
  <2>6. ASSUME p1
        PROVE  /\ Len(w3) + Count(hasL2) + (Len(v2) - hdr2) + Count(hasF2) + Len(v1) = total
               /\ \A i \in 1 .. Len(v1) :
                      v1[i] = Data(Len(w3) + Count(hasL2) + (Len(v2) - hdr2) + Count(hasF2) + i)
    <3>0. hasL2 = hasL /\ hasF2 = hasF /\ hdr2 = hdr /\ v2 = w2 /\ v1 = w1 /\ o1
      BY <1>3, <1>4, <2>6
    <3> QED BY <1>2, <3>0 DEF FlowOK
  <2> QED BY <2>3, <2>4, <2>5, <2>6 DEF FlowOK
<1> QED BY <1>5, <1>6 DEF Flow

(* Closing ends, losing the session and ending copies only lets bytes fade. *)
Winds(d) ==
    /\ closed \subseteq closed' /\ (lost => lost') /\ sent' = sent
    /\ wire'[d][LastHop(d)] = wire[d][LastHop(d)]
    /\ \A h \in 1 .. 3 :
           Receiver(h, d) \notin closed' /\ (h = 2 => ~lost') => wire'[d][h] = wire[d][h]
    /\ \A j \in Joints :
           /\ copy'[j][d] \in Running => copy[j][d] \in Running /\ Holds(j, d)' = Holds(j, d)
           /\ Holds(j, d)' => Holds(j, d) /\ Held(j, d)' = Held(j, d)
    /\ d = "there" /\ work' \in AtWork => work \in AtWork /\ Header(d)' = Header(d)

LEMMA WindsFades ==
    ASSUME NEW d \in Directions, Winds(d)
    PROVE  Fades(d)
<1>1. /\ FirstJoint(d) \in Joints /\ LastJoint(d) \in Joints /\ FirstHop(d) \in 1 .. 3 /\ 2 \in 1 .. 3
      /\ FirstHop(d) # 2
  BY Geometry
<1>2. d # "there" => Header(d) = 0 /\ Header(d)' = 0
  BY DEF Header
<1>3. Open3(d)' => Open3(d)
  BY DEF Winds, Open3
<1>4. ASSUME Open2(d)'
      PROVE  /\ Open2(d) /\ wire'[d][2] = wire[d][2] /\ Header(d)' = Header(d)
             /\ Holds(LastJoint(d), d)' = Holds(LastJoint(d), d)
  <2>1. /\ Open3(d)' /\ copy'[LastJoint(d)][d] \in Running
        /\ Receiver(2, d) \notin closed' /\ ~lost' /\ (d = "there" => work' \in AtWork)
    BY <1>4 DEF Open2
  <2>2. Open2(d)
    BY <1>1, <1>3, <2>1 DEF Open2, Winds
  <2>3. wire'[d][2] = wire[d][2]
    BY <1>1, <2>1 DEF Winds
  <2>4. Header(d)' = Header(d)
    BY <1>2, <2>1 DEF Winds
  <2>5. Holds(LastJoint(d), d)' = Holds(LastJoint(d), d)
    BY <1>1, <2>1 DEF Winds
  <2> QED BY <2>2, <2>3, <2>4, <2>5
<1>5. ASSUME Open1(d)'
      PROVE  /\ Open1(d) /\ wire'[d][FirstHop(d)] = wire[d][FirstHop(d)]
             /\ Holds(FirstJoint(d), d)' = Holds(FirstJoint(d), d)
  <2>1. /\ Open2(d)' /\ copy'[FirstJoint(d)][d] \in Running
        /\ Receiver(FirstHop(d), d) \notin closed'
    BY <1>5 DEF Open1
  <2>2. Open1(d)
    BY <1>1, <1>4, <2>1 DEF Open1, Winds
  <2>3. wire'[d][FirstHop(d)] = wire[d][FirstHop(d)]
    BY <1>1, <2>1 DEF Winds
  <2>4. Holds(FirstJoint(d), d)' = Holds(FirstJoint(d), d)
    BY <1>1, <2>1 DEF Winds
  <2> QED BY <2>2, <2>3, <2>4
<1>6. \A j \in {FirstJoint(d), LastJoint(d)} :
         Holds(j, d)' => Holds(j, d) /\ Held(j, d)' = Held(j, d)
  BY <1>1 DEF Winds
<1>7. wire'[d][LastHop(d)] = wire[d][LastHop(d)] /\ sent'[d] = sent[d]
  BY DEF Winds
<1> QED BY <1>3, <1>4, <1>5, <1>6, <1>7 DEF Fades

(* The same, with the copies as they were. *)
LEMMA StillCopies ==
    ASSUME NEW d \in Directions, UNCHANGED <<copy, buf, cell>>
    PROVE  \A j \in Joints :
               /\ copy'[j][d] \in Running => copy[j][d] \in Running /\ Holds(j, d)' = Holds(j, d)
               /\ Holds(j, d)' => Holds(j, d) /\ Held(j, d)' = Held(j, d)
BY DEF Holds, Held

(* The applications. *)
LEMMA AppFlow ==
    ASSUME TypeInv, TypeInv', FlowInv, NEW a \in Directions, AppSend(a) \/ AppClose(a) \/ AppShutdown(a),
           NEW d \in Directions
    PROVE  Flow(d)'
<1>0. Flow(d)
  BY DEF FlowInv
<1>1. UNCHANGED <<lost, handle, work, copy, buf, cell>> /\ closed \subseteq closed'
  BY DEF AppSend, AppClose, AppShutdown, copyVars
<1>2. /\ Header(d)' = Header(d)
      /\ \A j \in Joints :
               /\ copy'[j][d] \in Running => copy[j][d] \in Running /\ Holds(j, d)' = Holds(j, d)
               /\ Holds(j, d)' => Holds(j, d) /\ Held(j, d)' = Held(j, d)
  BY <1>1, StillCopies DEF Header
<1>3. CASE AppClose(a) \/ AppShutdown(a)
  <2>1. UNCHANGED <<wire, sent>>
    BY <1>3 DEF AppClose, AppShutdown
  <2>2. Winds(d)
    BY <1>1, <1>2, <2>1 DEF Winds
  <2> QED BY <1>0, <2>2, WindsFades, Fade
<1>4. CASE AppSend(a) /\ d # a
  <2>1. wire'[d] = wire[d] /\ sent'[d] = sent[d]
    BY <1>4 DEF AppSend, TypeInv, ShapeOK
  <2>2. Fades(d)
    BY <1>1, <2>1 DEF Fades, Open3, Open2, Open1, Header, Holds, Held, AppSend
  <2> QED BY <1>0, <2>2, Fade
<1>5. CASE AppSend(a) /\ d = a
  <2> DEFINE h == FirstHop(d)
             v == Append(wire[d][h], Data(sent[d] + 1))
  <2>1. Kit(d)
    BY KitTyped
  <2>2. h \in 1 .. 3 /\ LastHop(d) \in 1 .. 3 /\ h # 2 /\ h # LastHop(d)
    BY Geometry
  <2>3. /\ PutWire(d, h, v) /\ sent' = [sent EXCEPT ![d] = sent[d] + 1]
        /\ UNCHANGED <<closed, lost, handle, work, copy, buf, cell>>
    BY <1>5 DEF AppSend, PutWire, copyVars
  <2>4. v \in Seq(Cells)
    <3>1. sent[d] + 1 \in Nat
      BY <2>1 DEF Kit
    <3> QED BY <2>1, <3>1, DataTyped, AppendProperties DEF Kit
  <2>5. FlowOK(wire[d][LastHop(d)], Holds(LastJoint(d), d), Held(LastJoint(d), d),
               wire[d][2], Header(d), Holds(FirstJoint(d), d), Held(FirstJoint(d), d),
               v, sent[d] + 1, Open3(d), Open2(d), Open1(d))
    BY <1>0, <2>1, FlowSend, SMTT(60) DEF Flow, Kit
  <2> HIDE DEF v, h
  <2>6. wire'[d][h] = v /\ wire'[d][2] = wire[d][2] /\ wire'[d][LastHop(d)] = wire[d][LastHop(d)]
    <3>1. ShapeOK
      BY DEF TypeInv
    <3>2. \A e \in Directions, g \in 1 .. 3 : e # d \/ g # h => wire'[e][g] = wire[e][g]
      BY <2>2, <2>3, <2>4, <3>1, SetWire, SMTT(60)
    <3>3. wire'[d][h] = v
      BY <2>2, <2>3, <2>4, <3>1, SetWire
    <3> QED BY <2>2, <3>2, <3>3
  <2>7. sent'[d] = sent[d] + 1
    BY <2>3 DEF TypeInv, ShapeOK
  <2>8. /\ Holds(LastJoint(d), d)' = Holds(LastJoint(d), d) /\ Holds(FirstJoint(d), d)' = Holds(FirstJoint(d), d)
        /\ Held(LastJoint(d), d)' = Held(LastJoint(d), d) /\ Held(FirstJoint(d), d)' = Held(FirstJoint(d), d)
        /\ Open3(d)' = Open3(d) /\ Open2(d)' = Open2(d) /\ Open1(d)' = Open1(d)
    BY <2>3 DEF Holds, Held, Open3, Open2, Open1
  <2> QED BY <1>2, <2>5, <2>6, <2>7, <2>8 DEF Flow, h
<1> QED BY <1>3, <1>4, <1>5

LEMMA SessionLostFlow ==
    ASSUME TypeInv, TypeInv', FlowInv, SessionLost, NEW d \in Directions
    PROVE  Flow(d)'
<1>0. Flow(d)
  BY DEF FlowInv
<1>1. lost' /\ UNCHANGED <<sent, closed, handle, work, copy, buf, cell>>
  BY DEF SessionLost, copyVars
<1>2. \A h \in 1 .. 3 : h # 2 => wire'[d][h] = wire[d][h]
  BY DEF SessionLost, TypeInv, ShapeOK
<1>3. wire'[d][LastHop(d)] = wire[d][LastHop(d)]
  BY <1>2, Geometry
<1>4. Header(d)' = Header(d)
  BY <1>1 DEF Header
<1>5. Winds(d)
  BY <1>1, <1>2, <1>3, <1>4, StillCopies DEF Winds
<1> QED BY <1>0, <1>5, WindsFades, Fade

(* Closing an end, as far as the hops go. *)
LEMMA CloseEndWinds ==
    ASSUME TypeInv, NEW e \in Inner, CloseEnd(e), NEW d \in Directions
    PROVE  /\ closed \subseteq closed' /\ wire'[d][LastHop(d)] = wire[d][LastHop(d)]
           /\ \A h \in 1 .. 3 : Receiver(h, d) \notin closed' => wire'[d][h] = wire[d][h]
<1>1. ShapeOK
  BY DEF TypeInv
<1> QED BY <1>1, CloseEndWire

LEMMA SendRequestFlow ==
    ASSUME TypeInv, TypeInv', FlowInv, SendRequest, NEW d \in Directions
    PROVE  Flow(d)'
<1>0. Flow(d) /\ OrderOK /\ ShapeOK /\ CopiesOK
  BY Parts DEF FlowInv, TypeInv
<1>1. handle = "request" /\ UNCHANGED <<sent, lost, work, buf, cell>>
  BY DEF SendRequest
<1>2. /\ \A x \in Directions : copy["server"][x] = "idle"
      /\ wire["there"][2] = <<>> /\ work \in {"head", "over"}
  BY <1>0, <1>1 DEF OrderOK
<1>3. CASE lost \/ Right(2) \in closed
  <2>1. handle' = "over" /\ CloseEnd(Left(2)) /\ copy' = copy
    BY <1>3 DEF SendRequest
  <2>2. /\ closed \subseteq closed' /\ wire'[d][LastHop(d)] = wire[d][LastHop(d)]
        /\ \A h \in 1 .. 3 : Receiver(h, d) \notin closed' => wire'[d][h] = wire[d][h]
    BY <2>1, CloseEndWinds DEF Inner
  <2>3. Header(d)' = Header(d)
    BY <1>1, <2>1 DEF Header
  <2>4. Winds(d)
    BY <1>1, <2>1, <2>2, <2>3, StillCopies DEF Winds
  <2> QED BY <1>0, <2>4, WindsFades, Fade
<1>4. CASE ~(lost \/ Right(2) \in closed)
  <2> DEFINE v == wire["there"][2] \o Frame("ConnRequest")
  <2>1. /\ handle' = "join" /\ PutWire("there", 2, v) /\ closed' = closed
        /\ copy' = [copy EXCEPT !["server"] = [x \in Directions |-> "start"]]
    BY <1>4 DEF SendRequest, PutWire
  <2>2. v \in Seq(Cells) /\ Len(v) = LenSize + 3
    <3>1. <<>> \in Seq(Cells) /\ Len(<<>>) = 0
      BY EmptySeq
    <3>2. Len(v) = Len(<<>>) + Len(Frame("ConnRequest")) /\ v \in Seq(Cells)
      BY <1>2, <3>1, FrameTyped, ConcatProperties
    <3> QED BY <3>1, <3>2, FrameTyped, StreamAssumption
  <2> HIDE DEF v
  <2>3. /\ wire'["there"][2] = v
        /\ \A e \in Directions, g \in 1 .. 3 : e # "there" \/ g # 2 => wire'[e][g] = wire[e][g]
    <3>1. "there" \in Directions /\ 2 \in 1 .. 3
      BY DEF Directions
    <3> QED BY <1>0, <2>1, <2>2, <3>1, SetWire
  <2>4. \A x \in Directions : copy'["server"][x] = "start" /\ copy'["client"][x] = copy["client"][x]
    <3>1. "server" \in Joints /\ "client" \in Joints /\ "server" # "client"
      BY DEF Joints
    <3> QED BY <1>0, <2>1, <3>1 DEF CopiesOK
  <2>5. \A j \in Joints :
           /\ (copy'[j][d] \in Running) = (copy[j][d] \in Running) /\ Holds(j, d)' = Holds(j, d)
           /\ Held(j, d)' = Held(j, d)
    BY <1>1, <1>2, <2>4 DEF Running, Holds, Held, Joints
  <2>6. /\ FirstHop(d) \in 1 .. 3 /\ LastHop(d) \in 1 .. 3 /\ FirstHop(d) # 2 /\ LastHop(d) # 2
        /\ FirstJoint(d) \in Joints /\ LastJoint(d) \in Joints
    BY Geometry
  <2>7. CASE d = "there" /\ work = "head"
    <3>1. Kit(d) /\ Header(d) = 0 /\ Header(d)' = Len(v)
      BY <1>1, <2>1, <2>2, <2>7, KitTyped DEF Header
    <3>2. FlowOK(wire[d][LastHop(d)], Holds(LastJoint(d), d), Held(LastJoint(d), d),
                 v, Len(v), Holds(FirstJoint(d), d), Held(FirstJoint(d), d),
                 wire[d][FirstHop(d)], sent[d], Open3(d), Open2(d), Open1(d))
      <4>1. FlowOK(wire[d][LastHop(d)], Holds(LastJoint(d), d), Held(LastJoint(d), d),
                 wire[d][2], 0, Holds(FirstJoint(d), d), Held(FirstJoint(d), d),
                 wire[d][FirstHop(d)], sent[d], Open3(d), Open2(d), Open1(d))
        BY <1>0, <3>1 DEF Flow
      <4>2. wire[d][2] = <<>>
        BY <1>2, <2>7
      <4>3. FlowOK(wire[d][LastHop(d)], Holds(LastJoint(d), d), Held(LastJoint(d), d),
                 <<>>, 0, Holds(FirstJoint(d), d), Held(FirstJoint(d), d),
                 wire[d][FirstHop(d)], sent[d], Open3(d), Open2(d), Open1(d))
        BY <4>1, <4>2
      <4> QED BY <2>2, <3>1, <4>3, FlowHeader DEF Kit
    <3>3. Open3(d)' = Open3(d) /\ Open2(d)' = Open2(d) /\ Open1(d)' = Open1(d)
      BY <1>1, <2>1, <2>5, <2>6 DEF Open3, Open2, Open1
    <3>4. /\ wire'[d][2] = v /\ wire'[d][FirstHop(d)] = wire[d][FirstHop(d)]
          /\ wire'[d][LastHop(d)] = wire[d][LastHop(d)]
      BY <2>3, <2>6, <2>7
    <3> QED BY <1>1, <2>5, <2>6, <3>1, <3>2, <3>3, <3>4 DEF Flow
  <2>8. CASE ~(d = "there" /\ work = "head")
    <3>1. d = "there" => work' \notin AtWork
      BY <1>1, <1>2, <2>8 DEF AtWork
    <3>2. wire'[d][LastHop(d)] = wire[d][LastHop(d)]
      BY <2>3, <2>6
    <3>3. Open3(d)' = Open3(d)
      BY <2>1 DEF Open3
    <3>4. CASE d = "there"
      <4>1. ~Open2(d)' /\ ~Open1(d)'
        BY <3>1, <3>4 DEF Open2, Open1
      <4>2. Fades(d)
        BY <1>1, <2>5, <2>6, <3>2, <3>3, <4>1 DEF Fades
      <4> QED BY <1>0, <4>2, Fade
    <3>5. CASE d # "there"
      <4>1. \A h \in 1 .. 3 : wire'[d][h] = wire[d][h]
        BY <2>3, <3>5
      <4>2. Winds(d)
        BY <1>1, <2>1, <2>5, <3>2, <3>5, <4>1 DEF Winds
      <4> QED BY <1>0, <4>2, WindsFades, Fade
    <3> QED BY <3>4, <3>5
  <2> QED BY <2>7, <2>8
<1> QED BY <1>3, <1>4

(* awaitWork gives up. *)
LEMMA WorkOverFlow ==
    ASSUME TypeInv, TypeInv', FlowInv, WorkOver, TakeQuiet, NEW d \in Directions
    PROVE  Flow(d)'
<1>0. Flow(d)
  BY DEF FlowInv
<1>1. /\ work' = "over" /\ CloseEnd(Right(2)) /\ copy' = copy
      /\ UNCHANGED <<sent, lost, handle, buf, cell>>
  BY DEF WorkOver, TakeQuiet
<1>2. /\ closed \subseteq closed' /\ wire'[d][LastHop(d)] = wire[d][LastHop(d)]
      /\ \A h \in 1 .. 3 : Receiver(h, d) \notin closed' => wire'[d][h] = wire[d][h]
  BY <1>1, CloseEndWinds DEF Inner
<1>3. Winds(d)
  BY <1>1, <1>2, StillCopies DEF Winds, AtWork
<1> QED BY <1>0, <1>3, WindsFades, Fade

(* awaitWork takes n cells: of the request, or off a stream that is lost. *)
LEMMA TakeFlow ==
    ASSUME TypeInv, TypeInv', FlowInv, NEW n \in Nat, n <= Len(wire["there"][2]), Take(n), TakeQuiet,
           copy' = copy, closed \subseteq closed',
           work' \in AtWork =>
               /\ work \in AtWork /\ closed' = closed
               /\ n <= Header("there") /\ Header("there")' = Header("there") - n,
           NEW d \in Directions
    PROVE  Flow(d)'
<1>0. Flow(d) /\ ShapeOK /\ Kit(d)
  BY KitTyped DEF FlowInv, TypeInv
<1>1. UNCHANGED <<sent, lost, handle, buf, cell>>
  BY DEF TakeQuiet
<1> DEFINE v == SubSeq(wire["there"][2], n + 1, Len(wire["there"][2]))
<1>2. /\ wire'["there"][2] = v
      /\ \A e \in Directions, g \in 1 .. 3 : e # "there" \/ g # 2 => wire'[e][g] = wire[e][g]
  BY <1>0, TakeWire
<1>3. FirstHop(d) \in 1 .. 3 /\ LastHop(d) \in 1 .. 3 /\ FirstHop(d) # 2 /\ LastHop(d) # 2
  BY Geometry
<1>4. wire'[d][LastHop(d)] = wire[d][LastHop(d)] /\ wire'[d][FirstHop(d)] = wire[d][FirstHop(d)]
  BY <1>2, <1>3
<1>5. CASE d # "there"
  <2>1. \A h \in 1 .. 3 : wire'[d][h] = wire[d][h]
    BY <1>2, <1>5
  <2>2. Winds(d)
    BY <1>1, <1>4, <1>5, <2>1, StillCopies DEF Winds
  <2> QED BY <1>0, <2>2, WindsFades, Fade
<1>6. CASE d = "there" /\ work' \notin AtWork
  <2>1. ~Open2(d)' /\ ~Open1(d)' /\ (Open3(d)' => Open3(d))
    BY <1>6 DEF Open1, Open2, Open3
  <2>2. Holds(LastJoint(d), d)' = Holds(LastJoint(d), d) /\ Held(LastJoint(d), d)' = Held(LastJoint(d), d)
    BY <1>1 DEF Holds, Held
  <2>3. Fades(d)
    BY <1>1, <1>4, <2>1, <2>2 DEF Fades
  <2> QED BY <1>0, <2>3, Fade
<1>7. CASE d = "there" /\ work' \in AtWork
  <2>1. /\ n <= Header(d) /\ Header(d)' = Header(d) - n /\ work \in AtWork /\ closed' = closed
        /\ n <= Len(wire[d][2]) /\ v = SubSeq(wire[d][2], n + 1, Len(wire[d][2]))
    BY <1>7
  <2>2. FlowOK(wire[d][LastHop(d)], Holds(LastJoint(d), d), Held(LastJoint(d), d),
               wire[d][2], Header(d), Holds(FirstJoint(d), d), Held(FirstJoint(d), d),
               wire[d][FirstHop(d)], sent[d], Open3(d), Open2(d), Open1(d))
    BY <1>0 DEF Flow
  <2>3. FlowOK(wire[d][LastHop(d)], Holds(LastJoint(d), d), Held(LastJoint(d), d),
               SubSeq(wire[d][2], n + 1, Len(wire[d][2])), Header(d) - n,
               Holds(FirstJoint(d), d), Held(FirstJoint(d), d),
               wire[d][FirstHop(d)], sent[d], Open3(d), Open2(d), Open1(d))
    <3>1. TakesOff(n, wire[d][2], Header(d), SubSeq(wire[d][2], n + 1, Len(wire[d][2])), Header(d) - n)
      BY <2>1 DEF TakesOff
    <3> QED BY <1>0, <2>2, <3>1, FlowTake, SMTT(60) DEF Kit
  <2>4. /\ Holds(LastJoint(d), d)' = Holds(LastJoint(d), d) /\ Holds(FirstJoint(d), d)' = Holds(FirstJoint(d), d)
        /\ Held(LastJoint(d), d)' = Held(LastJoint(d), d) /\ Held(FirstJoint(d), d)' = Held(FirstJoint(d), d)
    BY <1>1 DEF Holds, Held
  <2>5. Open3(d)' = Open3(d) /\ Open2(d)' = Open2(d) /\ Open1(d)' = Open1(d)
    BY <1>1, <1>7, <2>1 DEF Open3, Open2, Open1
  <2>6. wire'[d][2] = SubSeq(wire[d][2], n + 1, Len(wire[d][2]))
    BY <1>2, <1>7
  <2> QED BY <1>1, <1>4, <2>1, <2>3, <2>4, <2>5, <2>6 DEF Flow
<1> QED BY <1>5, <1>6, <1>7

LEMMA WorkFlow ==
    ASSUME TypeInv, TypeInv', FlowInv, Work, NEW d \in Directions
    PROVE  Flow(d)'
<1>0. Flow(d) /\ OrderOK /\ LenSize \in Nat /\ wire["there"][2] \in Seq(Cells)
  BY Parts, StreamAssumption, SMTT(60) DEF FlowInv, WireOK, Directions
<1>1. wire["there"][2] # <<>> => handle = "join"
  BY <1>0 DEF OrderOK
<1>a. Len(wire["there"][2]) \in Nat /\ (Len(wire["there"][2]) > 0 => wire["there"][2] # <<>>)
  <2>1. Len(<<>>) = 0
    OBVIOUS
  <2>2. Len(wire["there"][2]) \in Nat
    BY <1>0, LenProperties
  <2> QED BY <2>1, <2>2
<1>2. CASE ReadHead
  <2>1. TakeQuiet /\ work = "head"
    BY <1>2 DEF ReadHead, TakeQuiet
  <2>2. CASE AtEnd(2, "there") /\ WorkOver
    BY <2>1, <2>2, WorkOverFlow
  <2>3. ASSUME NEW n \in 1 .. 2, n <= Len(wire["there"][2]), Take(n),
               work' = IF n = 1 THEN "swallow"
                       ELSE MsgType(wire["there"][2][1].kind, wire["there"][2][2].kind),
               UNCHANGED <<closed, copy>>
        PROVE  Flow(d)'
    <3>1. n \in Nat /\ closed \subseteq closed' /\ copy' = copy /\ closed' = closed
      BY <2>3
    <3>2. work' \in {"swallow"} \cup MessageTypes /\ (n = 1 => work' = "swallow")
      BY <2>3, MsgTypeTyped
    <3>3. work' \in AtWork => work' = "ConnRequest" /\ n = 2
      BY <3>2, TypeNames DEF AtWork
    <3>4. handle = "join" /\ handle' = "join"
      BY <1>1, <1>a, <2>1, <2>3 DEF TakeQuiet
    <3>5. Header("there") = LenSize + 3
      BY <2>1, <3>4 DEF Header
    <3>6. work' \in AtWork => Header("there")' = LenSize + 1
      BY <3>3, <3>4 DEF Header
    <3>7. work' \in AtWork => n <= Header("there") /\ Header("there")' = Header("there") - n
      BY <1>0, <3>3, <3>5, <3>6
    <3>8. work \in AtWork
      BY <2>1 DEF AtWork
    <3> QED BY <2>1, <2>3, <3>1, <3>7, <3>8, TakeFlow
  <2> QED BY <1>2, <2>2, <2>3 DEF ReadHead
<1>3. CASE ReadBody
  <2>1. TakeQuiet /\ work \in MessageTypes
    BY <1>3 DEF ReadBody, TakeQuiet
  <2>2. CASE AtEnd(2, "there") /\ WorkOver
    BY <2>1, <2>2, WorkOverFlow
  <2>3. CASE /\ Len(wire["there"][2]) >= LenSize + 1 /\ Take(LenSize + 1)
             /\ work' = IF work = "ConnRequest" THEN "connect" ELSE "over"
             /\ closed' = IF work = "ConnRequest" THEN closed ELSE closed \cup {Right(2)}
             /\ UNCHANGED copy
    <3>1. LenSize + 1 \in Nat /\ LenSize + 1 <= Len(wire["there"][2]) /\ closed \subseteq closed' /\ copy' = copy
      BY <1>0, <1>a, <2>3
    <3>2. work' \in AtWork => work = "ConnRequest" /\ work' = "connect" /\ closed' = closed
      BY <2>3 DEF AtWork
    <3>3. handle = "join" /\ handle' = "join"
      BY <1>0, <1>1, <1>a, <2>1, <2>3 DEF TakeQuiet
    <3>4. work' \in AtWork => Header("there") = LenSize + 1 /\ Header("there")' = 0
      BY <3>2, <3>3 DEF Header
    <3>5. work' \in AtWork =>
             /\ work \in AtWork /\ closed' = closed
             /\ LenSize + 1 <= Header("there") /\ Header("there")' = Header("there") - (LenSize + 1)
      BY <1>0, <3>2, <3>4 DEF AtWork
    <3> QED BY <2>1, <2>3, <3>1, <3>5, TakeFlow
  <2> QED BY <1>3, <2>2, <2>3 DEF ReadBody
<1>4. CASE Swallow
  <2>1. TakeQuiet /\ work = "swallow"
    BY <1>4 DEF Swallow, TakeQuiet
  <2>2. CASE AtEnd(2, "there") /\ WorkOver
    BY <2>1, <2>2, WorkOverFlow
  <2>3. CASE wire["there"][2] # <<>> /\ Take(1) /\ UNCHANGED <<work, closed, copy>>
    <3>1. 1 \in Nat /\ 1 <= Len(wire["there"][2])
      BY <1>0, <2>3, TailFacts
    <3>2. work' \notin AtWork /\ closed \subseteq closed' /\ copy' = copy
      BY <2>1, <2>3 DEF AtWork
    <3> QED BY <2>1, <2>3, <3>1, <3>2, TakeFlow
  <2> QED BY <1>4, <2>2, <2>3 DEF Swallow
<1>5. CASE NoTarget
  BY <1>5, WorkOverFlow DEF NoTarget, TakeQuiet
<1>6. CASE Connect
  <2>1. /\ work = "connect" /\ work' = "join"
        /\ copy' = [copy EXCEPT !["client"] = [x \in Directions |-> "start"]]
        /\ UNCHANGED <<wire, sent, closed, lost, handle, buf, cell>>
    BY <1>6 DEF Connect
  <2>2. \A x \in Directions : copy["client"][x] = "idle"
    BY <1>0, <2>1 DEF OrderOK
  <2>3. \A x \in Directions : copy'["client"][x] = "start" /\ copy'["server"][x] = copy["server"][x]
    <3>1. "client" \in Joints /\ "server" \in Joints /\ "client" # "server" /\ CopiesOK
      BY Parts DEF Joints
    <3> QED BY <2>1, <3>1 DEF CopiesOK
  <2>4. \A j \in Joints :
           /\ (copy'[j][d] \in Running) = (copy[j][d] \in Running) /\ Holds(j, d)' = Holds(j, d)
           /\ Held(j, d)' = Held(j, d)
    BY <2>1, <2>2, <2>3 DEF Running, Holds, Held, Joints
  <2>5. Header(d)' = Header(d) /\ work \in AtWork
    BY <2>1 DEF Header, AtWork
  <2>6. Winds(d)
    BY <2>1, <2>4, <2>5 DEF Winds
  <2> QED BY <1>0, <2>6, WindsFades, Fade
<1> QED BY <1>2, <1>3, <1>4, <1>5, <1>6 DEF Work

(* The copies.  What the other copy of a joint holds is in another buffer. *)
LEMMA OtherHeld ==
    ASSUME TypeInv, NEW j \in Joints, NEW a \in Directions, InUse(j, a), NEW c,
           cell' = [cell EXCEPT ![j][buf[j][a]] = c], UNCHANGED buf,
           NEW k \in Joints, NEW d \in Directions, k # j \/ d # a, Holds(k, d)
    PROVE  Held(k, d)' = Held(k, d)
<1>1. CopiesOK /\ BuffersOK /\ InUse(k, d)
  BY Parts DEF Holds, InUse
<1>2. buf[k][d] \in Buffers /\ buf[j][a] \in Buffers
  BY <1>1 DEF BuffersOK
<1>3. k # j \/ buf[k][d] # buf[j][a]
  BY <1>1 DEF BuffersOK, Directions
<1>4. cell'[k][buf[k][d]] = cell[k][buf[k][d]]
  BY <1>1, <1>2, <1>3 DEF CopiesOK
<1> QED BY <1>4 DEF Held

LEMMA GetBufFlow ==
    ASSUME TypeInv, TypeInv', FlowInv, NEW j \in Joints, NEW a \in Directions, GetBuf(j, a),
           NEW d \in Directions
    PROVE  Flow(d)'
<1>0. Flow(d) /\ CopiesOK
  BY Parts DEF FlowInv
<1>1. Copy(j, a, "start", "read") /\ UNCHANGED <<wire, sent, closed, lost, handle, work, cell>>
  BY DEF GetBuf
<1>2. /\ copy[j][a] = "start" /\ copy'[j][a] = "read"
      /\ \A k \in Joints, e \in Directions : k # j \/ e # a => copy'[k][e] = copy[k][e]
  <2>1. "read" \in CopyLabels
    BY DEF CopyLabels
  <2> QED BY <1>0, <1>1, <2>1, SetCopy DEF CopiesOK
<1>3. \A k \in Joints, e \in Directions : k # j \/ e # a => buf'[k][e] = buf[k][e]
  BY <1>0 DEF GetBuf, CopiesOK
<1>4. ASSUME NEW k \in Joints
      PROVE  /\ copy'[k][d] \in Running => copy[k][d] \in Running /\ Holds(k, d)' = Holds(k, d)
             /\ Holds(k, d)' => Holds(k, d) /\ Held(k, d)' = Held(k, d)
  <2>1. CASE k = j /\ d = a
    BY <1>2, <2>1 DEF Running, Holds
  <2>2. CASE k # j \/ d # a
    BY <1>1, <1>2, <1>3, <2>2 DEF Holds, Held
  <2> QED BY <2>1, <2>2
<1>5. Header(d)' = Header(d)
  BY <1>1 DEF Header
<1>6. Winds(d)
  BY <1>1, <1>4, <1>5 DEF Winds
<1> QED BY <1>0, <1>6, WindsFades, Fade

LEMMA CopyEndFlow ==
    ASSUME TypeInv, TypeInv', FlowInv, NEW j \in Joints, NEW a \in Directions,
           CopyEnd(j, a) \/ CloseTo(j, a), NEW d \in Directions
    PROVE  Flow(d)'
<1>0. Flow(d) /\ CopiesOK
  BY Parts DEF FlowInv
<1>1. PICK from \in {"read", "write", "close"}, to \in {"close", "over"} : Copy(j, a, from, to)
  BY DEF CopyEnd, CloseTo
<1>2. PICK e \in Inner : CloseEnd(e)
  <2>1. Receiver(From(j, a), a) \in Inner /\ Sender(To(j, a), a) \in Inner
    BY InnerEnds
  <2> QED BY <2>1 DEF CopyEnd, CloseTo
<1>3. UNCHANGED <<sent, lost, handle, work, cell>>
  BY DEF CopyEnd, CloseTo
<1>4. /\ copy'[j][a] = to
      /\ \A k \in Joints, x \in Directions : k # j \/ x # a => copy'[k][x] = copy[k][x]
  <2>1. to \in CopyLabels
    BY DEF CopyLabels
  <2> QED BY <1>0, <1>1, <2>1, SetCopy DEF CopiesOK
<1>5. \A k \in Joints, x \in Directions : k # j \/ x # a => buf'[k][x] = buf[k][x]
  <2>1. buf' = buf \/ buf' = [buf EXCEPT ![j][a] = NoBuffer]
    BY DEF CopyEnd, CloseTo
  <2> QED BY <1>0, <2>1 DEF CopiesOK
<1>6. /\ closed \subseteq closed' /\ wire'[d][LastHop(d)] = wire[d][LastHop(d)]
      /\ \A h \in 1 .. 3 : Receiver(h, d) \notin closed' => wire'[d][h] = wire[d][h]
  BY <1>2, CloseEndWinds
<1>7. ASSUME NEW k \in Joints
      PROVE  /\ copy'[k][d] \in Running => copy[k][d] \in Running /\ Holds(k, d)' = Holds(k, d)
             /\ Holds(k, d)' => Holds(k, d) /\ Held(k, d)' = Held(k, d)
  <2>1. CASE k = j /\ d = a
    BY <1>4, <2>1 DEF Running, Holds
  <2>2. CASE k # j \/ d # a
    BY <1>3, <1>4, <1>5, <2>2 DEF Holds, Held
  <2> QED BY <2>1, <2>2
<1>8. Header(d)' = Header(d)
  BY <1>3 DEF Header
<1>9. Winds(d)
  BY <1>3, <1>6, <1>7, <1>8 DEF Winds
<1> QED BY <1>0, <1>9, WindsFades, Fade

(* A copy passes a byte on. *)
LEMMA CopyReadFlow ==
    ASSUME TypeInv, TypeInv', FlowInv, NEW j \in Joints, NEW a \in Directions, CopyRead(j, a),
           NEW d \in Directions
    PROVE  Flow(d)'
<1>0. Flow(d) /\ CopiesOK /\ OrderOK /\ BuffersOK /\ ShapeOK /\ Kit(d)
  BY Parts, KitTyped DEF FlowInv, TypeInv
<1> DEFINE h == From(j, a)
           w == wire[a][h]
<1>1. /\ Copy(j, a, "read", "write") /\ w # <<>> /\ Receiver(h, a) \notin closed
      /\ cell' = [cell EXCEPT ![j][buf[j][a]] = Head(w)] /\ PutWire(a, h, Tail(w))
      /\ UNCHANGED <<sent, closed, lost, handle, work, buf>>
  BY DEF CopyRead, PutWire
<1>2. h \in 1 .. 3 /\ w \in Seq(Cells)
  <2>1. h \in 1 .. 3
    BY Geometry
  <2> QED BY <1>0, <2>1 DEF ShapeOK
<1> HIDE DEF h
<1>3. Head(w) \in Cells /\ Tail(w) \in Seq(Cells)
  BY <1>1, <1>2, TailFacts
<1>4. /\ wire'[a][h] = Tail(w)
      /\ \A e \in Directions, g \in 1 .. 3 : e # a \/ g # h => wire'[e][g] = wire[e][g]
  <2>1. ShapeOK /\ h \in 1 .. 3 /\ Tail(w) \in Seq(Cells) /\ PutWire(a, h, Tail(w))
    BY <1>0, <1>1, <1>2, <1>3
  <2> HIDE DEF w
  <2> QED BY <2>1, SetWire, ZenonT(60)
<1>5. /\ copy[j][a] = "read" /\ copy'[j][a] = "write"
      /\ \A k \in Joints, e \in Directions : k # j \/ e # a => copy'[k][e] = copy[k][e]
  <2>1. "write" \in CopyLabels
    BY DEF CopyLabels
  <2> QED BY <1>0, <1>1, <2>1, SetCopy DEF CopiesOK
<1>6. InUse(j, a) /\ buf[j][a] \in Buffers
  BY <1>0, <1>5 DEF InUse, BuffersOK
<1>7. Held(j, a)' = Head(w)
  BY <1>0, <1>1, <1>6 DEF Held, CopiesOK
<1>8. ASSUME NEW k \in Joints, k # j \/ d # a
      PROVE  /\ copy'[k][d] = copy[k][d] /\ Holds(k, d)' = Holds(k, d)
             /\ Holds(k, d) => Held(k, d)' = Held(k, d)
  <2>1. copy'[k][d] = copy[k][d]
    BY <1>5, <1>8
  <2>2. Holds(k, d)' = Holds(k, d)
    BY <2>1 DEF Holds
  <2>3. Holds(k, d) => Held(k, d)' = Held(k, d)
    BY <1>1, <1>6, <1>8, OtherHeld, ZenonT(60)
  <2> QED BY <2>1, <2>2, <2>3
<1>9. Header(d)' = Header(d)
  BY <1>1 DEF Header
<1>10. CASE d # a
  <2>1. \A g \in 1 .. 3 : wire'[d][g] = wire[d][g]
    BY <1>4, <1>10
  <2>2. wire'[d][LastHop(d)] = wire[d][LastHop(d)]
    BY <2>1, Geometry
  <2>3. Winds(d)
    BY <1>1, <1>8, <1>9, <1>10, <2>1, <2>2 DEF Winds
  <2> QED BY <1>0, <2>3, WindsFades, Fade
<1>11. CASE d = a
  <2>1. NoYes(Holds(j, d), Holds(j, d)') /\ Holds(j, d) \in BOOLEAN /\ Holds(j, d)' \in BOOLEAN
    BY <1>5, <1>11 DEF Holds, NoYes
  <2>2. /\ FirstHop(d) \in 1 .. 3 /\ LastHop(d) \in 1 .. 3 /\ 2 \in 1 .. 3
        /\ FirstHop(d) # 2 /\ LastHop(d) # 2 /\ FirstHop(d) # LastHop(d)
        /\ FirstJoint(d) \in Joints /\ LastJoint(d) \in Joints /\ FirstJoint(d) # LastJoint(d)
        /\ From(FirstJoint(d), d) = FirstHop(d) /\ From(LastJoint(d), d) = 2
        /\ (j = FirstJoint(d) \/ j = LastJoint(d))
    BY Geometry
  <2>3. Open3(d)' = Open3(d) /\ Open2(d)' = Open2(d) /\ Open1(d)' = Open1(d)
    <3>1. \A k \in Joints : (copy'[k][d] \in Running) = (copy[k][d] \in Running)
      BY <1>5, <1>11 DEF Running
    <3> QED BY <1>1, <2>2, <3>1 DEF Open3, Open2, Open1
  <2>4. CASE j = FirstJoint(d)
    <3> DEFINE l == LastJoint(d)
    <3>1. h = FirstHop(d) /\ l \in Joints /\ l # j
      BY <1>11, <2>2, <2>4 DEF h
    <3>2. Open2(d) => Open1(d)
      BY <1>1, <1>5, <1>11, <2>4, <3>1 DEF Open1, Running
    <3>3. FlowOK(wire[d][LastHop(d)], Holds(l, d), Held(l, d), wire[d][2], Header(d),
                 Holds(j, d), Held(j, d), w, sent[d], Open3(d), Open2(d), Open1(d))
      BY <1>0, <1>11, <2>1, <2>4, <3>1 DEF Flow
    <3>4. FlowOK(wire[d][LastHop(d)], Holds(l, d), Held(l, d), wire[d][2], Header(d),
                 Holds(j, d)', Head(w), Tail(w), sent[d], Open3(d), Open2(d), Open1(d))
      BY <1>0, <1>1, <1>2, <2>1, <3>2, <3>3, FlowReadFirst DEF Kit
    <3>5. /\ wire'[d][LastHop(d)] = wire[d][LastHop(d)] /\ wire'[d][2] = wire[d][2]
          /\ wire'[d][FirstHop(d)] = Tail(w)
      BY <1>4, <1>11, <2>2, <3>1
    <3>6. Holds(l, d)' = Holds(l, d) /\ (Holds(l, d) => Held(l, d)' = Held(l, d))
      BY <1>8, <3>1
    <3>7. FlowOK(wire[d][LastHop(d)], Holds(l, d), Held(l, d)', wire[d][2], Header(d),
                 Holds(j, d)', Head(w), Tail(w), sent[d], Open3(d), Open2(d), Open1(d))
      BY <3>4, <3>6, FlowHeldLast
    <3> QED BY <1>1, <1>7, <1>9, <1>11, <2>1, <2>3, <2>4, <3>5, <3>6, <3>7 DEF Flow
  <2>5. CASE j = LastJoint(d)
    <3> DEFINE f == FirstJoint(d)
    <3>1. h = 2 /\ f \in Joints /\ f # j
      BY <1>11, <2>2, <2>5 DEF h
    <3>2. ~lost /\ (d = "there" => work = "join")
      <4>1. ~lost
        BY <1>0, <1>1, <3>1 DEF OrderOK
      <4>2. d = "there" => j = "client"
        BY <2>5 DEF LastJoint
      <4>3. d = "there" => work = "join"
        BY <1>0, <1>5, <1>11, <4>2 DEF OrderOK
      <4> QED BY <4>1, <4>3
    <3>3. (Open3(d) => Open2(d)) /\ Header(d) = 0
      BY <1>1, <1>5, <1>11, <2>5, <3>1, <3>2 DEF Open2, Running, Header, AtWork
    <3>4. FlowOK(wire[d][LastHop(d)], Holds(j, d), Held(j, d), w, 0,
                 Holds(f, d), Held(f, d), wire[d][FirstHop(d)], sent[d], Open3(d), Open2(d), Open1(d))
      BY <1>0, <1>11, <2>1, <2>5, <3>1, <3>3 DEF Flow
    <3>5. FlowOK(wire[d][LastHop(d)], Holds(j, d)', Head(w), Tail(w), 0,
                 Holds(f, d), Held(f, d), wire[d][FirstHop(d)], sent[d], Open3(d), Open2(d), Open1(d))
      BY <1>0, <1>1, <1>2, <2>1, <3>3, <3>4, FlowReadLast DEF Kit
    <3>6. /\ wire'[d][LastHop(d)] = wire[d][LastHop(d)] /\ wire'[d][2] = Tail(w)
          /\ wire'[d][FirstHop(d)] = wire[d][FirstHop(d)]
      BY <1>4, <1>11, <2>2, <3>1
    <3>7. Holds(f, d)' = Holds(f, d) /\ (Holds(f, d) => Held(f, d)' = Held(f, d))
      BY <1>8, <3>1
    <3>8. FlowOK(wire[d][LastHop(d)], Holds(j, d)', Head(w), Tail(w), 0,
                 Holds(f, d), Held(f, d)', wire[d][FirstHop(d)], sent[d], Open3(d), Open2(d), Open1(d))
      BY <3>5, <3>7, FlowHeldFirst
    <3> QED BY <1>1, <1>7, <1>9, <1>11, <2>1, <2>3, <2>5, <3>3, <3>6, <3>7, <3>8 DEF Flow
  <2> QED BY <2>2, <2>4, <2>5
<1> QED BY <1>10, <1>11

LEMMA CopyWriteFlow ==
    ASSUME TypeInv, TypeInv', FlowInv, NEW j \in Joints, NEW a \in Directions, CopyWrite(j, a),
           NEW d \in Directions
    PROVE  Flow(d)'
<1>0. Flow(d) /\ CopiesOK /\ ShapeOK /\ Kit(d)
  BY Parts, KitTyped DEF FlowInv, TypeInv
<1> DEFINE h == To(j, a)
           w == wire[a][h]
           c == Held(j, a)
<1>1. /\ Copy(j, a, "write", "read")
      /\ cell' = [cell EXCEPT ![j][buf[j][a]] = Data(0)]
      /\ \/ Receiver(h, a) \in closed /\ wire' = wire
         \/ Receiver(h, a) \notin closed /\ PutWire(a, h, Append(w, c))
      /\ UNCHANGED <<sent, closed, lost, handle, work, buf>>
  BY DEF CopyWrite, PutWire, Held
<1>2. h \in 1 .. 3 /\ w \in Seq(Cells)
  <2>1. h \in 1 .. 3
    BY Geometry
  <2> QED BY <1>0, <2>1 DEF ShapeOK
<1>3. c \in Cells /\ Append(w, c) \in Seq(Cells)
  <2>1. c \in Cells
    BY CopyWriteTyped DEF Held
  <2> QED BY <1>2, <2>1, AppendProperties
<1> HIDE DEF h, c
<1>4. PutWire(a, h, Append(w, c)) =>
         /\ wire'[a][h] = Append(w, c)
         /\ \A e \in Directions, g \in 1 .. 3 : e # a \/ g # h => wire'[e][g] = wire[e][g]
  <2>1. ShapeOK /\ h \in 1 .. 3 /\ Append(w, c) \in Seq(Cells)
    BY <1>0, <1>2, <1>3
  <2> HIDE DEF w
  <2> QED BY <2>1, SetWire, ZenonT(60)
<1>5. /\ copy[j][a] = "write" /\ copy'[j][a] = "read"
      /\ \A k \in Joints, e \in Directions : k # j \/ e # a => copy'[k][e] = copy[k][e]
  <2>1. "read" \in CopyLabels
    BY DEF CopyLabels
  <2> QED BY <1>0, <1>1, <2>1, SetCopy DEF CopiesOK
<1>6. InUse(j, a)
  BY <1>5 DEF InUse
<1>8. ASSUME NEW k \in Joints, k # j \/ d # a
      PROVE  /\ copy'[k][d] = copy[k][d] /\ Holds(k, d)' = Holds(k, d)
             /\ Holds(k, d) => Held(k, d)' = Held(k, d)
  <2>1. copy'[k][d] = copy[k][d]
    BY <1>5, <1>8
  <2>2. Holds(k, d)' = Holds(k, d)
    BY <2>1 DEF Holds
  <2>3. Holds(k, d) => Held(k, d)' = Held(k, d)
    BY <1>1, <1>6, <1>8, OtherHeld
  <2> QED BY <2>1, <2>2, <2>3
<1>9. Header(d)' = Header(d)
  BY <1>1 DEF Header
<1>10. CASE d # a
  <2>1. \A g \in 1 .. 3 : wire'[d][g] = wire[d][g]
    BY <1>1, <1>4, <1>10
  <2>2. wire'[d][LastHop(d)] = wire[d][LastHop(d)]
    BY <2>1, Geometry
  <2>3. Winds(d)
    BY <1>1, <1>8, <1>9, <1>10, <2>1, <2>2 DEF Winds
  <2> QED BY <1>0, <2>3, WindsFades, Fade
<1>11. CASE d = a
  <2>1. NoYes(Holds(j, d)', Holds(j, d)) /\ Holds(j, d) \in BOOLEAN /\ Holds(j, d)' \in BOOLEAN
    BY <1>5, <1>11 DEF Holds, NoYes
  <2>a. ~Holds(j, d)'
    BY <2>1 DEF NoYes
  <2>2. /\ FirstHop(d) \in 1 .. 3 /\ LastHop(d) \in 1 .. 3 /\ 2 \in 1 .. 3
        /\ FirstHop(d) # 2 /\ LastHop(d) # 2 /\ FirstHop(d) # LastHop(d)
        /\ FirstJoint(d) \in Joints /\ LastJoint(d) \in Joints /\ FirstJoint(d) # LastJoint(d)
        /\ To(FirstJoint(d), d) = 2 /\ To(LastJoint(d), d) = LastHop(d)
        /\ (j = FirstJoint(d) \/ j = LastJoint(d))
    BY Geometry
  <2>3. Open3(d)' = Open3(d) /\ Open2(d)' = Open2(d) /\ Open1(d)' = Open1(d)
    <3>1. \A k \in Joints : (copy'[k][d] \in Running) = (copy[k][d] \in Running)
      BY <1>5, <1>11 DEF Running
    <3> QED BY <1>1, <2>2, <3>1 DEF Open3, Open2, Open1
  <2>4. CASE j = FirstJoint(d)
    <3> DEFINE l == LastJoint(d)
    <3>1. h = 2 /\ l \in Joints /\ l # j
      BY <1>11, <2>2, <2>4 DEF h
    <3>2. Holds(l, d)' = Holds(l, d) /\ (Holds(l, d) => Held(l, d)' = Held(l, d))
      BY <1>8, <3>1
    <3>3. CASE Receiver(h, a) \in closed /\ wire' = wire
      <4>1. ~Open2(d) /\ ~Open1(d)
        BY <1>11, <3>1, <3>3 DEF Open2, Open1
      <4>2. Fades(d)
        BY <1>1, <2>3, <3>2, <3>3, <4>1 DEF Fades
      <4> QED BY <1>0, <4>2, Fade
    <3>4. CASE PutWire(a, h, Append(w, c))
      <4>1. FlowOK(wire[d][LastHop(d)], Holds(l, d), Held(l, d), w, Header(d),
                   Holds(j, d), c, wire[d][FirstHop(d)], sent[d], Open3(d), Open2(d), Open1(d))
        BY <1>0, <1>11, <2>4, <3>1 DEF Flow, c
      <4>2. FlowOK(wire[d][LastHop(d)], Holds(l, d), Held(l, d), Append(w, c), Header(d),
                   Holds(j, d)', c, wire[d][FirstHop(d)], sent[d], Open3(d), Open2(d), Open1(d))
        <5> DEFINE v == Append(w, c)
        <5>1. Adds(v, w, c)
          BY DEF Adds
        <5> HIDE DEF v
        <5>2. FlowOK(wire[d][LastHop(d)], Holds(l, d), Held(l, d), v, Header(d),
                     Holds(j, d)', c, wire[d][FirstHop(d)], sent[d], Open3(d), Open2(d), Open1(d))
          BY <1>0, <1>2, <1>3, <2>1, <4>1, <5>1, FlowWriteFirst DEF Kit
        <5> QED BY <5>2 DEF v
      <4>3. FlowOK(wire[d][LastHop(d)], Holds(l, d), Held(l, d)', Append(w, c), Header(d),
                   Holds(j, d)', c, wire[d][FirstHop(d)], sent[d], Open3(d), Open2(d), Open1(d))
        BY <3>2, <4>2, FlowHeldLast
      <4>4. FlowOK(wire[d][LastHop(d)], Holds(l, d), Held(l, d)', Append(w, c), Header(d),
                   Holds(j, d)', Held(j, d)', wire[d][FirstHop(d)], sent[d], Open3(d), Open2(d), Open1(d))
        BY <2>a, <4>3, FlowHeldFirst
      <4>5. /\ wire'[d][LastHop(d)] = wire[d][LastHop(d)] /\ wire'[d][2] = Append(w, c)
            /\ wire'[d][FirstHop(d)] = wire[d][FirstHop(d)]
        BY <1>4, <1>11, <2>2, <3>1, <3>4
      <4> QED BY <1>1, <1>9, <2>3, <2>4, <3>2, <4>4, <4>5 DEF Flow
    <3> QED BY <1>1, <3>3, <3>4
  <2>5. CASE j = LastJoint(d)
    <3> DEFINE f == FirstJoint(d)
    <3>1. h = LastHop(d) /\ f \in Joints /\ f # j
      BY <1>11, <2>2, <2>5 DEF h
    <3>2. Holds(f, d)' = Holds(f, d) /\ (Holds(f, d) => Held(f, d)' = Held(f, d))
      BY <1>8, <3>1
    <3>3. CASE Receiver(h, a) \in closed /\ wire' = wire
      <4>1. ~Open3(d) /\ ~Open2(d) /\ ~Open1(d)
        BY <1>11, <3>1, <3>3 DEF Open3, Open2, Open1
      <4>2. Fades(d)
        BY <1>1, <2>3, <3>3, <4>1 DEF Fades
      <4> QED BY <1>0, <4>2, Fade
    <3>4. CASE Receiver(h, a) \notin closed /\ PutWire(a, h, Append(w, c))
      <4>0. NoYes(Holds(j, d)', Open3(d))
        BY <1>11, <2>a, <3>1, <3>4 DEF Open3, NoYes
      <4>1. FlowOK(w, Holds(j, d), c, wire[d][2], Header(d),
                   Holds(f, d), Held(f, d), wire[d][FirstHop(d)], sent[d], Open3(d), Open2(d), Open1(d))
        BY <1>0, <1>11, <2>5, <3>1 DEF Flow, c
      <4>2. FlowOK(Append(w, c), Holds(j, d)', c, wire[d][2], Header(d),
                   Holds(f, d), Held(f, d), wire[d][FirstHop(d)], sent[d], Open3(d), Open2(d), Open1(d))
        <5> DEFINE v == Append(w, c)
        <5>1. Adds(v, w, c)
          BY DEF Adds
        <5> HIDE DEF v
        <5>2. FlowOK(v, Holds(j, d)', c, wire[d][2], Header(d),
                     Holds(f, d), Held(f, d), wire[d][FirstHop(d)], sent[d], Open3(d), Open2(d), Open1(d))
          BY <1>0, <1>2, <1>3, <2>1, <4>0, <4>1, <5>1, FlowWriteLast DEF Kit
        <5> QED BY <5>2 DEF v
      <4>3. FlowOK(Append(w, c), Holds(j, d)', Held(j, d)', wire[d][2], Header(d),
                   Holds(f, d), Held(f, d), wire[d][FirstHop(d)], sent[d], Open3(d), Open2(d), Open1(d))
        BY <2>a, <4>2, FlowHeldLast
      <4>4. FlowOK(Append(w, c), Holds(j, d)', Held(j, d)', wire[d][2], Header(d),
                   Holds(f, d), Held(f, d)', wire[d][FirstHop(d)], sent[d], Open3(d), Open2(d), Open1(d))
        BY <3>2, <4>3, FlowHeldFirst
      <4>5. /\ wire'[d][LastHop(d)] = Append(w, c) /\ wire'[d][2] = wire[d][2]
            /\ wire'[d][FirstHop(d)] = wire[d][FirstHop(d)]
        BY <1>4, <1>11, <2>2, <3>1, <3>4
      <4> QED BY <1>1, <1>9, <2>3, <2>5, <3>2, <4>4, <4>5 DEF Flow
    <3> QED BY <1>1, <3>3, <3>4
  <2> QED BY <2>2, <2>4, <2>5
<1> QED BY <1>10, <1>11

LEMMA FlowStep == TypeInv /\ FlowInv /\ [Next]_vars => FlowInv'
<1> SUFFICES ASSUME TypeInv, FlowInv, [Next]_vars, NEW d \in Directions PROVE Flow(d)'
  BY DEF FlowInv
<1>1. TypeInv'
  BY TypeStep
<1>2. CASE UNCHANGED vars
  BY <1>2, ZenonT(60) DEF FlowInv, Flow, vars, Holds, Held, Header, Open3, Open2, Open1
<1>3. ASSUME NEW j \in Joints, NEW a \in Directions, Pipe(j, a) PROVE Flow(d)'
  BY <1>1, <1>3, GetBufFlow, CopyReadFlow, CopyWriteFlow, CopyEndFlow DEF Pipe
<1>4. ASSUME NEW a \in Directions, AppSend(a) \/ AppClose(a) \/ AppShutdown(a) PROVE Flow(d)'
  BY <1>1, <1>4, AppFlow
<1> QED
  BY <1>1, <1>2, <1>3, <1>4, SessionLostFlow, SendRequestFlow, WorkFlow DEF Next, Process

LEMMA InitFlow == Init => FlowInv
<1> SUFFICES ASSUME Init, NEW d \in Directions PROVE Flow(d)
  BY DEF FlowInv
<1>1. \A h \in 1 .. 3 : wire[d][h] = <<>>
  BY DEF Init
<1>2. wire[d][LastHop(d)] = <<>> /\ wire[d][2] = <<>> /\ wire[d][FirstHop(d)] = <<>>
  BY <1>1, Geometry
<1>3. sent[d] = 0 /\ Header(d) = 0
  BY DEF Init, Header
<1>4. ~Holds(LastJoint(d), d) /\ ~Holds(FirstJoint(d), d)
  BY Geometry DEF Init, Holds
<1>5. Len(<<>>) = 0
  OBVIOUS
<1> QED BY <1>2, <1>3, <1>4, <1>5 DEF Flow, FlowOK, Count

(***************************************************************************)
(* Each application gets a prefix of what the other one sent, for every    *)
(* number of bytes and every window: nothing of the ConnRequest, nothing   *)
(* twice, nothing out of order, nothing of the other direction, whatever   *)
(* breaks and however the reads of message.Get and io.CopyBuffer fall.     *)
(***************************************************************************)
THEOREM OnlyPrefixesArrive == Spec => []Prefixes
<1>1. FlowInv => Prefixes
  <2> SUFFICES ASSUME FlowInv, NEW d \in Directions
               PROVE  Len(Got(d)) <= sent[d] /\ \A i \in 1 .. Len(Got(d)) : Got(d)[i] = Data(i)
    BY DEF Prefixes
  <2> QED BY DEF FlowInv, Flow, FlowOK, Got
<1> QED BY <1>1, InitTyped, TypeStep, InitFlow, FlowStep, PTL DEF Spec
=============================================================================
