------------------------------- MODULE Stream -------------------------------
(***************************************************************************)
(* One user connection end to end, byte by byte: the user, proxy.handle    *)
(* and pipe.Join at the server, the pipe, awaitWork and pipe.Join at the   *)
(* client, and the target.                                                 *)
(*                                                                         *)
(*      user --hop 1-- server --hop 2 (the pipe)-- client --hop 3-- target *)
(*                                                                         *)
(* The pipe first carries the ConnRequest, as a frame of util/message, and *)
(* then the bytes of the user: awaitWork has to take the frame, and no     *)
(* more, off the stream.  Each joint then runs two copies, one for each    *)
(* direction, which close both connections when either of them ends.       *)
(*                                                                         *)
(* A cell is one byte.  A frame has one cell for the body and LenSize for  *)
(* its length (4 in the code).  The applications at both ends take what    *)
(* comes: hops 1 and 3 keep what has arrived there.                        *)
(***************************************************************************)
EXTENDS Integers, Sequences, FiniteSets

CONSTANTS
    MaxBytes,  (* bound: bytes that the application sends, per direction    *)
    HalfClose, (* directions in which the application may shut down writing *)
    LenSize,   (* bytes of the length field of a frame                      *)
    Window     (* bytes that fit into the pipe in each direction            *)

Directions == {"there", "back"}

ASSUME StreamAssumption ==
    /\ MaxBytes \in [Directions -> Nat] /\ HalfClose \subseteq Directions
    /\ LenSize \in Nat \ {0} /\ Window \in Nat /\ Window >= LenSize + 3

VARIABLES
    wire,    (* per direction and hop: the cells that are under way         *)
    sent,    (* per direction: bytes that the application has sent          *)
    closed,  (* the ends of hops that are closed                            *)
    half,    (* directions whose application has shut down its writing side *)
    lost,    (* the session of the pipe is gone                             *)
    handle,  (* server: proxy.handle                                        *)
    work,    (* client: awaitWork, and the header it has read               *)
    copy,    (* per joint and direction: where pipe is                      *)
    free,    (* per joint: the buffers in the pool                          *)
    buf,     (* per joint and direction: the buffer in use                  *)
    cell     (* per joint and buffer: its content                           *)

vars == <<wire, sent, closed, half, lost, handle, work, copy, free, buf, cell>>

Joints     == {"server", "client"}
Buffers    == {1, 2}
NoBuffer   == 0
-----------------------------------------------------------------------------
(* Messages: getMsgInfo, and the tables that Get looks them up in.  The     *)
(* pair is the flag and the type code.                                      *)
MsgInfo(type) ==
    CASE type = "LoginRequest"      -> <<"<", "l">>
      [] type = "LoginResponse"     -> <<">", "l">>
      [] type = "HeartbeatRequest"  -> <<"<", "h">>
      [] type = "HeartbeatResponse" -> <<">", "h">>
      [] type = "ProxyRequest"      -> <<"<", "p">>
      [] type = "ProxyResponse"     -> <<">", "p">>
      [] type = "PipeRequest"       -> <<"<", "q">>
      [] type = "ConnRequest"       -> <<"<", "w">>

TypeReqMap ==
    [h |-> "HeartbeatRequest", l |-> "LoginRequest", p |-> "ProxyRequest",
     q |-> "PipeRequest", w |-> "ConnRequest"]

TypeRespMap ==
    [h |-> "HeartbeatResponse", l |-> "LoginResponse", p |-> "ProxyResponse"]

MsgType(flag, typ) ==
    CASE flag = "<" /\ typ \in DOMAIN TypeReqMap  -> TypeReqMap[typ]
      [] flag = ">" /\ typ \in DOMAIN TypeRespMap -> TypeRespMap[typ]
      [] OTHER -> "unknown"

MessageTypes == {TypeReqMap[t] : t \in DOMAIN TypeReqMap}
                    \cup {TypeRespMap[t] : t \in DOMAIN TypeRespMap} \cup {"unknown"}

Cell(k, n) == [kind |-> k, n |-> n]
Data(n)    == Cell("data", n)

(* Write: the frame of a message. *)
Frame(type) ==
    <<Cell(MsgInfo(type)[1], 0), Cell(MsgInfo(type)[2], 0)>>
        \o [i \in 1 .. LenSize |-> Cell("length", i)] \o <<Cell("body", 0)>>
-----------------------------------------------------------------------------
(* The hop that the copy of joint j in direction d reads, and the one that  *)
(* it writes.                                                               *)
From(j, d) ==
    CASE j = "server" /\ d = "there" -> 1 [] j = "client" /\ d = "there" -> 2
      [] j = "client" /\ d = "back"  -> 3 [] j = "server" /\ d = "back"  -> 2

To(j, d) == IF d = "there" THEN From(j, d) + 1 ELSE From(j, d) - 1

(* The ends of the hops, and which of them sends in direction d. *)
Left(h)  == <<h, "left">>
Right(h) == <<h, "right">>
Ends     == {Left(h) : h \in 1 .. 3} \cup {Right(h) : h \in 1 .. 3}
Sender(h, d)   == IF d = "there" THEN Left(h) ELSE Right(h)
Receiver(h, d) == IF d = "there" THEN Right(h) ELSE Left(h)

UserEnd   == Left(1)
TargetEnd == Right(3)
Source(d) == IF d = "there" THEN UserEnd ELSE TargetEnd
FirstHop(d) == IF d = "there" THEN 1 ELSE 3
LastHop(d)  == IF d = "there" THEN 3 ELSE 1

(* What the other application has got: the cells that arrived. *)
Got(d) == wire[d][LastHop(d)]

Broken(h) == h = 2 /\ lost

(* The reader of a hop in direction d will get no more than is under way. *)
AtEnd(h, d) ==
    wire[d][h] = <<>> /\ (Sender(h, d) \in closed \/ Broken(h) \/ (h = FirstHop(d) /\ d \in half))

(* A process closes an end; what is under way to it is dropped. *)
CloseEnd(e) ==
    /\ closed' = closed \cup {e}
    /\ wire' = [d \in Directions |-> [h \in 1 .. 3 |->
                    IF Receiver(h, d) = e THEN <<>> ELSE wire[d][h]]]

Room(h, d) == IF h = 2 THEN Window ELSE MaxBytes[d]
-----------------------------------------------------------------------------
Init ==
    /\ wire = [d \in Directions |-> [h \in 1 .. 3 |-> <<>>]]
    /\ sent = [d \in Directions |-> 0]
    /\ closed = {} /\ half = {} /\ lost = FALSE
    /\ handle = "request" /\ work = "head"
    /\ copy = [j \in Joints |-> [d \in Directions |-> "idle"]]
    /\ free = [j \in Joints |-> Buffers]
    /\ buf = [j \in Joints |-> [d \in Directions |-> NoBuffer]]
    /\ cell = [j \in Joints |-> [b \in Buffers |-> Data(0)]]

copyVars == <<copy, free, buf, cell>>

(* The applications.  The target is connected once the client has joined.   *)
Connected(d) == d = "there" \/ work = "join"

AppSend(d) ==
    /\ Connected(d) /\ Source(d) \notin closed /\ d \notin half /\ sent[d] < MaxBytes[d]
    /\ sent' = [sent EXCEPT ![d] = @ + 1]
    /\ wire' = [wire EXCEPT ![d][FirstHop(d)] = Append(@, Data(sent[d] + 1))]
    /\ UNCHANGED <<closed, half, lost, handle, work, copyVars>>

AppClose(d) ==
    /\ Connected(d) /\ Source(d) \notin closed
    /\ closed' = closed \cup {Source(d)}
    /\ UNCHANGED <<wire, sent, half, lost, handle, work, copyVars>>

AppShutdown(d) ==
    /\ Connected(d) /\ Source(d) \notin closed /\ d \in HalfClose \ half
    /\ half' = half \cup {d}
    /\ UNCHANGED <<wire, sent, closed, lost, handle, work, copyVars>>

SessionLost ==
    /\ ~lost /\ lost' = TRUE
    /\ wire' = [d \in Directions |-> [wire[d] EXCEPT ![2] = <<>>]]
    /\ UNCHANGED <<sent, closed, half, handle, work, copyVars>>
-----------------------------------------------------------------------------
(* handle: the ConnRequest, then Join.  (Trying another pipe is PipePool's.) *)
SendRequest ==
    /\ handle = "request"
    /\ IF lost \/ Right(2) \in closed
       THEN /\ handle' = "over" /\ CloseEnd(Left(2))
            /\ UNCHANGED copy
       ELSE /\ handle' = "join"
            /\ wire' = [wire EXCEPT !["there"][2] = @ \o Frame("ConnRequest")]
            /\ copy' = [copy EXCEPT !["server"] = [d \in Directions |-> "start"]]
            /\ UNCHANGED closed
    /\ UNCHANGED <<sent, half, lost, work, free, buf, cell>>

Take(n) == wire' = [wire EXCEPT !["there"][2] = SubSeq(@, n + 1, Len(@))]

WorkOver ==
    /\ work' = "over" /\ CloseEnd(Right(2))
    /\ UNCHANGED copy

(* Mutant: what is under way is read into a buffer. *)
ReadHead_Full ==
    /\ work = "head" /\ Len(wire["there"][2]) >= 2
    /\ Take(Len(wire["there"][2]))
    /\ work' = "connect"
    /\ UNCHANGED <<sent, closed, half, lost, handle, copyVars>>

(***************************************************************************)
(* awaitWork: message.Get, Connect, Join.  Read asks for two bytes once    *)
(* and does not look at how many it got.  If it got one, the type code is  *)
(* taken for the first byte of the length, which is then larger than       *)
(* anything that will ever come.                                           *)
(***************************************************************************)
ReadHead ==
    /\ work = "head"
    /\ \/ \E n \in 1 .. 2 :
            /\ n <= Len(wire["there"][2])
            /\ Take(n)
            /\ work' = IF n = 1 THEN "swallow"
                       ELSE MsgType(wire["there"][2][1].kind, wire["there"][2][2].kind)
            /\ UNCHANGED <<closed, copy>>
       \/ AtEnd(2, "there") /\ WorkOver
    /\ UNCHANGED <<sent, half, lost, handle, free, buf, cell>>

(* The length and the body, with io.ReadFull; then Get looks at the type    *)
(* and awaitWork at the kind of message.                                    *)
ReadBody ==
    /\ work \in MessageTypes
    /\ \/ /\ Len(wire["there"][2]) >= LenSize + 1
          /\ Take(LenSize + 1)
          /\ work' = IF work = "ConnRequest" THEN "connect" ELSE "over"
          /\ closed' = IF work = "ConnRequest" THEN closed ELSE closed \cup {Right(2)}
          /\ UNCHANGED copy
       \/ AtEnd(2, "there") /\ WorkOver
    /\ UNCHANGED <<sent, half, lost, handle, free, buf, cell>>

Swallow ==
    /\ work = "swallow"
    /\ \/ wire["there"][2] # <<>> /\ Take(1) /\ UNCHANGED <<work, closed, copy>>
       \/ AtEnd(2, "there") /\ WorkOver
    /\ UNCHANGED <<sent, half, lost, handle, free, buf, cell>>

(* The proxy is not found, not started, or its target cannot be reached. *)
NoTarget ==
    /\ work = "connect"
    /\ WorkOver
    /\ UNCHANGED <<sent, half, lost, handle, free, buf, cell>>

Connect ==
    /\ work = "connect"
    /\ work' = "join"
    /\ copy' = [copy EXCEPT !["client"] = [d \in Directions |-> "start"]]
    /\ UNCHANGED <<wire, sent, closed, half, lost, handle, free, buf, cell>>
-----------------------------------------------------------------------------
(* pipe.pipe, the copy of joint j in direction d. *)
Copy(j, d, from, to) ==
    copy[j][d] = from /\ copy' = [copy EXCEPT ![j][d] = to]

(* Mutant: the buffer is put back at once. *)
GetBuf_NoDefer(j, d) ==
    /\ Copy(j, d, "start", "read")
    /\ LET b == CHOOSE x \in free[j] : \A y \in free[j] : x <= y
       IN  buf' = [buf EXCEPT ![j][d] = b]
    /\ UNCHANGED <<wire, sent, closed, half, lost, handle, work, free, cell>>

GetBuf(j, d) ==
    /\ Copy(j, d, "start", "read")
    /\ LET b == CHOOSE x \in free[j] : \A y \in free[j] : x <= y
       IN  /\ buf' = [buf EXCEPT ![j][d] = b]
           /\ free' = [free EXCEPT ![j] = @ \ {b}]
    /\ UNCHANGED <<wire, sent, closed, half, lost, handle, work, cell>>

(* io.CopyBuffer reads, ... *)
CopyRead(j, d) ==
    LET h == From(j, d) IN
    /\ Copy(j, d, "read", "write")
    /\ Receiver(h, d) \notin closed /\ wire[d][h] # <<>>
    /\ cell' = [cell EXCEPT ![j][buf[j][d]] = Head(wire[d][h])]
    /\ wire' = [wire EXCEPT ![d][h] = Tail(@)]
    /\ UNCHANGED <<sent, closed, half, lost, handle, work, free, buf>>

(* ... writes (into nowhere, if the other end is closed and this is not     *)
(* known yet), ...                                                          *)
CopyWrite(j, d) ==
    LET h == To(j, d) IN
    /\ Copy(j, d, "write", "read")
    /\ Sender(h, d) \notin closed /\ ~Broken(h)
    /\ \/ Receiver(h, d) \in closed /\ UNCHANGED wire
       \/ /\ Receiver(h, d) \notin closed /\ Len(wire[d][h]) < Room(h, d)
          /\ wire' = [wire EXCEPT ![d][h] = Append(@, cell[j][buf[j][d]])]
    /\ cell' = [cell EXCEPT ![j][buf[j][d]] = Data(0)]
    /\ UNCHANGED <<sent, closed, half, lost, handle, work, free, buf>>

(* Mutant: PutBuf is given nothing. *)
CopyEnd_PutNil(j, d) ==
    /\ \/ /\ Copy(j, d, "read", "close")
          /\ Receiver(From(j, d), d) \in closed \/ AtEnd(From(j, d), d)
       \/ /\ Copy(j, d, "write", "close")
          /\ {Sender(To(j, d), d), Receiver(To(j, d), d)} \cap closed # {} \/ Broken(To(j, d))
    /\ free' = [free EXCEPT ![j] = @ \cup {NoBuffer}]
    /\ buf' = [buf EXCEPT ![j][d] = NoBuffer]
    /\ CloseEnd(Receiver(From(j, d), d))
    /\ UNCHANGED <<sent, half, lost, handle, work, cell>>

(* ... and ends, at the end of the input or with an error.  The buffer goes *)
(* back to the pool and the input is closed; then the output is.            *)
CopyEnd(j, d) ==
    /\ \/ /\ Copy(j, d, "read", "close")
          /\ Receiver(From(j, d), d) \in closed \/ AtEnd(From(j, d), d)
       \/ /\ Copy(j, d, "write", "close")
          /\ {Sender(To(j, d), d), Receiver(To(j, d), d)} \cap closed # {} \/ Broken(To(j, d))
    /\ free' = [free EXCEPT ![j] = @ \cup {buf[j][d]}]
    /\ buf' = [buf EXCEPT ![j][d] = NoBuffer]
    /\ CloseEnd(Receiver(From(j, d), d))
    /\ UNCHANGED <<sent, half, lost, handle, work, cell>>

(* Mutant: the other connection is left open. *)
CloseTo_Half(j, d) ==
    /\ Copy(j, d, "close", "over")
    /\ UNCHANGED <<wire, sent, closed, half, lost, handle, work, free, buf, cell>>

CloseTo(j, d) ==
    /\ Copy(j, d, "close", "over")
    /\ CloseEnd(Sender(To(j, d), d))
    /\ UNCHANGED <<sent, half, lost, handle, work, free, buf, cell>>
-----------------------------------------------------------------------------
Pipe(j, d) ==
    \/ GetBuf(j, d) \/ CopyRead(j, d) \/ CopyWrite(j, d) \/ CopyEnd(j, d)
    \/ CloseTo(j, d)

Work == ReadHead \/ ReadBody \/ Swallow \/ NoTarget \/ Connect

Process == SendRequest \/ Work \/ \E j \in Joints, d \in Directions : Pipe(j, d)

Next ==
    \/ \E d \in Directions : AppSend(d) \/ AppClose(d) \/ AppShutdown(d)
    \/ SessionLost \/ Process

Spec == Init /\ [][Next]_vars

(* The goroutines of both processes run; the applications owe nothing.  As  *)
(* the bytes are finite, it is enough that some goroutine runs.             *)
FairSpec == Spec /\ WF_vars(Process)
-----------------------------------------------------------------------------
TypeOK ==
    /\ \A d \in Directions, h \in 1 .. 3 : Len(wire[d][h]) <= Room(h, d)
    /\ \A d \in Directions : sent[d] \in 0 .. MaxBytes[d]
    /\ closed \subseteq Ends /\ half \subseteq Directions /\ lost \in BOOLEAN
    /\ copy \in [Joints -> [Directions ->
                    {"idle", "start", "read", "write", "close", "over"}]]
    /\ \A j \in Joints : free[j] \subseteq Buffers

(* Each application gets a prefix of what the other one sent: nothing of    *)
(* the ConnRequest, nothing twice, nothing out of order, nothing of the     *)
(* other direction, whatever breaks and however the reads fall.             *)
Prefixes ==
    \A d \in Directions :
        /\ Len(Got(d)) <= sent[d]
        /\ \A i \in 1 .. Len(Got(d)) : Got(d)[i] = Data(i)

(* Somebody has ended the connection, or the two bytes of the header came   *)
(* apart.                                                                   *)
Ended == closed # {} \/ half # {} \/ lost \/ work = "swallow"

(* Until then, all that either side sends arrives.  (A user that has shut   *)
(* down its writing side may still wait for the answer: the copy that has   *)
(* come to its end closes both connections, and the answer is lost.)        *)
Delivered ==
    \A d \in Directions : \A n \in 1 .. MaxBytes[d] :
        (sent[d] >= n) ~> (Len(Got(d)) >= n \/ Ended)

(* When either application closes its connection, both processes close all  *)
(* their ends and no copy is left behind.                                   *)
TornDown ==
    ({UserEnd, TargetEnd} \cap closed # {} /\ handle = "join") ~>
        /\ {Right(1), Left(2), Right(2)} \subseteq closed
        /\ work = "join" => Left(3) \in closed
        /\ \A j \in Joints, d \in Directions : copy[j][d] \in {"idle", "over"}
=============================================================================
