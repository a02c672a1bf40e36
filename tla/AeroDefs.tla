------------------------------ MODULE AeroDefs ------------------------------
(***************************************************************************)
(* Definitions shared by the modules of the AeRO proxy: the control        *)
(* messages of util/message and the size of a client's pipe pool.          *)
(***************************************************************************)
EXTENDS Integers, Sequences

CONSTANT None  (* Go's nil / the empty string: no name, no port, no message *)

(***************************************************************************)
(* Control messages.  Only the fields that a handler branches on are kept: *)
(* the proxy name, and one flag that is ProxyRequest.Enable in a request   *)
(* and Result = "ok" in a response.                                        *)
(***************************************************************************)
PlainTypes == {"LoginResponse", "HeartbeatRequest", "HeartbeatResponse", "PipeRequest"}

Messages(Names) ==
    [type : PlainTypes, name : {None}, flag : BOOLEAN]
        \cup [type : {"ProxyRequest"}, name : Names, flag : BOOLEAN]
        \cup [type : {"ProxyResponse"}, name : Names \cup {None}, flag : BOOLEAN]

Plain(t) == [type |-> t, name |-> None, flag |-> FALSE]

LoginResponse == [type |-> "LoginResponse", name |-> None, flag |-> TRUE]

ProxyRequest(n, enable) == [type |-> "ProxyRequest", name |-> n, flag |-> enable]

(* A failed registration answers with Result only: Name stays empty. *)
ProxyResponse(n, ok) == [type |-> "ProxyResponse", name |-> n, flag |-> ok]

(* NewManager: 2 pipes unless the client asks for some, never more than max. *)
PoolSizeOf(requested, max) ==
    LET size == IF requested > 0 THEN requested ELSE 2
    IN  IF size > max THEN max ELSE size
=============================================================================
