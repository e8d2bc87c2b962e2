----------------------------- MODULE HttpServer -----------------------------
(***************************************************************************)
(* nest::mm::HttpServer: a TcpServer whose connections carry an            *)
(* HttpContext in Connection::contexts_.  The context is attached by       *)
(* newConnectionCb_, after the handler's own OnNewConnection, found again  *)
(* by every message callback and detached by destroyConnectionCb_.  The    *)
(* context has a shared pointer to its connection, so a context that is    *)
(* never detached keeps the connection alive for ever.                     *)
(***************************************************************************)
EXTENDS TcpServer

VARIABLES
    context,   \* connections whose contexts_ has an HttpContext
    \* histories
    early,     \* closed inside their own OnNewConnection
    unserved   \* messages were read of them and no HttpContext was found

httpVars == <<vars, context, early, unserved>>

HttpTypeOK == context \cup early \cup unserved \in SUBSET Conns

HttpInit == Init /\ context = {} /\ early = {} /\ unserved = {}

----------------------------------------------------------------------------
(* The connection that newConnectionCb_ is being called for. *)
Announced ==
    IF phase = "callback" /\ handling = Acceptor THEN {Cardinality(born)} ELSE {}

Closing == {c \in Conns : destroyed'[c] > destroyed[c]}

(* Mutant: the context stays when the connection is closed. *)
OnDestroyed_Keeps == UNCHANGED context

(* ClearContext, in whatever step closes the connection. *)
OnDestroyed == context' = context \ Closing

(* The handler's OnNewConnection has returned, having closed any           *)
(* connection or none: the announced one gets its context all the same.    *)
OnNewConnection ==
    /\ phase' = "read"
    /\ context' = context \cup Announced
    /\ early' = early \cup {c \in Announced : isClosed_[c]}

(* Steps that do not return from newConnectionCb_. *)
OtherCallbacks ==
    /\ Announced = {} \/ phase' = "callback"
    /\ OnDestroyed
    /\ UNCHANGED early

(* The message callback looks its context up; without one the bytes stay   *)
(* in the connection's buffer.                                             *)
OnMessage ==
    unserved' = unserved \cup
        {c \in {handling} \ context : c \in Conns /\ phase = "read" /\ phase' = "callback"}

Callbacks == OnMessage /\ (OtherCallbacks \/ (Announced # {} /\ OnNewConnection))

HttpNext == Next /\ Callbacks

HttpSpec ==
    /\ HttpInit /\ [][HttpNext]_httpVars
    /\ WF_httpVars(LoopStep /\ Callbacks)

----------------------------------------------------------------------------
(* Properties.                                                             *)

(* Between newConnectionCb_ and the close, and at no other time, a         *)
(* connection has its context, also when a callback of another connection  *)
(* closes it in the middle of a batch: so no message is left unparsed and  *)
(* no closed connection is kept alive by its context - except one that the *)
(* handler closes in OnNewConnection, whose context is attached after it   *)
(* was cleared and stays for ever (HttpServer.cpp:39).                     *)
ContextInv ==
    /\ context = (connections_ \ Announced) \cup early
    /\ unserved = {}

(* The tables of the server and the kernel agree at all times.             *)
ServerInv == TypeOK /\ HttpTypeOK /\ TablesAgree
=============================================================================
