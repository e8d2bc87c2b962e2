----------------------------- MODULE TcpClient -----------------------------
(***************************************************************************)
(* nest::net::TcpClient: a TcpConnection that makes its own connection,    *)
(* as HttpClient uses it: it connects once, sends a request when the       *)
(* connect callback says so and reads what comes back, all in the thread   *)
(* of its loop.                                                            *)
(*                                                                         *)
(* TcpClient overrides OnRead, OnWrite and OnClose.  While it is           *)
(* connecting, the first event of either kind is taken for the end of the  *)
(* connect, and nothing is read or written.  Sending is reduced to one     *)
(* request that the socket takes at once or in two parts; what partial     *)
(* writes do in detail is in TcpConnection.                                *)
(***************************************************************************)
EXTENDS Naturals

CONSTANTS
    MaxIn,    \* bound: segments the server sends
    MaxIdle   \* the argument of EnableCheckIdleTimeout, in ticks (3)

ASSUME ClientAssumption == MaxIn \in Nat /\ MaxIdle \in Nat \ {0}

VARIABLES
    \* the socket
    net,        \* the connection, seen by the kernel
    inMsgs,     \* segments in the receive buffer
    arrived,    \* segments that have arrived so far
    eof,        \* the server has sent everything
    room,       \* the send buffer has room
    \* epoll
    want,       \* event_ has kEventWrite
    ready,      \* the descriptor is on epoll's ready list
    registered, \* the channel is in the epoll set
    revents,    \* revents_, while the loop handles them
    \* the client
    status,     \* status_
    closed,     \* isClosed_
    request,    \* "none", then "queued" in iovecList_ or "sent"
    idle,       \* ticks until the TimeoutEntry is dropped; 0: there is none
    phase,      \* what the loop is doing
    \* histories
    calls,      \* callbacks the user got: connect and close
    skipped     \* input was reported and taken for the end of the connect

sock == <<net, inMsgs, arrived, eof, room>>
epoll == <<want, ready, registered, revents>>
vars == <<sock, epoll, status, closed, request, idle, phase, calls, skipped>>

Events == {"in", "out", "err"}

TypeOK ==
    /\ net \in {"none", "syn", "established", "failed"}
    /\ inMsgs \in 0 .. MaxIn /\ arrived \in 0 .. MaxIn
    /\ eof \in BOOLEAN /\ room \in BOOLEAN
    /\ want \in BOOLEAN /\ ready \in BOOLEAN /\ registered \in BOOLEAN
    /\ revents \in SUBSET Events
    /\ status \in {"Init", "Connecting", "Connected", "DisConnected"}
    /\ closed \in BOOLEAN
    /\ request \in {"none", "queued", "sent"}
    /\ idle \in 0 .. MaxIdle
    /\ phase \in {"poll", "handle", "read", "user"}
    /\ calls \in [connected : 0 .. 1, closed : 0 .. 1]
    /\ skipped \in BOOLEAN

Init ==
    /\ net = "none" /\ inMsgs = 0 /\ arrived = 0 /\ eof = FALSE /\ room = TRUE
    /\ want = FALSE /\ ready = FALSE /\ registered = FALSE /\ revents = {}
    /\ status = "Init" /\ closed = FALSE /\ request = "none" /\ idle = 0
    /\ phase = "user"
    /\ calls = [connected |-> 0, closed |-> 0] /\ skipped = FALSE

----------------------------------------------------------------------------
(* The socket and epoll.                                                   *)

HasInput == inMsgs > 0 \/ eof

(* The events epoll reports.  A socket that is connecting has none. *)
Readiness ==
    CASE net \in {"none", "syn"} -> {}
      [] net = "failed" -> {"err", "in"} \cup IF want THEN {"out"} ELSE {}
      [] net = "established" -> (IF HasInput THEN {"in"} ELSE {})
                                \cup (IF want /\ room THEN {"out"} ELSE {})

(* The three-way handshake ends. *)
Establish ==
    /\ net = "syn"
    /\ net' = "established"
    /\ ready' = registered
    /\ UNCHANGED <<inMsgs, arrived, eof, room, want, registered, revents,
                   status, closed, request, idle, phase, calls, skipped>>

(* The server refuses the connection, or resets it. *)
Fail ==
    /\ net \in {"syn", "established"}
    /\ net' = "failed"
    /\ ready' = registered
    /\ UNCHANGED <<inMsgs, arrived, eof, room, want, registered, revents,
                   status, closed, request, idle, phase, calls, skipped>>

Arrive ==
    /\ net = "established" /\ ~eof
    /\ arrived < MaxIn
    /\ inMsgs' = inMsgs + 1
    /\ arrived' = arrived + 1
    /\ ready' = registered
    /\ UNCHANGED <<net, eof, room, want, registered, revents, status, closed,
                   request, idle, phase, calls, skipped>>

Shutdown ==
    /\ net = "established" /\ ~eof
    /\ eof' = TRUE
    /\ ready' = registered
    /\ UNCHANGED <<net, inMsgs, arrived, room, want, registered, revents,
                   status, closed, request, idle, phase, calls, skipped>>

(* The server reads. *)
Drain ==
    /\ net = "established" /\ ~room
    /\ room' = TRUE
    /\ ready' = (ready \/ (want /\ registered))
    /\ UNCHANGED <<net, inMsgs, arrived, eof, want, registered, revents,
                   status, closed, request, idle, phase, calls, skipped>>

----------------------------------------------------------------------------
(* Closing.                                                                *)

(* TcpClient::OnClose, and TcpConnection::OnClose in it.  (A TimeoutEntry  *)
(* may live longer than the connection; it finds it closed.)               *)
OnClose ==
    /\ IF status \in {"Connecting", "Connected"}
       THEN registered' = FALSE /\ ready' = FALSE
       ELSE UNCHANGED <<registered, ready>>
    /\ status' = "DisConnected"
    /\ closed' = TRUE
    /\ calls' = [calls EXCEPT !.closed = IF closed THEN @ ELSE @ + 1]

(* ForceClose by the user: in any callback of this loop, also in one that  *)
(* is called between the poll and the handling of this client's events.    *)
ForceClose ==
    /\ phase # "poll"
    /\ ~closed
    /\ OnClose
    /\ UNCHANGED <<sock, want, revents, request, idle, phase, skipped>>

----------------------------------------------------------------------------
(* Connecting.                                                             *)

(* ConnectInLoop: there is no descriptor; or the channel is registered,    *)
(* the timeout set, and connect succeeds, is underway or fails at once.    *)
NoSocket ==
    /\ OnClose
    /\ UNCHANGED <<sock, want, idle>>

(* Mutant: no timeout for the connect. *)
StartConnect_NoTimeout(result) ==
    /\ net' = result
    /\ registered' = TRUE
    /\ want' = TRUE
    /\ ready' = (result = "established")
    /\ status' = IF result = "established" THEN "Connected" ELSE "Connecting"
    /\ calls' = [calls EXCEPT !.connected = IF result = "established"
                                            THEN @ + 1 ELSE @]
    /\ UNCHANGED <<inMsgs, arrived, eof, room, closed, idle>>

StartConnect(result) ==
    /\ net' = result
    /\ registered' = TRUE
    /\ want' = TRUE
    /\ ready' = (result = "established")
    /\ idle' = MaxIdle
    /\ status' = IF result = "established" THEN "Connected" ELSE "Connecting"
    /\ calls' = [calls EXCEPT !.connected = IF result = "established"
                                            THEN @ + 1 ELSE @]
    /\ UNCHANGED <<inMsgs, arrived, eof, room, closed>>

(* connect fails with another error than EINPROGRESS: OnClose takes the    *)
(* channel out again.                                                      *)
ConnectRefused ==
    /\ want' = TRUE
    /\ idle' = MaxIdle
    /\ OnClose
    /\ UNCHANGED sock

(* A user connects a client once, and not after closing it: isClosed_ is   *)
(* never reset.                                                            *)
Connect ==
    /\ phase = "user" /\ status = "Init" /\ ~closed
    /\ NoSocket \/ ConnectRefused \/ StartConnect("syn")
          \/ StartConnect("established")
    /\ UNCHANGED <<revents, request, phase, skipped>>

(* The events are looked at once.  (revents_ keeps them, unread, until the *)
(* next poll.)                                                             *)
Handled(next) == phase' = next /\ revents' = {}

(* getsockopt(SO_ERROR) *)
CheckError == net = "failed"

(* Mutant: the status does not change with the callback. *)
Connected_StaysConnecting ==
    /\ calls' = [calls EXCEPT !.connected = @ + 1]
    /\ UNCHANGED <<registered, ready, status, closed>>

(* UpdateConnectionStatus *)
UpdateConnectionStatus ==
    /\ status' = "Connected"
    /\ calls' = [calls EXCEPT !.connected = @ + 1]
    /\ UNCHANGED <<registered, ready, closed>>

(* OnRead or OnWrite while connecting: nothing is read. *)
ConnectEnds ==
    /\ phase = "handle" /\ "err" \notin revents
    /\ status = "Connecting"
    /\ IF CheckError THEN OnClose ELSE UpdateConnectionStatus
    /\ skipped' = (skipped \/ "in" \in revents)
    /\ Handled("user")
    /\ UNCHANGED <<sock, want, request, idle>>

----------------------------------------------------------------------------
(* The request.                                                            *)

(* EPOLL_CTL_MOD looks at the descriptor again. *)
EnableWriting(on, hasRoom) ==
    /\ want' = on
    /\ ready' = (ready \/ HasInput \/ net = "failed" \/ (on /\ hasRoom))

(* TcpClient::Send passes the request on only to a connected client.  What *)
(* the socket does not take is queued; a socket that failed takes nothing. *)
Send ==
    /\ phase \in {"read", "user"}
    /\ status = "Connected"
    /\ request = "none"
    /\ \/ /\ net = "established"
          /\ request' = "sent"
          /\ UNCHANGED <<room, want, ready>>
       \/ /\ request' = "queued"
          /\ room' = FALSE
          /\ EnableWriting(TRUE, FALSE)
    /\ UNCHANGED <<net, inMsgs, arrived, eof, registered, revents, status,
                   closed, idle, phase, calls, skipped>>

----------------------------------------------------------------------------
(* The loop.                                                               *)

Poll ==
    /\ phase = "poll" /\ ready
    /\ ready' = FALSE
    /\ revents' = Readiness
    /\ phase' = IF revents' = {} THEN "user" ELSE "handle"
    /\ UNCHANGED <<sock, want, registered, status, closed, request, idle,
                   calls, skipped>>

PollOther ==
    /\ phase = "poll" /\ ~ready
    /\ phase' = "user"
    /\ UNCHANGED <<sock, epoll, status, closed, request, idle, calls, skipped>>

HandleError ==
    /\ phase = "handle" /\ "err" \in revents
    /\ OnClose
    /\ Handled("user")
    /\ UNCHANGED <<sock, want, request, idle, skipped>>

(* OnRead and OnWrite of a client that was closed after the poll. *)
HandleClosed ==
    /\ phase = "handle" /\ "err" \notin revents
    /\ status = "DisConnected"
    /\ Handled("user")
    /\ UNCHANGED <<sock, want, ready, registered, status, closed, request, idle, calls, skipped>>

(* ExtendLife: as long as the TimeoutEntry lives it is inserted again. *)
Extended == IF idle > 0 THEN MaxIdle ELSE 0

(* TcpConnection::OnRead *)
HandleRead ==
    /\ phase = "handle" /\ "err" \notin revents /\ "in" \in revents
    /\ status = "Connected"
    /\ Handled("read")
    /\ idle' = Extended
    /\ skipped' = FALSE
    /\ UNCHANGED <<sock, want, ready, registered, status, closed, request,
                   calls>>

(* OnRead: a ReadFd that takes segments, and the message callback, which   *)
(* may close the client.                                                   *)
ReadMore ==
    /\ phase = "read" /\ ~closed
    /\ net = "established"
    /\ \E n \in 1 .. inMsgs : inMsgs' = inMsgs - n
    /\ OnClose \/ UNCHANGED <<registered, ready, status, closed, calls>>
    /\ UNCHANGED <<net, arrived, eof, room, want, revents, request, idle,
                   phase, skipped>>

(* Mutant: OnRead stops after one read. *)
ReadEnd_AnyTime ==
    /\ phase = "read"
    /\ phase' = "user"
    /\ IF net = "failed" \/ closed \/ (inMsgs = 0 /\ eof) THEN OnClose
       ELSE UNCHANGED <<registered, ready, status, closed, calls>>
    /\ UNCHANGED <<sock, want, revents, request, idle, skipped>>

(* The read that ends the loop: EAGAIN, or end of stream or an error. *)
ReadEnd ==
    /\ phase = "read"
    /\ closed \/ net = "failed" \/ inMsgs = 0
    /\ IF eof \/ net = "failed" \/ closed THEN OnClose
       ELSE UNCHANGED <<registered, ready, status, closed, calls>>
    /\ phase' = "user"
    /\ UNCHANGED <<sock, want, revents, request, idle, skipped>>

(* TcpConnection::OnWrite.  The connect left write events enabled, so the  *)
(* list may be empty.                                                      *)
HandleWrite ==
    /\ phase = "handle" /\ revents = {"out"}
    /\ status = "Connected"
    /\ idle' = Extended
    /\ Handled("user")
    /\ IF net = "failed" /\ request = "queued"
       THEN OnClose /\ UNCHANGED <<want, request>>
       ELSE /\ request' = IF request = "queued" THEN "sent" ELSE request
            /\ EnableWriting(FALSE, room)
            /\ UNCHANGED <<registered, status, closed, calls>>
    /\ UNCHANGED <<sock, skipped>>

NoTick ==
    /\ phase = "user"
    /\ phase' = "poll"
    /\ UNCHANGED <<sock, epoll, status, closed, request, idle, calls, skipped>>

(* Mutant: the TimeoutEntry is inserted again when it comes up. *)
Tick_Again ==
    /\ phase = "user" /\ idle > 0
    /\ idle' = IF idle = 1 THEN MaxIdle ELSE idle - 1
    /\ phase' = "poll"
    /\ UNCHANGED <<sock, want, revents, request, skipped, registered, ready,
                   status, closed, calls>>

(* A tick of the wheel; the last one drops the TimeoutEntry: OnTimeout. *)
Tick ==
    /\ phase = "user" /\ idle > 0
    /\ idle' = idle - 1
    /\ phase' = "poll"
    /\ IF idle = 1 THEN OnClose
       ELSE UNCHANGED <<registered, ready, status, closed, calls>>
    /\ UNCHANGED <<sock, want, revents, request, skipped>>

----------------------------------------------------------------------------
Server == Establish \/ Fail \/ Arrive \/ Shutdown \/ Drain

User == Connect \/ Send \/ ForceClose

LoopStep ==
    \/ Poll \/ PollOther \/ HandleError \/ HandleClosed \/ ConnectEnds
    \/ HandleRead \/ ReadMore \/ ReadEnd \/ HandleWrite \/ NoTick \/ Tick

Next == Server \/ User \/ LoopStep

SafetySpec == Init /\ [][Next]_vars

(* The loop goes on and its wheel moves.  The server and the network need  *)
(* not do anything, nor does the user.                                     *)
Spec == SafetySpec /\ WF_vars(LoopStep) /\ SF_vars(Tick)

----------------------------------------------------------------------------
(* Properties.                                                             *)

(* UpdateConnectionStatus and OnClose: the connect callback comes once, as *)
(* the client becomes connected; the close callback comes once, however    *)
(* many of timeout, error, end of stream and ForceClose meet; and epoll    *)
(* has the channel exactly while the client is connecting or connected.    *)
CallbacksFollowStatus ==
    /\ registered <=> status \in {"Connecting", "Connected"}
    /\ status \in {"Init", "Connecting"} => calls.connected = 0
    /\ status = "Connected" => calls.connected = 1
    /\ closed <=> status = "DisConnected"
    /\ calls.closed = IF closed THEN 1 ELSE 0

(* Whoever connects hears of it, also when the network stays silent: the   *)
(* connect or the close callback comes.                                    *)
ConnectAnswered ==
    status = "Connecting" ~> calls.connected + calls.closed > 0

(* While the loop waits, input of a connected client is on epoll's ready   *)
(* list, unless its event was taken for the end of the connect.            *)
NoLostInput ==
    (phase = "poll" /\ status = "Connected" /\ HasInput /\ ~skipped) => ready
============================================================================
