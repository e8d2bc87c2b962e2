--------------------------- MODULE TcpConnection ---------------------------
(***************************************************************************)
(* nest::net::TcpConnection in the thread of its event loop: reading until *)
(* EAGAIN, sending with a list of iovecs for what the socket did not take, *)
(* the dispatch of edge-triggered epoll events in Channel::HandleEvent,    *)
(* the idle timeout and the ways to close.                                 *)
(*                                                                         *)
(* The environment is the socket: a kernel send buffer of Cap units that   *)
(* the peer drains, incoming messages, end of stream, reset; and epoll,    *)
(* which has one ready flag for the descriptor and computes the reported   *)
(* events when epoll_wait collects it.                                     *)
(*                                                                         *)
(* The bytes the user sends are numbered units 1, 2, 3, ...; unit 0 stands *)
(* for any byte that is not his.                                           *)
(***************************************************************************)
EXTENDS Integers, Sequences, FiniteSets

CONSTANTS
    Cap,       \* size of the kernel's send buffer
    MaxUnits,  \* bound: units the user sends
    MaxSend,   \* bound: units of one Send
    MaxIn,     \* bound: messages the peer sends
    MaxIdle    \* maxIdleTime_, in ticks of the wheel

ASSUME ConnectionAssumption ==
    /\ Cap \in Nat \ {0}
    /\ MaxUnits \in Nat /\ MaxSend \in Nat \ {0} /\ MaxIn \in Nat
    /\ MaxIdle \in Nat \ {0}

VARIABLES
    \* the socket
    inMsgs,    \* messages in the receive buffer
    arrived,   \* messages that have arrived so far
    eof,       \* the peer has sent everything
    rst,       \* the connection was reset
    sndbuf,    \* units in the kernel's send buffer
    received,  \* units the peer has got
    nospace,   \* a write found too little room: room will be announced
    \* epoll
    want,      \* event_ has kEventWrite
    ready,     \* the descriptor is on epoll's ready list
    registered,\* the channel is in the epoll set
    revents,   \* revents_, while the loop handles them
    \* the connection
    closed,    \* isClosed_
    iovs,      \* iovecList_
    sent,      \* units given to Send so far
    idle,      \* ticks until the TimeoutEntry is dropped; 0: it is gone
    phase,     \* what the loop is doing
    \* histories
    closes,    \* calls of the close callback
    garbled,   \* a direct write was refused: see SendInLoop
    missed     \* a write event was reported and not handled

sock == <<inMsgs, arrived, eof, rst, sndbuf, received, nospace>>
epoll == <<want, ready, registered, revents>>
conn == <<closed, iovs, sent, idle, closes, garbled, missed>>
vars == <<sock, epoll, conn, phase>>

Units == 0 .. MaxUnits
Iovecs == [base : Units, len : 0 .. MaxSend + 1]
Events == {"in", "out", "err"}

(* waiting in epoll_wait; handling revents_; inside OnRead; running user   *)
(* code (write complete callbacks, queued functions) before the timers.    *)
Phases == {"poll", "handle", "read", "user"}

TypeOK ==
    /\ inMsgs \in 0 .. MaxIn /\ arrived \in 0 .. MaxIn
    /\ eof \in BOOLEAN /\ rst \in BOOLEAN /\ nospace \in BOOLEAN
    /\ sndbuf \in Seq(Units) /\ Len(sndbuf) <= Cap
    /\ received \in Seq(Units)
    /\ want \in BOOLEAN /\ ready \in BOOLEAN /\ registered \in BOOLEAN
    /\ revents \in SUBSET Events
    /\ closed \in BOOLEAN
    /\ iovs \in Seq(Iovecs)
    /\ sent \in Units
    /\ idle \in 0 .. MaxIdle
    /\ phase \in Phases
    /\ closes \in Nat /\ garbled \in BOOLEAN /\ missed \in BOOLEAN

(* The connection is registered; a TcpServer's connection has an idle      *)
(* timeout, a TcpClient's need not have one.                               *)
Init ==
    /\ inMsgs = 0 /\ arrived = 0 /\ eof = FALSE /\ rst = FALSE
    /\ sndbuf = <<>> /\ received = <<>> /\ nospace = FALSE
    /\ want = FALSE /\ ready = FALSE /\ registered = TRUE /\ revents = {}
    /\ closed = FALSE /\ iovs = <<>> /\ sent = 0 /\ idle \in {0, MaxIdle}
    /\ closes = 0 /\ garbled = FALSE /\ missed = FALSE
    /\ phase = "poll"

----------------------------------------------------------------------------
(* The socket and epoll.                                                   *)

Room == Cap - Len(sndbuf)

(* The events epoll reports, given an interest in writing. *)
Readiness(out) ==
    (IF inMsgs > 0 \/ eof \/ rst THEN {"in"} ELSE {})
        \cup (IF out /\ (Room > 0 \/ rst) THEN {"out"} ELSE {})
        \cup (IF rst THEN {"err"} ELSE {})

(* The peer sends a message, the end of its stream, or a reset: each puts  *)
(* the descriptor on the ready list.                                       *)
Arrive ==
    /\ ~eof /\ ~rst /\ ~closed
    /\ arrived < MaxIn
    /\ inMsgs' = inMsgs + 1
    /\ arrived' = arrived + 1
    /\ ready' = TRUE
    /\ UNCHANGED <<eof, rst, sndbuf, received, nospace, want, registered,
                   revents, conn, phase>>

PeerShutdown ==
    /\ ~eof /\ ~rst /\ ~closed
    /\ eof' = TRUE
    /\ ready' = TRUE
    /\ UNCHANGED <<inMsgs, arrived, rst, sndbuf, received, nospace, want,
                   registered, revents, conn, phase>>

Reset ==
    /\ ~rst /\ ~closed
    /\ rst' = TRUE
    /\ ready' = TRUE
    /\ UNCHANGED <<inMsgs, arrived, eof, sndbuf, received, nospace, want,
                   registered, revents, conn, phase>>

(* The peer takes a unit.  Room is announced only after a write that found *)
(* too little, and only to who wants to write.                             *)
Drain ==
    /\ sndbuf # <<>> /\ ~rst
    /\ received' = Append(received, Head(sndbuf))
    /\ sndbuf' = Tail(sndbuf)
    /\ nospace' = FALSE
    /\ ready' = (ready \/ (nospace /\ want /\ registered))
    /\ UNCHANGED <<inMsgs, arrived, eof, rst, want, registered, revents, conn,
                   phase>>

(* Mutant: the interest changes in event_ only, without EPOLL_CTL_MOD. *)
EnableWriting_NoMod(on, sb, short) ==
    /\ want' = on
    /\ nospace' = (nospace \/ short)
    /\ UNCHANGED ready

(* EnableWriting: EPOLL_CTL_MOD looks at the descriptor again, and a look  *)
(* that finds no room has the kernel announce it, like a refused write.    *)
EnableWriting(on, sb, short) ==
    /\ want' = on
    /\ nospace' = (nospace \/ short \/ (on /\ Len(sb) = Cap))
    /\ ready' = (ready \/ inMsgs > 0 \/ eof \/ rst \/ (on /\ Len(sb) < Cap))

----------------------------------------------------------------------------
(* Closing.                                                                *)

(* OnClose when the connection is open: closeCb_ erases it from the server *)
(* and from epoll, then the descriptor is closed.                          *)
OnClose ==
    /\ closed' = TRUE
    /\ closes' = closes + 1
    /\ registered' = FALSE
    /\ ready' = FALSE

(* Mutant: isClosed_ is not looked at. *)
CloseIfOpen_Always == OnClose

(* OnClose in any state. *)
CloseIfOpen == IF closed THEN UNCHANGED <<closed, closes, registered, ready>>
               ELSE OnClose

(* ForceClose in the loop's thread: from a callback or a queued function. *)
ForceClose ==
    /\ phase \in {"read", "user"}
    /\ ~closed
    /\ OnClose
    /\ UNCHANGED <<sock, want, revents, iovs, sent, idle, garbled, missed,
                   phase>>

----------------------------------------------------------------------------
(* Sending.                                                                *)

Smaller(x, y) == IF x < y THEN x ELSE y

(* The units of an iovec; unit 0 for bytes outside the user's data. *)
UnitsOf(v) == [i \in 1 .. v.len |-> v.base + i - 1]

(* All the units of a list of iovecs, in order. *)
Flat(list) ==
    LET flat[i \in 0 .. Len(list)] ==
            IF i = 0 THEN <<>> ELSE flat[i - 1] \o UnitsOf(list[i])
    IN  flat[Len(list)]

(* Mutant: a partly written iovec keeps its base. *)
Consume_KeepBase(list, n) ==
    LET total[i \in 0 .. Len(list)] ==
            IF i = 0 THEN 0 ELSE total[i - 1] + list[i].len
        k == CHOOSE i \in 0 .. Len(list) :
                total[i] >= n /\ \A j \in 0 .. i - 1 : total[j] < n
        left == total[k] - n
        rest == SubSeq(list, k + 1, Len(list))
    IN  IF left = 0 THEN rest ELSE <<[base |-> list[k].base, len |-> left]>> \o rest

(* What OnWrite leaves of the list after writev has taken n units. *)
Consume(list, n) ==
    LET total[i \in 0 .. Len(list)] ==
            IF i = 0 THEN 0 ELSE total[i - 1] + list[i].len
        k == CHOOSE i \in 0 .. Len(list) :
                total[i] >= n /\ \A j \in 0 .. i - 1 : total[j] < n
        left == total[k] - n
        rest == SubSeq(list, k + 1, Len(list))
    IN  IF left = 0 THEN rest
        ELSE <<[base |-> list[k].base + list[k].len - left, len |-> left]>> \o rest

(* SendInLoop(buf, size) with an empty list: write() takes what fits.  If  *)
(* it takes nothing it returns -1; len is unsigned, the test for an error  *)
(* never holds, and the list gets an iovec that starts one byte before the *)
(* data and is one byte longer.                                            *)
SendDirect(n) ==
    LET w == Smaller(n, Room)
        full == Room = 0 \/ rst
    IN  /\ iovs = <<>>
        /\ sndbuf' = IF full THEN sndbuf
                     ELSE sndbuf \o UnitsOf([base |-> sent + 1, len |-> w])
        /\ iovs' = IF full THEN <<[base |-> sent, len |-> n + 1]>>
                   ELSE IF w = n THEN <<>>
                   ELSE <<[base |-> sent + 1 + w, len |-> n - w]>>
        /\ garbled' = (garbled \/ full)
        /\ IF full \/ w < n
           THEN EnableWriting(TRUE, sndbuf', TRUE) /\ missed' = FALSE
           ELSE UNCHANGED <<want, ready, nospace, missed>>

(* SendInLoop(buf, size) behind other data; SendInLoop(list), whose nodes  *)
(* are always put into the list.                                           *)
SendQueued(nodes) ==
    /\ iovs' = iovs \o nodes
    /\ EnableWriting(TRUE, sndbuf, FALSE)
    /\ missed' = FALSE
    /\ UNCHANGED <<sndbuf, garbled>>

(* The user sends n units: from a message callback, a write complete       *)
(* callback or a function queued by another thread.                        *)
Send(n) ==
    /\ phase \in {"read", "user"}
    /\ ~closed
    /\ sent + n <= MaxUnits
    /\ \/ SendDirect(n)
       \/ iovs # <<>> /\ SendQueued(<<[base |-> sent + 1, len |-> n]>>)
    /\ sent' = sent + n
    /\ UNCHANGED <<inMsgs, arrived, eof, rst, received, registered, revents,
                   closed, idle, closes, phase>>

(* Send(list) with two nodes. *)
SendList(n, k) ==
    /\ phase \in {"read", "user"}
    /\ ~closed
    /\ sent + n + k <= MaxUnits
    /\ SendQueued(<<[base |-> sent + 1, len |-> n],
                    [base |-> sent + n + 1, len |-> k]>>)
    /\ sent' = sent + n + k
    /\ UNCHANGED <<inMsgs, arrived, eof, rst, received, registered, revents,
                   closed, idle, closes, phase>>

----------------------------------------------------------------------------
(* The loop.                                                               *)

(* epoll_wait collects the descriptor, if it is ready for anything. *)
Poll ==
    /\ phase = "poll"
    /\ ready /\ registered
    /\ ready' = FALSE
    /\ revents' = Readiness(want)
    /\ nospace' = (nospace \/ (want /\ Room = 0))
    /\ phase' = IF revents' = {} THEN "user" ELSE "handle"
    /\ UNCHANGED <<inMsgs, arrived, eof, rst, sndbuf, received, want,
                   registered, conn>>

(* epoll_wait returns without this connection. *)
PollOther ==
    /\ phase = "poll"
    /\ ~ready
    /\ phase' = "user"
    /\ UNCHANGED <<sock, epoll, conn>>

(* ExtendLife: as long as the TimeoutEntry lives it is inserted again. *)
Extended == IF idle > 0 THEN MaxIdle ELSE 0

(* HandleEvent, first branch: OnError. *)
HandleError ==
    /\ phase = "handle"
    /\ "err" \in revents
    /\ CloseIfOpen
    /\ phase' = "user"
    /\ UNCHANGED <<sock, want, revents, iovs, sent, idle, garbled, missed>>

(* HandleEvent, third branch: OnRead.  A write event that came with it is  *)
(* not looked at any more.                                                 *)
HandleRead ==
    /\ phase = "handle"
    /\ "err" \notin revents /\ "in" \in revents
    /\ phase' = IF closed THEN "user" ELSE "read"
    /\ idle' = IF closed THEN idle ELSE Extended
    /\ missed' = (missed \/ "out" \in revents)
    /\ UNCHANGED <<sock, epoll, closed, iovs, sent, closes, garbled>>

(* OnRead: a ReadFd that returns data, and the message callback. *)
ReadMore ==
    /\ phase = "read"
    /\ ~closed /\ ~rst
    /\ inMsgs > 0
    /\ \E n \in 1 .. inMsgs : inMsgs' = inMsgs - n
    /\ UNCHANGED <<arrived, eof, rst, sndbuf, received, nospace, epoll, conn,
                   phase>>

(* Mutant: OnRead stops after one read. *)
ReadEnd_AnyTime ==
    /\ phase = "read"
    /\ phase' = "user"
    /\ IF inMsgs = 0 /\ (eof \/ rst) THEN CloseIfOpen
       ELSE UNCHANGED <<closed, closes, registered, ready>>
    /\ UNCHANGED <<sock, want, revents, iovs, sent, idle, garbled, missed>>

(* OnRead: the ReadFd that ends the loop.  EAGAIN leaves the connection    *)
(* open; 0, an error, and EBADF after a callback closed it call OnClose.   *)
ReadEnd ==
    /\ phase = "read"
    /\ closed \/ rst \/ inMsgs = 0
    /\ IF eof \/ rst THEN CloseIfOpen
       ELSE UNCHANGED <<closed, closes, registered, ready>>
    /\ phase' = "user"
    /\ UNCHANGED <<sock, want, revents, iovs, sent, idle, garbled, missed>>

(* HandleEvent, last branch: OnWrite writes until the list is empty or the *)
(* socket is full.                                                         *)
HandleWrite ==
    LET all == Flat(iovs)
        w == Smaller(Len(all), Room)
    IN  /\ phase = "handle"
        /\ revents = {"out"}
        /\ phase' = "user"
        /\ IF closed THEN UNCHANGED <<sock, epoll, conn>>
           ELSE IF rst /\ iovs # <<>>
           THEN /\ OnClose
                /\ idle' = Extended
                /\ UNCHANGED <<sock, want, revents, iovs, sent, garbled, missed>>
           ELSE /\ idle' = Extended
                /\ sndbuf' = sndbuf \o SubSeq(all, 1, w)
                /\ iovs' = Consume(iovs, w)
                /\ missed' = FALSE
                /\ IF w = Len(all) THEN EnableWriting(FALSE, sndbuf', FALSE)
                   ELSE nospace' = TRUE /\ UNCHANGED <<want, ready>>
                /\ UNCHANGED <<inMsgs, arrived, eof, rst, received, registered,
                               revents, closed, sent, closes, garbled>>

(* User code is done and the wheel does not move. *)
NoTick ==
    /\ phase = "user"
    /\ phase' = "poll"
    /\ UNCHANGED <<sock, epoll, conn>>

(* Mutant: the last slot drops the entry and nothing is called. *)
Tick_NoTimeout ==
    /\ phase = "user"
    /\ idle > 0
    /\ idle' = idle - 1
    /\ phase' = "poll"
    /\ UNCHANGED <<sock, epoll, closed, closes, iovs, sent, garbled, missed>>

(* The wheel moves by one slot.  The TimeoutEntry is dropped when its last *)
(* slot comes up, and OnTimeout closes the connection.                     *)
Tick ==
    /\ phase = "user"
    /\ idle > 0
    /\ idle' = idle - 1
    /\ phase' = "poll"
    /\ IF idle' = 0 THEN CloseIfOpen
       ELSE UNCHANGED <<closed, closes, registered, ready>>
    /\ UNCHANGED <<sock, want, revents, iovs, sent, garbled, missed>>

----------------------------------------------------------------------------
Peer == Arrive \/ PeerShutdown \/ Reset \/ Drain

User ==
    \/ ForceClose
    \/ \E n \in 1 .. MaxSend : Send(n)
    \/ \E n, k \in 1 .. MaxSend : SendList(n, k)

LoopStep ==
    \/ Poll \/ PollOther \/ HandleError \/ HandleRead \/ ReadMore \/ ReadEnd
    \/ HandleWrite \/ NoTick \/ Tick

Next == Peer \/ User \/ LoopStep

SafetySpec == Init /\ [][Next]_vars

(* The loop goes on and the wheel moves.  Nothing is assumed of the user   *)
(* nor of the peer, not even that it reads.                                *)
Fairness == WF_vars(LoopStep) /\ SF_vars(Tick)

Spec == SafetySpec /\ Fairness

----------------------------------------------------------------------------
(* Properties.                                                             *)

(* The peer has got, the kernel holds and the list keeps exactly the units *)
(* the user sent, once each and in order, across direct writes, partial    *)
(* writes and queued iovecs; unless a direct write was refused.            *)
StreamIntact ==
    ~garbled => received \o sndbuf \o Flat(iovs) = [i \in 1 .. sent |-> i]

(* Whenever the loop waits, input or an end of stream it has not seen is   *)
(* on epoll's ready list: no edge is lost by OnRead, although every        *)
(* EnableWriting and every callback runs between its reads.                *)
NoLostReadEdge ==
    (phase = "poll" /\ ~closed /\ (inMsgs > 0 \/ eof \/ rst)) => ready

(* Output that could be written is announced, with one exception: the      *)
(* event was reported together with input, and HandleEvent only read.      *)
NoLostWriteEdge ==
    (phase = "poll" /\ ~closed /\ iovs # <<>> /\ Room > 0 /\ ~missed) => ready

(* While there is unsent output the connection waits for room, and it      *)
(* stops waiting when there is none left (or epoll would report the        *)
(* socket again after every event).                                        *)
WriteInterest == phase = "poll" /\ ~closed => (want <=> iovs # <<>>)

(* A loop that waits for the connection will hear of all it has to do. *)
EdgeInv == NoLostReadEdge /\ NoLostWriteEdge /\ WriteInterest

(* The close callback runs once, and then the channel is out of epoll,     *)
(* whichever of error, end of stream, timeout and ForceClose came first.   *)
CloseOnce ==
    /\ closes = (IF closed THEN 1 ELSE 0)
    /\ registered <=> ~closed

(* Types, and the life cycle of the registration. *)
ConnectionInv == TypeOK /\ CloseOnce

(* A connection with an idle timeout is closed when nothing happens on it  *)
(* any more, also when a write event was missed, a refused write was       *)
(* forgotten or the peer never reads.                                      *)
IdleCloses == idle > 0 ~> closed

(* If the peer keeps reading, output that waits in iovecList_ gets out of  *)
(* it, however the room comes back; unless the connection is closed or a   *)
(* write event came together with input and was dropped.                   *)
OutputDrained ==
    WF_vars(Drain) => (iovs # <<>> ~> (iovs = <<>> \/ closed \/ missed))
============================================================================
