----------------------------- MODULE TcpServer -----------------------------
(***************************************************************************)
(* nest::net::TcpServer with its Acceptor, its connections and the Epoller *)
(* they are registered with, in the thread of one event loop.              *)
(*                                                                         *)
(* Three tables must agree: the kernel's descriptor table, where the       *)
(* lowest free number is given out again as soon as it is closed; the      *)
(* kernel's interest list; and Epoller::channels_, which turns the number  *)
(* in an event into a channel.  They are changed while a batch of polled   *)
(* channels is being handled, by the batch itself: accept, close, the      *)
(* replacement of the listening socket, ForceClose from a callback.        *)
(*                                                                         *)
(* What a connection does with its input and output is TcpConnection.tla;  *)
(* here it reads messages and closes.                                      *)
(***************************************************************************)
EXTENDS Integers, FiniteSets

CONSTANTS
    MaxConns,  \* bound: connections made in a behaviour
    MaxFds,    \* descriptors the process may still open
    MaxMsgs,   \* bound: messages a peer sends
    MaxBacklog,\* SOMAXCONN
    InitEvents \* initial size of Epoller::events_

ASSUME ServerAssumption ==
    /\ MaxConns \in Nat /\ MaxFds \in Nat \ {0} /\ MaxMsgs \in Nat
    /\ MaxBacklog \in Nat \ {0} /\ InitEvents \in Nat \ {0}

None == -1
Acceptor == 0
Conns == 1 .. MaxConns
Channels == {Acceptor} \cup Conns
Fds == 1 .. MaxFds

VARIABLES
    \* the kernel
    owner,     \* the descriptor table: whose file a number is
    interest,  \* numbers in the epoll set
    ready,     \* numbers on epoll's ready list
    backlog,   \* connections that wait to be accepted
    made,      \* connections made by clients so far
    inbox,     \* unread messages of each connection
    gone,      \* connections whose peer has closed
    \* Epoller
    channels_, \* channels_: descriptor -> channel
    events_,   \* events_.size()
    batch,     \* polled channels that are not handled yet
    \* channels and server
    fd_,       \* fd_ of each channel
    isClosed_, \* isClosed_ of each connection
    connections_,
    running,   \* Start was called and Stop was not
    \* the loop
    phase, handling,
    \* histories
    born,      \* connections announced by newConnectionCb_
    destroyed, \* calls of destroyConnectionCb_, per connection
    late       \* a message callback ran for a destroyed connection

kernel == <<owner, interest, ready, backlog, made, inbox, gone>>
epoller == <<channels_, events_, batch>>
server == <<fd_, isClosed_, connections_, running>>
loop == <<phase, handling>>
hist == <<born, destroyed, late>>
vars == <<kernel, epoller, server, loop, hist>>

(* in epoll_wait; between two channels of a batch; inside OnRead of        *)
(* `handling'; inside a callback made by it; running functions and timers  *)
Phases == {"poll", "handle", "read", "callback", "functions"}

TypeOK ==
    /\ owner \in [Fds -> Channels \cup {None}]
    /\ channels_ \in [Fds -> Channels \cup {None}]
    /\ interest \in SUBSET Fds /\ ready \in SUBSET interest
    /\ backlog \in 0 .. MaxBacklog /\ made \in 0 .. MaxConns
    /\ inbox \in [Conns -> 0 .. MaxMsgs] /\ gone \in SUBSET Conns
    /\ events_ \in Nat \ {0} /\ batch \in SUBSET Channels
    /\ fd_ \in [Channels -> Fds \cup {None}]
    /\ isClosed_ \in [Conns -> BOOLEAN]
    /\ connections_ \in SUBSET Conns /\ running \in BOOLEAN
    /\ phase \in Phases /\ handling \in Channels \cup {None}
    /\ born \in SUBSET Conns /\ destroyed \in [Conns -> Nat]
    /\ late \in BOOLEAN

Init ==
    /\ owner = [f \in Fds |-> None] /\ interest = {} /\ ready = {}
    /\ backlog = 0 /\ made = 0
    /\ inbox = [c \in Conns |-> 0] /\ gone = {}
    /\ channels_ = [f \in Fds |-> None] /\ events_ = InitEvents /\ batch = {}
    /\ fd_ = [c \in Channels |-> None] /\ isClosed_ = [c \in Conns |-> FALSE]
    /\ connections_ = {} /\ running = FALSE
    /\ phase = "poll" /\ handling = None
    /\ born = {} /\ destroyed = [c \in Conns |-> 0] /\ late = FALSE

----------------------------------------------------------------------------
(* The kernel.                                                             *)

FreeFds == {f \in Fds : owner[f] = None}

(* socket() and accept4() return the lowest free number. *)
LowestFree == CHOOSE f \in FreeFds : \A g \in FreeFds : f <= g

Listening == fd_[Acceptor] # None

Open(c) == c \in born /\ fd_[c] # None

(* A client connects; the kernel completes it whether or not the acceptor  *)
(* is in the epoll set.                                                    *)
Connect ==
    /\ Listening /\ made < MaxConns /\ backlog < MaxBacklog
    /\ made' = made + 1
    /\ backlog' = backlog + 1
    /\ ready' = ready \cup ({fd_[Acceptor]} \cap interest)
    /\ UNCHANGED <<owner, interest, inbox, gone, epoller, server, loop, hist>>

PeerSend(c) ==
    /\ Open(c) /\ c \notin gone /\ inbox[c] < MaxMsgs
    /\ inbox' = [inbox EXCEPT ![c] = @ + 1]
    /\ ready' = ready \cup ({fd_[c]} \cap interest)
    /\ UNCHANGED <<owner, interest, backlog, made, gone, epoller, server, loop,
                   hist>>

PeerClose(c) ==
    /\ Open(c) /\ c \notin gone
    /\ gone' = gone \cup {c}
    /\ ready' = ready \cup ({fd_[c]} \cap interest)
    /\ UNCHANGED <<owner, interest, backlog, made, inbox, epoller, server, loop,
                   hist>>

----------------------------------------------------------------------------
(* Epoller and the closing of a connection.                                *)

(* Mutant: the channel is found under the number, but not in the epoll set. *)
AddChannel_NoKernel(c, f, pending) ==
    /\ channels_' = [channels_ EXCEPT ![f] = c]
    /\ UNCHANGED <<interest, ready>>

(* AddChannel: nothing happens when the number is in channels_ already. *)
AddChannel(c, f, pending) ==
    IF channels_[f] # None THEN UNCHANGED <<channels_, interest, ready>>
    ELSE /\ channels_' = [channels_ EXCEPT ![f] = c]
         /\ interest' = interest \cup {f}
         /\ ready' = IF pending THEN ready \cup {f} ELSE ready

(* Mutant: the descriptor is not closed. *)
CloseConnection_KeepFd(c) ==
    LET f == fd_[c]
    IN  /\ isClosed_' = [isClosed_ EXCEPT ![c] = TRUE]
        /\ connections_' = connections_ \ {c}
        /\ channels_' = [channels_ EXCEPT ![f] = None]
        /\ interest' = interest \ {f}
        /\ ready' = ready \ {f}
        /\ destroyed' = [destroyed EXCEPT ![c] = @ + 1]
        /\ UNCHANGED <<owner, fd_, backlog, made, inbox, gone, events_, batch,
                       running, born, late>>

(* TcpConnection::OnClose of an open connection: closeCb_, which is        *)
(* OnConnectionClose (connections_.erase, DelChannel, destroyConnectionCb_)*)
(* and then Channel::Close.  It is one step: what destroyConnectionCb_ may *)
(* do, close other connections or stop the server, comes right after it    *)
(* and not before Channel::Close; no number is given out in between.       *)
CloseConnection(c) ==
    LET f == fd_[c]
    IN  /\ isClosed_' = [isClosed_ EXCEPT ![c] = TRUE]
        /\ connections_' = connections_ \ {c}
        /\ channels_' = [channels_ EXCEPT ![f] = None]
        /\ interest' = interest \ {f}
        /\ ready' = ready \ {f}
        /\ destroyed' = [destroyed EXCEPT ![c] = @ + 1]
        /\ owner' = [owner EXCEPT ![f] = None]
        /\ fd_' = [fd_ EXCEPT ![c] = None]
        /\ UNCHANGED <<backlog, made, inbox, gone, events_, batch, running, born,
                       late>>

(* The loop's thread may be in code of a user: in a callback made by        *)
(* `handling', in a queued function, or, between two channels of a batch,  *)
(* in destroyConnectionCb_ of a connection that OnRead has just closed or  *)
(* in a callback of a channel that is not the server's.                    *)
InUserCode == phase \in {"handle", "callback", "functions"}

(* ForceClose of some connection, by a user. *)
ForceClose(c) ==
    /\ InUserCode
    /\ c \in born /\ ~isClosed_[c]
    /\ CloseConnection(c)
    /\ UNCHANGED loop

(* OnTimeout: the wheel drops the TimeoutEntry of an idle connection. *)
IdleTimeout(c) ==
    /\ phase = "functions"
    /\ c \in born /\ ~isClosed_[c]
    /\ CloseConnection(c)
    /\ UNCHANGED loop

----------------------------------------------------------------------------
(* Acceptor.                                                               *)

(* Mutant: Open without AddChannel after the Stop. *)
Reopen_NotAdded ==
    LET old == fd_[Acceptor]
    IN  /\ channels_' = [channels_ EXCEPT ![old] = None]
        /\ interest' = interest \ {old}
        /\ ready' = ready \ {old}
        /\ backlog' = 0
        /\ UNCHANGED <<fd_, owner, made, inbox, gone, events_, batch, isClosed_,
                       connections_, hist>>

(* OnClose is Stop, which takes the channel out of epoll, and Open, which  *)
(* closes the listening socket (its backlog is reset by the kernel), opens *)
(* another one under the lowest free number, registers it and listens.     *)
Reopen ==
    LET old == fd_[Acceptor]
        freed == FreeFds \cup {old}
        f == CHOOSE x \in freed : \A g \in freed : x <= g
    IN  /\ fd_' = [fd_ EXCEPT ![Acceptor] = f]
        /\ owner' = [[owner EXCEPT ![old] = None] EXCEPT ![f] = Acceptor]
        /\ channels_' = [[channels_ EXCEPT ![old] = None] EXCEPT ![f] = Acceptor]
        /\ interest' = (interest \ {old}) \cup {f}
        /\ ready' = ready \ {old}
        /\ backlog' = 0
        /\ UNCHANGED <<made, inbox, gone, events_, batch, isClosed_, connections_,
                       hist>>

(* TcpServer::Start of a server that is not running, in the loop's thread. *)
(* After a Stop the old listening socket is still there and is closed.     *)
Start ==
    /\ phase = "functions"
    /\ ~running
    /\ running' = TRUE
    /\ UNCHANGED loop
    /\ IF Listening THEN Reopen
       ELSE /\ FreeFds # {}
            /\ fd_' = [fd_ EXCEPT ![Acceptor] = LowestFree]
            /\ owner' = [owner EXCEPT ![LowestFree] = Acceptor]
            /\ AddChannel(Acceptor, LowestFree, FALSE)
            /\ UNCHANGED <<backlog, made, inbox, gone, events_, batch, isClosed_,
                           connections_, hist>>

(* TcpServer::Stop: DelChannel and nothing else. *)
Stop ==
    /\ InUserCode
    /\ running
    /\ running' = FALSE
    /\ channels_' = [channels_ EXCEPT ![fd_[Acceptor]] = None]
    /\ interest' = interest \ {fd_[Acceptor]}
    /\ ready' = ready \ {fd_[Acceptor]}
    /\ UNCHANGED <<owner, backlog, made, inbox, gone, events_, batch, fd_,
                   isClosed_, connections_, loop, hist>>

(* The next connection that was not accepted yet. *)
Fresh == CHOOSE c \in Conns \ born : \A d \in Conns \ born : c <= d

(* Acceptor::OnRead accepts a connection and TcpServer::OnAccet sets it    *)
(* up; then newConnectionCb_ runs.  Input may be there already.            *)
OnAccet ==
    /\ phase = "read" /\ handling = Acceptor
    /\ backlog > 0 /\ FreeFds # {}
    /\ LET c == Fresh
           f == LowestFree
       IN  \E n \in 0 .. MaxMsgs, end \in BOOLEAN :
            /\ inbox' = [inbox EXCEPT ![c] = n]
            /\ gone' = IF end THEN gone \cup {c} ELSE gone
            /\ owner' = [owner EXCEPT ![f] = c]
            /\ fd_' = [fd_ EXCEPT ![c] = f]
            /\ connections_' = connections_ \cup {c}
            /\ AddChannel(c, f, n > 0 \/ end)
            /\ born' = born \cup {c}
    /\ backlog' = backlog - 1
    /\ phase' = "callback"
    /\ UNCHANGED <<made, events_, batch, isClosed_, running, handling, destroyed,
                   late>>

(* Mutant: one connection is accepted per event. *)
AcceptDone_Early ==
    /\ phase = "read" /\ handling = Acceptor
    /\ FreeFds # {}
    /\ phase' = "handle" /\ handling' = None
    /\ UNCHANGED <<kernel, epoller, server, hist>>

(* Acceptor::OnRead ends with EAGAIN. *)
AcceptDone ==
    /\ phase = "read" /\ handling = Acceptor
    /\ backlog = 0 /\ FreeFds # {}
    /\ phase' = "handle" /\ handling' = None
    /\ UNCHANGED <<kernel, epoller, server, hist>>

(* Acceptor::OnRead ends with an error other than EINTR and EAGAIN:        *)
(* OnClose, as in OnError.  It is EMFILE whenever descriptors have run out *)
(* (the kernel looks for a descriptor before it looks for a connection),   *)
(* and may be another one (ENFILE, ECONNABORTED, ENOBUFS, ...) at any      *)
(* time.  If the server was stopped by a callback of the same batch, this  *)
(* starts it again.                                                        *)
AcceptFails ==
    /\ phase = "read" /\ handling = Acceptor
    /\ Reopen
    /\ running' = TRUE
    /\ phase' = "handle" /\ handling' = None

----------------------------------------------------------------------------
(* The loop.                                                               *)

(* Epoller::Poll: at most events_.size() ready numbers are collected, each *)
(* is looked up in channels_; a full vector is doubled.                    *)
Poll ==
    /\ phase = "poll"
    /\ \E got \in SUBSET ready :
        /\ Cardinality(got) = IF Cardinality(ready) <= events_
                              THEN Cardinality(ready) ELSE events_
        /\ ready' = ready \ got
        /\ batch' = {channels_[f] : f \in got} \ {None}
        /\ events_' = IF Cardinality(got) = events_ THEN 2 * events_ ELSE events_
    /\ phase' = "handle"
    /\ UNCHANGED <<owner, interest, backlog, made, inbox, gone, channels_, server,
                   handling, hist>>

(* Mutant: isClosed_ is not looked at. *)
Handle_Closed(ch) ==
    /\ phase = "handle" /\ ch \in batch
    /\ batch' = batch \ {ch}
    /\ phase' = IF ch \in Conns /\ isClosed_[ch] THEN "callback" ELSE "read"
    /\ handling' = ch
    /\ late' = (late \/ (ch \in Conns /\ isClosed_[ch]))
    /\ UNCHANGED <<kernel, channels_, events_, server, born, destroyed>>

(* The loop takes a channel of the batch.  The epoll order is any order.   *)
(* OnRead of a connection that was closed meanwhile returns at once.       *)
Handle(ch) ==
    /\ phase = "handle" /\ ch \in batch
    /\ batch' = batch \ {ch}
    /\ IF ch \in Conns /\ isClosed_[ch] THEN UNCHANGED loop
       ELSE phase' = "read" /\ handling' = ch
    /\ UNCHANGED <<kernel, channels_, events_, server, hist>>

(* TcpConnection::OnRead: data, and the message callback. *)
ReadData ==
    /\ phase = "read" /\ handling \in Conns
    /\ ~isClosed_[handling] /\ inbox[handling] > 0
    /\ inbox' = [inbox EXCEPT ![handling] = 0]
    /\ late' = (late \/ destroyed[handling] > 0)
    /\ phase' = "callback"
    /\ UNCHANGED <<owner, interest, ready, backlog, made, gone, epoller, server,
                   handling, born, destroyed>>

(* TcpConnection::OnRead: end of stream, EAGAIN, or EBADF because the      *)
(* callback has closed the connection.                                     *)
ReadEnd ==
    /\ phase = "read" /\ handling \in Conns
    /\ isClosed_[handling] \/ inbox[handling] = 0
    /\ phase' = "handle" /\ handling' = None
    /\ IF handling \in gone /\ ~isClosed_[handling] THEN CloseConnection(handling)
       ELSE UNCHANGED <<kernel, epoller, server, hist>>

(* A callback returns to the OnRead it was made from. *)
CallbackReturns ==
    /\ phase = "callback"
    /\ phase' = "read"
    /\ UNCHANGED <<kernel, epoller, server, handling, hist>>

BatchDone ==
    /\ phase = "handle" /\ batch = {}
    /\ phase' = "functions"
    /\ UNCHANGED <<kernel, epoller, server, handling, hist>>

RoundDone ==
    /\ phase = "functions"
    /\ phase' = "poll"
    /\ UNCHANGED <<kernel, epoller, server, handling, hist>>

----------------------------------------------------------------------------
Peers == Connect \/ \E c \in Conns : PeerSend(c) \/ PeerClose(c)

User == Start \/ Stop \/ \E c \in Conns : ForceClose(c)

LoopStep ==
    \/ Poll \/ (\E ch \in Channels : Handle(ch))
    \/ OnAccet \/ AcceptDone \/ AcceptFails \/ ReadData \/ ReadEnd
    \/ CallbackReturns \/ BatchDone \/ RoundDone

Next == Peers \/ User \/ LoopStep \/ \E c \in Conns : IdleTimeout(c)

SafetySpec == Init /\ [][Next]_vars

(* The thread of the loop goes on. *)
Spec == SafetySpec /\ WF_vars(LoopStep)

----------------------------------------------------------------------------
(* Properties.                                                             *)

(* The three tables agree, in the middle of a batch too: a channel is      *)
(* found under a number exactly when that number is in the epoll set, is   *)
(* open, belongs to this channel, and the channel knows it as its own.     *)
(* So no event reaches a channel that reused or lost its number.           *)
TablesAgree ==
    /\ interest = {f \in Fds : channels_[f] # None}
    /\ \A f \in interest : channels_[f] = owner[f]
    /\ \A f \in Fds : owner[f] # None => fd_[owner[f]] = f
    /\ \A ch \in Channels : fd_[ch] # None => owner[fd_[ch]] = ch

(* Every open descriptor is the listening socket or a connection the       *)
(* server knows, which is registered; what is closed is in no table: no    *)
(* descriptor is leaked by any order of closes.                            *)
NothingLeaked ==
    /\ connections_ = {c \in born : ~isClosed_[c]}
    /\ \A c \in Conns : c \in connections_ <=> fd_[c] # None
    /\ \A c \in connections_ : channels_[fd_[c]] = c

(* destroyConnectionCb_ runs once per connection and no message callback   *)
(* follows it, although the batch still holds the closed channel.          *)
DestroyedOnce ==
    /\ \A c \in Conns : destroyed[c] = IF isClosed_[c] THEN 1 ELSE 0
    /\ ~late

(* While the server runs, clients that wait are announced: whenever the    *)
(* loop is about to poll, a backlog has the listening socket on the ready  *)
(* list, also after it was replaced or the server restarted.               *)
NoLostAccept ==
    /\ running => fd_[Acceptor] \in interest
    /\ (running /\ phase = "poll" /\ backlog > 0) => fd_[Acceptor] \in ready

(* OnRead reads until EAGAIN, so a peer that sends faster than the loop    *)
(* reads keeps it there for ever; what follows is about a loop that comes  *)
(* back to epoll_wait.                                                     *)
LoopPolls == []<>(phase = "poll")

(* A client that waits while the server runs is accepted or reset, also    *)
(* when more channels are ready than fit in events_ and when descriptors   *)
(* run out; provided that no peer keeps the loop in OnRead.                *)
BacklogServed ==
    LoopPolls => ((running /\ backlog > 0) ~> (backlog = 0 \/ ~running))
============================================================================
