-------------------------- MODULE HttpServerProofs --------------------------
(***************************************************************************)
(* Proofs about TcpServer and HttpServer, for every bound on connections,  *)
(* descriptors, messages, backlog and events: the tables of the kernel,    *)
(* the epoller and the server agree, nothing is leaked, a connection is    *)
(* destroyed once, no waiting client is forgotten, and every connection    *)
(* has its context exactly between its announcement and its close.         *)
(*                                                                         *)
(* About what a context posts, for every number of messages: each is       *)
(* answered by one OnSent or OnSentNextChunk, when all of it is out.       *)
(*                                                                         *)
(* And about what it receives, for every message of at most one framing    *)
(* field, every split of its bytes into reads, and all limits of the       *)
(* parser: the handler gets the packet of the message, and gets it.        *)
(***************************************************************************)
EXTENDS HttpServer, HttpContext, FiniteSetTheorems, SequenceTheorems,
        WellFoundedInduction, TLAPS

(* Connections are numbered in the order in which they are accepted, and   *)
(* no more are accepted or wait than were made.                            *)
BirthInv ==
    /\ born = 1 .. Cardinality(born)
    /\ Cardinality(born) + backlog <= made
    /\ \A c \in Conns : isClosed_[c] => c \in born
    /\ (phase = "callback" /\ handling = Acceptor) => born # {}

(* A channel is handled or waits in the batch only after it was opened,    *)
(* and the batch is empty when the loop comes to the functions.            *)
BatchInv ==
    /\ phase \in {"read", "callback"} <=> handling # None
    /\ phase \in {"poll", "functions"} => batch = {}
    /\ (batch \cup {handling}) \cap Conns \subseteq born
    /\ Acceptor \in batch \cup {handling} => Listening

(* A backlog of a running server is known somewhere: to the kernel, in the *)
(* batch, or to the OnRead that is accepting.                              *)
AcceptInv ==
    /\ ~Listening => backlog = 0
    /\ running => Listening /\ fd_[Acceptor] \in interest
    /\ (running /\ backlog > 0) =>
          fd_[Acceptor] \in ready \/ Acceptor \in batch \cup {handling}

IInv ==
    /\ TypeOK /\ TablesAgree /\ NothingLeaked /\ DestroyedOnce
    /\ BirthInv /\ BatchInv /\ AcceptInv

(* What HttpServer adds: a connection that is in `early' is closed. *)
HttpIInv ==
    /\ HttpTypeOK /\ ContextInv
    /\ \A c \in early : isClosed_[c]

----------------------------------------------------------------------------
(* The truth values.  SMT needs to be told when an assignment stores one.   *)
LEMMA Booleans == \A b : b \in BOOLEAN <=> b = TRUE \/ b = FALSE
  OBVIOUS

(* A set of descriptors that is not empty has a lowest one, so the CHOOSE  *)
(* of LowestFree and of Reopen finds it.                                   *)
LEMMA LowestExists ==
    ASSUME NEW S, S \subseteq Fds, S # {},
           NEW f, f = CHOOSE x \in S : \A g \in S : x <= g
    PROVE  f \in S
<1> DEFINE R == {p \in Nat \X Nat : p[1] < p[2]}
<1>1. S \subseteq Nat
  BY ServerAssumption DEF Fds
<1>2. IsWellFoundedOn(R, Nat)
  BY NatLessThanWellFounded, Zenon DEF OpToRel
<1>3. \A x, y \in Nat : <<y, x>> \in R <=> y < x
  OBVIOUS
<1> HIDE DEF R
<1>4. PICK x \in S : \A y \in S : ~ (<<y, x>> \in R)
  BY <1>1, <1>2, WFMin
<1>5. ASSUME NEW y \in S PROVE x <= y
  <2>1. x \in Nat /\ y \in Nat
    BY <1>1
  <2>2. ~ (y < x)
    BY <2>1, <1>3, <1>4
  <2> QED
    BY <2>1, <2>2
<1> QED
  BY <1>5

LEMMA ConnsFinite == \A S \in SUBSET Conns : Cardinality(S) \in Nat
<1>1. IsFiniteSet(Conns)
  BY ServerAssumption, FS_Interval DEF Conns
<1> QED
  BY <1>1, FS_Subset, FS_CardinalityType

(* The next connection is the one after the last. *)
LEMMA FreshIsNext ==
    ASSUME TypeOK, BirthInv, backlog > 0
    PROVE  /\ Fresh = Cardinality(born) + 1
           /\ Fresh \in Conns \ born
           /\ Cardinality(born) \in Nat
           /\ born \cup {Fresh} = 1 .. (Cardinality(born) + 1)
           /\ Cardinality(born \cup {Fresh}) = Cardinality(born) + 1
<1> DEFINE n == Cardinality(born)
<1>1. n \in Nat
  BY ConnsFinite DEF TypeOK
<1> HIDE DEF n
<1>2. n + 1 \in Conns \ born /\ \A d \in Conns \ born : n + 1 <= d
  <2>1. born = 1 .. n /\ n + backlog <= made
    BY DEF BirthInv, n
  <2>2. backlog \in Nat /\ made \in 0 .. MaxConns
    BY ServerAssumption DEF TypeOK
  <2> QED
    BY <1>1, <2>1, <2>2, ServerAssumption DEF Conns
<1>3. \A c \in Conns \ born : (\A d \in Conns \ born : c <= d) => c = n + 1
  BY <1>1, <1>2, ServerAssumption DEF Conns
<1>4. Fresh = n + 1
  BY <1>2, <1>3 DEF Fresh
<1>5. born \cup {Fresh} = 1 .. (n + 1)
  BY <1>1, <1>4 DEF BirthInv, n
<1>6. Cardinality(1 .. (n + 1)) = n + 1
  BY <1>1, FS_Interval
<1> QED
  BY <1>1, <1>2, <1>4, <1>5, <1>6 DEF n

LEMMA ServerInit == Init => IInv
<1> SUFFICES ASSUME Init PROVE IInv
  OBVIOUS
<1>1. TypeOK
  BY ServerAssumption, Booleans
  DEF Init, TypeOK, Channels, Phases, None, Acceptor, Conns
<1>2. TablesAgree /\ NothingLeaked /\ DestroyedOnce
  BY ServerAssumption DEF Init, TablesAgree, NothingLeaked, DestroyedOnce, None, Channels
<1>3. BirthInv
  BY FS_EmptySet DEF Init, BirthInv, None, Acceptor
<1>4. BatchInv /\ AcceptInv
  BY DEF Init, BatchInv, AcceptInv, Listening, None, Acceptor, Conns
<1> QED
  BY <1>1, <1>2, <1>3, <1>4 DEF IInv

----------------------------------------------------------------------------
(* Operations that several actions share. *)

(* Facts that SMT needs about the sets of channels. *)
LEMMA ChannelFacts ==
    /\ Acceptor \in Channels /\ Acceptor \notin Conns /\ Acceptor # None
    /\ Conns \subseteq Channels
    /\ None \notin Channels /\ None \notin Fds /\ None \notin Conns
    /\ Channels = Conns \cup {Acceptor}
  BY ServerAssumption DEF Channels, Conns, Fds, None, Acceptor

(* The numbers of two open channels differ, and so an open connection can  *)
(* be taken out of every table without touching another.                   *)
LEMMA CloseKeepsTables ==
    ASSUME IInv, NEW c \in born, ~isClosed_[c], CloseConnection(c),
           phase' \in Phases, handling' \in Channels \cup {None}
    PROVE  /\ TypeOK' /\ TablesAgree' /\ NothingLeaked' /\ DestroyedOnce'
           /\ fd_'[Acceptor] = fd_[Acceptor]
           /\ Listening' <=> Listening
           /\ fd_[Acceptor] \in interest => fd_[Acceptor] \in interest'
           /\ fd_[Acceptor] \in ready => fd_[Acceptor] \in ready'
<1> DEFINE f == fd_[c]
<1> USE ChannelFacts
<1>1. c \in Conns /\ c \in connections_ /\ f \in Fds /\ owner[f] = c
      /\ channels_[f] = c
  BY DEF IInv, TypeOK, TablesAgree, NothingLeaked
<1>2. /\ isClosed_' = [isClosed_ EXCEPT ![c] = TRUE]
      /\ connections_' = connections_ \ {c}
      /\ channels_' = [channels_ EXCEPT ![f] = None]
      /\ interest' = interest \ {f}
      /\ ready' = ready \ {f}
      /\ destroyed' = [destroyed EXCEPT ![c] = @ + 1]
      /\ owner' = [owner EXCEPT ![f] = None]
      /\ fd_' = [fd_ EXCEPT ![c] = None]
      /\ born' = born /\ late' = late
  BY DEF CloseConnection
<1>3. TypeOK'
  BY <1>1, Booleans DEF IInv, TypeOK, CloseConnection
<1> HIDE DEF f
<1>4. TablesAgree'
  BY <1>1, <1>2 DEF IInv, TypeOK, TablesAgree, f
<1>5. NothingLeaked'
  BY <1>1, <1>2 DEF IInv, TypeOK, TablesAgree, NothingLeaked, f
<1>6. DestroyedOnce'
  BY <1>1, <1>2 DEF IInv, TypeOK, DestroyedOnce
<1>7. /\ fd_'[Acceptor] = fd_[Acceptor]
      /\ fd_[Acceptor] # f
  BY <1>1, <1>2 DEF IInv, TypeOK, TablesAgree, f
<1> QED
  BY <1>2, <1>3, <1>4, <1>5, <1>6, <1>7 DEF Listening

(* The new socket of the acceptor has a number that no connection has. *)
LEMMA ReopenKeepsTables ==
    ASSUME IInv, Listening, Reopen, running' \in BOOLEAN,
           phase' \in Phases, handling' \in Channels \cup {None}
    PROVE  /\ TypeOK' /\ TablesAgree' /\ NothingLeaked' /\ DestroyedOnce'
           /\ Listening' /\ fd_'[Acceptor] \in interest' /\ backlog' = 0
<1> DEFINE old == fd_[Acceptor]
           freed == FreeFds \cup {old}
           f == CHOOSE x \in freed : \A g \in freed : x <= g
<1> USE ChannelFacts
<1>1. old \in Fds /\ owner[old] = Acceptor
  BY DEF IInv, TypeOK, TablesAgree, Listening
<1>2. f \in Fds /\ (owner[f] = None \/ f = old)
  <2>1. freed \subseteq Fds /\ freed # {}
    BY <1>1 DEF FreeFds
  <2>2. f \in freed
    BY <2>1, LowestExists
  <2> QED
    BY <2>1, <2>2 DEF FreeFds
<1>3. /\ fd_' = [fd_ EXCEPT ![Acceptor] = f]
      /\ owner' = [[owner EXCEPT ![old] = None] EXCEPT ![f] = Acceptor]
      /\ channels_' = [[channels_ EXCEPT ![old] = None] EXCEPT ![f] = Acceptor]
      /\ interest' = (interest \ {old}) \cup {f}
      /\ ready' = ready \ {old}
      /\ backlog' = 0
      /\ UNCHANGED <<made, inbox, gone, events_, batch, isClosed_, connections_,
                     hist>>
  BY DEF Reopen
<1> HIDE DEF f, old
<1>4. TypeOK'
  BY <1>1, <1>2, <1>3, ServerAssumption DEF IInv, TypeOK, hist
<1>5. TablesAgree'
  BY <1>1, <1>2, <1>3 DEF IInv, TypeOK, TablesAgree, old
<1>6. NothingLeaked'
  BY <1>1, <1>2, <1>3 DEF IInv, TypeOK, TablesAgree, NothingLeaked, old, hist
<1>7. DestroyedOnce'
  BY <1>3 DEF IInv, DestroyedOnce, hist
<1> QED
  BY <1>2, <1>3, <1>4, <1>5, <1>6, <1>7 DEF Listening, IInv, TypeOK

----------------------------------------------------------------------------
(* The actions. *)

LEMMA ConnectKeeps ==
    ASSUME IInv, Connect
    PROVE  IInv'
<1> USE ChannelFacts DEF Connect, epoller, server, loop, hist
<1>1. TypeOK'
  BY ServerAssumption DEF IInv, TypeOK, Listening
<1>2. TablesAgree' /\ NothingLeaked' /\ DestroyedOnce'
  BY DEF IInv, TablesAgree, NothingLeaked, DestroyedOnce
<1>3. BirthInv'
  <2>1. Cardinality(born) \in Nat
    BY ConnsFinite DEF IInv, TypeOK
  <2> QED
    BY <2>1 DEF IInv, TypeOK, BirthInv
<1>4. BatchInv'
  BY DEF IInv, BatchInv, Listening
<1>5. AcceptInv'
  BY DEF IInv, TypeOK, AcceptInv, Listening
<1> QED
  BY <1>1, <1>2, <1>3, <1>4, <1>5 DEF IInv

LEMMA PeerKeeps ==
    ASSUME IInv, NEW c \in Conns, PeerSend(c) \/ PeerClose(c)
    PROVE  IInv'
<1> USE ChannelFacts DEF PeerSend, PeerClose, epoller, server, loop, hist
<1>1. TypeOK'
  BY ServerAssumption DEF IInv, TypeOK, Open
<1>2. TablesAgree' /\ NothingLeaked' /\ DestroyedOnce'
  BY DEF IInv, TablesAgree, NothingLeaked, DestroyedOnce
<1>3. BirthInv' /\ BatchInv'
  BY DEF IInv, BirthInv, BatchInv, Listening
<1>4. AcceptInv'
  BY DEF IInv, AcceptInv, Listening
<1> QED
  BY <1>1, <1>2, <1>3, <1>4 DEF IInv

LEMMA CloseKeeps ==
    ASSUME IInv, NEW c \in Conns, ForceClose(c) \/ IdleTimeout(c)
    PROVE  IInv'
<1>1. c \in born /\ ~isClosed_[c] /\ CloseConnection(c) /\ UNCHANGED loop
  BY DEF ForceClose, IdleTimeout
<1>2. phase' \in Phases /\ handling' \in Channels \cup {None}
  BY <1>1 DEF IInv, TypeOK, loop
<1>3. /\ TypeOK' /\ TablesAgree' /\ NothingLeaked' /\ DestroyedOnce'
      /\ fd_'[Acceptor] = fd_[Acceptor]
      /\ Listening' <=> Listening
      /\ fd_[Acceptor] \in interest => fd_[Acceptor] \in interest'
      /\ fd_[Acceptor] \in ready => fd_[Acceptor] \in ready'
  BY <1>1, <1>2, CloseKeepsTables
<1>4. UNCHANGED <<born, backlog, made, running, batch, phase, handling>>
      /\ isClosed_' = [isClosed_ EXCEPT ![c] = TRUE]
  BY <1>1 DEF CloseConnection, loop
<1>5. BirthInv' /\ BatchInv'
  BY <1>1, <1>3, <1>4 DEF IInv, TypeOK, BirthInv, BatchInv
<1>6. AcceptInv'
  BY <1>3, <1>4 DEF IInv, AcceptInv
<1> QED
  BY <1>3, <1>5, <1>6 DEF IInv

LEMMA StartKeeps ==
    ASSUME IInv, Start
    PROVE  IInv'
<1> USE ChannelFacts
<1>1. phase = "functions" /\ ~running /\ running' = TRUE /\ UNCHANGED loop
  BY DEF Start
<1>2. phase' \in Phases /\ handling' \in Channels \cup {None} /\ running' \in BOOLEAN
  BY <1>1, Booleans DEF IInv, TypeOK, loop
<1>3. CASE Listening
  <2>1. Reopen
    BY <1>3 DEF Start
  <2>2. /\ TypeOK' /\ TablesAgree' /\ NothingLeaked' /\ DestroyedOnce'
        /\ Listening' /\ fd_'[Acceptor] \in interest' /\ backlog' = 0
    BY <1>2, <1>3, <2>1, ReopenKeepsTables
  <2>3. UNCHANGED <<made, batch, isClosed_, born, phase, handling>>
    BY <1>1, <2>1 DEF Reopen, hist, loop
  <2>4. BirthInv' /\ BatchInv'
    <3>1. Cardinality(born) \in Nat
      BY ConnsFinite DEF IInv, TypeOK
    <3>2. Cardinality(born) + 0 <= made
      BY <3>1 DEF IInv, TypeOK, BirthInv
    <3> QED
      BY <2>2, <2>3, <3>2 DEF IInv, BirthInv, BatchInv
  <2>5. AcceptInv'
    BY <2>2, <2>3 DEF AcceptInv
  <2> QED
    BY <2>2, <2>4, <2>5 DEF IInv
<1>4. CASE ~Listening
  <2> DEFINE f == LowestFree
  <2>1. f \in Fds /\ owner[f] = None
    <3>1. FreeFds \subseteq Fds /\ FreeFds # {}
      BY <1>4 DEF FreeFds, Start
    <3>2. f \in FreeFds
      BY <3>1, LowestExists DEF LowestFree
    <3> QED
      BY <3>2 DEF FreeFds
  <2>2. fd_[Acceptor] = None
    BY <1>4 DEF Listening
  <2>3. channels_[f] = None
    BY <2>1 DEF IInv, TypeOK, TablesAgree
  <2>4. /\ fd_' = [fd_ EXCEPT ![Acceptor] = f]
        /\ owner' = [owner EXCEPT ![f] = Acceptor]
        /\ channels_' = [channels_ EXCEPT ![f] = Acceptor]
        /\ interest' = interest \cup {f}
        /\ ready' = ready
        /\ UNCHANGED <<backlog, made, inbox, gone, events_, batch, isClosed_,
                       connections_, hist>>
    BY <1>4, <2>3 DEF Start, AddChannel
  <2> HIDE DEF f
  <2>5. TypeOK'
    BY <1>2, <2>1, <2>4 DEF IInv, TypeOK, hist
  <2>6. TablesAgree'
    BY <2>1, <2>2, <2>3, <2>4 DEF IInv, TypeOK, TablesAgree
  <2>7. NothingLeaked' /\ DestroyedOnce'
    BY <2>1, <2>2, <2>3, <2>4
    DEF IInv, TypeOK, TablesAgree, NothingLeaked, DestroyedOnce, hist
  <2>8. Listening' /\ fd_'[Acceptor] \in interest'
    BY <2>1, <2>4 DEF IInv, TypeOK, Listening
  <2>9. BirthInv' /\ BatchInv'
    BY <1>1, <2>4, <2>8 DEF IInv, TypeOK, BirthInv, BatchInv, hist, loop
  <2>10. AcceptInv'
    BY <1>4, <2>4, <2>8 DEF IInv, AcceptInv
  <2> QED
    BY <2>5, <2>6, <2>7, <2>9, <2>10 DEF IInv
<1> QED
  BY <1>3, <1>4

LEMMA StopKeeps ==
    ASSUME IInv, Stop
    PROVE  IInv'
<1> DEFINE f == fd_[Acceptor]
<1> USE ChannelFacts
<1>1. f \in Fds /\ f \in interest /\ channels_[f] = Acceptor /\ owner[f] = Acceptor
  BY DEF Stop, IInv, TypeOK, TablesAgree, AcceptInv
<1>2. /\ running' = FALSE
      /\ channels_' = [channels_ EXCEPT ![f] = None]
      /\ interest' = interest \ {f}
      /\ ready' = ready \ {f}
      /\ UNCHANGED <<owner, backlog, made, inbox, gone, events_, batch, fd_,
                     isClosed_, connections_, loop, hist>>
  BY DEF Stop
<1>3. TypeOK'
  BY <1>1, <1>2, Booleans DEF IInv, TypeOK, loop, hist
<1>4. TablesAgree' /\ NothingLeaked' /\ DestroyedOnce'
  BY <1>1, <1>2
  DEF IInv, TypeOK, TablesAgree, NothingLeaked, DestroyedOnce, hist
<1>5. BirthInv' /\ BatchInv' /\ AcceptInv'
  BY <1>2 DEF IInv, BirthInv, BatchInv, AcceptInv, Listening, loop, hist
<1> QED
  BY <1>3, <1>4, <1>5 DEF IInv

LEMMA OnAccetKeeps ==
    ASSUME IInv, OnAccet
    PROVE  IInv'
<1> DEFINE c == Fresh
           f == LowestFree
<1> USE ChannelFacts
<1>1. f \in Fds /\ owner[f] = None
  <2>1. FreeFds \subseteq Fds /\ FreeFds # {}
    BY DEF FreeFds, OnAccet
  <2>2. f \in FreeFds
    BY <2>1, LowestExists DEF LowestFree
  <2> QED
    BY <2>2 DEF FreeFds
<1>2. backlog > 0 /\ phase = "read" /\ handling = Acceptor
  BY DEF OnAccet
<1>3. /\ c = Cardinality(born) + 1
      /\ c \in Conns \ born
      /\ Cardinality(born) \in Nat
      /\ born \cup {c} = 1 .. (Cardinality(born) + 1)
      /\ Cardinality(born \cup {c}) = Cardinality(born) + 1
  BY <1>2, FreshIsNext DEF IInv
<1>4. channels_[f] = None /\ fd_[c] = None /\ ~isClosed_[c] /\ c \notin connections_
  BY <1>1, <1>3 DEF IInv, TypeOK, TablesAgree, NothingLeaked, BirthInv
<1>5. PICK n \in 0 .. MaxMsgs, end \in BOOLEAN :
            /\ inbox' = [inbox EXCEPT ![c] = n]
            /\ gone' = IF end THEN gone \cup {c} ELSE gone
            /\ owner' = [owner EXCEPT ![f] = c]
            /\ fd_' = [fd_ EXCEPT ![c] = f]
            /\ connections_' = connections_ \cup {c}
            /\ AddChannel(c, f, n > 0 \/ end)
            /\ born' = born \cup {c}
  BY Zenon DEF OnAccet
<1>6. /\ channels_' = [channels_ EXCEPT ![f] = c]
      /\ interest' = interest \cup {f}
      /\ ready' = ready \cup {f} \/ ready' = ready
  BY <1>4, <1>5 DEF AddChannel
<1>7. /\ backlog' = backlog - 1 /\ phase' = "callback"
      /\ UNCHANGED <<made, events_, batch, isClosed_, running, handling, destroyed,
                     late>>
  BY DEF OnAccet
<1> HIDE DEF c, f
<1>8. TypeOK'
  <2>1. gone' \in SUBSET Conns
    BY <1>3, <1>5 DEF IInv, TypeOK
  <2>2. ready' \in SUBSET interest' /\ interest' \in SUBSET Fds
    BY <1>1, <1>6 DEF IInv, TypeOK
  <2>3. backlog' \in 0 .. MaxBacklog /\ phase' \in Phases
    BY <1>2, <1>7, ServerAssumption DEF IInv, TypeOK, Phases
  <2> QED
    BY <1>1, <1>3, <1>5, <1>6, <1>7, <2>1, <2>2, <2>3 DEF IInv, TypeOK
<1>9. TablesAgree'
  BY <1>1, <1>3, <1>4, <1>5, <1>6 DEF IInv, TypeOK, TablesAgree
<1>10. NothingLeaked'
  BY <1>1, <1>3, <1>4, <1>5, <1>6, <1>7 DEF IInv, TypeOK, TablesAgree, NothingLeaked
<1>11. DestroyedOnce'
  BY <1>7 DEF IInv, DestroyedOnce
<1>12. BirthInv'
  <2>1. born' = 1 .. Cardinality(born')
    BY <1>3, <1>5
  <2>2. Cardinality(born') + backlog' <= made'
    BY <1>3, <1>5, <1>7 DEF IInv, TypeOK, BirthInv
  <2>3. /\ \A d \in Conns : isClosed_'[d] => d \in born'
        /\ born' # {}
    BY <1>5, <1>7 DEF IInv, BirthInv
  <2> QED
    BY <2>1, <2>2, <2>3 DEF BirthInv
<1>13. fd_'[Acceptor] = fd_[Acceptor]
  BY <1>3, <1>5 DEF IInv, TypeOK
<1>14. BatchInv'
  BY <1>2, <1>5, <1>7, <1>13 DEF IInv, BatchInv, Listening
<1>15. AcceptInv'
  BY <1>2, <1>6, <1>7, <1>13 DEF IInv, BatchInv, AcceptInv, Listening
<1> QED
  BY <1>8, <1>9, <1>10, <1>11, <1>12, <1>14, <1>15 DEF IInv

LEMMA AcceptEndsKeeps ==
    ASSUME IInv, AcceptDone \/ AcceptFails
    PROVE  IInv'
<1> USE ChannelFacts
<1>1. CASE AcceptDone
  <2> USE <1>1 DEF AcceptDone, kernel, epoller, server, hist
  <2>1. TypeOK'
    BY DEF IInv, TypeOK, Phases
  <2>2. TablesAgree' /\ NothingLeaked' /\ DestroyedOnce'
    BY DEF IInv, TablesAgree, NothingLeaked, DestroyedOnce
  <2>3. BirthInv' /\ BatchInv' /\ AcceptInv'
    BY DEF IInv, BirthInv, BatchInv, AcceptInv, Listening
  <2> QED
    BY <2>1, <2>2, <2>3 DEF IInv
<1>2. CASE AcceptFails
  <2>1. /\ phase = "read" /\ handling = Acceptor /\ phase' = "handle"
        /\ handling' = None /\ running' = TRUE /\ Reopen
    BY <1>2 DEF AcceptFails
  <2>2. Listening
    BY <2>1 DEF IInv, BatchInv
  <2>3. phase' \in Phases /\ handling' \in Channels \cup {None}
        /\ running' \in BOOLEAN
    BY <2>1, Booleans DEF Phases
  <2>4. /\ TypeOK' /\ TablesAgree' /\ NothingLeaked' /\ DestroyedOnce'
        /\ Listening' /\ fd_'[Acceptor] \in interest' /\ backlog' = 0
    BY <2>1, <2>2, <2>3, ReopenKeepsTables
  <2>5. UNCHANGED <<made, batch, isClosed_, born>>
    BY <2>1 DEF Reopen, hist
  <2>6. Cardinality(born) + 0 <= made
    <3>1. Cardinality(born) \in Nat
      BY ConnsFinite DEF IInv, TypeOK
    <3> QED
      BY <3>1 DEF IInv, TypeOK, BirthInv
  <2>7. BirthInv'
    BY <2>1, <2>4, <2>5, <2>6 DEF IInv, BirthInv
  <2>8. BatchInv' /\ AcceptInv'
    BY <2>1, <2>4, <2>5 DEF IInv, BatchInv, AcceptInv
  <2> QED
    BY <2>4, <2>7, <2>8 DEF IInv
<1> QED
  BY <1>1, <1>2

LEMMA PollKeeps ==
    ASSUME IInv, Poll
    PROVE  IInv'
<1> USE ChannelFacts
<1>1. PICK got \in SUBSET ready :
        /\ ready' = ready \ got
        /\ batch' = {channels_[f] : f \in got} \ {None}
        /\ events_' = IF Cardinality(got) = events_ THEN 2 * events_ ELSE events_
  BY DEF Poll
<1>2. /\ phase = "poll" /\ phase' = "handle"
      /\ UNCHANGED <<owner, interest, backlog, made, inbox, gone, channels_, server,
                      handling, hist>>
  BY DEF Poll
<1> USE DEF server, hist
<1>3. \A ch \in batch' : ch \in Channels /\ fd_[ch] # None
  BY <1>1 DEF IInv, TypeOK, TablesAgree
<1>4. TypeOK'
  <2>1. events_' \in Nat \ {0}
    BY <1>1 DEF IInv, TypeOK
  <2> QED
    BY <1>1, <1>2, <1>3, <2>1 DEF IInv, TypeOK, Phases
<1>5. TablesAgree' /\ NothingLeaked' /\ DestroyedOnce' /\ BirthInv'
  BY <1>2 DEF IInv, TablesAgree, NothingLeaked, DestroyedOnce, BirthInv
<1>6. BatchInv'
  BY <1>2, <1>3 DEF IInv, BatchInv, NothingLeaked, Listening
<1>7. AcceptInv'
  <2>1. CASE fd_[Acceptor] \in got
    <3>1. channels_[fd_[Acceptor]] = Acceptor
      BY <2>1 DEF IInv, TypeOK, TablesAgree
    <3> QED
      BY <1>1, <1>2, <2>1, <3>1 DEF IInv, AcceptInv, Listening
  <2>2. CASE fd_[Acceptor] \notin got
    BY <1>1, <1>2, <2>2 DEF IInv, BatchInv, AcceptInv, Listening
  <2> QED
    BY <2>1, <2>2
<1> QED
  BY <1>4, <1>5, <1>6, <1>7 DEF IInv

LEMMA HandleKeeps ==
    ASSUME IInv, NEW ch \in Channels, Handle(ch)
    PROVE  IInv'
<1> USE ChannelFacts DEF kernel, server, hist
<1>1. /\ phase = "handle" /\ ch \in batch /\ batch' = batch \ {ch}
      /\ \/ ch \in Conns /\ isClosed_[ch] /\ phase' = phase /\ handling' = handling
         \/ (ch \in Conns => ~isClosed_[ch]) /\ phase' = "read" /\ handling' = ch
      /\ UNCHANGED <<kernel, channels_, events_, server, hist>>
  BY DEF Handle, loop
<1>2. TypeOK'
  BY <1>1 DEF IInv, TypeOK, Phases
<1>3. TablesAgree' /\ NothingLeaked' /\ DestroyedOnce'
  BY <1>1 DEF IInv, TablesAgree, NothingLeaked, DestroyedOnce
<1>4. BirthInv' /\ BatchInv' /\ AcceptInv'
  BY <1>1 DEF IInv, BirthInv, BatchInv, AcceptInv, Listening
<1> QED
  BY <1>2, <1>3, <1>4 DEF IInv

LEMMA ReadDataKeeps ==
    ASSUME IInv, ReadData
    PROVE  IInv'
<1> USE ChannelFacts DEF ReadData, epoller, server
<1>1. late' = FALSE
  BY DEF IInv, DestroyedOnce, TypeOK
<1>2. TypeOK'
  BY <1>1, ServerAssumption, Booleans DEF IInv, TypeOK, Phases
<1>3. TablesAgree' /\ NothingLeaked' /\ DestroyedOnce'
  BY <1>1 DEF IInv, TablesAgree, NothingLeaked, DestroyedOnce
<1>4. BirthInv' /\ BatchInv' /\ AcceptInv'
  BY DEF IInv, BirthInv, BatchInv, AcceptInv, Listening
<1> QED
  BY <1>2, <1>3, <1>4 DEF IInv

LEMMA ReadEndKeeps ==
    ASSUME IInv, ReadEnd
    PROVE  IInv'
<1> USE ChannelFacts
<1>1. /\ phase = "read" /\ handling \in Conns
      /\ phase' = "handle" /\ handling' = None
  BY DEF ReadEnd
<1>2. CASE handling \in gone /\ ~isClosed_[handling]
  <2>1. CloseConnection(handling)
    BY <1>2 DEF ReadEnd
  <2>2. handling \in born
    BY <1>1 DEF IInv, BatchInv
  <2>3. phase' \in Phases /\ handling' \in Channels \cup {None}
    BY <1>1 DEF Phases
  <2>4. /\ TypeOK' /\ TablesAgree' /\ NothingLeaked' /\ DestroyedOnce'
        /\ fd_'[Acceptor] = fd_[Acceptor]
        /\ Listening' <=> Listening
        /\ fd_[Acceptor] \in interest => fd_[Acceptor] \in interest'
        /\ fd_[Acceptor] \in ready => fd_[Acceptor] \in ready'
    BY <1>2, <2>1, <2>2, <2>3, CloseKeepsTables
  <2>5. UNCHANGED <<born, backlog, made, running, batch>>
        /\ isClosed_' = [isClosed_ EXCEPT ![handling] = TRUE]
    BY <2>1 DEF CloseConnection
  <2>6. BirthInv' /\ BatchInv'
    BY <1>1, <2>2, <2>4, <2>5 DEF IInv, TypeOK, BirthInv, BatchInv
  <2>7. AcceptInv'
    BY <1>1, <2>4, <2>5 DEF IInv, AcceptInv
  <2> QED
    BY <2>4, <2>6, <2>7 DEF IInv
<1>3. CASE ~(handling \in gone /\ ~isClosed_[handling])
  <2>1. UNCHANGED <<kernel, epoller, server, hist>>
    BY <1>3 DEF ReadEnd
  <2> USE <1>1, <2>1 DEF kernel, epoller, server, hist
  <2>2. TypeOK'
    BY DEF IInv, TypeOK, Phases
  <2>3. TablesAgree' /\ NothingLeaked' /\ DestroyedOnce'
    BY DEF IInv, TablesAgree, NothingLeaked, DestroyedOnce
  <2>4. BirthInv' /\ BatchInv' /\ AcceptInv'
    BY DEF IInv, BirthInv, BatchInv, AcceptInv, Listening
  <2> QED
    BY <2>2, <2>3, <2>4 DEF IInv
<1> QED
  BY <1>2, <1>3

LEMMA PhaseKeeps ==
    ASSUME IInv, CallbackReturns \/ BatchDone \/ RoundDone
    PROVE  IInv'
<1> USE ChannelFacts
    DEF CallbackReturns, BatchDone, RoundDone, kernel, epoller, server, hist
<1>1. TypeOK'
  BY DEF IInv, TypeOK, Phases
<1>2. TablesAgree' /\ NothingLeaked' /\ DestroyedOnce'
  BY DEF IInv, TablesAgree, NothingLeaked, DestroyedOnce
<1>3. BirthInv' /\ BatchInv' /\ AcceptInv'
  BY DEF IInv, BirthInv, BatchInv, AcceptInv, Listening
<1> QED
  BY <1>1, <1>2, <1>3 DEF IInv

LEMMA StutterKeeps ==
    ASSUME IInv, UNCHANGED vars
    PROVE  IInv'
  BY DEF vars, kernel, epoller, server, loop, hist, IInv, TypeOK, TablesAgree,
      NothingLeaked, DestroyedOnce, BirthInv, BatchInv, AcceptInv, Listening

(* Every step of server, epoller and peers keeps the strengthened          *)
(* invariant: tables, batch, numbering of connections and backlog.         *)
THEOREM ServerInvariance == SafetySpec => []IInv
<1>1. IInv /\ [Next]_vars => IInv'
  <2> SUFFICES ASSUME IInv, [Next]_vars PROVE IInv'
    OBVIOUS
  <2> QED
    BY ConnectKeeps, PeerKeeps, CloseKeeps, StartKeeps, StopKeeps, OnAccetKeeps,
       AcceptEndsKeeps, PollKeeps, HandleKeeps, ReadDataKeeps, ReadEndKeeps,
       PhaseKeeps, StutterKeeps
    DEF Next, Peers, User, LoopStep
<1> QED
  BY <1>1, ServerInit, PTL DEF SafetySpec

(* The descriptor table, the interest list and channels_ agree in every    *)
(* reachable state of the TcpServer.                                       *)
THEOREM TablesCorrect == SafetySpec => [](TypeOK /\ TablesAgree)
<1>1. IInv => TypeOK /\ TablesAgree
  BY DEF IInv
<1> QED
  BY <1>1, ServerInvariance, PTL

(* No descriptor is leaked by any order of accepts and closes.             *)
THEOREM LeakCorrect == SafetySpec => []NothingLeaked
<1>1. IInv => NothingLeaked
  BY DEF IInv
<1> QED
  BY <1>1, ServerInvariance, PTL

(* destroyConnectionCb_ runs once per closed connection and no message     *)
(* callback follows it.                                                    *)
THEOREM DestroyCorrect == SafetySpec => []DestroyedOnce
<1>1. IInv => DestroyedOnce
  BY DEF IInv
<1> QED
  BY <1>1, ServerInvariance, PTL

(* A running server is told of every client that waits.                    *)
THEOREM AcceptCorrect == SafetySpec => []NoLostAccept
<1>1. IInv => NoLostAccept
  BY ChannelFacts DEF IInv, BatchInv, AcceptInv, NoLostAccept
<1> QED
  BY <1>1, ServerInvariance, PTL

----------------------------------------------------------------------------
(* HttpServer. *)

(* What a step can do to the connections, as far as the contexts depend on *)
(* it: no connection is opened again, ...                                  *)
LEMMA ClosedStays ==
    ASSUME IInv, Next, NEW d \in Conns, isClosed_[d]
    PROVE  isClosed_'[d]
<1> USE DEF IInv, TypeOK
<1>1. CASE Peers
  BY <1>1 DEF Peers, Connect, PeerSend, PeerClose, server
<1>2. CASE User \/ \E c \in Conns : IdleTimeout(c)
  BY <1>2, ZenonT(40) DEF User, Start, Stop, Reopen, ForceClose, IdleTimeout, CloseConnection
<1>3. CASE OnAccet \/ AcceptFails
  BY <1>3 DEF OnAccet, AcceptFails, Reopen
<1>4. CASE ReadEnd
  BY <1>4 DEF ReadEnd, CloseConnection, server
<1>5. CASE \E ch \in Channels : Handle(ch)
  BY <1>5 DEF Handle, server
<1>6. CASE Poll \/ AcceptDone \/ ReadData \/ CallbackReturns \/ BatchDone \/ RoundDone
  BY <1>6 DEF Poll, AcceptDone, ReadData, CallbackReturns, BatchDone, RoundDone, server
<1> QED
  BY <1>1, <1>2, <1>3, <1>4, <1>5, <1>6 DEF Next, LoopStep

(* ... one is announced by OnAccet and by nothing else, ...                *)
LEMMA AnnouncedByOnAccet ==
    ASSUME IInv, Next, ~OnAccet
    PROVE  /\ born' = born
           /\ (phase' = "callback" /\ handling' = Acceptor)
                 => (phase = "callback" /\ handling = Acceptor)
<1> USE ChannelFacts
<1>1. CASE Peers
  BY <1>1 DEF Peers, Connect, PeerSend, PeerClose, hist, loop
<1>2. CASE User \/ \E c \in Conns : IdleTimeout(c)
  BY <1>2 DEF User, Start, Stop, Reopen, ForceClose, IdleTimeout, CloseConnection,
              hist, loop
<1>3. CASE AcceptFails
  BY <1>3 DEF AcceptFails, Reopen, hist
<1>4. CASE ReadEnd
  BY <1>4 DEF ReadEnd, CloseConnection, hist
<1>5. CASE \E ch \in Channels : Handle(ch)
  BY <1>5 DEF Handle, hist, loop
<1>6. CASE Poll \/ AcceptDone \/ ReadData \/ CallbackReturns \/ BatchDone \/ RoundDone
  BY <1>6 DEF Poll, AcceptDone, ReadData, CallbackReturns, BatchDone, RoundDone, hist
<1> QED
  BY <1>1, <1>2, <1>3, <1>4, <1>5, <1>6 DEF Next, LoopStep

(* ... a callback is left by its return, which closes nothing, and a       *)
(* message callback runs for an open connection.                           *)
LEMMA CallbackBoundaries ==
    ASSUME IInv, Next
    PROVE  /\ (phase = "callback" /\ phase' # "callback") => CallbackReturns
           /\ (phase = "read" /\ phase' = "callback" /\ handling \in Conns)
                 => ReadData
           /\ (phase = "callback" /\ phase' = "callback") => handling' = handling
<1> USE ChannelFacts
<1>1. CASE Peers
  BY <1>1 DEF Peers, Connect, PeerSend, PeerClose, loop
<1>2. CASE User \/ \E c \in Conns : IdleTimeout(c)
  BY <1>2 DEF User, Start, Stop, ForceClose, IdleTimeout, loop
<1>3. CASE OnAccet \/ AcceptFails
  BY <1>3 DEF OnAccet, AcceptFails
<1>4. CASE ReadEnd
  BY <1>4 DEF ReadEnd
<1>5. CASE \E ch \in Channels : Handle(ch)
  BY <1>5 DEF Handle
<1>6. CASE Poll \/ AcceptDone \/ ReadData \/ CallbackReturns \/ BatchDone \/ RoundDone
  BY <1>6 DEF Poll, AcceptDone, ReadData, CallbackReturns, BatchDone, RoundDone
<1> QED
  BY <1>1, <1>2, <1>3, <1>4, <1>5, <1>6 DEF Next, LoopStep

(* destroyConnectionCb_ runs in the step that closes the connection.       *)
LEMMA ClosingCloses ==
    ASSUME IInv, IInv', Next
    PROVE  Closing = {c \in Conns : isClosed_'[c] /\ ~isClosed_[c]}
<1>1. \A c \in Conns : destroyed'[c] > destroyed[c] <=> isClosed_'[c] /\ ~isClosed_[c]
  BY ClosedStays DEF IInv, TypeOK, DestroyedOnce
<1> QED
  BY <1>1 DEF Closing

(* Every step keeps the contexts where they belong.                        *)
LEMMA ContextStep ==
    ASSUME IInv, IInv', HttpIInv, HttpNext
    PROVE  HttpIInv'
<1> USE ChannelFacts
<1>1. Next /\ Callbacks
  BY DEF HttpNext
<1>2. Closing = {c \in Conns : isClosed_'[c] /\ ~isClosed_[c]}
  BY <1>1, ClosingCloses
<1>3. /\ connections_ = {c \in born : ~isClosed_[c]}
      /\ connections_' = {c \in born' : ~isClosed_'[c]}
      /\ born \subseteq Conns /\ born' \subseteq Conns
  BY DEF IInv, TypeOK, NothingLeaked
<1>4. \A c \in Conns : isClosed_[c] => isClosed_'[c]
  BY <1>1, ClosedStays
<1>5. /\ context = (connections_ \ Announced) \cup early /\ unserved = {}
      /\ early \subseteq Conns /\ \A c \in early : isClosed_[c]
  BY DEF HttpIInv, HttpTypeOK, ContextInv
<1>6. Announced \subseteq born /\ Announced' \subseteq born'
  <2>1. Cardinality(born) \in Nat /\ Cardinality(born') \in Nat
    BY <1>3, ConnsFinite
  <2> QED
    BY <2>1 DEF Announced, IInv, BirthInv
<1>7. unserved' = {}
  <2>1. ASSUME handling \in Conns, phase = "read", phase' = "callback"
        PROVE  handling \in context
    <3>1. ReadData
      BY <1>1, <2>1, CallbackBoundaries
    <3>2. handling \in connections_
      BY <1>3, <2>1, <3>1 DEF ReadData, IInv, BatchInv
    <3> QED
      BY <1>5, <2>1, <3>2 DEF Announced
  <2> QED
    BY <1>1, <1>5, <2>1 DEF Callbacks, OnMessage
<1>8. CASE OnAccet
  <2>1. /\ phase = "read" /\ phase' = "callback"
        /\ handling = Acceptor /\ handling' = Acceptor
        /\ backlog > 0
        /\ UNCHANGED <<isClosed_>>
        /\ born' = born \cup {Fresh}
    BY <1>8 DEF OnAccet
  <2>2. /\ Fresh \in Conns \ born
        /\ Fresh = Cardinality(born) + 1
        /\ Cardinality(born') = Cardinality(born) + 1
    BY <2>1, FreshIsNext DEF IInv
  <2>3. Announced = {} /\ Announced' = {Fresh}
    BY <2>1, <2>2 DEF Announced
  <2>4. context' = context /\ early' = early
    BY <1>1, <1>2, <2>1, <2>3 DEF Callbacks, OtherCallbacks, OnDestroyed
  <2>5. ~isClosed_[Fresh]
    BY <2>2 DEF IInv, BirthInv
  <2>6. connections_' = connections_ \cup {Fresh} /\ Fresh \notin connections_
    BY <1>3, <2>1, <2>2, <2>5
  <2>7. ContextInv'
    BY <1>5, <1>7, <2>3, <2>4, <2>6 DEF ContextInv
  <2>8. \A c \in early' : isClosed_'[c]
    BY <1>5, <2>1, <2>4
  <2>9. HttpTypeOK'
    BY <1>3, <1>5, <1>7, <2>4, <2>6 DEF HttpTypeOK
  <2> QED
    BY <2>7, <2>8, <2>9 DEF HttpIInv
<1>9. CASE ~OnAccet
  <2>1. /\ born' = born
        /\ (phase' = "callback" /\ handling' = Acceptor)
                 => (phase = "callback" /\ handling = Acceptor)
    BY <1>1, <1>9, AnnouncedByOnAccet
  <2>2. connections_' = connections_ \ Closing
    BY <1>2, <1>3, <1>4, <2>1
  <2>3. CASE Announced # {} /\ phase' # "callback"
    <3>1. CallbackReturns
      BY <1>1, <2>3, CallbackBoundaries DEF Announced
    <3>2. isClosed_' = isClosed_ /\ phase' = "read" /\ connections_' = connections_
      BY <3>1 DEF CallbackReturns, server
    <3>3. /\ context' = context \cup Announced
          /\ early' = early \cup {c \in Announced : isClosed_[c]}
      BY <1>1, <2>3 DEF Callbacks, OtherCallbacks, OnNewConnection
    <3>4. Announced' = {}
      BY <3>2 DEF Announced
    <3>5. context' = connections_ \cup early'
      BY <1>3, <1>5, <1>6, <3>3
    <3>6. ContextInv'
      BY <1>7, <3>2, <3>4, <3>5 DEF ContextInv
    <3>7. \A c \in early' : isClosed_'[c]
      BY <1>5, <3>2, <3>3
    <3>8. HttpTypeOK'
      BY <1>3, <1>5, <1>6, <1>7, <3>3, <3>5 DEF HttpTypeOK
    <3> QED
      BY <3>6, <3>7, <3>8 DEF HttpIInv
  <2>4. CASE Announced = {} \/ phase' = "callback"
    <3>1. context' = context \ Closing /\ early' = early
      <4>1. CASE Announced = {}
        BY <1>1, <4>1 DEF Callbacks, OtherCallbacks, OnDestroyed
      <4>2. CASE phase' = "callback"
        BY <1>1, <4>2 DEF Callbacks, OtherCallbacks, OnDestroyed, OnNewConnection
      <4> QED
        BY <2>4, <4>1, <4>2
    <3>2. Announced' \subseteq Announced /\ (Announced' = {} => Announced = {})
      <4>1. CASE Announced = {}
        BY <2>1, <4>1 DEF Announced
      <4>2. CASE Announced # {}
        <5>1. phase = "callback" /\ handling = Acceptor /\ phase' = "callback"
          BY <2>4, <4>2 DEF Announced
        <5>2. handling' = Acceptor
          BY <1>1, <5>1, CallbackBoundaries
        <5> QED
          BY <2>1, <5>1, <5>2 DEF Announced
      <4> QED
        BY <4>1, <4>2
    <3>3. Announced' = Announced
      BY <2>1, <3>2 DEF Announced
    <3>4. context' = (connections_' \ Announced') \cup early'
      BY <1>2, <1>5, <2>2, <3>1, <3>3
    <3>5. ContextInv'
      BY <1>7, <3>4 DEF ContextInv
    <3>6. \A c \in early' : isClosed_'[c]
      BY <1>4, <1>5, <3>1
    <3>7. HttpTypeOK'
      BY <1>3, <1>5, <1>7, <3>1, <3>4 DEF HttpTypeOK
    <3> QED
      BY <3>5, <3>6, <3>7 DEF HttpIInv
  <2> QED
    BY <2>3, <2>4
<1> QED
  BY <1>8, <1>9

LEMMA HttpServerInit == HttpInit => HttpIInv
  BY DEF HttpInit, Init, HttpIInv, HttpTypeOK, ContextInv

(* The HTTP server uses its TcpServer as that one allows. *)
THEOREM HttpServerUsesTcpServer == HttpSpec => SafetySpec
<1>1. HttpInit => Init
  BY DEF HttpInit
<1>2. [HttpNext]_httpVars => [Next]_vars
  BY DEF HttpNext, httpVars
<1> QED
  BY <1>1, <1>2, PTL DEF HttpSpec, SafetySpec

(* The invariants of the server and of its contexts hold together after    *)
(* every callback of HttpServer.                                           *)
THEOREM HttpServerInvariance == HttpSpec => [](IInv /\ HttpIInv)
<1>1. IInv /\ IInv' /\ HttpIInv /\ [HttpNext]_httpVars => HttpIInv'
  <2>1. ASSUME IInv, IInv', HttpIInv, HttpNext PROVE HttpIInv'
    BY <2>1, ContextStep
  <2>2. ASSUME HttpIInv, UNCHANGED httpVars PROVE HttpIInv'
    BY <2>2
    DEF httpVars, vars, kernel, epoller, server, loop, hist, HttpIInv, HttpTypeOK,
        ContextInv, Announced
  <2> QED
    BY <2>1, <2>2
<1>2. HttpSpec => []IInv
  BY HttpServerUsesTcpServer, ServerInvariance, PTL
<1> QED
  BY <1>1, <1>2, HttpServerInit, PTL DEF HttpSpec

(* Every connection of an HTTP server has its context exactly between its  *)
(* announcement and its close, except one closed in its own announcement;  *)
(* so no message is left unparsed.                                         *)
THEOREM ContextCorrect == HttpSpec => []ContextInv
<1>1. HttpIInv => ContextInv
  BY DEF HttpIInv
<1> QED
  BY <1>1, HttpServerInvariance, PTL

(* Descriptor table, interest list and channels_ of an HTTP server agree   *)
(* after every step, in the middle of a batch and of a callback too.       *)
THEOREM ServerCorrect == HttpSpec => []ServerInv
<1>1. IInv /\ HttpIInv => ServerInv
  BY DEF IInv, HttpIInv, ServerInv
<1> QED
  BY <1>1, HttpServerInvariance, PTL

----------------------------------------------------------------------------
(* HttpContext: posting. *)

Vectors == [in : {"header", "packet", "constant"}, piece : Pieces]

(* The sending half of ContextTypeOK. *)
PostingTypes ==
    /\ closed \in BOOLEAN /\ dropped \in BOOLEAN /\ postState \in PostStates
    /\ header \in Pieces /\ outPacket \in Pieces
    /\ queue \in Seq(Vectors) /\ stack \in Seq(Frames)
    /\ posts \in 0 .. MaxPosts /\ posted \in Seq(Pieces) /\ wire \in Seq(Pieces)

(* WriteComplete is called with nothing left in the queue, and nobody else *)
(* goes on before it returns.                                              *)
CompleteInv ==
    /\ \A i \in 2 .. Len(stack) : stack[i] # "complete"
    /\ In("complete") => queue = <<>>

(* A message underway has a piece in the queue, or WriteComplete is called.*)
UnderwayInv ==
    (~dropped /\ ~closed /\ postState # "Init") => queue # <<>> \/ In("complete")

OwedInv ==
    /\ owed \in 0 .. posts
    /\ ~dropped => /\ owed = IF postState = "Init" THEN 0 ELSE 1
                   /\ postState \notin {"ChunkHeader", "HttpStreamHeader"}
                   /\ postState \in {"HttpHeader", "ChunkLen"} => outPacket # NoPiece

(* What was posted is what was written, what is queued, and the packet     *)
(* that follows a header or a chunk length.                                *)
PiecesOf(q) == [i \in 1 .. Len(q) |-> q[i].piece]
Rest == IF postState \in {"HttpHeader", "ChunkLen"} THEN <<outPacket>> ELSE <<>>
PiecesInv == Clean => posted = (wire \o PiecesOf(queue)) \o Rest

PostingInv == PostingTypes /\ CompleteInv /\ UnderwayInv /\ OwedInv /\ PiecesInv

(* A call is made, or returns. *)
LEMMA CallStack ==
    ASSUME NEW f \in Frames, NEW calls \in Seq(Frames)
    PROVE  /\ <<f>> \o calls \in Seq(Frames) /\ <<f>> \o calls # <<>>
           /\ Len(<<f>> \o calls) = Len(calls) + 1
           /\ Head(<<f>> \o calls) = f
           /\ (\A i \in 1 .. Len(calls) : calls[i] # "complete")
                 => \A i \in 2 .. Len(<<f>> \o calls) : (<<f>> \o calls)[i] # "complete"
<1>1. <<f>> \in Seq(Frames) /\ Len(<<f>>) = 1 /\ <<f>>[1] = f
  OBVIOUS
<1>2. PICK s : s = <<f>> \o calls
  OBVIOUS
<1>3. /\ s \in Seq(Frames) /\ Len(s) = Len(calls) + 1
      /\ \A i \in 1 .. Len(s) : s[i] = IF i <= 1 THEN <<f>>[i] ELSE calls[i - 1]
  BY <1>1, <1>2, ConcatProperties
<1>4. s # <<>> /\ Head(s) = f
  BY <1>1, <1>3
<1>5. ASSUME \A i \in 1 .. Len(calls) : calls[i] # "complete", NEW i \in 2 .. Len(s)
      PROVE  s[i] # "complete"
  BY <1>3, <1>5
<1> QED
  BY <1>2, <1>3, <1>4, <1>5

LEMMA ReturnStack ==
    ASSUME NEW calls \in Seq(Frames), calls # <<>>,
           \A i \in 2 .. Len(calls) : calls[i] # "complete"
    PROVE  /\ Tail(calls) \in Seq(Frames) /\ Len(Tail(calls)) = Len(calls) - 1
           /\ \A i \in 1 .. Len(Tail(calls)) : Tail(calls)[i] # "complete"
           /\ \A i \in 2 .. Len(Tail(calls)) : Tail(calls)[i] # "complete"
           /\ Tail(calls) # <<>> => Head(Tail(calls)) # "complete"
<1>1. PICK s : s = Tail(calls)
  OBVIOUS
<1>2. /\ s \in Seq(Frames) /\ Len(s) = Len(calls) - 1 /\ Len(calls) \in Nat \ {0}
      /\ \A i \in 1 .. Len(s) : s[i] = calls[i + 1]
  BY <1>1, EmptySeq
<1>3. \A i \in 1 .. Len(s) : s[i] # "complete"
  BY <1>2
<1>4. s # <<>> => Head(s) = s[1] /\ 1 \in 1 .. Len(s)
  BY <1>2, EmptySeq
<1> QED
  BY <1>1, <1>2, <1>3, <1>4

LEMMA PiecesFacts ==
    ASSUME NEW q \in Seq(Vectors)
    PROVE  /\ PiecesOf(q) \in Seq(Pieces) /\ Len(PiecesOf(q)) = Len(q)
           /\ \A v \in Vectors : PiecesOf(Append(q, v)) = Append(PiecesOf(q), v.piece)
           /\ q = <<>> => PiecesOf(q) = <<>>
<1>1. \A i \in 1 .. Len(q) : q[i].piece \in Pieces
  <2>1. \A i \in 1 .. Len(q) : q[i] \in Vectors
    OBVIOUS
  <2>2. \A v \in Vectors : v.piece \in Pieces
    BY DEF Vectors
  <2> QED
    BY <2>1, <2>2
<1>2. PiecesOf(q) \in Seq(Pieces) /\ Len(PiecesOf(q)) = Len(q)
  BY <1>1 DEF PiecesOf
<1>3. ASSUME NEW v \in Vectors
      PROVE  PiecesOf(Append(q, v)) = Append(PiecesOf(q), v.piece)
  <2>1. PICK a : a = Append(q, v)
    OBVIOUS
  <2>2. /\ a \in Seq(Vectors) /\ Len(a) = Len(q) + 1 /\ Len(q) \in Nat
        /\ \A i \in 1 .. Len(a) : a[i] = IF i <= Len(q) THEN q[i] ELSE v
    BY <2>1
  <2>3. PICK b : b = Append(PiecesOf(q), v.piece)
    OBVIOUS
  <2>4. v.piece \in Pieces
    BY DEF Vectors
  <2>5. /\ b \in Seq(Pieces) /\ Len(b) = Len(q) + 1
        /\ \A i \in 1 .. Len(b) : b[i] = IF i <= Len(q) THEN PiecesOf(q)[i] ELSE v.piece
    BY <1>2, <2>3, <2>4
  <2>6. \A i \in 1 .. Len(q) : PiecesOf(q)[i] = q[i].piece
    BY DEF PiecesOf
  <2>7. b = [i \in 1 .. Len(a) |-> a[i].piece]
    BY <2>2, <2>5, <2>6
  <2> QED
    BY <2>1, <2>3, <2>7 DEF PiecesOf
<1>4. q = <<>> => PiecesOf(q) = <<>>
  BY <1>2, EmptySeq
<1> QED
  BY <1>2, <1>3, <1>4

(* What Send does with a piece, unless the connection is closed. *)
LEMMA SendFacts ==
    ASSUME PostingTypes, NEW in \in {"header", "packet", "constant"}, NEW piece \in Pieces,
           NEW calls \in Seq(Frames), \A i \in 1 .. Len(calls) : calls[i] # "complete",
           Send(in, piece, calls)
    PROVE  /\ queue' \in Seq(Vectors) /\ stack' \in Seq(Frames) /\ wire' \in Seq(Pieces)
           /\ CompleteInv'
           /\ ~closed => queue' # <<>> \/ In("complete")'
           /\ \A i \in 1 .. Len(wire) : i \in 1 .. Len(wire') /\ wire'[i] = wire[i]
           /\ ~closed /\ piece # NoPiece =>
                 wire' \o PiecesOf(queue') = Append(wire \o PiecesOf(queue), piece)
<1>1. queue \in Seq(Vectors) /\ wire \in Seq(Pieces) /\ closed \in BOOLEAN
  BY DEF PostingTypes
<1>2. "complete" \in Frames
  BY DEF Frames
<1>3. calls # <<>> => Head(calls) # "complete"
  <2>1. calls # <<>> => Head(calls) = calls[1] /\ 1 \in 1 .. Len(calls)
    BY EmptySeq
  <2> QED
    BY <2>1
<1>4. \A i \in 2 .. Len(calls) : calls[i] # "complete"
  OBVIOUS
<1>5. ASSUME closed, stack' = calls, queue' = queue, wire' = wire
      PROVE  /\ queue' \in Seq(Vectors) /\ stack' \in Seq(Frames) /\ wire' \in Seq(Pieces)
             /\ CompleteInv'
             /\ \A i \in 1 .. Len(wire) : i \in 1 .. Len(wire') /\ wire'[i] = wire[i]
  BY <1>1, <1>3, <1>4, <1>5 DEF CompleteInv, In
<1>6. ASSUME queue = <<>>, wire' = (IF piece = NoPiece THEN wire ELSE Append(wire, piece)),
             stack' = <<"complete">> \o calls, queue' = queue
      PROVE  /\ queue' \in Seq(Vectors) /\ stack' \in Seq(Frames) /\ wire' \in Seq(Pieces)
             /\ CompleteInv' /\ In("complete")'
             /\ \A i \in 1 .. Len(wire) : i \in 1 .. Len(wire') /\ wire'[i] = wire[i]
             /\ piece # NoPiece =>
                   wire' \o PiecesOf(queue') = Append(wire \o PiecesOf(queue), piece)
  <2>1. /\ stack' \in Seq(Frames) /\ stack' # <<>> /\ Head(stack') = "complete"
        /\ \A i \in 2 .. Len(stack') : stack'[i] # "complete"
    BY <1>2, <1>6, CallStack
  <2>2. /\ wire' \in Seq(Pieces)
        /\ \A i \in 1 .. Len(wire) : i \in 1 .. Len(wire') /\ wire'[i] = wire[i]
    <3>1. CASE piece = NoPiece
      BY <1>1, <1>6, <3>1
    <3>2. CASE piece # NoPiece
      BY <1>1, <1>6, <3>2, AppendProperties
    <3> QED
      BY <3>1, <3>2
  <2>3. PiecesOf(queue) = <<>> /\ PiecesOf(queue') = <<>>
    BY <1>1, <1>6, PiecesFacts
  <2>4. wire' \o <<>> = wire' /\ wire \o <<>> = wire
    BY <1>1, <2>2, ConcatEmptySeq
  <2> QED
    BY <1>1, <1>6, <2>1, <2>2, <2>3, <2>4 DEF CompleteInv, In
<1>7. ASSUME piece # NoPiece, queue' = Append(queue, [in |-> in, piece |-> piece]),
             stack' = calls, wire' = wire
      PROVE  /\ queue' \in Seq(Vectors) /\ stack' \in Seq(Frames) /\ wire' \in Seq(Pieces)
             /\ CompleteInv' /\ queue' # <<>>
             /\ \A i \in 1 .. Len(wire) : i \in 1 .. Len(wire') /\ wire'[i] = wire[i]
             /\ wire' \o PiecesOf(queue') = Append(wire \o PiecesOf(queue), piece)
  <2>1. [in |-> in, piece |-> piece] \in Vectors
    BY DEF Vectors
  <2>2. queue' \in Seq(Vectors) /\ queue' # <<>>
    BY <1>1, <1>7, <2>1, AppendProperties
  <2>3. PiecesOf(queue') = Append(PiecesOf(queue), piece) /\ PiecesOf(queue) \in Seq(Pieces)
    BY <1>1, <1>7, <2>1, PiecesFacts
  <2>4. wire \o Append(PiecesOf(queue), piece) = Append(wire \o PiecesOf(queue), piece)
    BY <1>1, <2>3
  <2> QED
    BY <1>1, <1>3, <1>4, <1>7, <2>2, <2>3, <2>4 DEF CompleteInv, In
<1>8. ASSUME queue # <<>>, piece = NoPiece, stack' = calls, queue' = queue, wire' = wire
      PROVE  /\ queue' \in Seq(Vectors) /\ stack' \in Seq(Frames) /\ wire' \in Seq(Pieces)
             /\ CompleteInv' /\ queue' # <<>>
             /\ \A i \in 1 .. Len(wire) : i \in 1 .. Len(wire') /\ wire'[i] = wire[i]
  BY <1>1, <1>3, <1>4, <1>8 DEF CompleteInv, In
<1>9. \/ closed /\ stack' = calls /\ queue' = queue /\ wire' = wire
      \/ /\ queue = <<>> /\ wire' = (IF piece = NoPiece THEN wire ELSE Append(wire, piece))
         /\ stack' = <<"complete">> \o calls /\ queue' = queue
      \/ /\ piece # NoPiece /\ queue' = Append(queue, [in |-> in, piece |-> piece])
         /\ stack' = calls /\ wire' = wire
      \/ queue # <<>> /\ piece = NoPiece /\ stack' = calls /\ queue' = queue /\ wire' = wire
  BY DEF Send
<1> QED
  BY <1>5, <1>6, <1>7, <1>8, <1>9

LEMMA ConcatAt ==
    ASSUME NEW S, NEW x \in Seq(S), NEW y \in Seq(S), NEW z, z = x \o y
    PROVE  /\ z \in Seq(S) /\ Len(z) = Len(x) + Len(y)
           /\ \A i \in 1 .. Len(z) : z[i] = IF i <= Len(x) THEN x[i] ELSE y[i - Len(x)]
  BY ConcatProperties

(* OnWrite has written the first n pieces of q behind x, each as it was     *)
(* queued or Lost: t is what it wrote, y is x with t, and r is the rest.    *)
Written(q, n, x, t, r, y) ==
    /\ t \in Seq(Pieces) /\ Len(t) = n
    /\ \A i \in 1 .. n : t[i] = q[i].piece \/ t[i] = Lost
    /\ r \in Seq(Vectors) /\ Len(r) = Len(q) - n
    /\ \A i \in 1 .. Len(r) : r[i] = q[n + i]
    /\ y \in Seq(Pieces) /\ Len(y) = Len(x) + n
    /\ \A i \in 1 .. Len(y) : y[i] = IF i <= Len(x) THEN x[i] ELSE t[i - Len(x)]

LEMMA WrittenFacts ==
    ASSUME NEW q \in Seq(Vectors), NEW n \in 1 .. Len(q), NEW x \in Seq(Pieces),
           NEW t, NEW r, NEW y, Written(q, n, x, t, r, y)
    PROVE  /\ (n # Len(q) => r # <<>>) /\ (n = Len(q) => r = <<>>)
           /\ \A i \in 1 .. Len(x) : i \in 1 .. Len(y) /\ y[i] = x[i]
           /\ (\A i \in 1 .. Len(y) : y[i] # Lost) =>
                 y \o PiecesOf(r) = x \o PiecesOf(q)
<1>1. Len(q) \in Nat /\ Len(x) \in Nat /\ n \in Nat /\ n <= Len(q) /\ \A i \in 1 .. Len(q) : q[i] \in Vectors
  OBVIOUS
<1>2. /\ y \in Seq(Pieces) /\ Len(y) = Len(x) + n
      /\ \A i \in 1 .. Len(y) : y[i] = IF i <= Len(x) THEN x[i] ELSE t[i - Len(x)]
  BY DEF Written
<1>3. /\ r \in Seq(Vectors) /\ Len(r) = Len(q) - n
      /\ \A i \in 1 .. Len(r) : r[i] = q[n + i]
  BY DEF Written
<1>4. (n # Len(q) => r # <<>>) /\ (n = Len(q) => r = <<>>)
  BY <1>1, <1>3, EmptySeq
<1>5. ASSUME \A i \in 1 .. Len(y) : y[i] # Lost
       PROVE  y \o PiecesOf(r) = x \o PiecesOf(q)
  <2>1. \A i \in 1 .. n : t[i] = q[i].piece
    <3> SUFFICES ASSUME NEW i \in 1 .. n PROVE t[i] = q[i].piece
      OBVIOUS
    <3>1. Len(x) + i \in 1 .. Len(y) /\ y[Len(x) + i] = t[i]
      <4>1. PICK k : k = Len(x) + i
        OBVIOUS
      <4>2. k \in 1 .. Len(y) /\ ~(k <= Len(x)) /\ k - Len(x) = i
        BY <1>1, <1>2, <4>1
      <4>3. y[k] = t[k - Len(x)]
        BY <1>2, <4>2
      <4> QED
        BY <4>1, <4>2, <4>3
    <3>2. t[i] # Lost
      BY <1>5, <3>1
    <3> QED
      BY <3>2 DEF Written
  <2>2. PICK a, b : a = PiecesOf(q) /\ b = PiecesOf(r)
    OBVIOUS
  <2>3. /\ a \in Seq(Pieces) /\ Len(a) = Len(q) /\ \A i \in 1 .. Len(q) : a[i] = q[i].piece
        /\ b \in Seq(Pieces) /\ Len(b) = Len(r) /\ \A i \in 1 .. Len(r) : b[i] = r[i].piece
    BY <1>3, <2>2, PiecesFacts DEF PiecesOf
  <2>4. PICK u, v : u = y \o b /\ v = x \o a
    OBVIOUS
  <2>5. /\ u \in Seq(Pieces) /\ Len(u) = Len(y) + Len(b)
        /\ \A i \in 1 .. Len(u) : u[i] = IF i <= Len(y) THEN y[i] ELSE b[i - Len(y)]
    <3>1. y \in Seq(Pieces) /\ b \in Seq(Pieces) /\ u = y \o b
      BY <1>2, <2>3, <2>4
    <3> QED
      BY <3>1, ConcatAt
  <2>6. /\ v \in Seq(Pieces) /\ Len(v) = Len(x) + Len(a)
        /\ \A i \in 1 .. Len(v) : v[i] = IF i <= Len(x) THEN x[i] ELSE a[i - Len(x)]
    <3>1. a \in Seq(Pieces) /\ v = x \o a
      BY <2>3, <2>4
    <3> QED
      BY <3>1, ConcatAt
  <2>7. Len(u) = Len(v) /\ Len(x) \in Nat
    BY <1>1, <1>2, <1>3, <2>3, <2>5, <2>6
  <2>8. ASSUME NEW i \in 1 .. Len(u) PROVE u[i] = v[i]
    <3>1. CASE i <= Len(x)
      <4>1. i <= Len(y)
        BY <1>1, <1>2, <2>7, <3>1
      <4>2. u[i] = y[i] /\ v[i] = x[i] /\ y[i] = x[i]
        BY <1>1, <1>2, <2>5, <2>6, <2>7, <3>1, <4>1
      <4> QED
        BY <4>2
    <3>2. CASE i > Len(x) /\ i <= Len(x) + n
      <4>1. i - Len(x) \in 1 .. n /\ i \in 1 .. Len(y)
        BY <1>1, <1>2, <2>7, <3>2
      <4>2. u[i] = t[i - Len(x)]
        BY <1>1, <1>2, <2>5, <3>2, <4>1
      <4>3. v[i] = a[i - Len(x)]
        BY <2>6, <2>7, <3>2
      <4> QED
        BY <1>1, <2>1, <2>3, <4>1, <4>2, <4>3
    <3>3. CASE i > Len(x) + n
      <4>1. i - Len(y) \in 1 .. Len(r) /\ ~(i <= Len(y)) /\ ~(i <= Len(x))
        BY <1>1, <1>2, <1>3, <2>3, <2>5, <2>7, <3>3
      <4>2. u[i] = b[i - Len(y)] /\ v[i] = a[i - Len(x)]
        BY <2>5, <2>6, <2>7, <4>1
      <4>3. i - Len(x) = n + (i - Len(y)) /\ i - Len(x) \in 1 .. Len(q)
        BY <1>1, <1>2, <1>3, <2>7, <4>1
      <4> QED
        BY <1>3, <2>3, <4>1, <4>2, <4>3
    <3> QED
      BY <1>1, <2>7, <3>1, <3>2, <3>3
  <2>9. u = v
    BY <2>5, <2>6, <2>7, <2>8, SeqEqual
  <2> QED
    BY <2>2, <2>4, <2>9
<1>6. ASSUME NEW i \in 1 .. Len(x) PROVE i \in 1 .. Len(y) /\ y[i] = x[i]
  <2>1. i \in 1 .. Len(y) /\ i <= Len(x)
    BY <1>1, <1>2
  <2> QED
    BY <1>2, <2>1
<1> QED
  BY <1>4, <1>5, <1>6

(* A new piece is one of the bounded pieces, and not the empty one. *)
LEMMA PieceFacts ==
    ASSUME PostingTypes, posts < MaxPosts, NEW part \in Parts
    PROVE  Piece(part) \in Pieces /\ Piece(part) # NoPiece /\ posts + 1 \in 0 .. MaxPosts
<1>1. posts + 1 \in 1 .. MaxPosts /\ posts + 1 # 0
  BY ContextAssumption DEF PostingTypes
<1>2. Piece(part) \in Pieces
  BY <1>1 DEF Piece, Pieces
<1>3. Piece(part) # NoPiece
  BY <1>1 DEF Piece, NoPiece
<1> QED
  BY <1>1, <1>2, <1>3

(* What is only added to the written pieces cannot make the run clean. *)
LEMMA CleanBefore ==
    ASSUME dropped' = FALSE => dropped = FALSE, closed' = FALSE => closed = FALSE,
           PostingTypes, dropped' \in BOOLEAN, closed' \in BOOLEAN,
           \A i \in 1 .. Len(wire) : i \in 1 .. Len(wire') /\ wire'[i] = wire[i],
           Clean'
    PROVE  Clean
<1>1. ~dropped' /\ ~closed' /\ \A i \in 1 .. Len(wire') : wire'[i] # Lost
  BY DEF Clean
<1>2. ~dropped /\ ~closed
  BY <1>1 DEF PostingTypes
<1>3. \A i \in 1 .. Len(wire) : wire[i] # Lost
  BY <1>1
<1> QED
  BY <1>2, <1>3 DEF Clean

(* A handler that posts is not called from a WriteComplete in progress.    *)
LEMMA PostingStack ==
    ASSUME PostingTypes, CompleteInv, MayPost
    PROVE  \A i \in 1 .. Len(stack) : stack[i] # "complete"
<1> SUFFICES ASSUME NEW i \in 1 .. Len(stack) PROVE stack[i] # "complete"
  OBVIOUS
<1>1. stack \in Seq(Frames) /\ stack # <<>>
  BY EmptySeq DEF PostingTypes
<1>2. Head(stack) = stack[1] /\ Head(stack) \in {"request", "sent", "next"}
  BY <1>1 DEF MayPost, In
<1>3. CASE i = 1
  BY <1>2, <1>3
<1>4. CASE i # 1
  <2>1. i \in 2 .. Len(stack)
    BY <1>1, <1>4
  <2> QED
    BY <2>1 DEF CompleteInv
<1> QED
  BY <1>3, <1>4

(* A Post function of a message that begins with the given piece. *)
LEMMA PostedKeeps ==
    ASSUME PostingInv, MayPost,
           NEW in \in {"header", "packet", "constant"},
           NEW piece \in Pieces \ {NoPiece}, Send(in, piece, stack),
           dropped' = dropped, header' \in Pieces, outPacket' \in Pieces,
           postState' \in PostStates \ {"ChunkHeader", "HttpStreamHeader"},
           postState' \in {"HttpHeader", "ChunkLen"} => outPacket' # NoPiece,
           owed' = (IF postState' = "Init" THEN owed ELSE owed + 1),
           posted' \in Seq(Pieces), posted' = Append(posted, piece) \o Rest'
    PROVE  PostingInv'
<1>1. /\ postState = "Init" /\ posts < MaxPosts /\ posts' = posts + 1 /\ closed' = closed
      /\ PostingTypes /\ CompleteInv /\ OwedInv /\ PiecesInv
  BY DEF MayPost, receiving, PostingInv
<1>2. \A i \in 1 .. Len(stack) : stack[i] # "complete"
  BY <1>1, PostingStack
<1>3. /\ queue' \in Seq(Vectors) /\ stack' \in Seq(Frames) /\ wire' \in Seq(Pieces)
      /\ CompleteInv'
      /\ ~closed => queue' # <<>> \/ In("complete")'
      /\ \A i \in 1 .. Len(wire) : i \in 1 .. Len(wire') /\ wire'[i] = wire[i]
      /\ ~closed => wire' \o PiecesOf(queue') = Append(wire \o PiecesOf(queue), piece)
  <2>1. stack \in Seq(Frames)
    BY <1>1 DEF PostingTypes
  <2> QED
    BY <1>1, <1>2, <2>1, SendFacts
<1>4. PostingTypes'
  BY <1>1, <1>3, ContextAssumption DEF PostingTypes
<1>5. UnderwayInv'
  BY <1>1, <1>3 DEF UnderwayInv
<1>6. OwedInv'
  <2>1. owed \in 0 .. posts /\ posts \in Nat /\ (~dropped => owed = 0)
    BY <1>1 DEF OwedInv, PostingTypes
  <2>2. owed' \in 0 .. posts'
    BY <1>1, <2>1
  <2>3. ~dropped => owed' = IF postState' = "Init" THEN 0 ELSE 1
    BY <2>1
  <2> QED
    BY <2>2, <2>3 DEF OwedInv
<1>7. PiecesInv'
  <2> SUFFICES ASSUME Clean' PROVE posted' = (wire' \o PiecesOf(queue')) \o Rest'
    BY DEF PiecesInv
  <2>1. Clean
    BY <1>1, <1>3, <1>4, CleanBefore DEF PostingTypes
  <2>2. posted = (wire \o PiecesOf(queue)) \o Rest /\ Rest = <<>> /\ ~closed
    BY <1>1, <2>1 DEF PiecesInv, Rest, Clean
  <2>3. wire \o PiecesOf(queue) \in Seq(Pieces)
    BY <1>1, PiecesFacts, ConcatProperties DEF PostingTypes
  <2>4. posted = wire \o PiecesOf(queue)
    BY <2>2, <2>3, ConcatEmptySeq
  <2> QED
    BY <1>3, <2>2, <2>4
<1> QED
  BY <1>3, <1>4, <1>5, <1>6, <1>7 DEF PostingInv

LEMMA PostKeeps ==
    ASSUME PostingInv, Post
    PROVE  PostingInv'
<1>1. MayPost /\ posts < MaxPosts /\ PostingTypes
  BY DEF Post, PostRequest, PostHeaderAndPacket, PostStreamHeader, PostChunk,
         PostStreamChunk, PostHeaderInstead, PostEofChunk, MayPost, PostingInv
<1>2. /\ Piece("head") \in Pieces \ {NoPiece} /\ Piece("len") \in Pieces \ {NoPiece}
      /\ Piece("data") \in Pieces \ {NoPiece} /\ Piece("eof") \in Pieces \ {NoPiece}
  BY <1>1, PieceFacts DEF Parts
<1>3. postState = "Init"
  BY <1>1 DEF MayPost
<1>4. \A p \in Pieces :
         /\ Append(posted, p) \in Seq(Pieces) /\ Append(posted, p) \o <<>> = Append(posted, p)
         /\ \A q \in Pieces : /\ posted \o <<p, q>> \in Seq(Pieces)
                              /\ posted \o <<p, q>> = Append(posted, p) \o <<q>>
  BY <1>1, AppendProperties, ConcatEmptySeq DEF PostingTypes
<1>5. header \in Pieces /\ outPacket \in Pieces
  BY <1>1 DEF PostingTypes
<1>6. CASE PostRequest
  <2>1. Rest' = <<>>
    BY <1>6 DEF PostRequest, Rest
  <2> QED
    BY <1>1, <1>2, <1>4, <1>5, <1>6, <2>1, PostedKeeps DEF PostRequest, PostStates
<1>7. CASE PostHeaderAndPacket
  <2>1. Rest' = <<Piece("data")>>
    BY <1>7 DEF PostHeaderAndPacket, Rest
  <2> QED
    BY <1>1, <1>2, <1>4, <1>5, <1>7, <2>1, PostedKeeps DEF PostHeaderAndPacket, PostStates
<1>8. CASE PostStreamHeader
  <2>1. Rest' = <<>>
    BY <1>3, <1>8 DEF PostStreamHeader, Rest
  <2> QED
    BY <1>1, <1>2, <1>3, <1>4, <1>5, <1>8, <2>1, PostedKeeps DEF PostStreamHeader, PostStates
<1>9. CASE PostChunk
  <2>1. Rest' = <<Piece("data")>>
    BY <1>9 DEF PostChunk, Rest
  <2> QED
    BY <1>1, <1>2, <1>4, <1>5, <1>9, <2>1, PostedKeeps DEF PostChunk, PostStates
<1>10. CASE PostStreamChunk
  <2>1. Rest' = <<>>
    BY <1>10 DEF PostStreamChunk, Rest
  <2> QED
    BY <1>1, <1>2, <1>4, <1>5, <1>10, <2>1, PostedKeeps DEF PostStreamChunk, PostStates
<1>11. CASE PostEofChunk
  <2>1. Rest' = <<>>
    BY <1>11 DEF PostEofChunk, Rest
  <2> QED
    BY <1>1, <1>2, <1>4, <1>5, <1>11, <2>1, PostedKeeps DEF PostEofChunk, PostStates
<1>12. CASE PostHeaderInstead
  <2>1. /\ outPacket' = Piece("data") /\ header' = header /\ posted' = posted /\ owed' = owed
        /\ postState' \in {"ChunkHeader", "HttpStreamHeader"} /\ dropped' = TRUE
        /\ closed' = closed /\ posts' = posts + 1 /\ Send("header", header, <<"mark">> \o stack)
    BY <1>1, <1>12 DEF PostHeaderInstead, MayPost, receiving
  <2> DEFINE calls == <<"mark">> \o stack
  <2>2. stack \in Seq(Frames) /\ CompleteInv /\ \A i \in 1 .. Len(stack) : stack[i] # "complete"
    BY <1>1, PostingStack DEF PostingTypes, PostingInv
  <2>3. calls \in Seq(Frames) /\ \A i \in 1 .. Len(calls) : calls[i] # "complete"
    <3>1. /\ calls \in Seq(Frames) /\ calls # <<>> /\ Len(calls) = Len(stack) + 1
          /\ Head(calls) = "mark" /\ \A i \in 2 .. Len(calls) : calls[i] # "complete"
      BY <2>2, CallStack DEF Frames
    <3> HIDE DEF calls
    <3>2. calls[1] = "mark"
      BY <3>1
    <3> QED
      BY <3>1, <3>2
  <2> HIDE DEF calls
  <2>4. /\ queue' \in Seq(Vectors) /\ stack' \in Seq(Frames) /\ wire' \in Seq(Pieces)
        /\ CompleteInv'
    BY <1>1, <1>5, <2>1, <2>3, SendFacts DEF calls
  <2>5. PostingTypes'
    BY <1>1, <1>2, <2>1, <2>4, ContextAssumption DEF PostingTypes, PostStates
  <2>6. OwedInv'
    BY <1>1, <2>1 DEF OwedInv, PostingInv, PostingTypes
  <2> QED
    BY <2>1, <2>4, <2>5, <2>6 DEF PostingInv, UnderwayInv, PiecesInv, Clean
<1> QED
  BY <1>6, <1>7, <1>8, <1>9, <1>10, <1>11, <1>12 DEF Post

(* A step of the receiving side, or a return: at most the chain of calls   *)
(* changes, and the connection may be closed.                              *)
LEMMA StackOnly ==
    ASSUME PostingInv,
           queue' = queue, wire' = wire, postState' = postState, header' = header,
           outPacket' = outPacket, posts' = posts, posted' = posted, owed' = owed,
           dropped' = dropped, closed' \in BOOLEAN, closed => closed',
           stack' \in Seq(Frames), \A i \in 2 .. Len(stack') : stack'[i] # "complete",
           stack' # <<>> => Head(stack') # "complete",
           ~In("complete") \/ postState = "Init"
    PROVE  PostingInv'
<1>1. PostingTypes /\ CompleteInv /\ UnderwayInv /\ OwedInv /\ PiecesInv
  BY DEF PostingInv
<1>2. PostingTypes'
  BY <1>1 DEF PostingTypes
<1>3. CompleteInv'
  BY DEF CompleteInv, In
<1>4. UnderwayInv'
  BY <1>1 DEF UnderwayInv
<1>5. OwedInv'
  BY <1>1 DEF OwedInv
<1>6. PiecesInv'
  <2>1. PiecesOf(queue)' = PiecesOf(queue) /\ Rest' = Rest
    BY DEF PiecesOf, Rest
  <2>2. Clean' => Clean
    BY DEF Clean
  <2> QED
    BY <1>1, <2>1, <2>2 DEF PiecesInv
<1> QED
  BY <1>2, <1>3, <1>4, <1>5, <1>6 DEF PostingInv

LEMMA ReadKeeps ==
    ASSUME PostingInv, NEW n \in 1 .. Len(todo), Read(n)
    PROVE  PostingInv'
<1>1. /\ stack = <<>> /\ closed' = closed /\ stack' = <<"parse">>
      /\ queue' = queue /\ wire' = wire /\ postState' = postState /\ header' = header
      /\ outPacket' = outPacket /\ posts' = posts /\ posted' = posted /\ owed' = owed
      /\ dropped' = dropped
  BY DEF Read, sending
<1>2. closed \in BOOLEAN /\ ~In("complete")
  BY <1>1 DEF PostingInv, PostingTypes, In
<1>3. <<"parse">> \in Seq(Frames) /\ Len(<<"parse">>) = 1 /\ Head(<<"parse">>) = "parse"
  BY DEF Frames
<1> QED
  BY <1>1, <1>2, <1>3, StackOnly

LEMMA ReturnKeeps ==
    ASSUME PostingInv, stack # <<>>, stack' = Tail(stack),
           queue' = queue, wire' = wire, postState' = postState, header' = header,
           outPacket' = outPacket, posts' = posts, posted' = posted, owed' = owed,
           dropped' = dropped, closed' = closed,
           Head(stack) # "complete" \/ postState = "Init"
    PROVE  PostingInv'
<1>1. /\ stack \in Seq(Frames) /\ closed \in BOOLEAN
      /\ \A i \in 2 .. Len(stack) : stack[i] # "complete"
  BY DEF PostingInv, PostingTypes, CompleteInv
<1>2. /\ stack' \in Seq(Frames) /\ \A i \in 2 .. Len(stack') : stack'[i] # "complete"
      /\ stack' # <<>> => Head(stack') # "complete"
  BY <1>1, ReturnStack
<1>3. ~In("complete") \/ postState = "Init"
  BY DEF In
<1> QED
  BY <1>1, <1>2, <1>3, StackOnly

LEMMA RoundKeeps ==
    ASSUME PostingInv, ParseRound
    PROVE  PostingInv'
<1>1. /\ In("parse") /\ queue' = queue /\ wire' = wire /\ postState' = postState
      /\ header' = header /\ outPacket' = outPacket /\ posts' = posts /\ posted' = posted
      /\ owed' = owed /\ dropped' = dropped
  BY DEF ParseRound, sending
<1>2. stack' = <<"request">> \o stack \/ stack' = stack
  BY DEF ParseRound
<1>3. PICK b \in BOOLEAN : closed' = (closed \/ b)
  BY DEF ParseRound
<1>4. closed \in BOOLEAN /\ stack \in Seq(Frames) /\ CompleteInv
  BY DEF PostingInv, PostingTypes
<1>5. closed' \in BOOLEAN /\ (closed => closed')
  BY <1>3, <1>4
<1>6. /\ stack # <<>> /\ Head(stack) = "parse" /\ ~In("complete")
      /\ \A i \in 2 .. Len(stack) : stack[i] # "complete"
  BY <1>1, <1>4 DEF In, CompleteInv
<1>7. \A i \in 1 .. Len(stack) : stack[i] # "complete"
  <2> SUFFICES ASSUME NEW i \in 1 .. Len(stack) PROVE stack[i] # "complete"
    OBVIOUS
  <2>1. CASE i = 1
    BY <1>4, <1>6, <2>1
  <2>2. CASE i # 1
    <3>1. i \in 2 .. Len(stack)
      BY <1>4, <2>2
    <3> QED
      BY <1>6, <3>1
  <2> QED
    BY <2>1, <2>2
<1>8. /\ stack' \in Seq(Frames) /\ \A i \in 2 .. Len(stack') : stack'[i] # "complete"
      /\ stack' # <<>> => Head(stack') # "complete"
  <2>1. CASE stack' = stack
    BY <1>4, <1>6, <2>1
  <2>2. CASE stack' = <<"request">> \o stack
    <3>1. "request" \in Frames
      BY DEF Frames
    <3> QED
      BY <1>4, <1>7, <2>2, <3>1, CallStack
  <2> QED
    BY <1>2, <2>1, <2>2
<1> QED
  BY <1>1, <1>5, <1>6, <1>8, StackOnly

LEMMA SendPacketKeeps ==
    ASSUME PostingInv, WriteComplete, SendPacket
    PROVE  PostingInv'
<1>1. /\ PostingTypes /\ CompleteInv /\ OwedInv /\ PiecesInv
      /\ In("complete") /\ closed' = closed /\ header' = header /\ outPacket' = outPacket
      /\ posts' = posts /\ posted' = posted /\ dropped' = dropped /\ owed' = owed
      /\ Send("packet", outPacket, Tail(stack))
  BY DEF PostingInv, WriteComplete, SendPacket, receiving
<1>2. postState \in {"HttpHeader", "ChunkLen"} /\ postState' \in {"HttpBody", "ChunkBody"}
  BY DEF SendPacket
<1>3. /\ stack \in Seq(Frames) /\ stack # <<>>
      /\ \A i \in 2 .. Len(stack) : stack[i] # "complete"
  BY <1>1 DEF PostingTypes, CompleteInv, In
<1>4. /\ Tail(stack) \in Seq(Frames)
      /\ \A i \in 1 .. Len(Tail(stack)) : Tail(stack)[i] # "complete"
  BY <1>3, ReturnStack
<1>5. /\ queue' \in Seq(Vectors) /\ stack' \in Seq(Frames) /\ wire' \in Seq(Pieces)
      /\ CompleteInv'
      /\ ~closed => queue' # <<>> \/ In("complete")'
      /\ \A i \in 1 .. Len(wire) : i \in 1 .. Len(wire') /\ wire'[i] = wire[i]
      /\ ~closed /\ outPacket # NoPiece =>
            wire' \o PiecesOf(queue') = Append(wire \o PiecesOf(queue), outPacket)
  <2>1. outPacket \in Pieces
    BY <1>1 DEF PostingTypes
  <2> QED
    BY <1>1, <1>4, <2>1, SendFacts
<1>6. PostingTypes'
  BY <1>1, <1>2, <1>5 DEF PostingTypes, PostStates
<1>7. UnderwayInv'
  BY <1>1, <1>5 DEF UnderwayInv
<1>8. OwedInv'
  BY <1>1, <1>2 DEF OwedInv
<1>9. PiecesInv'
  <2> SUFFICES ASSUME Clean' PROVE posted' = (wire' \o PiecesOf(queue')) \o Rest'
    BY DEF PiecesInv
  <2>1. Clean
    BY <1>1, <1>5, <1>6, CleanBefore DEF PostingTypes
  <2>2. /\ posted = (wire \o PiecesOf(queue)) \o <<outPacket>> /\ Rest' = <<>> /\ ~closed
        /\ outPacket # NoPiece
    BY <1>1, <1>2, <2>1 DEF PiecesInv, OwedInv, Rest, Clean
  <2>3. wire \o PiecesOf(queue) \in Seq(Pieces) /\ outPacket \in Pieces
    BY <1>1, PiecesFacts, ConcatProperties DEF PostingTypes
  <2>4. PICK x : x = wire \o PiecesOf(queue)
    OBVIOUS
  <2>5. Append(x, outPacket) = x \o <<outPacket>>
    BY <2>3, <2>4
  <2>6. /\ wire' \o PiecesOf(queue') = Append(x, outPacket)
        /\ Append(x, outPacket) \in Seq(Pieces)
    BY <1>5, <2>2, <2>3, <2>4, AppendProperties
  <2>7. Append(x, outPacket) \o <<>> = Append(x, outPacket)
    BY <2>6, ConcatEmptySeq
  <2> QED
    BY <1>1, <2>2, <2>4, <2>5, <2>6, <2>7
<1> QED
  BY <1>5, <1>6, <1>7, <1>8, <1>9 DEF PostingInv

LEMMA TellKeeps ==
    ASSUME PostingInv, WriteComplete, TellHandler
    PROVE  PostingInv'
<1>1. /\ PostingTypes /\ CompleteInv /\ OwedInv /\ PiecesInv
      /\ In("complete") /\ closed' = closed /\ header' = header /\ outPacket' = outPacket
      /\ posts' = posts /\ posted' = posted /\ dropped' = dropped
      /\ queue' = queue /\ wire' = wire
      /\ owed' = IF dropped THEN owed ELSE owed - 1
  BY DEF PostingInv, WriteComplete, TellHandler, receiving
<1>2. /\ postState # "Init" /\ postState \notin {"HttpHeader", "ChunkLen"}
      /\ postState' \in {"Init", "ChunkLen"}
      /\ postState # "ChunkHeader" => postState' = "Init"
      /\ stack' = <<"sent">> \o Tail(stack) \/ stack' = <<"next">> \o Tail(stack)
  BY DEF TellHandler
<1>3. /\ stack \in Seq(Frames) /\ stack # <<>>
      /\ \A i \in 2 .. Len(stack) : stack[i] # "complete"
  BY <1>1 DEF PostingTypes, CompleteInv, In
<1>4. /\ Tail(stack) \in Seq(Frames)
      /\ \A i \in 1 .. Len(Tail(stack)) : Tail(stack)[i] # "complete"
  BY <1>3, ReturnStack
<1>5. /\ stack' \in Seq(Frames) /\ stack' # <<>> /\ Head(stack') # "complete"
      /\ \A i \in 2 .. Len(stack') : stack'[i] # "complete"
  <2>1. "sent" \in Frames /\ "next" \in Frames
    BY DEF Frames
  <2>2. CASE stack' = <<"sent">> \o Tail(stack)
    BY <1>4, <2>1, <2>2, CallStack
  <2>3. CASE stack' = <<"next">> \o Tail(stack)
    BY <1>4, <2>1, <2>3, CallStack
  <2> QED
    BY <1>2, <2>2, <2>3
<1>6. ~dropped => postState' = "Init" /\ owed = 1
  BY <1>1, <1>2 DEF OwedInv
<1>7. CompleteInv'
  BY <1>5 DEF CompleteInv, In
<1>8. OwedInv'
  <2>1. posts \in Nat /\ owed \in 0 .. posts /\ dropped \in BOOLEAN
    BY <1>1 DEF OwedInv, PostingTypes
  <2>2. CASE dropped
    BY <1>1, <2>1, <2>2 DEF OwedInv
  <2>3. CASE ~dropped
    BY <1>1, <1>6, <2>1, <2>3 DEF OwedInv
  <2> QED
    BY <2>1, <2>2, <2>3
<1>9. PostingTypes'
  BY <1>1, <1>2, <1>5 DEF PostingTypes, PostStates
<1>10. UnderwayInv'
  BY <1>1, <1>6 DEF UnderwayInv
<1>11. PiecesInv'
  <2> SUFFICES ASSUME Clean' PROVE posted' = (wire' \o PiecesOf(queue')) \o Rest'
    BY DEF PiecesInv
  <2>1. Clean /\ ~dropped
    BY <1>1 DEF Clean
  <2>2. Rest = <<>> /\ Rest' = <<>>
    BY <1>2, <1>6, <2>1 DEF Rest
  <2>3. PiecesOf(queue') = PiecesOf(queue)
    BY <1>1
  <2> QED
    BY <1>1, <2>1, <2>2, <2>3 DEF PiecesInv
<1> QED
  BY <1>7, <1>8, <1>9, <1>10, <1>11 DEF PostingInv

LEMMA CompleteKeeps ==
    ASSUME PostingInv, WriteComplete
    PROVE  PostingInv'
<1>1. CASE SendPacket
  BY <1>1, SendPacketKeeps
<1>2. CASE TellHandler
  BY <1>2, TellKeeps
<1>3. CASE NothingToTell
  <2>1. /\ stack # <<>> /\ stack' = Tail(stack) /\ postState = "Init" /\ postState' = postState
        /\ queue' = queue /\ wire' = wire /\ header' = header /\ outPacket' = outPacket
        /\ posts' = posts /\ posted' = posted /\ owed' = owed /\ dropped' = dropped
        /\ closed' = closed
    BY <1>3 DEF NothingToTell, WriteComplete, In, receiving
  <2> QED
    BY <2>1, ReturnKeeps
<1> QED
  BY <1>1, <1>2, <1>3 DEF WriteComplete

LEMMA OnWriteKeeps ==
    ASSUME PostingInv, NEW n \in 1 .. Len(queue), OnWrite(n)
    PROVE  PostingInv'
<1>1. /\ PostingTypes /\ OwedInv /\ PiecesInv
      /\ closed' = closed /\ header' = header /\ outPacket' = outPacket /\ posts' = posts
      /\ posted' = posted /\ dropped' = dropped /\ owed' = owed /\ postState' = postState
      /\ stack' = (IF n = Len(queue) THEN <<"complete">> ELSE <<>>)
      /\ queue' = Retrieve(queue, n)
  BY DEF PostingInv, OnWrite, receiving
<1>2. PICK t : t = [i \in 1 .. n |-> Target(queue[i])]
  OBVIOUS
<1>3. wire' = wire \o t
  BY <1>2 DEF OnWrite
<1>4. /\ wire' \in Seq(Pieces) /\ queue' \in Seq(Vectors)
      /\ n # Len(queue) => queue' # <<>>
      /\ n = Len(queue) => queue' = <<>>
      /\ \A i \in 1 .. Len(wire) : i \in 1 .. Len(wire') /\ wire'[i] = wire[i]
      /\ (\A i \in 1 .. Len(wire') : wire'[i] # Lost) =>
            wire' \o PiecesOf(queue') = wire \o PiecesOf(queue)
  <2>1. queue \in Seq(Vectors) /\ wire \in Seq(Pieces)
    BY <1>1 DEF PostingTypes
  <2>2. PICK w, r : w = wire' /\ r = queue'
    OBVIOUS
  <2>3. r = Retrieve(queue, n) /\ w = wire \o t
    BY <1>1, <1>3, <2>2
  <2>4. t \in Seq(Pieces) /\ Len(t) = n /\ \A i \in 1 .. n : t[i] = queue[i].piece \/ t[i] = Lost
    <3>1. \A v \in Vectors : Target(v) \in Pieces /\ (Target(v) = v.piece \/ Target(v) = Lost)
      BY DEF Vectors, Target, Pieces
    <3>2. Len(queue) \in Nat /\ n <= Len(queue) /\ \A i \in 1 .. Len(queue) : queue[i] \in Vectors
      BY <2>1
    <3>3. \A i \in 1 .. n : Target(queue[i]) \in Pieces
                              /\ (Target(queue[i]) = queue[i].piece \/ Target(queue[i]) = Lost)
      BY <3>1, <3>2
    <3>4. t \in Seq(Pieces) /\ Len(t) = n /\ \A i \in 1 .. n : t[i] = Target(queue[i])
      BY <1>2, <3>2, <3>3
    <3> QED
      BY <3>3, <3>4
  <2>5. /\ r \in Seq(Vectors) /\ Len(r) = Len(queue) - n
        /\ \A i \in 1 .. Len(r) : r[i] = queue[n + i]
    BY <2>1, <2>3 DEF Retrieve
  <2>6. /\ w \in Seq(Pieces) /\ Len(w) = Len(wire) + n
        /\ \A i \in 1 .. Len(w) : w[i] = IF i <= Len(wire) THEN wire[i] ELSE t[i - Len(wire)]
    <3>1. wire \in Seq(Pieces) /\ t \in Seq(Pieces) /\ w = wire \o t
      BY <2>1, <2>3, <2>4
    <3>2. /\ w \in Seq(Pieces) /\ Len(w) = Len(wire) + Len(t)
          /\ \A i \in 1 .. Len(w) : w[i] = IF i <= Len(wire) THEN wire[i] ELSE t[i - Len(wire)]
      BY <3>1, ConcatAt
    <3> QED
      BY <2>4, <3>2
  <2>7. /\ (n # Len(queue) => r # <<>>) /\ (n = Len(queue) => r = <<>>)
        /\ \A i \in 1 .. Len(wire) : i \in 1 .. Len(w) /\ w[i] = wire[i]
        /\ (\A i \in 1 .. Len(w) : w[i] # Lost) =>
              w \o PiecesOf(r) = wire \o PiecesOf(queue)
    <3>1. Written(queue, n, wire, t, r, w)
      BY <2>4, <2>5, <2>6 DEF Written
    <3> QED
      BY <2>1, <3>1, WrittenFacts
  <2> QED
    BY <2>2, <2>5, <2>6, <2>7
<1>5. /\ stack' \in Seq(Frames) /\ \A i \in 2 .. Len(stack') : stack'[i] # "complete"
      /\ n = Len(queue) => In("complete")'
      /\ n # Len(queue) => ~In("complete")'
  <2>1. <<"complete">> \in Seq(Frames) /\ <<>> \in Seq(Frames)
    BY DEF Frames
  <2>2. <<"complete">> # <<>> /\ Len(<<"complete">>) = 1 /\ Head(<<"complete">>) = "complete"
    OBVIOUS
  <2>3. CASE n = Len(queue)
    BY <1>1, <2>1, <2>2, <2>3 DEF In
  <2>4. CASE n # Len(queue)
    BY <1>1, <2>1, <2>4 DEF In
  <2> QED
    BY <2>3, <2>4
<1>6. PostingTypes'
  BY <1>1, <1>4, <1>5 DEF PostingTypes
<1>7. CompleteInv'
  BY <1>4, <1>5 DEF CompleteInv
<1>8. UnderwayInv'
  BY <1>4, <1>5 DEF UnderwayInv
<1>9. OwedInv'
  BY <1>1 DEF OwedInv
<1>10. PiecesInv'
  <2> SUFFICES ASSUME Clean' PROVE posted' = (wire' \o PiecesOf(queue')) \o Rest'
    BY DEF PiecesInv
  <2>1. Clean
    BY <1>1, <1>4, <1>6, CleanBefore DEF PostingTypes
  <2>2. wire' \o PiecesOf(queue') = wire \o PiecesOf(queue)
    BY <1>4 DEF Clean
  <2>3. Rest' = Rest
    BY <1>1 DEF Rest
  <2> QED
    BY <1>1, <2>1, <2>2, <2>3 DEF PiecesInv
<1> QED
  BY <1>6, <1>7, <1>8, <1>9, <1>10 DEF PostingInv

LEMMA PostingInit == ContextInit => PostingInv
<1> SUFFICES ASSUME ContextInit PROVE PostingInv
  OBVIOUS
<1>1. /\ postState = "Init" /\ header = NoPiece /\ outPacket = NoPiece /\ queue = <<>>
      /\ stack = <<>> /\ posts = 0 /\ posted = <<>> /\ wire = <<>> /\ owed = 0
      /\ closed = FALSE /\ dropped = FALSE
  BY DEF ContextInit
<1>2. closed \in BOOLEAN /\ dropped \in BOOLEAN
  BY <1>1, Booleans
<1>3. PostingTypes
  <2>1. NoPiece \in Pieces
    BY DEF Pieces
  <2>2. 0 \in 0 .. MaxPosts
    BY ContextAssumption
  <2> QED
    BY <1>1, <1>2, <2>1, <2>2 DEF PostingTypes, PostStates
<1>4. CompleteInv /\ UnderwayInv /\ OwedInv
  BY <1>1 DEF CompleteInv, UnderwayInv, OwedInv, In
<1>5. PiecesInv
  <2>1. PiecesOf(queue) = <<>> /\ Rest = <<>>
    BY <1>1, <1>3, PiecesFacts DEF Rest, PostingTypes
  <2>2. <<>> \o <<>> = <<>>
    <3>1. <<>> \in Seq(Pieces)
      OBVIOUS
    <3> QED
      BY <3>1, ConcatEmptySeq
  <2> QED
    BY <1>1, <2>1, <2>2 DEF PiecesInv
<1> QED
  BY <1>3, <1>4, <1>5 DEF PostingInv

LEMMA PostingStep == PostingInv /\ [ContextNext]_contextVars => PostingInv'
<1> SUFFICES ASSUME PostingInv, [ContextNext]_contextVars PROVE PostingInv'
  OBVIOUS
<1>1. ASSUME NEW n \in 1 .. Len(todo), Read(n) PROVE PostingInv'
  BY <1>1, ReadKeeps
<1>2. ASSUME NEW n \in 1 .. Len(queue), OnWrite(n) PROVE PostingInv'
  BY <1>2, OnWriteKeeps
<1>3. CASE Post
  BY <1>3, PostKeeps
<1>4. CASE ParseRound
  BY <1>4, RoundKeeps
<1>5. CASE ParseReturns \/ HandlerReturns \/ MarkHeaderSent
  <2>1. /\ stack # <<>> /\ stack' = Tail(stack) /\ Head(stack) # "complete"
        /\ queue' = queue /\ wire' = wire /\ postState' = postState /\ header' = header
        /\ outPacket' = outPacket /\ posts' = posts /\ posted' = posted /\ owed' = owed
        /\ dropped' = dropped /\ closed' = closed
    BY <1>5 DEF ParseReturns, HandlerReturns, MarkHeaderSent, In, receiving, sending
  <2> QED
    BY <2>1, ReturnKeeps
<1>6. CASE WriteComplete
  BY <1>6, CompleteKeeps
<1>7. CASE UNCHANGED contextVars
  BY <1>7 DEF contextVars, receiving, sending, PostingInv, PostingTypes, CompleteInv,
              UnderwayInv, OwedInv, PiecesInv, Clean, In, Rest, PiecesOf
<1> QED
  BY <1>1, <1>2, <1>3, <1>4, <1>5, <1>6, <1>7 DEF ContextNext, LoopThread

(* The inductive invariant of the posting: PostRequest, PostChunk and the  *)
(* others, and WriteComplete, in whatever order they call each other.      *)
THEOREM PostingInvariance == ContextSafetySpec => []PostingInv
<1>1. PostingInv /\ UNCHANGED contextVars => PostingInv'
  BY PostingStep
<1> QED
  BY PostingInit, PostingStep, PTL DEF ContextSafetySpec

(* Between events no message waits for an OnSent that nobody will call:    *)
(* HttpContext::WriteComplete has called it once for each of them, but for *)
(* the one underway, whose next piece the socket has yet to take.          *)
THEOREM AnswerCorrect == ContextSafetySpec => []OneAnswerEach
<1>1. PostingInv => OneAnswerEach
  <2> SUFFICES ASSUME PostingInv, stack = <<>>, Clean
               PROVE  IF postState = "Init" THEN owed = 0 ELSE owed = 1 /\ queue # <<>>
    BY DEF OneAnswerEach
  <2>1. ~dropped /\ ~closed /\ ~In("complete")
    BY DEF Clean, In
  <2> QED
    BY <2>1 DEF PostingInv, OwedInv, UnderwayInv
<1> QED
  BY <1>1, PostingInvariance, PTL

(* HttpContext::WriteComplete calls OnSent or OnSentNextChunk only when    *)
(* all that was posted is with the socket, in order, and nothing is queued.*)
THEOREM SentCorrect == ContextSafetySpec => SentMeansOut
<1>1. PostingInv /\ [ContextNext]_contextVars
        => [(Told /\ Clean) => wire' = posted' /\ queue' = <<>>]_contextVars
  <2> SUFFICES ASSUME PostingInv, ContextNext, Told, Clean
               PROVE  wire' = posted' /\ queue' = <<>>
    BY DEF contextVars
  <2>1. /\ In("complete") /\ Len(stack') = Len(stack) /\ Head(stack') \in {"sent", "next"}
        /\ stack # <<>> /\ Head(stack) = "complete"
    BY DEF Told, In
  <2>2. PostingTypes /\ CompleteInv /\ OwedInv /\ PiecesInv
    BY DEF PostingInv
  <2>3. WriteComplete
    <3>1. ~In("parse") /\ ~In("request") /\ ~In("sent") /\ ~In("next") /\ ~In("mark")
      BY <2>1 DEF In
    <3>2. /\ \A n \in 1 .. Len(todo) : ~Read(n)
          /\ \A n \in 1 .. Len(queue) : ~OnWrite(n)
      BY <2>1 DEF Read, OnWrite
    <3>3. ~Post
      BY <2>1, <3>1 DEF Post, PostRequest, PostHeaderAndPacket, PostStreamHeader, PostChunk,
                        PostStreamChunk, PostHeaderInstead, PostEofChunk, MayPost
    <3>4. ~ParseRound /\ ~ParseReturns /\ ~HandlerReturns /\ ~MarkHeaderSent
      BY <3>1 DEF ParseRound, ParseReturns, HandlerReturns, MarkHeaderSent
    <3> QED
      BY <3>2, <3>3, <3>4 DEF ContextNext, LoopThread
  <2>4. stack \in Seq(Frames) /\ Len(Tail(stack)) = Len(stack) - 1 /\ Tail(stack) \in Seq(Frames)
    BY <2>1, <2>2, ReturnStack DEF PostingTypes, CompleteInv
  <2>5. stack' # Tail(stack)
    BY <2>1, <2>4
  <2>6. stack' # <<"complete">> \o Tail(stack)
    <3>1. Head(<<"complete">> \o Tail(stack)) = "complete"
      BY <2>4, CallStack DEF Frames
    <3> QED
      BY <2>1, <3>1
  <2>7. TellHandler
    <3>1. ~SendPacket
      BY <2>5, <2>6 DEF SendPacket, Send
    <3>2. ~NothingToTell
      BY <2>5 DEF NothingToTell
    <3> QED
      BY <2>3, <3>1, <3>2 DEF WriteComplete
  <2>8. queue = <<>> /\ queue' = queue /\ wire' = wire /\ posted' = posted
    BY <2>1, <2>2, <2>3, <2>7 DEF CompleteInv, WriteComplete, TellHandler
  <2>9. PiecesOf(queue) = <<>> /\ Rest = <<>>
    BY <2>2, <2>7, <2>8, PiecesFacts DEF TellHandler, Rest, PostingTypes
  <2>10. wire \o <<>> = wire
    BY <2>2, ConcatEmptySeq DEF PostingTypes
  <2> QED
    BY <2>2, <2>8, <2>9, <2>10 DEF PiecesInv
<1> QED
  BY <1>1, PostingInvariance, PTL DEF ContextSafetySpec, SentMeansOut

----------------------------------------------------------------------------
(* HttpContext: receiving. *)

Packets == [cap : Int, data : Seq(BodySymbols)]
Parsers == [state : States, chunkLen : Int, contentLen : -1 .. 3, chunk : Packets]

(* The receiving half of ContextTypeOK. *)
ReceiveTypes ==
    /\ input \in Inputs /\ todo \in Seq(Symbols) /\ buf \in Seq(Symbols)
    /\ parser \in Parsers /\ closed \in BOOLEAN
    /\ given \in Seq(Packets) /\ Len(given) <= MaxGiven

(* buf and todo are what is left of the message. *)
Consumed == Len(Bytes(input)) - Len(todo) - Len(buf)
BytesInv ==
    /\ Consumed \in Nat
    /\ \A i \in 1 .. Len(buf) : buf[i] = Bytes(input)[Consumed + i]
    /\ \A i \in 1 .. Len(todo) : todo[i] = Bytes(input)[Consumed + Len(buf) + i]

HeadSize(in) == Len(in.text) + Len(CRLFCRLF)

(* How much of its packet the parser has, and how much is left: what the   *)
(* packet holds is that part of the body.                                  *)
Taken == Consumed - HeadSize(input) - (PacketStart(input) - 1)
PacketSoFar ==
    [cap |-> PacketSize(input),
     data |-> SubSeq(input.body, PacketStart(input), PacketStart(input) + Taken - 1)]
Filling(left) ==
    /\ ~NeverComplete(input)
    /\ Taken \in 0 .. PacketSize(input) - 1 /\ left = PacketSize(input) - Taken
    /\ parser.chunk = PacketSoFar \/ (Taken = 0 /\ parser.chunk = NoPacket)

(* What each state of the parser says of what it has consumed. *)
HeadInv ==
    parser.state = "ExpectHeaders" => Consumed = 0 /\ parser.chunk = NoPacket
FillingInv ==
    /\ parser.state = "ExpectNormalBody" => ~Chunked(input) /\ Filling(parser.contentLen)
    /\ parser.state = "ExpectStreamBody" =>
           /\ ~Chunked(input) /\ PacketSize(input) = MaxBody
           /\ Filling(MaxBody - Taken)
    /\ parser.state = "ExpectChunkBody" => Chunked(input) /\ Filling(parser.chunkLen)
ChunkInv ==
    /\ parser.state = "ExpectChunkLen" =>
           Chunked(input) /\ Consumed = HeadSize(input) /\ parser.chunk = NoPacket
    /\ parser.state = "ExpectLastEmptyChunk" =>
           /\ Chunked(input) /\ ~NeverComplete(input) /\ PacketSize(input) = 0
           /\ Taken = 0 /\ parser.chunk = NoPacket
EndInv ==
    /\ parser.state \in Complete =>
           parser.chunk = WholePacket(input) /\ WholeLength(input) <= Len(input.body)
    /\ parser.state = "ExpectError" => closed /\ parser.chunk = NoPacket
GivenInv ==
    /\ given # <<>> <=> parser.state \in Complete
    /\ \A i \in 1 .. Len(given) : given[i] = WholePacket(input)

ReceiveInv ==
    ReceiveTypes /\ BytesInv /\ HeadInv /\ FillingInv /\ ChunkInv /\ EndInv /\ GivenInv

(* Parse returns when a single byte is readable at most. *)
LoopInv == (\A i \in 1 .. Len(stack) : stack[i] # "parse") => Size(buf) <= 1

(* A set of numbers that is not empty has a least one. *)
LEMMA LeastExists ==
    ASSUME NEW T, T \subseteq Nat, T # {}
    PROVE  \E x \in T : \A y \in T : x <= y
<1> DEFINE R == {p \in Nat \X Nat : p[1] < p[2]}
<1>1. IsWellFoundedOn(R, Nat)
  BY NatLessThanWellFounded, Zenon DEF OpToRel
<1>2. \A x, y \in Nat : <<y, x>> \in R <=> y < x
  OBVIOUS
<1> HIDE DEF R
<1>3. PICK x \in T : \A y \in T : ~ (<<y, x>> \in R)
  BY <1>1, WFMin
<1>4. ASSUME NEW y \in T PROVE x <= y
  <2>1. x \in Nat /\ y \in Nat
    OBVIOUS
  <2>2. ~ (y < x)
    BY <2>1, <1>2, <1>3
  <2> QED
    BY <2>1, <2>2
<1> QED
  BY <1>4

(* Induction, by the least number that is not in the set. *)
LEMMA NatSetInduction ==
    ASSUME NEW S, 0 \in S, \A n \in Nat : n \in S => n + 1 \in S
    PROVE  \A n \in Nat : n \in S
<1> DEFINE T == {n \in Nat : n \notin S}
<1>1. SUFFICES ASSUME T # {} PROVE FALSE
  OBVIOUS
<1>2. PICK x \in T : \A y \in T : x <= y
  BY <1>1, LeastExists
<1>3. x \in Nat /\ x # 0 /\ x \notin S
  OBVIOUS
<1>4. x - 1 \in Nat /\ ~ (x <= x - 1) /\ (x - 1) + 1 = x
  BY <1>3
<1>5. x - 1 \in S
  BY <1>2, <1>4
<1> QED
  BY <1>3, <1>4, <1>5

(* Search finds the first place of a mark, if there is one. *)
MarkAt(s, mark, i) ==
    /\ i \in 1 .. Len(s) - Len(mark) + 1
    /\ \A k \in 1 .. Len(mark) : s[i + k - 1] = mark[k]

FirstAt(s, mark, w) ==
    /\ w \in Nat
    /\ w = 0 => \A i : ~MarkAt(s, mark, i)
    /\ w # 0 => MarkAt(s, mark, w) /\ \A i : MarkAt(s, mark, i) => w <= i

LEMMA SearchFacts ==
    ASSUME NEW s \in Seq(Symbols), NEW mark \in Seq(Symbols)
    PROVE  FirstAt(s, mark, Search(s, mark))
<1> DEFINE at == {i \in 1 .. Len(s) - Len(mark) + 1 : SubSeq(s, i, i + Len(mark) - 1) = mark}
<1>1. Len(s) \in Nat /\ Len(mark) \in Nat
  OBVIOUS
<1>2. \A i : i \in at <=> MarkAt(s, mark, i)
  <2> SUFFICES ASSUME NEW i \in 1 .. Len(s) - Len(mark) + 1
               PROVE  SubSeq(s, i, i + Len(mark) - 1) = mark
                      <=> \A k \in 1 .. Len(mark) : s[i + k - 1] = mark[k]
    BY DEF MarkAt
  <2>1. PICK t : t = SubSeq(s, i, i + Len(mark) - 1)
    OBVIOUS
  <2>2. /\ t \in Seq(Symbols) /\ Len(t) = Len(mark)
        /\ \A k \in 1 .. Len(t) : t[k] = s[i + k - 1]
    BY <1>1, <2>1, SubSeqProperties
  <2>3. (\A k \in 1 .. Len(mark) : s[i + k - 1] = mark[k]) => t = mark
    BY <2>2, SeqEqual
  <2> QED
    BY <2>1, <2>2, <2>3
<1>3. Search(s, mark) = IF at = {} THEN 0 ELSE CHOOSE i \in at : \A j \in at : i <= j
  BY DEF Search
<1>4. at \subseteq Nat \ {0}
  BY <1>1
<1> HIDE DEF at
<1>5. CASE at = {}
  BY <1>2, <1>3, <1>5 DEF FirstAt
<1>6. CASE at # {}
  <2>1. \E i \in at : \A j \in at : i <= j
    BY <1>4, <1>6, LeastExists
  <2>2. PICK w : w = CHOOSE i \in at : \A j \in at : i <= j
    OBVIOUS
  <2>3. w \in at /\ \A j \in at : w <= j
    BY <2>1, <2>2
  <2>4. Search(s, mark) = w
    BY <1>3, <1>6, <2>2
  <2> QED
    BY <1>2, <1>4, <2>3, <2>4 DEF FirstAt
<1> QED
  BY <1>5, <1>6

(* A mark found in the first part of a sequence is where it is found in    *)
(* all of it.                                                              *)
LEMMA SearchPrefix ==
    ASSUME NEW s \in Seq(Symbols), NEW part \in Seq(Symbols), NEW mark \in Seq(Symbols),
           Len(mark) > 0, Len(part) <= Len(s), \A i \in 1 .. Len(part) : part[i] = s[i],
           Search(part, mark) > 0
    PROVE  Search(s, mark) = Search(part, mark)
<1>1. Len(s) \in Nat /\ Len(part) \in Nat /\ Len(mark) \in Nat
  OBVIOUS
<1>2. \A i : i \in 1 .. Len(part) - Len(mark) + 1 => (MarkAt(part, mark, i) <=> MarkAt(s, mark, i))
  <2> SUFFICES ASSUME NEW i \in 1 .. Len(part) - Len(mark) + 1
               PROVE  MarkAt(part, mark, i) <=> MarkAt(s, mark, i)
    OBVIOUS
  <2>1. i \in 1 .. Len(s) - Len(mark) + 1
    BY <1>1
  <2>2. \A k \in 1 .. Len(mark) : part[i + k - 1] = s[i + k - 1]
    <3> SUFFICES ASSUME NEW k \in 1 .. Len(mark) PROVE part[i + k - 1] = s[i + k - 1]
      OBVIOUS
    <3>1. i + k - 1 \in 1 .. Len(part)
      BY <1>1
    <3> QED
      BY <3>1
  <2> QED
    BY <2>1, <2>2 DEF MarkAt
<1>3. PICK w : w = Search(part, mark)
  OBVIOUS
<1>4. w \in Nat /\ MarkAt(part, mark, w) /\ \A i : MarkAt(part, mark, i) => w <= i
  <2>1. FirstAt(part, mark, w) /\ w # 0
    BY <1>3, SearchFacts
  <2> QED
    BY <2>1 DEF FirstAt
<1>5. w \in 1 .. Len(part) - Len(mark) + 1
  BY <1>4 DEF MarkAt
<1>6. MarkAt(s, mark, w)
  BY <1>2, <1>4, <1>5
<1>7. PICK v : v = Search(s, mark)
  OBVIOUS
<1>8. v \in Nat /\ v # 0 /\ MarkAt(s, mark, v) /\ v <= w
  <2>1. FirstAt(s, mark, v)
    BY <1>7, SearchFacts
  <2> QED
    BY <1>6, <2>1 DEF FirstAt
<1>9. v \in 1 .. Len(part) - Len(mark) + 1
  BY <1>1, <1>5, <1>8
<1>10. w <= v
  BY <1>2, <1>4, <1>8, <1>9
<1> QED
  BY <1>3, <1>4, <1>7, <1>8, <1>10

LEMMA DigitType == \A x \in DOMAIN DigitValue : DigitValue[x] \in Nat
  BY DEF DigitValue

(* A line of digits has a value: the recursion of ChunkLength is defined.  *)
LEMMA ChunkLengthType ==
    ASSUME NEW d \in Seq(DOMAIN DigitValue)
    PROVE  ChunkLength(d) \in Nat
<1> DEFINE g(n) == DigitValue[d[n]]
           E(v) == [n \in 0 .. Len(d) |-> IF n = 0 THEN 0 ELSE 16 * v[n - 1] + DigitValue[d[n]]]
           P(k, v) == v[0] = 0 /\ \A n \in 1 .. k : v[n] = 16 * v[n - 1] + g(n)
           N == {k \in Nat : k <= Len(d) => \E v \in [0 .. k -> Nat] : P(k, v)}
<1>1. Len(d) \in Nat /\ \A n \in 1 .. Len(d) : g(n) \in Nat
  BY DigitType
<1> HIDE DEF g
<1>2. 0 \in N
  <2>1. [n \in 0 .. 0 |-> 0] \in [0 .. 0 -> Nat] /\ P(0, [n \in 0 .. 0 |-> 0])
    OBVIOUS
  <2> QED
    BY <2>1
<1>3. ASSUME NEW k \in Nat, k \in N PROVE k + 1 \in N
  <2> SUFFICES ASSUME k + 1 <= Len(d) PROVE \E v \in [0 .. k + 1 -> Nat] : P(k + 1, v)
    BY SMTT(20)
  <2>0. k <= Len(d)
    BY <1>1
  <2>1. PICK v \in [0 .. k -> Nat] : P(k, v)
    <3> HIDE DEF P
    <3> QED
      BY <1>3, <2>0
  <2> DEFINE w == [n \in 0 .. k + 1 |-> IF n = k + 1 THEN 16 * v[k] + g(k + 1) ELSE v[n]]
  <2>2. v[k] \in Nat /\ g(k + 1) \in Nat
    BY <1>1
  <2>3. w \in [0 .. k + 1 -> Nat]
    BY <2>2
  <2>4. w[0] = 0 /\ w[k + 1] = 16 * w[k] + g(k + 1)
    BY <2>1
  <2>5. \A n \in 1 .. k : w[n] = v[n] /\ w[n - 1] = v[n - 1]
    OBVIOUS
  <2> HIDE DEF w
  <2>6. ASSUME NEW n \in 1 .. k + 1 PROVE w[n] = 16 * w[n - 1] + g(n)
    <3>1. CASE n = k + 1
      BY <2>4, <3>1
    <3>2. CASE n # k + 1
      <4>1. n \in 1 .. k
        BY <3>2
      <4> QED
        BY <2>1, <2>5, <4>1
    <3> QED
      BY <3>1, <3>2
  <2> QED
    BY <2>3, <2>4, <2>6
<1> HIDE DEF N
<1>4. Len(d) \in N
  BY <1>1, <1>2, <1>3, NatSetInduction
<1>5. PICK v \in [0 .. Len(d) -> Nat] : P(Len(d), v)
  BY <1>1, <1>4 DEF N
<1>6. v = E(v)
  BY <1>1, <1>5 DEF g
<1>7. PICK u : u = CHOOSE x : x = E(x)
  OBVIOUS
<1>8. u = E(u)
  BY <1>6, <1>7
<1>9. ChunkLength(d) = u[Len(d)]
  BY <1>7 DEF ChunkLength
<1>10. u[0] = 0 /\ \A n \in 1 .. Len(d) : u[n] = 16 * u[n - 1] + g(n)
  BY <1>1, <1>8 DEF g
<1> DEFINE M == {n \in Nat : n <= Len(d) => u[n] \in Nat}
<1>11. 0 \in M
  BY <1>10
<1>12. ASSUME NEW n \in Nat, n \in M PROVE n + 1 \in M
  <2> SUFFICES ASSUME n + 1 <= Len(d) PROVE u[n + 1] \in Nat
    OBVIOUS
  <2>1. u[n] \in Nat /\ n + 1 \in 1 .. Len(d) /\ (n + 1) - 1 = n
    BY <1>1, <1>12
  <2>2. u[n + 1] = 16 * u[n] + g(n + 1)
    BY <1>10, <2>1
  <2> QED
    BY <1>1, <2>1, <2>2
<1> HIDE DEF M
<1>13. Len(d) \in M
  BY <1>1, <1>11, <1>12, NatSetInduction
<1> QED
  BY <1>1, <1>9, <1>13 DEF M

LEMMA MarkFacts ==
    /\ CRLF \in Seq(Symbols) /\ Len(CRLF) = 2 /\ CRLF[1] = "r" /\ CRLF[2] = "l"
    /\ CRLFCRLF \in Seq(Symbols) /\ Len(CRLFCRLF) = 4
    /\ CRLFCRLF[1] = "r" /\ CRLFCRLF[2] = "l" /\ CRLFCRLF[3] = "r" /\ CRLFCRLF[4] = "l"
<1>1. "r" \in Symbols /\ "l" \in Symbols
  BY DEF Symbols, BodySymbols
<1>2. CRLF \in Seq(Symbols) /\ Len(CRLF) = 2 /\ CRLF[1] = "r" /\ CRLF[2] = "l"
  BY <1>1 DEF CRLF
<1>3. PICK z : z = CRLFCRLF
  OBVIOUS
<1>4. /\ z \in Seq(Symbols) /\ Len(z) = Len(CRLF) + Len(CRLF)
      /\ \A i \in 1 .. Len(z) : z[i] = IF i <= Len(CRLF) THEN CRLF[i] ELSE CRLF[i - Len(CRLF)]
  <2>1. PICK c : c = CRLF
    OBVIOUS
  <2>2. c \in Seq(Symbols) /\ z = c \o c
    BY <1>2, <1>3, <2>1 DEF CRLFCRLF
  <2>3. /\ z \in Seq(Symbols) /\ Len(z) = Len(c) + Len(c)
        /\ \A i \in 1 .. Len(z) : z[i] = IF i <= Len(c) THEN c[i] ELSE c[i - Len(c)]
    BY <2>2, ConcatAt
  <2> QED
    BY <2>1, <2>3
<1>5. z[1] = CRLF[1] /\ z[2] = CRLF[2] /\ z[3] = CRLF[1] /\ z[4] = CRLF[2]
  BY <1>2, <1>4
<1> QED
  BY <1>2, <1>3, <1>4, <1>5

(* The bytes of a message: its text, the end of the header block, its body.*)
BytesShape(in, b) ==
    /\ in.text \in Seq(Symbols) /\ in.body \in Seq(Symbols) /\ b \in Seq(Symbols)
    /\ HeadSize(in) = Len(in.text) + 4 /\ Len(b) = HeadSize(in) + Len(in.body)
    /\ Len(in.text) \in Nat \ {0} /\ Len(in.body) \in Nat
    /\ \A i \in 1 .. Len(in.text) : b[i] = in.text[i] /\ b[i] \notin {"r", "l"}
    /\ \A k \in 1 .. 4 : b[Len(in.text) + k] = CRLFCRLF[k]
    /\ \A i \in 1 .. Len(in.body) : b[HeadSize(in) + i] = in.body[i]

LEMMA BytesFacts ==
    ASSUME NEW in, WellFormed(in)
    PROVE  BytesShape(in, Bytes(in))
<1> DEFINE b == Bytes(in)
<1> DEFINE x == in.text
           y == in.body
<1>1. /\ x \in Seq(Lines \cup Fields) /\ x # <<>> /\ y \in Seq(BodySymbols)
  BY DEF WellFormed
<1>2. x \in Seq(Symbols) /\ y \in Seq(Symbols)
  <2>1. \A i \in 1 .. Len(x) : x[i] \in Symbols
    BY <1>1 DEF Symbols
  <2>2. \A i \in 1 .. Len(y) : y[i] \in Symbols
    BY <1>1 DEF Symbols
  <2> QED
    BY <1>1, <2>1, <2>2
<1>3. Len(x) \in Nat \ {0} /\ Len(y) \in Nat
  BY <1>1, EmptySeq
<1>4. \A i \in 1 .. Len(x) : x[i] \notin {"r", "l"}
  <2>1. \A f \in Lines \cup Fields : f \notin {"r", "l"}
    BY DEF Lines, Fields, LengthField
  <2> QED
    BY <1>1, <2>1
<1> HIDE DEF x, y
<1> HIDE DEF b
<1>5. PICK h : h = x \o CRLFCRLF
  OBVIOUS
<1>6. /\ h \in Seq(Symbols) /\ Len(h) = Len(x) + 4
      /\ \A i \in 1 .. Len(h) : h[i] = IF i <= Len(x) THEN x[i] ELSE CRLFCRLF[i - Len(x)]
  <2>1. PICK c : c = CRLFCRLF
    OBVIOUS
  <2>2. c \in Seq(Symbols) /\ h = x \o c
    BY <1>5, <2>1, MarkFacts
  <2>3. /\ h \in Seq(Symbols) /\ Len(h) = Len(x) + Len(c)
        /\ \A i \in 1 .. Len(h) : h[i] = IF i <= Len(x) THEN x[i] ELSE c[i - Len(x)]
    BY <1>2, <2>2, ConcatAt
  <2>4. Len(c) = 4
    BY <2>1, MarkFacts
  <2> QED
    BY <2>1, <2>3, <2>4
<1>7. b = h \o y
  BY <1>5 DEF Bytes, b, x, y
<1>8. /\ b \in Seq(Symbols) /\ Len(b) = Len(h) + Len(y)
      /\ \A i \in 1 .. Len(b) : b[i] = IF i <= Len(h) THEN h[i] ELSE y[i - Len(h)]
  <2>1. h \in Seq(Symbols) /\ y \in Seq(Symbols)
    BY <1>2, <1>6
  <2> QED
    BY <1>7, <2>1, ConcatAt
<1>9. HeadSize(in) = Len(x) + 4
  BY MarkFacts DEF HeadSize, x
<1>10. \A i \in 1 .. Len(x) : b[i] = x[i]
  BY <1>3, <1>6, <1>8
<1>11. ASSUME NEW k \in 1 .. 4 PROVE b[Len(x) + k] = CRLFCRLF[k]
  <2>1. PICK j : j = Len(x) + k
    OBVIOUS
  <2>2. j \in 1 .. Len(b) /\ j \in 1 .. Len(h) /\ ~(j <= Len(x)) /\ j <= Len(h) /\ j - Len(x) = k
    BY <1>3, <1>6, <1>8, <2>1
  <2> QED
    BY <1>6, <1>8, <2>1, <2>2
<1>12. ASSUME NEW i \in 1 .. Len(y) PROVE b[HeadSize(in) + i] = y[i]
  <2>1. PICK j : j = HeadSize(in) + i
    OBVIOUS
  <2>2. j \in 1 .. Len(b) /\ ~(j <= Len(h)) /\ j - Len(h) = i
    BY <1>3, <1>6, <1>8, <1>9, <2>1
  <2> QED
    BY <1>8, <2>1, <2>2
<1> QED
  BY <1>2, <1>3, <1>4, <1>6, <1>8, <1>9, <1>10, <1>11, <1>12 DEF BytesShape, b, x, y

(* The end of the header block is found where it is. *)
LEMMA HeadSearch ==
    ASSUME NEW in, WellFormed(in)
    PROVE  Search(Bytes(in), CRLFCRLF) = Len(in.text) + 1
<1>1. PICK b : b = Bytes(in)
  OBVIOUS
<1>2. /\ b \in Seq(Symbols) /\ Len(b) = Len(in.text) + 4 + Len(in.body)
      /\ Len(in.text) \in Nat \ {0} /\ Len(in.body) \in Nat
      /\ \A i \in 1 .. Len(in.text) : b[i] \notin {"r", "l"}
      /\ \A k \in 1 .. 4 : b[Len(in.text) + k] = CRLFCRLF[k]
  BY <1>1, BytesFacts DEF BytesShape
<1>3. PICK w : w = Len(in.text) + 1
  OBVIOUS
<1>4. MarkAt(b, CRLFCRLF, w)
  <2>1. w \in 1 .. Len(b) - 4 + 1 /\ \A k \in 1 .. 4 : w + k - 1 = Len(in.text) + k
    <3>1. PICK n, m : n = Len(in.text) /\ m = Len(in.body)
      OBVIOUS
    <3>2. n \in Nat \ {0} /\ m \in Nat /\ Len(b) = n + 4 + m /\ w = n + 1
      BY <1>2, <1>3, <3>1
    <3>3. w \in 1 .. Len(b) - 4 + 1 /\ \A k \in 1 .. 4 : w + k - 1 = n + k
      BY <3>2
    <3> QED
      BY <3>1, <3>3
  <2> QED
    BY <1>2, <2>1, MarkFacts DEF MarkAt
<1>5. PICK v : v = Search(b, CRLFCRLF)
  OBVIOUS
<1>6. v \in Nat /\ v # 0 /\ MarkAt(b, CRLFCRLF, v) /\ v <= w
  <2>1. FirstAt(b, CRLFCRLF, v)
    BY <1>2, <1>5, MarkFacts, SearchFacts
  <2> QED
    BY <1>4, <2>1 DEF FirstAt
<1>7. v \in Nat \ {0} /\ b[v] = "r"
  <2>1. 1 \in 1 .. 4 /\ v + 1 - 1 = v
    BY <1>6
  <2>2. b[v + 1 - 1] = CRLFCRLF[1]
    BY <1>6, MarkFacts DEF MarkAt
  <2> QED
    BY <1>6, <2>1, <2>2, MarkFacts
<1>8. ~(v \in 1 .. Len(in.text))
  BY <1>2, <1>7
<1>9. v = w
  BY <1>2, <1>3, <1>6, <1>7, <1>8
<1> QED
  BY <1>1, <1>3, <1>5, <1>9

(* ReadableBytes counts a line as two bytes. *)
LEMMA SizeFacts ==
    ASSUME NEW s \in Seq(Symbols)
    PROVE  /\ Size(s) \in Nat /\ Len(s) <= Size(s)
           /\ s \in Seq(BodySymbols) => Size(s) = Len(s)
<1> DEFINE T == {i \in 1 .. Len(s) : s[i] \in Lines \cup {BadLine}}
<1>1. Len(s) \in Nat
  OBVIOUS
<1>2. IsFiniteSet(T)
  <2>1. IsFiniteSet(1 .. Len(s))
    BY <1>1, FS_Interval
  <2> QED
    BY <2>1, FS_Subset
<1>3. Cardinality(T) \in Nat
  BY <1>2, FS_CardinalityType
<1>4. ASSUME s \in Seq(BodySymbols) PROVE Cardinality(T) = 0
  <2>1. \A x \in BodySymbols : x \notin Lines \cup {BadLine}
    BY DEF BodySymbols, Lines, BadLine, DigitValue, Letters
  <2>2. \A i \in 1 .. Len(s) : s[i] \in BodySymbols
    BY <1>4
  <2>3. T = {}
    BY <2>1, <2>2
  <2> QED
    BY <2>3, FS_EmptySet
<1>5. Size(s) = Len(s) + Cardinality(T)
  BY DEF Size
<1> HIDE DEF T
<1> QED
  BY <1>1, <1>3, <1>4, <1>5

(* How a message is framed: by one field at most. *)
LEMMA FramingFacts ==
    ASSUME NEW in, WellFormed(in)
    PROVE  /\ \A f : f # "other" => (f \in Framing(in) <=> \E i \in 2 .. Len(in.text) : in.text[i] = f)
           /\ \/ Framing(in) = {}
              \/ \E f \in DOMAIN LengthField : Framing(in) = {f}
              \/ Framing(in) = {"length=bad"}
              \/ Chunked(in)
<1>1. \A f : f # "other" => (f \in Framing(in) <=> \E i \in 2 .. Len(in.text) : in.text[i] = f)
  BY DEF Framing
<1>2. \A f \in Framing(in) : f \in DOMAIN LengthField \cup {"length=bad", "chunked"}
  BY DEF Framing, WellFormed, Fields
<1>3. \A f, g \in Framing(in) : f = g
  BY DEF WellFormed
<1>4. ASSUME NEW f \in Framing(in) PROVE Framing(in) = {f}
  BY <1>3
<1> QED
  BY <1>1, <1>2, <1>4 DEF Chunked

(* What the end of the header block makes the parser expect. *)
HeadersParsed(in, p, r) ==
    /\ r \in Parsers /\ r.chunk = p.chunk
    /\ Framing(in) = {"length=bad"} => r.state = "ExpectError"
    /\ Chunked(in) => r.state = "ExpectChunkLen"
    /\ ~Chunked(in) /\ Framing(in) # {"length=bad"} =>
           \/ PacketSize(in) = 0 /\ r.state = "ExpectHttpComplete"
           \/ /\ PacketSize(in) \in 1 .. 3 /\ r.contentLen = PacketSize(in)
              /\ r.state = "ExpectNormalBody"
           \/ PacketSize(in) = MaxBody /\ r.state = "ExpectStreamBody"

LEMMA ParserFields ==
    ASSUME NEW p \in Parsers
    PROVE  /\ p.state \in States /\ p.chunkLen \in Int /\ p.contentLen \in -1 .. 3
           /\ p.chunk \in Packets
  BY DEF Parsers

(* What the parser's functions make of it is a parser. *)
LEMMA ParserUpdate ==
    ASSUME NEW p \in Parsers, NEW r, NEW e \in States, NEW k \in Int, NEW n \in -1 .. 3,
           NEW c \in Packets,
           \/ r = [p EXCEPT !.chunkLen = k, !.state = e]
           \/ r = [p EXCEPT !.contentLen = n, !.state = e]
           \/ r = [p EXCEPT !.chunk = c, !.state = e]
           \/ r = [p EXCEPT !.chunk = c, !.contentLen = n, !.state = e]
           \/ r = [p EXCEPT !.chunk = c, !.chunkLen = k, !.state = e]
    PROVE  r \in Parsers
<1>1. p = [state |-> p.state, chunkLen |-> p.chunkLen, contentLen |-> p.contentLen,
           chunk |-> p.chunk]
  BY DEF Parsers
<1>2. \/ r = [state |-> e, chunkLen |-> k, contentLen |-> p.contentLen, chunk |-> p.chunk]
      \/ r = [state |-> e, chunkLen |-> p.chunkLen, contentLen |-> n, chunk |-> p.chunk]
      \/ r = [state |-> e, chunkLen |-> p.chunkLen, contentLen |-> p.contentLen, chunk |-> c]
      \/ r = [state |-> e, chunkLen |-> p.chunkLen, contentLen |-> n, chunk |-> c]
      \/ r = [state |-> e, chunkLen |-> k, contentLen |-> p.contentLen, chunk |-> c]
  BY <1>1
<1> QED
  BY <1>2, ParserFields DEF Parsers

LEMMA ParseHeadersFacts ==
    ASSUME NEW in, WellFormed(in), NEW p \in Parsers
    PROVE  HeadersParsed(in, p, ParseHeaders(p, in.text))
<1> DEFINE has(f) == \E i \in 2 .. Len(in.text) : in.text[i] = f
           lengths == {f \in DOMAIN LengthField : has(f)}
           F == Framing(in)
           r == ParseHeaders(p, in.text)
<1>1. DOMAIN LengthField = {"length=0", "length=1", "length=3"}
  BY DEF LengthField
<1>2. \A f : f # "other" => (has(f) <=> f \in F)
  BY FramingFacts
<1>3. \A f \in DOMAIN LengthField : LengthField[f] \in 0 .. 3
  BY DEF LengthField
<1>4. \A e \in States : /\ [p EXCEPT !.state = e] \in Parsers
                        /\ [p EXCEPT !.state = e].state = e /\ [p EXCEPT !.state = e].chunk = p.chunk
  BY DEF Parsers
<1>5. CASE F = {}
  <2>1. lengths = {} /\ ~has("length=bad") /\ ~has("chunked")
    BY <1>1, <1>2, <1>5
  <2>2. ~Chunked(in) /\ F # {"length=bad"}
    BY <1>5 DEF Chunked
  <2>3. CASE in.text[1] \in {"GET", "404"}
    <3>1. r = [p EXCEPT !.chunkLen = 0, !.state = "ExpectHttpComplete"]
      BY <2>1, <2>3 DEF ParseHeaders
    <3>2. r \in Parsers /\ r.chunk = p.chunk /\ r.state = "ExpectHttpComplete"
      <4>1. "ExpectHttpComplete" \in States /\ 0 \in Int
        BY DEF States
      <4>2. r.chunk = p.chunk /\ r.state = "ExpectHttpComplete"
        BY <3>1 DEF Parsers
      <4> HIDE DEF r
      <4> QED
        BY <3>1, <4>1, <4>2, ParserFields, ParserUpdate
    <3>3. PacketSize(in) = 0
      BY <1>5, <2>2, <2>3 DEF PacketSize
    <3> QED
      BY <2>2, <3>2, <3>3 DEF HeadersParsed
  <2>4. CASE in.text[1] \notin {"GET", "404"}
    <3>1. r = [p EXCEPT !.contentLen = -1, !.state = "ExpectStreamBody"]
      BY <2>1, <2>4 DEF ParseHeaders
    <3>2. r \in Parsers /\ r.chunk = p.chunk /\ r.state = "ExpectStreamBody"
      <4>1. "ExpectStreamBody" \in States /\ -1 \in -1 .. 3
        BY DEF States
      <4>2. r.chunk = p.chunk /\ r.state = "ExpectStreamBody"
        BY <3>1 DEF Parsers
      <4> HIDE DEF r
      <4> QED
        BY <3>1, <4>1, <4>2, ParserFields, ParserUpdate
    <3>3. PacketSize(in) = MaxBody
      BY <1>5, <2>2, <2>4 DEF PacketSize
    <3> QED
      BY <2>2, <3>2, <3>3 DEF HeadersParsed
  <2> QED
    BY <2>3, <2>4
<1>6. ASSUME NEW f \in DOMAIN LengthField, F = {f} PROVE HeadersParsed(in, p, r)
  <2>1. lengths = {f}
    BY <1>1, <1>2, <1>6
  <2>2. ~Chunked(in) /\ F # {"length=bad"}
    BY <1>1, <1>6 DEF Chunked
  <2>3. PICK n \in 0 .. 3 : n = LengthField[f]
    BY <1>3
  <2>4. (CHOOSE x \in lengths : TRUE) = f /\ (CHOOSE x \in Framing(in) : TRUE) = f
    BY <1>6, <2>1
  <2>5. PacketSize(in) = n
    BY <1>6, <2>2, <2>3, <2>4 DEF PacketSize
  <2>6. r = [p EXCEPT !.contentLen = n,
                      !.state = IF n = 0 THEN "ExpectHttpComplete" ELSE "ExpectNormalBody"]
    BY <2>1, <2>3, <2>4 DEF ParseHeaders
  <2>7. /\ r \in Parsers /\ r.chunk = p.chunk /\ r.contentLen = n
        /\ r.state = IF n = 0 THEN "ExpectHttpComplete" ELSE "ExpectNormalBody"
    <3>1. PICK e \in States : e = IF n = 0 THEN "ExpectHttpComplete" ELSE "ExpectNormalBody"
      BY DEF States
    <3>2. r.chunk = p.chunk /\ r.contentLen = n /\ r.state = e
      BY <2>6, <3>1 DEF Parsers
    <3>3. r = [p EXCEPT !.contentLen = n, !.state = e] /\ n \in -1 .. 3
      BY <2>6, <3>1
    <3> HIDE DEF r
    <3> QED
      BY <3>1, <3>2, <3>3, ParserFields, ParserUpdate
  <2> QED
    BY <2>2, <2>5, <2>7 DEF HeadersParsed
<1>7. CASE F = {"length=bad"}
  <2>1. lengths = {} /\ has("length=bad")
    BY <1>1, <1>2, <1>7
  <2>2. r = [p EXCEPT !.state = "ExpectError"]
    BY <2>1 DEF ParseHeaders
  <2>3. ~Chunked(in)
    BY <1>7 DEF Chunked
  <2> QED
    BY <1>4, <1>7, <2>2, <2>3 DEF HeadersParsed, States
<1>8. CASE F = {"chunked"}
  <2>1. lengths = {} /\ ~has("length=bad") /\ has("chunked")
    BY <1>1, <1>2, <1>8
  <2>2. r = [p EXCEPT !.state = "ExpectChunkLen"]
    BY <2>1 DEF ParseHeaders
  <2>3. Chunked(in) /\ F # {"length=bad"}
    BY <1>8 DEF Chunked
  <2> QED
    BY <1>4, <2>2, <2>3 DEF HeadersParsed, States
<1> QED
  BY <1>5, <1>6, <1>7, <1>8, FramingFacts DEF Chunked

(* Where the packet of a message is in its body. *)
PacketShape(in) ==
    /\ PacketSize(in) \in Nat /\ PacketStart(in) \in Nat \ {0}
    /\ PacketSize(in) # 0 => WholeLength(in) = PacketStart(in) - 1 + PacketSize(in)
    /\ PacketSize(in) = 0 => WholeLength(in) = IF Chunked(in) THEN PacketStart(in) + 1 ELSE 0
    /\ ~Chunked(in) => PacketStart(in) = 1
    /\ Chunked(in) => /\ PacketSize(in) = ChunkSize(in)
                      /\ PacketStart(in) = Search(in.body, CRLF) + 2

LEMMA ChunkSizeType ==
    ASSUME NEW in, WellFormed(in), Chunked(in), Search(in.body, CRLF) # 0
    PROVE  /\ ChunkSize(in) \in Nat /\ Search(in.body, CRLF) \in 1 .. Len(in.body) - 1
           /\ \A i \in 1 .. Search(in.body, CRLF) - 1 : in.body[i] \in DOMAIN DigitValue
<1>1. PICK w, s : w = Search(in.body, CRLF) /\ s = in.body
  OBVIOUS
<1>2. s \in Seq(Symbols) /\ Len(s) \in Nat
  BY <1>1, BytesFacts DEF BytesShape
<1>3. FirstAt(s, CRLF, w)
  BY <1>1, <1>2, MarkFacts, SearchFacts
<1>4. w \in 1 .. Len(s) - 1
  BY <1>1, <1>2, <1>3, MarkFacts DEF FirstAt, MarkAt
<1>5. \A i \in 1 .. w - 1 : s[i] \in DOMAIN DigitValue
  BY <1>1, <1>4 DEF WellFormed
<1>6. PICK d : d = SubSeq(s, 1, w - 1)
  OBVIOUS
<1>7. d \in Seq(Symbols) /\ Len(d) = w - 1 /\ \A i \in 1 .. Len(d) : d[i] = s[i]
  BY <1>2, <1>4, <1>6
<1>8. d \in Seq(DOMAIN DigitValue)
  BY <1>5, <1>7
<1>9. ChunkLength(d) \in Nat
  BY <1>8, ChunkLengthType
<1> QED
  BY <1>1, <1>4, <1>5, <1>6, <1>9 DEF ChunkSize

LEMMA PacketFacts ==
    ASSUME NEW in, WellFormed(in), ~NeverComplete(in)
    PROVE  PacketShape(in)
<1>1. WholeLength(in) = PacketStart(in) - 1 + IF Chunked(in) /\ ChunkSize(in) = 0 THEN 2
                                              ELSE PacketSize(in)
  BY MarkFacts DEF WholeLength
<1>2. CASE Chunked(in)
  <2>1. Search(in.body, CRLF) # 0
    BY <1>2 DEF NeverComplete
  <2>2. ChunkSize(in) \in Nat /\ Search(in.body, CRLF) \in Nat \ {0}
    BY <1>2, <2>1, ChunkSizeType
  <2>3. PacketSize(in) = ChunkSize(in) /\ PacketStart(in) = Search(in.body, CRLF) + 2
    BY <1>2 DEF PacketSize, PacketStart, Chunked
  <2> QED
    BY <1>1, <1>2, <2>2, <2>3 DEF PacketShape
<1>3. CASE ~Chunked(in)
  <2>1. PacketStart(in) = 1
    BY <1>3 DEF PacketStart
  <2>2. PacketSize(in) \in Nat
    <3>1. \A f \in DOMAIN LengthField : LengthField[f] \in Nat
      BY DEF LengthField
    <3>2. CASE Framing(in) = {}
      BY <1>3, <3>2, HttpLimits DEF PacketSize, Chunked
    <3>3. ASSUME NEW f \in DOMAIN LengthField, Framing(in) = {f} PROVE PacketSize(in) \in Nat
      <4>1. (CHOOSE x \in Framing(in) : TRUE) = f
        BY <3>3
      <4> QED
        BY <1>3, <3>1, <3>3, <4>1 DEF PacketSize
    <3> QED
      BY <1>3, <3>2, <3>3, FramingFacts DEF NeverComplete
  <2> QED
    BY <1>1, <1>3, <2>1, <2>2 DEF PacketShape
<1> QED
  BY <1>2, <1>3

(* What is readable behind the header block is of the body. *)
LEMMA BodyLeft ==
    ASSUME ReceiveTypes, BytesInv, NEW k \in Nat, Consumed = HeadSize(input) + k
    PROVE  /\ buf \in Seq(BodySymbols) /\ Size(buf) = Len(buf) /\ Len(buf) \in Nat
           /\ k + Len(buf) <= Len(input.body)
           /\ \A i \in 1 .. Len(buf) : buf[i] = input.body[k + i]
<1>1. PICK b : b = Bytes(input)
  OBVIOUS
<1>2. WellFormed(input)
  BY InputsAssumption DEF ReceiveTypes
<1>3. BytesShape(input, b)
  BY <1>1, <1>2, BytesFacts
<1>4. PICK h, m : h = HeadSize(input) /\ m = Len(input.body)
  OBVIOUS
<1>5. /\ h \in Nat /\ m \in Nat /\ Len(b) = h + m
      /\ \A i \in 1 .. m : b[h + i] = input.body[i]
  <2>1. Len(input.body) \in Nat /\ Len(input.text) \in Nat /\ HeadSize(input) = Len(input.text) + 4
    BY <1>3 DEF BytesShape
  <2>2. HeadSize(input) \in Nat
    BY <2>1
  <2>3. /\ Len(b) = HeadSize(input) + Len(input.body)
        /\ \A i \in 1 .. Len(input.body) : b[HeadSize(input) + i] = input.body[i]
    BY <1>3 DEF BytesShape
  <2> QED
    BY <1>4, <2>1, <2>2, <2>3
<1>6. buf \in Seq(Symbols) /\ Len(buf) \in Nat /\ Len(todo) \in Nat
  BY DEF ReceiveTypes
<1>7. h + k = Len(b) - Len(todo) - Len(buf)
  BY <1>1, <1>4 DEF Consumed
<1>8. k + Len(buf) <= m
  BY <1>5, <1>6, <1>7
<1>9. ASSUME NEW i \in 1 .. Len(buf) PROVE buf[i] = input.body[k + i] /\ k + i \in 1 .. m
  <2>1. buf[i] = b[(h + k) + i]
    BY <1>1, <1>4 DEF BytesInv
  <2>2. PICK j : j = k + i
    OBVIOUS
  <2>3. j \in 1 .. m /\ (h + k) + i = h + j
    BY <1>5, <1>6, <1>8, <2>2
  <2>4. b[h + j] = input.body[j]
    BY <1>5, <2>3
  <2> QED
    BY <2>1, <2>2, <2>3, <2>4
<1>10. buf \in Seq(BodySymbols)
  <2>1. input.body \in Seq(BodySymbols)
    BY <1>2 DEF WellFormed
  <2>2. \A i \in 1 .. Len(buf) : buf[i] \in BodySymbols
    BY <1>4, <1>9, <2>1
  <2> QED
    BY <1>6, <2>2
<1>11. Size(buf) = Len(buf)
  BY <1>6, <1>10, SizeFacts
<1> QED
  BY <1>4, <1>6, <1>8, <1>9, <1>10, <1>11

LEMMA AfterRetrieve ==
    ASSUME ReceiveTypes, BytesInv, NEW n \in 0 .. Len(buf), buf' = Retrieve(buf, n),
           todo' = todo, input' = input
    PROVE  /\ buf' \in Seq(Symbols) /\ Len(buf') = Len(buf) - n
           /\ BytesInv' /\ Consumed' = Consumed + n
<1>1. PICK w, c, b : w = buf' /\ c = Consumed /\ b = Bytes(input)
  OBVIOUS
<1>2. buf \in Seq(Symbols) /\ Len(buf) \in Nat /\ Len(todo) \in Nat /\ n \in Nat /\ n <= Len(buf)
  BY DEF ReceiveTypes
<1>3. w \in Seq(Symbols) /\ Len(w) = Len(buf) - n /\ \A i \in 1 .. Len(w) : w[i] = buf[n + i]
  <2>1. w = SubSeq(buf, n + 1, Len(buf))
    BY <1>1 DEF Retrieve
  <2> QED
    BY <1>2, <2>1
<1>4. c \in Nat /\ c = Len(b) - Len(todo) - Len(buf)
  BY <1>1 DEF BytesInv, Consumed
<1>5. Consumed' = Len(b) - Len(todo) - Len(w)
  BY <1>1 DEF Consumed
<1>6. PICK L : L = Len(b)
  OBVIOUS
<1>7. Consumed' = c + n
  <2>1. Len(b) \in Nat
    BY <1>1, BytesFacts, InputsAssumption DEF BytesShape, ReceiveTypes
  <2> QED
    BY <1>2, <1>3, <1>4, <1>5, <2>1
<1>8. ASSUME NEW i \in 1 .. Len(w) PROVE w[i] = b[(c + n) + i]
  <2>1. n + i \in 1 .. Len(buf) /\ c + (n + i) = (c + n) + i
    BY <1>2, <1>3, <1>4
  <2>2. buf[n + i] = b[c + (n + i)]
    BY <1>1, <2>1 DEF BytesInv
  <2> QED
    BY <1>3, <2>1, <2>2
<1>9. ASSUME NEW i \in 1 .. Len(todo) PROVE todo[i] = b[(c + n) + Len(w) + i]
  <2>1. todo[i] = b[c + Len(buf) + i]
    BY <1>1 DEF BytesInv
  <2>2. (c + n) + Len(w) + i = c + Len(buf) + i
    BY <1>2, <1>3, <1>4
  <2> QED
    BY <2>1, <2>2
<1>10. BytesInv'
  <2>1. \A i \in 1 .. Len(buf') : buf'[i] = Bytes(input')[Consumed' + i]
    BY <1>1, <1>7, <1>8
  <2>2. \A i \in 1 .. Len(todo') : todo'[i] = Bytes(input')[Consumed' + Len(buf') + i]
    BY <1>1, <1>7, <1>9
  <2>3. Consumed' \in Nat
    BY <1>2, <1>4, <1>7
  <2> QED
    BY <2>1, <2>2, <2>3 DEF BytesInv
<1> QED
  BY <1>1, <1>3, <1>7, <1>10

(* The three parsers of bodies put into the packet what follows of it. *)
LEMMA FillFacts ==
    ASSUME ReceiveTypes, BytesInv, NEW left, Filling(left),
           NEW cap, parser.chunk = NoPacket => cap = PacketSize(input),
           NEW f, f = Fill(parser, buf, cap)
    PROVE  /\ f.n \in 0 .. Len(buf) /\ f.n <= left /\ left \in 1 .. PacketSize(input)
           /\ f.packet \in Packets /\ f.packet.cap = PacketSize(input)
           /\ f.packet.data = SubSeq(input.body, PacketStart(input),
                                     PacketStart(input) + (Taken + f.n) - 1)
           /\ Space(f.packet) = left - f.n
           /\ PacketStart(input) + (Taken + f.n) - 1 <= Len(input.body)
<1>1. WellFormed(input) /\ PacketShape(input)
  BY InputsAssumption, PacketFacts DEF ReceiveTypes, Filling
<1>2. PICK t, z, s, y : t = Taken /\ z = PacketSize(input) /\ s = PacketStart(input) /\ y = input.body
  OBVIOUS
<1>3. z \in Nat /\ s \in Nat \ {0} /\ t \in Nat /\ t < z /\ left = z - t
  BY <1>1, <1>2 DEF Filling, PacketShape
<1>4. y \in Seq(BodySymbols) /\ Len(y) \in Nat
  BY <1>1, <1>2 DEF WellFormed
<1>5. PICK k \in Nat : k = s - 1 + t
  BY <1>3
<1>6. Consumed = HeadSize(input) + k
  <2>1. t = Consumed - HeadSize(input) - (s - 1) /\ Consumed \in Nat
    BY <1>2 DEF Taken, BytesInv
  <2>2. HeadSize(input) \in Nat
    BY <1>1, BytesFacts DEF BytesShape
  <2> QED
    BY <1>3, <1>5, <2>1, <2>2
<1>7. /\ buf \in Seq(BodySymbols) /\ Size(buf) = Len(buf) /\ Len(buf) \in Nat
      /\ k + Len(buf) <= Len(y) /\ \A i \in 1 .. Len(buf) : buf[i] = y[k + i]
  BY <1>2, <1>6, BodyLeft
<1>8. PICK d : d = SubSeq(y, s, s + t - 1)
  OBVIOUS
<1>9. d \in Seq(BodySymbols) /\ Len(d) = t /\ \A i \in 1 .. t : d[i] = y[s - 1 + i]
  <2>1. s + t - 1 <= Len(y) /\ s + t - 1 - s + 1 = t
    BY <1>3, <1>5, <1>7
  <2>2. CASE t = 0
    <3>1. d = <<>>
      BY <1>3, <1>4, <1>8, <2>2
    <3> QED
      BY <2>2, <3>1
  <2>3. CASE t # 0
    <3>1. s \in 1 .. Len(y) + 1 /\ s + t - 1 \in s - 1 .. Len(y)
      BY <1>3, <1>4, <2>1
    <3>2. d \in Seq(BodySymbols) /\ Len(d) = t /\ \A i \in 1 .. Len(d) : d[i] = y[s + i - 1]
      BY <1>3, <1>4, <1>8, <2>1, <3>1, SubSeqProperties
    <3> QED
      BY <1>3, <3>2
  <2> QED
    BY <2>2, <2>3
<1>10. PICK p : p = IF parser.chunk = NoPacket THEN NewPacket(cap) ELSE parser.chunk
  OBVIOUS
<1>11. p = [cap |-> z, data |-> d]
  <2>1. CASE parser.chunk = NoPacket
    <3>1. p = [cap |-> z, data |-> <<>>]
      BY <1>2, <1>10, <2>1 DEF NewPacket
    <3>2. PacketSoFar # NoPacket
      BY <1>2, <1>3 DEF PacketSoFar, NoPacket
    <3>3. t = 0
      BY <1>2, <2>1, <3>2 DEF Filling
    <3>4. d = <<>>
      BY <1>9, <3>3, EmptySeq
    <3> QED
      BY <3>1, <3>4
  <2>2. CASE parser.chunk # NoPacket
    <3>1. p = PacketSoFar
      BY <1>10, <2>2 DEF Filling
    <3> QED
      BY <1>2, <1>8, <3>1 DEF PacketSoFar
  <2> QED
    BY <2>1, <2>2
<1>12. Space(p) = left
  BY <1>3, <1>9, <1>11 DEF Space
<1>13. PICK n : n = IF Size(buf) < Space(p) THEN Size(buf) ELSE Space(p)
  OBVIOUS
<1>14. n \in 0 .. Len(buf) /\ n <= left /\ left \in 1 .. z
  BY <1>3, <1>7, <1>12, <1>13
<1>15. PICK a : a = SubSeq(buf, 1, n)
  OBVIOUS
<1>16. a \in Seq(BodySymbols) /\ Len(a) = n /\ \A i \in 1 .. n : a[i] = buf[i]
  BY <1>7, <1>14, <1>15
<1>17. PICK e : e = d \o a
  OBVIOUS
<1>18. f = [packet |-> [cap |-> z, data |-> e], n |-> n]
  <2>1. f = [packet |-> [p EXCEPT !.data = p.data \o SubSeq(buf, 1, n)], n |-> n]
    BY <1>10, <1>13 DEF Fill
  <2>2. p.data \o SubSeq(buf, 1, n) = e
    BY <1>11, <1>15, <1>17
  <2>3. f = [packet |-> [p EXCEPT !.data = e], n |-> n]
    BY <2>1, <2>2
  <2>4. [p EXCEPT !.data = e] = [cap |-> z, data |-> e]
    BY <1>11
  <2> QED
    BY <2>3, <2>4
<1>19. /\ e \in Seq(BodySymbols) /\ Len(e) = Len(d) + Len(a)
       /\ \A i \in 1 .. Len(e) : e[i] = IF i <= Len(d) THEN d[i] ELSE a[i - Len(d)]
  <2>1. d \in Seq(BodySymbols) /\ a \in Seq(BodySymbols)
    BY <1>9, <1>16
  <2> QED
    BY <1>17, <2>1, ConcatAt
<1>20. s + (t + n) - 1 <= Len(y)
  BY <1>3, <1>5, <1>7, <1>14
<1>21. e = SubSeq(y, s, s + (t + n) - 1)
  <2>1. PICK g : g = SubSeq(y, s, s + (t + n) - 1)
    OBVIOUS
  <2>2. PICK u \in Nat : u = t + n
    BY <1>3, <1>14
  <2>3. g \in Seq(BodySymbols) /\ Len(g) = u /\ \A i \in 1 .. u : g[i] = y[s - 1 + i]
    <3>1. CASE u = 0
      <4>1. g = <<>>
        BY <1>3, <1>4, <2>1, <2>2, <3>1
      <4> QED
        BY <3>1, <4>1
    <3>2. CASE u # 0
      <4>1. s \in 1 .. Len(y) + 1 /\ s + u - 1 \in s - 1 .. Len(y)
        BY <1>3, <1>4, <1>20, <2>2
      <4>2. g \in Seq(BodySymbols) /\ Len(g) = u /\ \A i \in 1 .. Len(g) : g[i] = y[s + i - 1]
        BY <1>3, <1>4, <2>1, <2>2, <4>1, SubSeqProperties, SMTT(20)
      <4> QED
        BY <1>3, <4>2
    <3> QED
      BY <3>1, <3>2
  <2>4. Len(e) = Len(g)
    BY <1>9, <1>16, <1>19, <2>2, <2>3
  <2>5. ASSUME NEW i \in 1 .. Len(e) PROVE e[i] = g[i]
    <3>1. i \in Nat /\ i <= t + n /\ g[i] = y[s - 1 + i]
      BY <1>9, <1>16, <1>19, <2>2, <2>3, <2>4
    <3>2. CASE i <= t
      BY <1>3, <1>9, <1>19, <3>1, <3>2
    <3>3. CASE i > t
      <4>1. PICK j : j = i - t
        OBVIOUS
      <4>2. j \in 1 .. n /\ k + j = s - 1 + i /\ j \in 1 .. Len(buf)
        BY <1>3, <1>5, <1>7, <1>14, <3>1, <3>3, <4>1
      <4>3. e[i] = a[j] /\ a[j] = buf[j] /\ buf[j] = y[k + j]
        BY <1>3, <1>7, <1>9, <1>16, <1>19, <3>3, <4>1, <4>2
      <4> QED
        BY <3>1, <4>2, <4>3
    <3> QED
      BY <1>3, <3>1, <3>2, <3>3
  <2>6. e = g
    BY <1>19, <2>3, <2>4, <2>5, SeqEqual
  <2> QED
    BY <2>1, <2>6
<1>22. f.n = n /\ f.packet = [cap |-> z, data |-> e]
  BY <1>18
<1>23. Space(f.packet) = left - n
  <2>1. Len(e) = t + n
    BY <1>9, <1>16, <1>19
  <2> QED
    BY <1>3, <1>14, <1>22, <2>1 DEF Space
<1>24. f.packet \in Packets
  BY <1>3, <1>19, <1>22 DEF Packets
<1>25. /\ f.n \in 0 .. Len(buf) /\ f.n <= left /\ left \in 1 .. z /\ f.packet.cap = z
       /\ Space(f.packet) = left - f.n
  BY <1>14, <1>22, <1>23
<1>26. /\ f.packet.data = SubSeq(y, s, s + (t + f.n) - 1)
       /\ s + (t + f.n) - 1 <= Len(y)
  <2>1. f.packet.data = e /\ f.n = n
    BY <1>22
  <2> QED
    BY <1>20, <1>21, <2>1
<1>27. /\ f.n \in 0 .. Len(buf) /\ f.n <= left /\ left \in 1 .. PacketSize(input)
       /\ f.packet \in Packets /\ f.packet.cap = PacketSize(input)
       /\ Space(f.packet) = left - f.n
  BY <1>2, <1>24, <1>25
<1>28. /\ f.packet.data = SubSeq(input.body, PacketStart(input),
                                 PacketStart(input) + (Taken + f.n) - 1)
       /\ PacketStart(input) + (Taken + f.n) - 1 <= Len(input.body)
  BY <1>2, <1>26
<1> QED
  BY <1>27, <1>28

(* What a round of the loop makes of parser and buffer. *)
Advance ==
    /\ parser' \in Parsers /\ buf' \in Seq(Symbols)
    /\ BytesInv' /\ HeadInv' /\ FillingInv' /\ ChunkInv'
    /\ parser'.state \in Complete =>
           parser'.chunk = WholePacket(input) /\ WholeLength(input) <= Len(input.body)
    /\ parser'.state = "ExpectError" => parser'.chunk = NoPacket

(* The packet takes what is readable, or all that is left. *)
FilledMore(left) ==
    /\ ~NeverComplete(input)
    /\ Taken' \in 0 .. PacketSize(input) - 1 /\ left = PacketSize(input) - Taken'
    /\ parser'.chunk = PacketSoFar'

LEMMA FilledFacts ==
    ASSUME ReceiveTypes, BytesInv, NEW left, Filling(left), input' = input, todo' = todo,
           NEW cap, parser.chunk = NoPacket => cap = PacketSize(input),
           NEW f, f = Fill(parser, buf, cap), buf' = Retrieve(buf, f.n),
           parser'.chunk = f.packet
    PROVE  /\ buf' \in Seq(Symbols) /\ BytesInv' /\ f.packet \in Packets
           /\ f.n \in 0 .. Len(buf) /\ left - f.n \in 0 .. left /\ left \in 1 .. PacketSize(input)
           /\ Space(f.packet) = left - f.n
           /\ left - f.n # 0 => FilledMore(left - f.n)
           /\ left - f.n = 0 =>
                 parser'.chunk = WholePacket(input) /\ WholeLength(input) <= Len(input.body)
<1>1. /\ f.n \in 0 .. Len(buf) /\ f.n <= left /\ left \in 1 .. PacketSize(input)
      /\ f.packet \in Packets /\ f.packet.cap = PacketSize(input)
      /\ f.packet.data = SubSeq(input.body, PacketStart(input),
                                PacketStart(input) + (Taken + f.n) - 1)
      /\ Space(f.packet) = left - f.n
      /\ PacketStart(input) + (Taken + f.n) - 1 <= Len(input.body)
  BY FillFacts
<1>2. PICK n : n = f.n
  OBVIOUS
<1>3. buf' \in Seq(Symbols) /\ BytesInv' /\ Consumed' = Consumed + n
  BY <1>1, <1>2, AfterRetrieve
<1>4. PacketShape(input) /\ WellFormed(input)
  BY InputsAssumption, PacketFacts DEF ReceiveTypes, Filling
<1>5. PICK z, s, t : z = PacketSize(input) /\ s = PacketStart(input) /\ t = Taken
  OBVIOUS
<1>6. z \in Nat /\ s \in Nat \ {0} /\ t \in Nat /\ t < z /\ left = z - t
  BY <1>4, <1>5 DEF Filling, PacketShape
<1>7. Taken' = t + n
  <2>1. HeadSize(input) \in Nat /\ Consumed \in Nat
    BY <1>4, BytesFacts DEF BytesShape, BytesInv
  <2>2. t = Consumed - HeadSize(input) - (s - 1) /\ Taken' = Consumed' - HeadSize(input) - (s - 1)
    BY <1>5 DEF Taken
  <2>3. n \in Nat
    BY <1>1, <1>2
  <2>4. PICK h, c : h = HeadSize(input) /\ c = Consumed
    OBVIOUS
  <2>5. Taken' = (c + n) - h - (s - 1) /\ t = c - h - (s - 1)
    BY <1>3, <2>2, <2>4
  <2> QED
    BY <1>6, <2>1, <2>3, <2>4, <2>5
<1>8. n \in Nat /\ n <= left /\ left - n \in 0 .. left
  BY <1>1, <1>2, <1>6
<1>9. f.packet = [cap |-> z, data |-> SubSeq(input.body, s, s + (t + n) - 1)]
  <2>1. f.packet = [cap |-> f.packet.cap, data |-> f.packet.data]
    BY <1>1 DEF Packets
  <2> QED
    BY <1>1, <1>2, <1>5, <2>1
<1>10. ASSUME left - n # 0 PROVE FilledMore(left - n)
  <2>1. t + n \in 0 .. z - 1 /\ left - n = z - (t + n)
    BY <1>6, <1>8, <1>10
  <2>2. PacketSoFar' = [cap |-> z, data |-> SubSeq(input.body, s, s + (t + n) - 1)]
    BY <1>5, <1>7 DEF PacketSoFar
  <2>3. ~NeverComplete(input)
    BY DEF Filling
  <2> QED
    BY <1>5, <1>7, <1>9, <2>1, <2>2, <2>3 DEF FilledMore
<1>11. ASSUME left - n = 0
       PROVE  parser'.chunk = WholePacket(input) /\ WholeLength(input) <= Len(input.body)
  <2>1. t + n = z /\ z # 0
    BY <1>6, <1>8, <1>11
  <2>2. WholePacket(input) = [cap |-> z, data |-> SubSeq(input.body, s, s + z - 1)]
    BY <1>5, <2>1 DEF WholePacket
  <2>3. WholeLength(input) = s - 1 + z
    BY <1>4, <1>5, <2>1 DEF PacketShape
  <2>4. s - 1 + z = s + (t + n) - 1
    BY <1>6, <1>8, <2>1
  <2> QED
    BY <1>1, <1>2, <1>5, <1>9, <2>1, <2>2, <2>3, <2>4
<1> QED
  BY <1>1, <1>2, <1>3, <1>8, <1>10, <1>11

LEMMA NormalBodyAdvances ==
    ASSUME ReceiveInv, parser.state = "ExpectNormalBody", input' = input, todo' = todo,
           NEW r, r = ParseNormalBody(parser, buf), parser' = r.p, buf' = r.buf
    PROVE  Advance
<1>1. /\ ReceiveTypes /\ BytesInv /\ ~Chunked(input) /\ Filling(parser.contentLen)
      /\ parser \in Parsers
  BY DEF ReceiveInv, FillingInv, ReceiveTypes
<1>2. PICK left : left = parser.contentLen
  OBVIOUS
<1>3. PICK f : f = Fill(parser, buf, left)
  OBVIOUS
<1>4. parser.chunk = NoPacket => left = PacketSize(input)
  <2>1. PacketShape(input)
    BY <1>1, InputsAssumption, PacketFacts DEF ReceiveTypes, Filling
  <2>2. PacketSoFar # NoPacket
    BY <1>1, <2>1 DEF PacketSoFar, NoPacket, PacketShape
  <2> QED
    BY <1>1, <1>2, <2>1, <2>2 DEF Filling, PacketShape
<1>5. /\ parser' = [parser EXCEPT !.chunk = f.packet, !.contentLen = left - f.n,
                          !.state = IF left - f.n = 0 THEN "ExpectHttpComplete" ELSE @]
      /\ buf' = Retrieve(buf, f.n)
  BY <1>2, <1>3 DEF ParseNormalBody, Parsed, Result
<1>6. PICK e : e = IF left - f.n = 0 THEN "ExpectHttpComplete" ELSE "ExpectNormalBody"
  OBVIOUS
<1>7. /\ parser' = [parser EXCEPT !.chunk = f.packet, !.contentLen = left - f.n, !.state = e]
      /\ parser'.chunk = f.packet /\ parser'.contentLen = left - f.n /\ parser'.state = e
  BY <1>1, <1>5, <1>6 DEF Parsers
<1>8. /\ buf' \in Seq(Symbols) /\ BytesInv' /\ f.packet \in Packets
      /\ f.n \in 0 .. Len(buf) /\ left - f.n \in 0 .. left /\ left \in 1 .. PacketSize(input)
      /\ left - f.n # 0 => FilledMore(left - f.n)
      /\ left - f.n = 0 =>
            parser'.chunk = WholePacket(input) /\ WholeLength(input) <= Len(input.body)
  BY <1>1, <1>2, <1>3, <1>4, <1>5, <1>7, FilledFacts
<1>9. parser' \in Parsers
  <2>1. e \in States /\ left - f.n \in -1 .. 3
    <3>1. left \in -1 .. 3
      BY <1>1, <1>2, ParserFields
    <3> QED
      BY <1>6, <1>8, <3>1 DEF States
  <2>2. PICK m, c : m = left - f.n /\ c = f.packet
    OBVIOUS
  <2>3. 0 \in Int /\ m \in -1 .. 3 /\ c \in Packets
        /\ parser' = [parser EXCEPT !.chunk = c, !.contentLen = m, !.state = e]
    BY <1>7, <1>8, <2>1, <2>2
  <2> QED
    BY <1>1, <2>1, <2>3, ParserUpdate
<1>10. FillingInv'
  <2>1. parser'.state # "ExpectStreamBody" /\ parser'.state # "ExpectChunkBody"
    BY <1>6, <1>7
  <2>2. ASSUME parser'.state = "ExpectNormalBody" PROVE ~Chunked(input') /\ Filling(parser.contentLen)'
    BY <1>1, <1>6, <1>7, <1>8, <2>2 DEF FilledMore, Filling
  <2> QED
    BY <2>1, <2>2 DEF FillingInv
<1>11. /\ HeadInv' /\ ChunkInv' /\ parser'.state # "ExpectError"
       /\ parser'.state \in Complete => left - f.n = 0
  BY <1>6, <1>7 DEF HeadInv, ChunkInv, Complete
<1>12. /\ parser'.state \in Complete =>
            parser'.chunk = WholePacket(input) /\ WholeLength(input) <= Len(input.body)
       /\ parser'.state = "ExpectError" => parser'.chunk = NoPacket
  BY <1>8, <1>11
<1> QED
  BY <1>8, <1>9, <1>10, <1>11, <1>12 DEF Advance

LEMMA StreamAdvances ==
    ASSUME ReceiveInv, parser.state = "ExpectStreamBody", input' = input, todo' = todo,
           NEW r, r = ParseStream(parser, buf), parser' = r.p, buf' = r.buf
    PROVE  Advance
<1>1. /\ ReceiveTypes /\ BytesInv /\ ~Chunked(input) /\ PacketSize(input) = MaxBody
      /\ Filling(MaxBody - Taken) /\ parser \in Parsers
  BY DEF ReceiveInv, FillingInv, ReceiveTypes
<1>2. PICK left : left = MaxBody - Taken
  OBVIOUS
<1>3. PICK f : f = Fill(parser, buf, MaxBody)
  OBVIOUS
<1>4. PICK e : e = IF Space(f.packet) = 0 THEN "ExpectChunkComplete" ELSE "ExpectStreamBody"
  OBVIOUS
<1>5. parser' = [parser EXCEPT !.chunk = f.packet, !.state = e] /\ buf' = Retrieve(buf, f.n)
  <2>1. parser' = [parser EXCEPT !.chunk = f.packet,
                          !.state = IF Space(f.packet) = 0 THEN "ExpectChunkComplete" ELSE @]
    BY <1>3 DEF ParseStream, Parsed, Result
  <2> QED
    BY <1>3, <1>4, <2>1 DEF ParseStream, Parsed, Result
<1>6. parser'.chunk = f.packet /\ parser'.state = e
  BY <1>1, <1>5 DEF Parsers
<1>7. /\ buf' \in Seq(Symbols) /\ BytesInv' /\ f.packet \in Packets
      /\ f.n \in 0 .. Len(buf) /\ left - f.n \in 0 .. left /\ left \in 1 .. PacketSize(input)
      /\ Space(f.packet) = left - f.n
      /\ left - f.n # 0 => FilledMore(left - f.n)
      /\ left - f.n = 0 =>
            parser'.chunk = WholePacket(input) /\ WholeLength(input) <= Len(input.body)
  BY <1>1, <1>2, <1>3, <1>5, <1>6, FilledFacts
<1>8. parser' \in Parsers
  <2>1. e \in States /\ f.packet \in Packets
    BY <1>4, <1>7 DEF States
  <2>2. PICK c : c = f.packet
    OBVIOUS
  <2>3. 0 \in Int /\ 0 \in -1 .. 3 /\ c \in Packets
        /\ parser' = [parser EXCEPT !.chunk = c, !.state = e]
    BY <1>5, <2>1, <2>2
  <2> QED
    BY <1>1, <2>1, <2>3, ParserUpdate
<1>9. FillingInv'
  <2>1. parser'.state # "ExpectNormalBody" /\ parser'.state # "ExpectChunkBody"
    BY <1>4, <1>6
  <2>2. ASSUME parser'.state = "ExpectStreamBody"
        PROVE  ~Chunked(input') /\ PacketSize(input') = MaxBody /\ Filling(MaxBody - Taken)'
    <3>1. FilledMore(left - f.n)
      BY <1>4, <1>6, <1>7, <2>2
    <3> QED
      BY <1>1, <3>1 DEF FilledMore, Filling
  <2> QED
    BY <2>1, <2>2 DEF FillingInv
<1>10. /\ HeadInv' /\ ChunkInv' /\ parser'.state # "ExpectError"
       /\ parser'.state \in Complete => left - f.n = 0
  BY <1>4, <1>6, <1>7 DEF HeadInv, ChunkInv, Complete
<1>11. /\ parser'.state \in Complete =>
            parser'.chunk = WholePacket(input) /\ WholeLength(input) <= Len(input.body)
       /\ parser'.state = "ExpectError" => parser'.chunk = NoPacket
  BY <1>7, <1>10
<1> QED
  BY <1>7, <1>8, <1>9, <1>10, <1>11 DEF Advance

LEMMA ChunkAdvances ==
    ASSUME ReceiveInv, parser.state = "ExpectChunkBody", input' = input, todo' = todo,
           NEW r, r = ParseChunk(parser, buf), parser' = r.p, buf' = r.buf
    PROVE  Advance
<1>1. /\ ReceiveTypes /\ BytesInv /\ Chunked(input) /\ Filling(parser.chunkLen)
      /\ parser \in Parsers
  BY DEF ReceiveInv, FillingInv, ReceiveTypes
<1>2. PICK left : left = parser.chunkLen
  OBVIOUS
<1>3. PICK f : f = Fill(parser, buf, left)
  OBVIOUS
<1>4. parser.chunk = NoPacket => left = PacketSize(input)
  <2>1. PacketShape(input)
    BY <1>1, InputsAssumption, PacketFacts DEF ReceiveTypes, Filling
  <2>2. PacketSoFar # NoPacket
    BY <1>1, <2>1 DEF PacketSoFar, NoPacket, PacketShape
  <2> QED
    BY <1>1, <1>2, <2>1, <2>2 DEF Filling, PacketShape
<1>5. PICK e : e = IF left - f.n = 0 \/ Space(f.packet) = 0 THEN "ExpectChunkComplete"
                                                            ELSE "ExpectChunkBody"
  OBVIOUS
<1>6. /\ parser' = [parser EXCEPT !.chunk = f.packet, !.chunkLen = left - f.n, !.state = e]
      /\ buf' = Retrieve(buf, f.n)
  <2>1. parser' = [parser EXCEPT !.chunk = f.packet, !.chunkLen = left - f.n,
                          !.state = IF left - f.n = 0 \/ Space(f.packet) = 0
                                    THEN "ExpectChunkComplete" ELSE @]
    BY <1>2, <1>3 DEF ParseChunk, Parsed, Result
  <2> QED
    BY <1>2, <1>3, <1>5, <2>1 DEF ParseChunk, Parsed, Result
<1>7. parser'.chunk = f.packet /\ parser'.chunkLen = left - f.n /\ parser'.state = e
  BY <1>1, <1>6 DEF Parsers
<1>8. /\ buf' \in Seq(Symbols) /\ BytesInv' /\ f.packet \in Packets
      /\ f.n \in 0 .. Len(buf) /\ left - f.n \in 0 .. left /\ left \in 1 .. PacketSize(input)
      /\ Space(f.packet) = left - f.n
      /\ left - f.n # 0 => FilledMore(left - f.n)
      /\ left - f.n = 0 =>
            parser'.chunk = WholePacket(input) /\ WholeLength(input) <= Len(input.body)
  BY <1>1, <1>2, <1>3, <1>4, <1>6, <1>7, FilledFacts
<1>9. parser' \in Parsers
  <2>1. e \in States /\ left - f.n \in Int
    BY <1>5, <1>8 DEF States
  <2>2. PICK m, c : m = left - f.n /\ c = f.packet
    OBVIOUS
  <2>3. 0 \in -1 .. 3 /\ m \in Int /\ c \in Packets
        /\ parser' = [parser EXCEPT !.chunk = c, !.chunkLen = m, !.state = e]
    BY <1>6, <1>8, <2>1, <2>2
  <2> QED
    BY <1>1, <2>1, <2>3, ParserUpdate
<1>10. FillingInv'
  <2>1. parser'.state # "ExpectStreamBody" /\ parser'.state # "ExpectNormalBody"
    BY <1>5, <1>7
  <2>2. ASSUME parser'.state = "ExpectChunkBody" PROVE Chunked(input') /\ Filling(parser.chunkLen)'
    <3>1. FilledMore(left - f.n)
      BY <1>5, <1>7, <1>8, <2>2
    <3> QED
      BY <1>1, <1>7, <3>1 DEF FilledMore, Filling
  <2> QED
    BY <2>1, <2>2 DEF FillingInv
<1>11. /\ HeadInv' /\ ChunkInv' /\ parser'.state # "ExpectError"
       /\ parser'.state \in Complete => left - f.n = 0
  BY <1>5, <1>7, <1>8 DEF HeadInv, ChunkInv, Complete
<1>12. /\ parser'.state \in Complete =>
            parser'.chunk = WholePacket(input) /\ WholeLength(input) <= Len(input.body)
       /\ parser'.state = "ExpectError" => parser'.chunk = NoPacket
  BY <1>8, <1>11
<1> QED
  BY <1>8, <1>9, <1>10, <1>11, <1>12 DEF Advance

LEMMA StandsStill ==
    ASSUME ReceiveInv, input' = input, todo' = todo, parser' = parser, buf' = buf
    PROVE  Advance
<1>1. ReceiveTypes /\ BytesInv /\ HeadInv /\ FillingInv /\ ChunkInv /\ EndInv
  BY DEF ReceiveInv
<1>2. Consumed' = Consumed /\ Taken' = Taken
  BY DEF Consumed, Taken
<1>3. BytesInv'
  BY <1>1, <1>2 DEF BytesInv
<1>4. HeadInv' /\ ChunkInv'
  BY <1>1, <1>2 DEF HeadInv, ChunkInv
<1>5. FillingInv'
  BY <1>1, <1>2 DEF FillingInv, Filling, PacketSoFar
<1> QED
  BY <1>1, <1>3, <1>4, <1>5 DEF Advance, EndInv, ReceiveTypes

(* An error ends the parsing, wherever the buffer is. *)
LEMMA ErrorAdvances ==
    ASSUME ReceiveInv, input' = input, todo' = todo, BytesInv', buf' \in Seq(Symbols),
           parser.chunk = NoPacket, parser' = [parser EXCEPT !.state = "ExpectError"]
    PROVE  Advance
<1>1. parser \in Parsers
  BY DEF ReceiveInv, ReceiveTypes
<1>2. parser'.state = "ExpectError" /\ parser'.chunk = NoPacket /\ parser' \in Parsers
  BY <1>1 DEF Parsers, States
<1> QED
  BY <1>2 DEF Advance, HeadInv, FillingInv, ChunkInv, Complete

LEMMA ChunkLenAdvances ==
    ASSUME ReceiveInv, parser.state = "ExpectChunkLen", input' = input, todo' = todo,
           NEW r, r = ParseChunkLen(parser, buf), parser' = r.p, buf' = r.buf
    PROVE  Advance
<1>1. /\ ReceiveTypes /\ BytesInv /\ Chunked(input) /\ Consumed = HeadSize(input)
      /\ parser.chunk = NoPacket /\ parser \in Parsers /\ buf \in Seq(Symbols)
  BY DEF ReceiveInv, ChunkInv, ReceiveTypes
<1>2. WellFormed(input)
  BY <1>1, InputsAssumption DEF ReceiveTypes
<1>3. HeadSize(input) \in Nat /\ input.body \in Seq(Symbols)
  BY <1>2, BytesFacts DEF BytesShape
<1>4. /\ Len(buf) \in Nat /\ Len(buf) <= Len(input.body)
      /\ \A i \in 1 .. Len(buf) : buf[i] = input.body[i]
  <2>1. Consumed = HeadSize(input) + 0
    BY <1>1, <1>3
  <2>2. /\ Len(buf) \in Nat /\ 0 + Len(buf) <= Len(input.body)
        /\ \A i \in 1 .. Len(buf) : buf[i] = input.body[0 + i]
    BY <1>1, <2>1, BodyLeft
  <2>3. \A i \in 1 .. Len(buf) : 0 + i = i
    BY <2>2
  <2> QED
    BY <1>3, <2>2, <2>3
<1>5. PICK w : w = Search(buf, CRLF)
  OBVIOUS
<1>6. w \in Nat /\ (w # 0 => w \in 1 .. Len(buf) - 1)
  <2>1. FirstAt(buf, CRLF, w)
    BY <1>1, <1>5, MarkFacts, SearchFacts
  <2> QED
    BY <1>4, <2>1, MarkFacts DEF FirstAt, MarkAt
<1>7. CASE w # 0
  <2>1. Search(input.body, CRLF) = w
    <3>1. PICK y, c : y = input.body /\ c = CRLF
      OBVIOUS
    <3>2. /\ y \in Seq(Symbols) /\ c \in Seq(Symbols) /\ Len(c) > 0 /\ Len(buf) <= Len(y)
          /\ \A i \in 1 .. Len(buf) : buf[i] = y[i]
      BY <1>3, <1>4, <3>1, MarkFacts
    <3>3. buf \in Seq(Symbols) /\ Search(buf, c) = w /\ Search(buf, c) > 0
      BY <1>1, <1>5, <1>6, <1>7, <3>1
    <3>4. Search(y, c) = w
      BY <3>2, <3>3, SearchPrefix
    <3> QED
      BY <3>1, <3>4
  <2>2. ~NeverComplete(input)
    BY <1>1, <1>7, <2>1 DEF NeverComplete, Chunked
  <2>3. PacketShape(input) /\ PacketSize(input) = ChunkSize(input) /\ PacketStart(input) = w + 2
    BY <1>1, <1>2, <2>1, <2>2, PacketFacts DEF PacketShape
  <2>4. PICK z \in Nat : z = PacketSize(input)
    BY <2>3 DEF PacketShape
  <2>5. ChunkLength(SubSeq(buf, 1, w - 1)) = z
    <3>1. SubSeq(buf, 1, w - 1) = SubSeq(input.body, 1, w - 1)
      <4>1. PICK a, c : a = SubSeq(buf, 1, w - 1) /\ c = SubSeq(input.body, 1, w - 1)
        OBVIOUS
      <4>2. a \in Seq(Symbols) /\ Len(a) = w - 1 /\ \A i \in 1 .. Len(a) : a[i] = buf[i]
        BY <1>1, <1>4, <1>6, <1>7, <4>1
      <4>3. c \in Seq(Symbols) /\ Len(c) = w - 1 /\ \A i \in 1 .. Len(c) : c[i] = input.body[i]
        BY <1>3, <1>4, <1>6, <1>7, <4>1
      <4>4. \A i \in 1 .. Len(a) : i \in 1 .. Len(buf)
        BY <1>4, <1>6, <1>7, <4>2
      <4>5. a = c
        BY <1>4, <4>2, <4>3, <4>4, SeqEqual
      <4> QED
        BY <4>1, <4>5
    <3> QED
      BY <2>1, <2>3, <2>4, <3>1 DEF ChunkSize
  <2>6. PICK e : e = IF z = 0 THEN "ExpectLastEmptyChunk" ELSE "ExpectChunkBody"
    OBVIOUS
  <2>7. parser' = [parser EXCEPT !.chunkLen = z, !.state = e] /\ buf' = Retrieve(buf, w + 1)
    <3> DEFINE tooLarge == IF z > MaxChunk THEN [parser EXCEPT !.state = "ExpectError"] ELSE parser
    <3>1. w > 0
      BY <1>6, <1>7
    <3>2. r = Parsed([tooLarge EXCEPT !.chunkLen = z, !.state = e], Retrieve(buf, w + 1))
      BY <1>5, <2>5, <2>6, <3>1 DEF ParseChunkLen
    <3>3. [tooLarge EXCEPT !.chunkLen = z, !.state = e] = [parser EXCEPT !.chunkLen = z, !.state = e]
      BY <1>1 DEF Parsers
    <3> QED
      BY <3>2, <3>3 DEF Parsed, Result
  <2>8. parser'.chunk = NoPacket /\ parser'.chunkLen = z /\ parser'.state = e
    BY <1>1, <2>7 DEF Parsers
  <2>9. parser' \in Parsers
    <3>1. e \in States /\ z \in Int /\ 0 \in -1 .. 3 /\ parser.chunk \in Packets
      BY <1>1, <2>6, ParserFields DEF States
    <3> QED
      BY <1>1, <2>7, <3>1, ParserUpdate
  <2>10. buf' \in Seq(Symbols) /\ BytesInv' /\ Consumed' = Consumed + (w + 1)
    <3>1. PICK n \in 0 .. Len(buf) : n = w + 1
      BY <1>4, <1>6, <1>7
    <3>2. buf' \in Seq(Symbols) /\ BytesInv' /\ Consumed' = Consumed + n
      BY <1>1, <2>7, <3>1, AfterRetrieve
    <3> QED
      BY <3>1, <3>2
  <2>11. Taken' = 0
    <3>1. PICK h, c, d, v : h = HeadSize(input) /\ c = Consumed /\ d = Consumed' /\ v = PacketStart(input)
      OBVIOUS
    <3>2. Taken' = Consumed' - HeadSize(input) - (PacketStart(input) - 1)
      BY DEF Taken
    <3>3. Taken' = d - h - (v - 1) /\ v = w + 2
      BY <2>3, <3>1, <3>2
    <3>4. h \in Nat /\ c = h /\ d = c + (w + 1)
      BY <1>1, <1>3, <2>10, <3>1
    <3> QED
      BY <1>6, <3>3, <3>4
  <2>12. HeadInv' /\ ~(parser'.state \in Complete) /\ parser'.state # "ExpectError"
    BY <2>6, <2>8 DEF HeadInv, Complete
  <2>13. FillingInv'
    <3>1. parser'.state # "ExpectNormalBody" /\ parser'.state # "ExpectStreamBody"
      BY <2>6, <2>8
    <3>2. ASSUME parser'.state = "ExpectChunkBody" PROVE Chunked(input') /\ Filling(parser.chunkLen)'
      <4>1. z # 0 /\ 0 \in 0 .. z - 1 /\ z = z - 0
        BY <2>6, <2>8, <3>2
      <4> QED
        BY <1>1, <2>2, <2>4, <2>8, <2>11, <4>1 DEF Filling
    <3> QED
      BY <3>1, <3>2 DEF FillingInv
  <2>14. ChunkInv'
    BY <1>1, <2>2, <2>4, <2>6, <2>8, <2>11 DEF ChunkInv
  <2> QED
    BY <2>9, <2>10, <2>12, <2>13, <2>14 DEF Advance
<1>8. CASE w = 0 /\ Size(buf) > MaxLine
  <2>1. parser' = [parser EXCEPT !.state = "ExpectError"] /\ buf' = <<>>
    BY <1>5, <1>8 DEF ParseChunkLen, Parsed, Result
  <2>2. PICK n \in 0 .. Len(buf) : n = Len(buf)
    BY <1>4
  <2>3. buf' = Retrieve(buf, n)
    BY <1>1, <1>4, <2>1, <2>2 DEF Retrieve
  <2>4. buf' \in Seq(Symbols) /\ BytesInv'
    BY <1>1, <2>3, AfterRetrieve
  <2> QED
    BY <1>1, <2>1, <2>4, ErrorAdvances
<1>9. CASE w = 0 /\ ~(Size(buf) > MaxLine)
  <2>1. parser' = parser /\ buf' = buf
    BY <1>5, <1>9 DEF ParseChunkLen, Parsed, Result
  <2> QED
    BY <2>1, StandsStill
<1> QED
  BY <1>7, <1>8, <1>9

LEMMA LastChunkAdvances ==
    ASSUME ReceiveInv, parser.state = "ExpectLastEmptyChunk", input' = input, todo' = todo,
           NEW r, r = ParseLastEmptyChunk(parser, buf), parser' = r.p, buf' = r.buf
    PROVE  Advance
<1>1. /\ ReceiveTypes /\ BytesInv /\ Chunked(input) /\ ~NeverComplete(input)
      /\ PacketSize(input) = 0 /\ Taken = 0 /\ parser \in Parsers /\ buf \in Seq(Symbols)
  BY DEF ReceiveInv, ChunkInv, ReceiveTypes
<1>2. WellFormed(input) /\ PacketShape(input)
  BY <1>1, InputsAssumption, PacketFacts DEF ReceiveTypes
<1>3. PICK s \in Nat \ {0} : s = PacketStart(input)
  BY <1>2 DEF PacketShape
<1>4. Len(buf) \in Nat /\ s - 1 + Len(buf) <= Len(input.body)
  <2>1. HeadSize(input) \in Nat /\ Consumed \in Nat
    BY <1>1, <1>2, BytesFacts DEF BytesShape, BytesInv
  <2>2. PICK k \in Nat : k = s - 1
    BY <1>3
  <2>3. Consumed - HeadSize(input) - (s - 1) = 0
    BY <1>1, <1>3 DEF Taken
  <2>4. Consumed = HeadSize(input) + k
    BY <2>1, <2>2, <2>3
  <2> QED
    BY <1>1, <2>2, <2>4, BodyLeft
<1>5. PICK w : w = Search(buf, CRLF)
  OBVIOUS
<1>6. w \in Nat /\ (w # 0 => w \in 1 .. Len(buf) - 1)
  <2>1. FirstAt(buf, CRLF, w)
    BY <1>1, <1>5, MarkFacts, SearchFacts
  <2> QED
    BY <1>4, <2>1, MarkFacts DEF FirstAt, MarkAt
<1>7. CASE w # 0
  <2>1. /\ parser' = [parser EXCEPT !.chunk = NoPacket, !.state = "ExpectChunkComplete"]
        /\ buf' = Retrieve(buf, w + 1)
    BY <1>5, <1>6, <1>7 DEF ParseLastEmptyChunk, Parsed, Result
  <2>2. parser'.chunk = NoPacket /\ parser'.state = "ExpectChunkComplete"
    BY <1>1, <2>1 DEF Parsers
  <2>3. parser' \in Parsers
    <3>1. NoPacket \in Packets /\ "ExpectChunkComplete" \in States /\ 0 \in Int /\ 0 \in -1 .. 3
      BY DEF NoPacket, Packets, States
    <3> QED
      BY <1>1, <2>1, <3>1, ParserUpdate
  <2>4. buf' \in Seq(Symbols) /\ BytesInv'
    <3>1. PICK n \in 0 .. Len(buf) : n = w + 1
      BY <1>4, <1>6, <1>7
    <3> QED
      BY <1>1, <2>1, <3>1, AfterRetrieve
  <2>5. NoPacket = WholePacket(input) /\ WholeLength(input) <= Len(input.body)
    <3>1. WholeLength(input) = s + 1
      BY <1>1, <1>2, <1>3 DEF PacketShape
    <3>2. s + 1 <= s - 1 + Len(buf)
      BY <1>3, <1>4, <1>6, <1>7
    <3>3. Len(input.body) \in Nat
      BY <1>2, BytesFacts DEF BytesShape
    <3> QED
      BY <1>1, <1>3, <1>4, <3>1, <3>2, <3>3 DEF WholePacket
  <2> QED
    BY <2>2, <2>3, <2>4, <2>5 DEF Advance, HeadInv, FillingInv, ChunkInv
<1>8. CASE w = 0
  <2>1. parser' = parser /\ buf' = buf
    BY <1>5, <1>8 DEF ParseLastEmptyChunk, Parsed, Result
  <2> QED
    BY <2>1, StandsStill
<1> QED
  BY <1>7, <1>8


(* Behind the header block, the state says how the body is framed.         *)
LEMMA FramedAdvances ==
    ASSUME ReceiveInv, parser.state = "ExpectHeaders", input' = input,
           HeadersParsed(input, parser, parser'), buf' \in Seq(Symbols), BytesInv',
           Consumed' = HeadSize(input)
    PROVE  Advance
<1>1. parser' \in Parsers /\ parser'.chunk = NoPacket
  BY DEF ReceiveInv, HeadInv, HeadersParsed
<1>2. WellFormed(input)
  BY InputsAssumption DEF ReceiveInv, ReceiveTypes
<1>3. HeadSize(input) \in Nat /\ Len(input.body) \in Nat
  BY <1>2, BytesFacts DEF BytesShape
<1>4. CASE Framing(input) = {"length=bad"}
  <2>1. parser'.state = "ExpectError"
    BY <1>4 DEF HeadersParsed
  <2> QED
    BY <1>1, <2>1 DEF Advance, HeadInv, FillingInv, ChunkInv, Complete
<1>5. CASE Chunked(input)
  <2>1. parser'.state = "ExpectChunkLen"
    BY <1>5 DEF HeadersParsed
  <2>2. ChunkInv'
    BY <1>1, <1>5, <2>1 DEF ChunkInv
  <2> QED
    BY <1>1, <2>1, <2>2 DEF Advance, HeadInv, FillingInv, Complete
<1>6. CASE Framing(input) # {"length=bad"} /\ ~Chunked(input)
  <2>1. ~NeverComplete(input)
    BY <1>6 DEF NeverComplete
  <2>2. PacketShape(input)
    BY <1>2, <2>1, PacketFacts
  <2>3. PICK z \in Nat : z = PacketSize(input)
    BY <2>2 DEF PacketShape
  <2>4. Taken' = 0
    <3>1. PICK h, d, v : h = HeadSize(input) /\ d = Consumed' /\ v = PacketStart(input)
      OBVIOUS
    <3>2. Taken' = Consumed' - HeadSize(input) - (PacketStart(input) - 1)
      BY DEF Taken
    <3>3. Taken' = d - h - (v - 1) /\ v = 1 /\ d = h /\ h \in Nat
      BY <1>3, <1>6, <2>2, <3>1, <3>2 DEF PacketShape
    <3> QED
      BY <3>3
  <2>5. CASE z = 0 /\ parser'.state = "ExpectHttpComplete"
    <3>1. NoPacket = WholePacket(input) /\ WholeLength(input) <= Len(input.body)
      BY <1>3, <1>6, <2>2, <2>3, <2>5 DEF WholePacket, PacketShape
    <3> QED
      BY <1>1, <2>5, <3>1 DEF Advance, HeadInv, FillingInv, ChunkInv
  <2>6. CASE z \in 1 .. 3 /\ parser'.contentLen = z /\ parser'.state = "ExpectNormalBody"
    <3>1. Filling(parser.contentLen)'
      <4>1. 0 \in 0 .. z - 1 /\ z = z - 0
        BY <2>6
      <4> QED
        BY <1>1, <2>1, <2>3, <2>4, <2>6, <4>1 DEF Filling
    <3>2. FillingInv'
      BY <1>6, <2>6, <3>1 DEF FillingInv
    <3> QED
      BY <1>1, <2>6, <3>2 DEF Advance, HeadInv, ChunkInv, Complete
  <2>7. CASE z = MaxBody /\ parser'.state = "ExpectStreamBody"
    <3>1. Filling(MaxBody - Taken)'
      <4>1. 0 \in 0 .. z - 1 /\ MaxBody - 0 = z - 0
        BY <2>7, HttpLimits
      <4> QED
        BY <1>1, <2>1, <2>3, <2>4, <4>1 DEF Filling
    <3>2. FillingInv'
      BY <1>6, <2>3, <2>7, <3>1 DEF FillingInv
    <3> QED
      BY <1>1, <2>7, <3>2 DEF Advance, HeadInv, ChunkInv, Complete
  <2> QED
    BY <1>6, <2>3, <2>5, <2>6, <2>7 DEF HeadersParsed
<1> QED
  BY <1>4, <1>5, <1>6

LEMMA HeadAdvances ==
    ASSUME ReceiveInv, parser.state = "ExpectHeaders", input' = input, todo' = todo,
           NEW r, r = ParseHead(parser, buf), parser' = r.p, buf' = r.buf
    PROVE  /\ Advance
           /\ \/ r.returned = r.p.state
              \/ r.returned = "ExpectContinue" /\ r.p.state = "ExpectHeaders"
<1>1. /\ ReceiveTypes /\ BytesInv /\ Consumed = 0 /\ parser.chunk = NoPacket
      /\ parser \in Parsers /\ buf \in Seq(Symbols) /\ todo \in Seq(Symbols)
  BY DEF ReceiveInv, HeadInv, ReceiveTypes
<1>2. WellFormed(input)
  BY <1>1, InputsAssumption DEF ReceiveTypes
<1>3. PICK b, x : b = Bytes(input) /\ x = input.text
  OBVIOUS
<1>4. /\ b \in Seq(Symbols) /\ Len(b) \in Nat /\ x \in Seq(Symbols) /\ Len(x) \in Nat \ {0}
      /\ HeadSize(input) = Len(x) + 4 /\ \A i \in 1 .. Len(x) : b[i] = x[i]
  BY <1>2, <1>3, BytesFacts DEF BytesShape
<1>5. /\ Len(buf) \in Nat /\ Len(buf) <= Len(b)
      /\ \A i \in 1 .. Len(buf) : buf[i] = b[i]
  <2>1. Len(buf) \in Nat /\ Len(todo) \in Nat /\ 0 = Len(b) - Len(todo) - Len(buf)
    BY <1>1, <1>3 DEF Consumed
  <2>2. \A i \in 1 .. Len(buf) : buf[i] = b[0 + i] /\ 0 + i = i
    BY <1>1, <1>3, <2>1 DEF BytesInv
  <2> QED
    BY <1>4, <2>1, <2>2
<1>6. PICK end : end = Search(buf, CRLFCRLF)
  OBVIOUS
<1>7. end \in Nat /\ (end # 0 => end + 3 \in 0 .. Len(buf))
  <2>1. FirstAt(buf, CRLFCRLF, end)
    BY <1>1, <1>6, MarkFacts, SearchFacts
  <2> QED
    BY <1>5, <2>1, MarkFacts DEF FirstAt, MarkAt
<1>8. CASE Size(buf) > Len(CRLFCRLF) /\ end > 0
  <2>1. end = Len(x) + 1
    <3>1. PICK c : c = CRLFCRLF
      OBVIOUS
    <3>2. /\ c \in Seq(Symbols) /\ Len(c) > 0 /\ Search(buf, c) = end /\ Search(buf, c) > 0
          /\ buf \in Seq(Symbols)
      BY <1>1, <1>6, <1>8, <3>1, MarkFacts
    <3>3. Search(b, c) = end
      BY <1>4, <1>5, <3>2, SearchPrefix
    <3> QED
      BY <1>2, <1>3, <3>1, <3>3, HeadSearch
  <2>2. SubSeq(buf, 1, end - 1) = x
    <3>1. PICK a : a = SubSeq(buf, 1, Len(x))
      OBVIOUS
    <3>2. Len(x) \in Nat /\ Len(x) + 4 <= Len(buf)
      BY <1>4, <1>7, <1>8, <2>1
    <3>3. a \in Seq(Symbols) /\ Len(a) = Len(x) /\ \A i \in 1 .. Len(a) : a[i] = buf[i]
      BY <1>1, <1>5, <3>1, <3>2
    <3>4. \A i \in 1 .. Len(a) : a[i] = x[i]
      BY <1>4, <1>5, <3>2, <3>3
    <3>5. a = x
      BY <1>4, <3>3, <3>4, SeqEqual
    <3> QED
      BY <1>4, <2>1, <3>1, <3>5
  <2>3. r = Parsed(ParseHeaders(parser, x), Retrieve(buf, end + 3))
    <3>1. end + Len(CRLFCRLF) - 1 = end + 3
      BY <1>7, MarkFacts
    <3> QED
      BY <1>6, <1>8, <2>2, <3>1 DEF ParseHead
  <2>4. parser' = ParseHeaders(parser, x) /\ buf' = Retrieve(buf, end + 3) /\ r.returned = r.p.state
    BY <2>3 DEF Parsed, Result
  <2>5. HeadersParsed(input, parser, parser')
    BY <1>1, <1>2, <1>3, <2>4, ParseHeadersFacts
  <2>6. buf' \in Seq(Symbols) /\ BytesInv' /\ Consumed' = HeadSize(input)
    <3>1. PICK n \in 0 .. Len(buf) : n = end + 3
      BY <1>7, <1>8
    <3>2. buf' \in Seq(Symbols) /\ BytesInv' /\ Consumed' = Consumed + n
      BY <1>1, <2>4, <3>1, AfterRetrieve
    <3>3. n = HeadSize(input) /\ Consumed + n = n
      BY <1>1, <1>4, <2>1, <3>1
    <3> QED
      BY <3>2, <3>3
  <2>7. Advance
    BY <2>5, <2>6, FramedAdvances
  <2> QED
    BY <2>4, <2>7
<1>9. CASE ~(Size(buf) > Len(CRLFCRLF) /\ end > 0) /\ Size(buf) > Len(CRLFCRLF) /\ Size(buf) > MaxBody
  <2>1. parser' = [parser EXCEPT !.state = "ExpectError"] /\ buf' = buf /\ r.returned = r.p.state
    BY <1>6, <1>9 DEF ParseHead, Parsed, Result
  <2>2. BytesInv'
    <3>1. Consumed' = Consumed
      BY <2>1 DEF Consumed
    <3> QED
      BY <1>1, <2>1, <3>1 DEF BytesInv
  <2> QED
    BY <1>1, <2>1, <2>2, ErrorAdvances
<1>10. CASE ~(Size(buf) > Len(CRLFCRLF) /\ end > 0) /\ ~(Size(buf) > Len(CRLFCRLF) /\ Size(buf) > MaxBody)
  <2>1. parser' = parser /\ buf' = buf /\ r.returned = "ExpectContinue"
    BY <1>6, <1>10 DEF ParseHead, Result
  <2> QED
    BY <2>1, StandsStill
<1> QED
  BY <1>8, <1>9, <1>10

LEMMA ParsedFacts == \A p, b : Parsed(p, b).returned = Parsed(p, b).p.state
  BY DEF Parsed, Result

(* A round of the loop, whatever state it finds. *)
LEMMA RoundAdvances ==
    ASSUME ReceiveInv, input' = input, todo' = todo,
           NEW r, r = Parse(parser, buf), parser' = r.p, buf' = r.buf
    PROVE  /\ Advance
           /\ \/ r.returned = r.p.state
              \/ r.returned = "ExpectContinue" /\ r.p.state = "ExpectHeaders"
           /\ parser.state \in Complete => r.p = parser
<1>1. parser.state \in States
  BY ParserFields DEF ReceiveInv, ReceiveTypes
<1>2. CASE parser.state = "ExpectHeaders"
  <2>1. r = ParseHead(parser, buf)
    BY <1>2 DEF Parse
  <2> QED
    BY <1>2, <2>1, HeadAdvances DEF Complete
<1>3. CASE parser.state = "ExpectNormalBody"
  <2>1. r = ParseNormalBody(parser, buf)
    BY <1>3 DEF Parse
  <2>2. r.returned = r.p.state
    BY <2>1, ParsedFacts DEF ParseNormalBody
  <2> QED
    BY <1>3, <2>1, <2>2, NormalBodyAdvances DEF Complete
<1>4. CASE parser.state = "ExpectStreamBody"
  <2>1. r = ParseStream(parser, buf)
    BY <1>4 DEF Parse
  <2>2. r.returned = r.p.state
    BY <2>1, ParsedFacts DEF ParseStream
  <2> QED
    BY <1>4, <2>1, <2>2, StreamAdvances DEF Complete
<1>5. CASE parser.state = "ExpectChunkLen"
  <2>1. r = ParseChunkLen(parser, buf)
    BY <1>5 DEF Parse
  <2>2. r.returned = r.p.state
    BY <2>1 DEF ParseChunkLen, Parsed, Result
  <2> QED
    BY <1>5, <2>1, <2>2, ChunkLenAdvances DEF Complete
<1>6. CASE parser.state = "ExpectChunkBody"
  <2>1. r = ParseChunk(parser, buf)
    BY <1>6 DEF Parse
  <2>2. r.returned = r.p.state
    BY <2>1, ParsedFacts DEF ParseChunk
  <2> QED
    BY <1>6, <2>1, <2>2, ChunkAdvances DEF Complete
<1>7. CASE parser.state = "ExpectLastEmptyChunk"
  <2>1. r = ParseLastEmptyChunk(parser, buf)
    BY <1>7 DEF Parse
  <2>2. r.returned = r.p.state
    BY <2>1 DEF ParseLastEmptyChunk, Parsed, Result
  <2> QED
    BY <1>7, <2>1, <2>2, LastChunkAdvances DEF Complete
<1>8. CASE parser.state \in Complete \cup {"ExpectError"}
  <2>1. r = Parsed(parser, buf)
    BY <1>8 DEF Parse, Complete
  <2>2. r.p = parser /\ r.buf = buf /\ r.returned = r.p.state
    BY <2>1 DEF Parsed, Result
  <2> QED
    BY <2>2, StandsStill
<1> QED
  BY <1>1, <1>2, <1>3, <1>4, <1>5, <1>6, <1>7, <1>8 DEF States, Complete

(* A message is remembered when it is complete, the first MaxGiven of them.*)
LEMMA GivenKeeps ==
    ASSUME ReceiveInv, Advance, NEW returned, input' = input,
           \/ returned = parser'.state
           \/ returned = "ExpectContinue" /\ parser'.state = "ExpectHeaders",
           parser.state \in Complete => parser' = parser,
           IF returned \in Complete
           THEN given' = IF Len(given) < MaxGiven THEN Append(given, parser'.chunk) ELSE given
           ELSE given' = given
    PROVE  given' \in Seq(Packets) /\ Len(given') <= MaxGiven /\ GivenInv'
<1>1. /\ given \in Seq(Packets) /\ Len(given) \in Nat /\ Len(given) <= MaxGiven
      /\ GivenInv /\ parser' \in Parsers /\ MaxGiven \in Nat \ {0}
  BY ContextAssumption DEF ReceiveInv, ReceiveTypes, Advance
<1>2. parser'.chunk \in Packets /\ WholePacket(input') = WholePacket(input)
  BY <1>1, ParserFields
<1>3. CASE returned \in Complete
  <2>1. parser'.state \in Complete /\ parser'.chunk = WholePacket(input)
    BY <1>3 DEF Advance, Complete
  <2>2. CASE Len(given) < MaxGiven
    <3>1. PICK c : c = parser'.chunk
      OBVIOUS
    <3>2. PICK g : g = given'
      OBVIOUS
    <3>3. g = Append(given, c) /\ c \in Packets
      BY <1>2, <1>3, <2>2, <3>1, <3>2
    <3>4. /\ g \in Seq(Packets) /\ Len(g) = Len(given) + 1 /\ g # <<>>
          /\ \A i \in 1 .. Len(g) : g[i] = IF i <= Len(given) THEN given[i] ELSE c
      BY <1>1, <3>3
    <3>5. \A i \in 1 .. Len(given) : given[i] = WholePacket(input)
      BY <1>1 DEF GivenInv
    <3>6. \A i \in 1 .. Len(g) : g[i] = WholePacket(input)
      BY <1>1, <2>1, <3>1, <3>4, <3>5
    <3>7. Len(g) <= MaxGiven
      BY <1>1, <2>2, <3>4
    <3>8. GivenInv'
      BY <1>2, <2>1, <3>2, <3>4, <3>6 DEF GivenInv
    <3> QED
      BY <3>2, <3>4, <3>7, <3>8
  <2>3. CASE ~(Len(given) < MaxGiven)
    <3>1. given' = given
      BY <1>3, <2>3
    <3>2. given # <<>>
      BY <1>1, <2>3
    <3>3. \A i \in 1 .. Len(given) : given[i] = WholePacket(input)
      BY <1>1 DEF GivenInv
    <3>4. GivenInv'
      BY <1>2, <2>1, <3>1, <3>2, <3>3 DEF GivenInv
    <3> QED
      BY <1>1, <3>1, <3>4
  <2> QED
    BY <2>2, <2>3
<1>4. CASE returned \notin Complete
  <2>1. given' = given
    BY <1>4
  <2>2. parser'.state \notin Complete
    BY <1>4 DEF Complete
  <2>3. parser.state \notin Complete
    BY <2>2
  <2>4. given = <<>>
    BY <1>1, <2>3 DEF GivenInv
  <2>5. GivenInv'
    BY <2>1, <2>2, <2>4 DEF GivenInv
  <2> QED
    BY <1>1, <2>1, <2>5
<1> QED
  BY <1>3, <1>4

LEMMA RoundReceives == ReceiveInv /\ ParseRound => ReceiveInv'
<1> SUFFICES ASSUME ReceiveInv, ParseRound PROVE ReceiveInv'
  OBVIOUS
<1>1. PICK r : r = Parse(parser, buf)
  OBVIOUS
<1>2. /\ parser' = r.p /\ buf' = r.buf /\ input' = input /\ todo' = todo
      /\ closed' = (closed \/ r.returned = "ExpectError")
      /\ IF r.returned \in Complete
         THEN given' = IF Len(given) < MaxGiven THEN Append(given, parser'.chunk) ELSE given
         ELSE given' = given
  BY <1>1 DEF ParseRound
<1>3. /\ Advance
      /\ \/ r.returned = parser'.state
         \/ r.returned = "ExpectContinue" /\ parser'.state = "ExpectHeaders"
      /\ parser.state \in Complete => parser' = parser
  BY <1>1, <1>2, RoundAdvances
<1>4. PICK e : e = r.returned
  OBVIOUS
<1>5. given' \in Seq(Packets) /\ Len(given') <= MaxGiven /\ GivenInv'
  <2>1. IF e \in Complete
        THEN given' = IF Len(given) < MaxGiven THEN Append(given, parser'.chunk) ELSE given
        ELSE given' = given
    BY <1>2, <1>4
  <2> QED
    BY <1>2, <1>3, <1>4, <2>1, GivenKeeps
<1>6. closed' \in BOOLEAN /\ (parser'.state = "ExpectError" => closed')
  <2>1. closed' <=> (closed \/ r.returned = "ExpectError")
    BY <1>2
  <2>2. closed' \in BOOLEAN
    BY <1>2
  <2>3. ASSUME parser'.state = "ExpectError" PROVE r.returned = "ExpectError"
    BY <1>3, <2>3
  <2> QED
    BY <2>1, <2>2, <2>3
<1>7. ReceiveTypes'
  BY <1>2, <1>3, <1>5, <1>6 DEF ReceiveInv, ReceiveTypes, Advance
<1>8. EndInv'
  BY <1>2, <1>3, <1>6 DEF EndInv, Advance
<1> QED
  BY <1>3, <1>5, <1>7, <1>8 DEF ReceiveInv, Advance

(* OnRead appends what it has read. *)
LEMMA ReadReceives ==
    ASSUME ReceiveInv, NEW n \in 1 .. Len(todo), Read(n)
    PROVE  ReceiveInv'
<1>1. /\ input' = input /\ parser' = parser /\ closed' = closed /\ given' = given
      /\ buf' = buf \o SubSeq(todo, 1, n) /\ todo' = Retrieve(todo, n)
  BY DEF Read
<1>2. /\ ReceiveTypes /\ BytesInv /\ HeadInv /\ FillingInv /\ ChunkInv /\ EndInv /\ GivenInv
      /\ buf \in Seq(Symbols) /\ todo \in Seq(Symbols)
      /\ Len(buf) \in Nat /\ Len(todo) \in Nat /\ n \in Nat /\ n <= Len(todo)
  BY DEF ReceiveInv, ReceiveTypes
<1>3. PICK w, z, a : w = buf' /\ z = todo' /\ a = SubSeq(todo, 1, n)
  OBVIOUS
<1>4. a \in Seq(Symbols) /\ Len(a) = n /\ \A i \in 1 .. n : a[i] = todo[i]
  BY <1>2, <1>3
<1>5. /\ w \in Seq(Symbols) /\ Len(w) = Len(buf) + n
      /\ \A i \in 1 .. Len(w) : w[i] = IF i <= Len(buf) THEN buf[i] ELSE a[i - Len(buf)]
  <2>1. buf \in Seq(Symbols) /\ a \in Seq(Symbols) /\ w = buf \o a
    BY <1>1, <1>2, <1>3, <1>4
  <2>2. /\ w \in Seq(Symbols) /\ Len(w) = Len(buf) + Len(a)
        /\ \A i \in 1 .. Len(w) : w[i] = IF i <= Len(buf) THEN buf[i] ELSE a[i - Len(buf)]
    BY <2>1, ConcatAt
  <2> QED
    BY <1>4, <2>2
<1>6. z \in Seq(Symbols) /\ Len(z) = Len(todo) - n /\ \A i \in 1 .. Len(z) : z[i] = todo[n + i]
  <2>1. z = SubSeq(todo, n + 1, Len(todo))
    BY <1>1, <1>3 DEF Retrieve
  <2> QED
    BY <1>2, <2>1
<1>7. PICK b, c : b = Bytes(input) /\ c = Consumed
  OBVIOUS
<1>8. c \in Nat /\ Len(b) \in Nat /\ c = Len(b) - Len(todo) - Len(buf)
  <2>1. c \in Nat /\ c = Len(b) - Len(todo) - Len(buf)
    BY <1>2, <1>7 DEF BytesInv, Consumed
  <2>2. Len(b) \in Nat
    BY <1>2, <1>7, BytesFacts, InputsAssumption DEF BytesShape, ReceiveTypes
  <2> QED
    BY <2>1, <2>2
<1>9. Consumed' = c
  <2>1. Consumed' = Len(b) - Len(z) - Len(w)
    BY <1>1, <1>3, <1>7 DEF Consumed
  <2> QED
    BY <1>2, <1>5, <1>6, <1>8, <2>1
<1>10. ASSUME NEW i \in 1 .. Len(w) PROVE w[i] = b[c + i]
  <2>1. CASE i <= Len(buf)
    <3>1. i \in 1 .. Len(buf)
      BY <1>2, <1>5, <2>1
    <3>2. buf[i] = b[c + i]
      BY <1>2, <1>7, <3>1 DEF BytesInv
    <3> QED
      BY <1>5, <2>1, <3>2
  <2>2. CASE ~(i <= Len(buf))
    <3>1. PICK j : j = i - Len(buf)
      OBVIOUS
    <3>2. j \in 1 .. n /\ j \in 1 .. Len(todo) /\ c + Len(buf) + j = c + i
      BY <1>2, <1>5, <1>8, <2>2, <3>1
    <3>3. todo[j] = b[c + Len(buf) + j]
      BY <1>2, <1>7, <3>2 DEF BytesInv
    <3> QED
      BY <1>4, <1>5, <2>2, <3>1, <3>2, <3>3
  <2> QED
    BY <2>1, <2>2
<1>11. ASSUME NEW i \in 1 .. Len(z) PROVE z[i] = b[c + Len(w) + i]
  <2>1. PICK j : j = n + i
    OBVIOUS
  <2>2. j \in 1 .. Len(todo) /\ c + Len(buf) + j = c + Len(w) + i
    BY <1>2, <1>5, <1>6, <1>8, <2>1
  <2>3. todo[j] = b[c + Len(buf) + j]
    BY <1>2, <1>7, <2>2 DEF BytesInv
  <2> QED
    BY <1>6, <2>1, <2>2, <2>3
<1>12. BytesInv'
  <2>1. \A i \in 1 .. Len(buf') : buf'[i] = Bytes(input')[Consumed' + i]
    BY <1>1, <1>3, <1>7, <1>9, <1>10
  <2>2. \A i \in 1 .. Len(todo') : todo'[i] = Bytes(input')[Consumed' + Len(buf') + i]
    BY <1>1, <1>3, <1>7, <1>9, <1>11
  <2>3. Consumed' \in Nat
    BY <1>8, <1>9
  <2> QED
    BY <2>1, <2>2, <2>3 DEF BytesInv
<1>13. Consumed' = Consumed /\ Taken' = Taken
  <2>1. Consumed' = Consumed
    BY <1>7, <1>9
  <2> QED
    BY <1>1, <2>1 DEF Taken
<1>14. HeadInv' /\ ChunkInv' /\ EndInv' /\ GivenInv'
  BY <1>1, <1>2, <1>13 DEF HeadInv, ChunkInv, EndInv, GivenInv
<1>15. FillingInv'
  BY <1>1, <1>2, <1>13 DEF FillingInv, Filling, PacketSoFar
<1>16. ReceiveTypes'
  BY <1>1, <1>2, <1>3, <1>5, <1>6 DEF ReceiveTypes
<1> QED
  BY <1>12, <1>14, <1>15, <1>16 DEF ReceiveInv

LEMMA ReceiveUnchanged == ReceiveInv /\ UNCHANGED receiving => ReceiveInv'
<1> SUFFICES ASSUME ReceiveInv, UNCHANGED receiving PROVE ReceiveInv'
  OBVIOUS
<1>1. /\ input' = input /\ parser' = parser /\ closed' = closed /\ given' = given
      /\ buf' = buf /\ todo' = todo
  BY DEF receiving
<1>2. /\ ReceiveTypes /\ BytesInv /\ HeadInv /\ FillingInv /\ ChunkInv /\ EndInv /\ GivenInv
  BY DEF ReceiveInv
<1>3. Consumed' = Consumed
  BY <1>1 DEF Consumed
<1>4. Taken' = Taken
  BY <1>1, <1>3 DEF Taken
<1>5. HeadInv' /\ ChunkInv' /\ EndInv' /\ GivenInv' /\ BytesInv'
  BY <1>1, <1>2, <1>3, <1>4 DEF HeadInv, ChunkInv, EndInv, GivenInv, BytesInv
<1>6. FillingInv' /\ ReceiveTypes'
  BY <1>1, <1>2, <1>3, <1>4 DEF FillingInv, Filling, PacketSoFar, ReceiveTypes
<1> QED
  BY <1>5, <1>6 DEF ReceiveInv

LEMMA ReceiveInit == ContextInit => ReceiveInv
<1> SUFFICES ASSUME ContextInit PROVE ReceiveInv
  OBVIOUS
<1>1. /\ input \in Inputs /\ todo = Bytes(input) /\ buf = <<>> /\ given = <<>>
      /\ parser = NewParser /\ closed = FALSE
  BY DEF ContextInit
<1>2. Bytes(input) \in Seq(Symbols) /\ Len(Bytes(input)) \in Nat
  BY <1>1, BytesFacts, InputsAssumption DEF BytesShape
<1>3. parser.state = "ExpectHeaders" /\ parser.chunk = NoPacket /\ parser \in Parsers
  BY <1>1 DEF NewParser, Parsers, States, Packets, NoPacket
<1>4. Consumed = 0
  <2>1. PICK k : k = Len(Bytes(input))
    OBVIOUS
  <2>2. Len(buf) = 0 /\ Len(todo) = k /\ k \in Nat
    BY <1>1, <1>2, <2>1
  <2>3. Consumed = k - k - 0
    BY <2>1, <2>2 DEF Consumed
  <2> QED
    BY <2>2, <2>3
<1>5. ReceiveTypes
  <2>1. MaxGiven \in Nat /\ closed \in BOOLEAN
    BY <1>1, ContextAssumption
  <2>2. buf \in Seq(Symbols) /\ given \in Seq(Packets) /\ Len(given) = 0 /\ todo \in Seq(Symbols)
    BY <1>1, <1>2
  <2> QED
    BY <1>1, <1>3, <2>1, <2>2 DEF ReceiveTypes
<1>6. BytesInv
  <2>1. Len(buf) = 0 /\ \A i \in 1 .. Len(todo) : todo[i] = Bytes(input)[0 + 0 + i]
    BY <1>1, <1>2
  <2> QED
    BY <1>4, <2>1 DEF BytesInv
<1>7. HeadInv /\ FillingInv /\ ChunkInv /\ EndInv /\ GivenInv
  BY <1>1, <1>3, <1>4 DEF HeadInv, FillingInv, ChunkInv, EndInv, GivenInv, Complete
<1> QED
  BY <1>5, <1>6, <1>7 DEF ReceiveInv

LEMMA ReceiveStep == ReceiveInv /\ [ContextNext]_contextVars => ReceiveInv'
<1> SUFFICES ASSUME ReceiveInv, [ContextNext]_contextVars PROVE ReceiveInv'
  OBVIOUS
<1>1. CASE \E n \in 1 .. Len(todo) : Read(n)
  BY <1>1, ReadReceives
<1>2. CASE \E n \in 1 .. Len(queue) : OnWrite(n)
  BY <1>2, ReceiveUnchanged DEF OnWrite
<1>3. CASE Post
  BY <1>3, ReceiveUnchanged DEF Post, PostRequest, PostHeaderAndPacket, PostStreamHeader,
     PostChunk, PostStreamChunk, PostHeaderInstead, PostEofChunk, MayPost
<1>4. CASE ParseRound
  BY <1>4, RoundReceives
<1>5. CASE ParseReturns \/ HandlerReturns \/ WriteComplete \/ MarkHeaderSent
  BY <1>5, ReceiveUnchanged DEF ParseReturns, HandlerReturns, WriteComplete, MarkHeaderSent
<1>6. CASE UNCHANGED contextVars
  BY <1>6, ReceiveUnchanged DEF contextVars
<1> QED
  BY <1>1, <1>2, <1>3, <1>4, <1>5, <1>6 DEF ContextNext, LoopThread

(* A call of Parse that has not returned is in the stack. *)
Parsing(calls) == \E i \in 1 .. Len(calls) : calls[i] = "parse"

LEMMA ParsingStays ==
    ASSUME NEW calls \in Seq(Frames), Parsing(calls)
    PROVE  /\ \A f \in Frames : Parsing(<<f>> \o calls)
           /\ calls # <<>>
           /\ Head(calls) # "parse" =>
                 Parsing(Tail(calls)) /\ \A f \in Frames : Parsing(<<f>> \o Tail(calls))
<1>1. ASSUME NEW s \in Seq(Frames), Parsing(s), NEW f \in Frames PROVE Parsing(<<f>> \o s)
  <2>1. PICK k : k = <<f>> \o s
    OBVIOUS
  <2>2. PICK g : g = <<f>>
    OBVIOUS
  <2>3. g \in Seq(Frames) /\ Len(g) = 1 /\ k = g \o s
    BY <2>1, <2>2
  <2>4. Len(k) = 1 + Len(s) /\ \A i \in 1 .. Len(k) : k[i] = IF i <= 1 THEN g[i] ELSE s[i - 1]
    <3>0. g \in Seq(Frames) /\ s \in Seq(Frames) /\ k = g \o s
      BY <2>3
    <3>1. /\ Len(k) = Len(g) + Len(s)
          /\ \A i \in 1 .. Len(k) : k[i] = IF i <= Len(g) THEN g[i] ELSE s[i - Len(g)]
      BY <3>0, ConcatAt
    <3> QED
      BY <2>3, <3>1
  <2>5. PICK i \in 1 .. Len(s) : s[i] = "parse"
    BY <1>1 DEF Parsing
  <2>6. PICK j : j = i + 1
    OBVIOUS
  <2>7. j \in 1 .. Len(k) /\ ~(j <= 1) /\ j - 1 = i
    BY <2>4, <2>6
  <2>8. k[j] = "parse"
    BY <2>4, <2>5, <2>7
  <2> QED
    BY <2>1, <2>7, <2>8 DEF Parsing
<1>2. PICK i \in 1 .. Len(calls) : calls[i] = "parse"
  BY DEF Parsing
<1>3. calls # <<>>
  BY <1>2
<1>4. ASSUME Head(calls) # "parse" PROVE Tail(calls) \in Seq(Frames) /\ Parsing(Tail(calls))
  <2>1. PICK s : s = Tail(calls)
    OBVIOUS
  <2>2. /\ s \in Seq(Frames) /\ Len(s) = Len(calls) - 1 /\ Len(calls) \in Nat \ {0}
        /\ \A k \in 1 .. Len(s) : s[k] = calls[k + 1]
    BY <1>3, <2>1, EmptySeq
  <2>3. i # 1
    BY <1>2, <1>3, <1>4
  <2>4. PICK j : j = i - 1
    OBVIOUS
  <2>5. j \in 1 .. Len(s) /\ j + 1 = i
    BY <2>2, <2>3, <2>4
  <2>6. s[j] = "parse"
    BY <1>2, <2>2, <2>5
  <2> QED
    BY <2>1, <2>2, <2>5, <2>6 DEF Parsing
<1> QED
  BY <1>1, <1>3, <1>4

LEMMA LoopKeeps == PostingTypes /\ ReceiveTypes /\ LoopInv /\ [ContextNext]_contextVars => LoopInv'
<1> SUFFICES ASSUME PostingTypes, ReceiveTypes, LoopInv, [ContextNext]_contextVars PROVE LoopInv'
  OBVIOUS
<1>1. stack \in Seq(Frames)
  BY DEF PostingTypes
<1>2. Parsing(stack) \/ Size(buf) <= 1
  BY DEF LoopInv, Parsing
<1>3. SUFFICES Parsing(stack') \/ Size(buf') <= 1
  BY DEF LoopInv, Parsing
<1>4. ASSUME stack = <<>>, buf' = buf PROVE Parsing(stack') \/ Size(buf') <= 1
  BY <1>1, <1>2, <1>4, ParsingStays
<1>5. ASSUME buf' = buf,
             \/ stack' = stack \/ \E f \in Frames : stack' = <<f>> \o stack
             \/ /\ Head(stack) # "parse"
                /\ stack' = Tail(stack) \/ \E f \in Frames : stack' = <<f>> \o Tail(stack)
      PROVE  Parsing(stack') \/ Size(buf') <= 1
  BY <1>1, <1>2, <1>5, ParsingStays
<1>6. ASSUME NEW n \in 1 .. Len(todo), Read(n) PROVE Parsing(stack')
  <2>1. stack' = <<"parse">>
    BY <1>6 DEF Read
  <2>2. Len(stack') = 1 /\ stack'[1] = "parse"
    BY <2>1
  <2> QED
    BY <2>2 DEF Parsing
<1>7. ASSUME NEW n \in 1 .. Len(queue), OnWrite(n) PROVE Parsing(stack') \/ Size(buf') <= 1
  BY <1>4, <1>7 DEF OnWrite, receiving
<1>8. ASSUME Post PROVE Parsing(stack') \/ Size(buf') <= 1
  <2>1. buf' = buf
    BY <1>8 DEF Post, PostRequest, PostHeaderAndPacket, PostStreamHeader, PostChunk,
       PostStreamChunk, PostHeaderInstead, PostEofChunk, MayPost, receiving
  <2>2. "complete" \in Frames /\ "mark" \in Frames
    BY DEF Frames
  <2>3. CASE PostHeaderInstead
    <3>1. \/ stack' = <<"mark">> \o stack
          \/ stack' = <<"complete">> \o (<<"mark">> \o stack)
      BY <2>3 DEF PostHeaderInstead, Send
    <3>2. ASSUME Parsing(stack) PROVE Parsing(stack')
      <4>1. PICK k : k = <<"mark">> \o stack
        OBVIOUS
      <4>2. k \in Seq(Frames) /\ Parsing(k)
        BY <1>1, <2>2, <3>2, <4>1, ParsingStays
      <4> QED
        BY <2>2, <3>1, <4>1, <4>2, ParsingStays
    <3> QED
      BY <1>2, <2>1, <3>2
  <2>4. CASE ~PostHeaderInstead
    <3>1. stack' = stack \/ stack' = <<"complete">> \o stack
      BY <1>8, <2>4 DEF Post, PostRequest, PostHeaderAndPacket, PostStreamHeader, PostChunk,
         PostStreamChunk, PostEofChunk, Send
    <3> QED
      BY <1>5, <2>1, <2>2, <3>1
  <2> QED
    BY <2>3, <2>4
<1>9. ASSUME ParseRound PROVE Parsing(stack')
  <2>1. Parsing(stack)
    <3>1. stack # <<>> /\ Head(stack) = "parse"
      BY <1>9 DEF ParseRound, In
    <3>2. 1 \in 1 .. Len(stack) /\ stack[1] = "parse"
      BY <1>1, <3>1, EmptySeq
    <3> QED
      BY <3>2 DEF Parsing
  <2>2. stack' = stack \/ stack' = <<"request">> \o stack
    BY <1>9 DEF ParseRound
  <2> QED
    BY <1>1, <2>1, <2>2, ParsingStays DEF Frames
<1>10. ASSUME ParseReturns PROVE Size(buf') <= 1
  <2>1. ~(Size(buf) > 1) /\ buf' = buf
    BY <1>10 DEF ParseReturns, MoreToParse, receiving
  <2>2. Size(buf) \in Nat
    BY SizeFacts DEF ReceiveTypes
  <2> QED
    BY <2>1, <2>2
<1>11. ASSUME HandlerReturns \/ MarkHeaderSent PROVE Parsing(stack') \/ Size(buf') <= 1
  <2>1. Head(stack) # "parse" /\ stack' = Tail(stack) /\ buf' = buf
    BY <1>11 DEF HandlerReturns, MarkHeaderSent, In, receiving
  <2> QED
    BY <1>5, <2>1
<1>12. ASSUME WriteComplete PROVE Parsing(stack') \/ Size(buf') <= 1
  <2>1. Head(stack) # "parse" /\ buf' = buf
    BY <1>12 DEF WriteComplete, In, receiving
  <2>2. \/ stack' = Tail(stack) \/ stack' = <<"complete">> \o Tail(stack)
        \/ stack' = <<"sent">> \o Tail(stack) \/ stack' = <<"next">> \o Tail(stack)
    BY <1>12 DEF WriteComplete, SendPacket, TellHandler, NothingToTell, Send
  <2> QED
    BY <1>5, <2>1, <2>2 DEF Frames
<1>13. ASSUME UNCHANGED contextVars PROVE Parsing(stack') \/ Size(buf') <= 1
  BY <1>5, <1>13 DEF contextVars, receiving
<1> QED
  BY <1>6, <1>7, <1>8, <1>9, <1>10, <1>11, <1>12, <1>13 DEF ContextNext, LoopThread

(* What a Parse has consumed when it waits is less than the message.       *)
LEMMA StillWaiting ==
    ASSUME ReceiveInv, ~closed, given = <<>>,
           Len(Bytes(input)) - Len(todo) >= HeadSize(input) + WholeLength(input)
    PROVE  Size(buf) >= 1
<1>1. /\ ReceiveTypes /\ BytesInv /\ HeadInv /\ FillingInv /\ ChunkInv /\ EndInv /\ GivenInv
      /\ buf \in Seq(Symbols) /\ todo \in Seq(Symbols) /\ Len(buf) \in Nat /\ Len(todo) \in Nat
  BY DEF ReceiveInv, ReceiveTypes
<1>2. WellFormed(input)
  BY <1>1, InputsAssumption DEF ReceiveTypes
<1>3. PICK h, m, c, l : h = HeadSize(input) /\ m = Len(input.body) /\ c = Consumed
                        /\ l = Len(Bytes(input))
  OBVIOUS
<1>4. h \in Nat /\ h >= 5 /\ m \in Nat /\ l = h + m
  BY <1>2, <1>3, BytesFacts, SMTT(20) DEF BytesShape
<1>5. c \in Nat /\ c = l - Len(todo) - Len(buf)
  BY <1>1, <1>3 DEF BytesInv, Consumed
<1>6. PICK k : k = WholeLength(input)
  OBVIOUS
<1>7. Len(buf) >= h + k - c /\ k \in Nat /\ k <= m /\ ~NeverComplete(input)
  <2>1. l - Len(todo) >= h + k
    BY <1>3, <1>6
  <2>2. CASE NeverComplete(input)
    <3>1. k = m + 1
      BY <1>3, <1>6, <2>2 DEF WholeLength
    <3> QED
      BY <1>1, <1>4, <2>1, <3>1
  <2>3. CASE ~NeverComplete(input)
    <3>1. PacketShape(input)
      BY <1>2, <2>3, PacketFacts
    <3>2. k \in Nat
      BY <1>6, <3>1 DEF PacketShape
    <3> QED
      BY <1>1, <1>4, <1>5, <2>1, <2>3, <3>2
  <2> QED
    BY <2>2, <2>3
<1>8. PacketShape(input)
  BY <1>2, <1>7, PacketFacts
<1>9. PICK s, z, t : s = PacketStart(input) /\ z = PacketSize(input) /\ t = Taken
  OBVIOUS
<1>10. s \in Nat \ {0} /\ z \in Nat /\ t = c - h - (s - 1)
  BY <1>3, <1>8, <1>9 DEF PacketShape, Taken
<1>11. SUFFICES c < h + k
  <2>1. Len(buf) >= 1
    BY <1>1, <1>4, <1>5, <1>7, <1>11
  <2>2. Size(buf) \in Nat /\ Len(buf) <= Size(buf)
    BY <1>1, SizeFacts
  <2> QED
    BY <1>1, <2>1, <2>2
<1>12. CASE parser.state = "ExpectHeaders"
  <2>1. c = 0
    BY <1>1, <1>3, <1>12 DEF HeadInv
  <2> QED
    BY <1>4, <1>7, <2>1
<1>13. CASE parser.state \in {"ExpectNormalBody", "ExpectStreamBody", "ExpectChunkBody"}
  <2>1. \E left : Filling(left)
    BY <1>1, <1>13 DEF FillingInv
  <2>2. t \in 0 .. z - 1
    BY <1>9, <2>1 DEF Filling
  <2>3. k = s - 1 + z
    BY <1>6, <1>8, <1>9, <1>10, <2>2 DEF PacketShape
  <2> QED
    BY <1>4, <1>5, <1>10, <2>2, <2>3
<1>14. CASE parser.state = "ExpectChunkLen"
  <2>1. Chunked(input) /\ c = h
    BY <1>1, <1>3, <1>14 DEF ChunkInv
  <2>2. k >= 1
    <3>1. s >= 2
      <4>1. Search(input.body, CRLF) \in Nat
        BY <1>2, MarkFacts, SearchFacts, BytesFacts DEF FirstAt, BytesShape
      <4> QED
        BY <1>8, <1>9, <2>1, <4>1 DEF PacketShape
    <3>2. k = s + 1 \/ k = s - 1 + z
      BY <1>6, <1>8, <1>9, <2>1 DEF PacketShape
    <3> QED
      BY <1>10, <3>1, <3>2
  <2> QED
    BY <1>4, <1>7, <2>1, <2>2
<1>15. CASE parser.state = "ExpectLastEmptyChunk"
  <2>1. Chunked(input) /\ z = 0 /\ t = 0
    BY <1>1, <1>9, <1>15 DEF ChunkInv
  <2>2. k = s + 1
    BY <1>6, <1>8, <1>9, <2>1 DEF PacketShape
  <2> QED
    BY <1>4, <1>5, <1>10, <2>1, <2>2
<1>16. parser.state \notin Complete /\ parser.state # "ExpectError"
  BY <1>1 DEF GivenInv, EndInv
<1>17. parser.state \in States
  BY <1>1, ParserFields DEF ReceiveTypes
<1> QED
  BY <1>12, <1>13, <1>14, <1>15, <1>16, <1>17 DEF States, Complete

LEMMA ReceivingServes == ReceiveInv /\ LoopInv => Served
<1> SUFFICES ASSUME ReceiveInv, LoopInv, stack = <<>>, ~closed, given = <<>>,
                    Len(Bytes(input)) - Len(todo) >=
                        Len(input.text) + Len(CRLFCRLF) + WholeLength(input)
             PROVE  Size(buf) = 1
  BY DEF Served
<1>1. Size(buf) <= 1
  BY DEF LoopInv
<1>2. Size(buf) >= 1
  BY StillWaiting DEF HeadSize
<1>3. Size(buf) \in Nat
  BY SizeFacts DEF ReceiveInv, ReceiveTypes
<1> QED
  BY <1>1, <1>2, <1>3

(* The data of a packet never exceeds its capacity. *)
LEMMA RoomLeft ==
    ASSUME ReceiveInv
    PROVE  Len(parser.chunk.data) <= IF parser.chunk = NoPacket THEN 0 ELSE parser.chunk.cap
<1>1. /\ ReceiveTypes /\ BytesInv /\ HeadInv /\ FillingInv /\ ChunkInv /\ EndInv
      /\ parser \in Parsers
  BY DEF ReceiveInv, ReceiveTypes
<1>2. WellFormed(input)
  BY <1>1, InputsAssumption DEF ReceiveTypes
<1>3. CASE parser.chunk = NoPacket
  <2>1. NoPacket.data = <<>>
    BY DEF NoPacket
  <2> QED
    BY <1>3, <2>1
<1>4. ASSUME NEW n \in Nat, ~NeverComplete(input), n <= PacketSize(input), parser.chunk # NoPacket,
             PacketStart(input) + n - 1 <= Len(input.body),
             parser.chunk = [cap |-> PacketSize(input),
                             data |-> SubSeq(input.body, PacketStart(input), PacketStart(input) + n - 1)]
      PROVE  Len(parser.chunk.data) <= parser.chunk.cap
  <2>1. PICK y, s, z, d : /\ y = input.body /\ s = PacketStart(input) /\ z = PacketSize(input)
                          /\ d = SubSeq(y, s, s + n - 1)
    OBVIOUS
  <2>2. y \in Seq(Symbols) /\ Len(y) \in Nat /\ s \in Nat \ {0} /\ z \in Nat
    BY <1>2, <1>4, <2>1, BytesFacts, PacketFacts DEF BytesShape, PacketShape
  <2>3. s + n - 1 <= Len(y) /\ n <= z
    BY <1>4, <2>1
  <2>4. Len(d) = n
    <3>1. s \in 1 .. Len(y) + 1 /\ s + n - 1 \in s - 1 .. Len(y)
      BY <2>2, <2>3
    <3>2. Len(d) = s + n - 1 - s + 1
      BY <2>1, <2>2, <3>1, SubSeqProperties, SMTT(20)
    <3> QED
      BY <2>2, <3>2
  <2>5. parser.chunk = [cap |-> z, data |-> d]
    BY <1>4, <2>1
  <2> QED
    BY <2>2, <2>3, <2>4, <2>5
<1>5. ASSUME NEW left, Filling(left), parser.chunk # NoPacket
      PROVE  Len(parser.chunk.data) <= parser.chunk.cap
  <2>1. PICK n : n = Taken
    OBVIOUS
  <2>2. /\ ~NeverComplete(input) /\ n \in 0 .. PacketSize(input) - 1
        /\ parser.chunk = [cap |-> PacketSize(input),
                           data |-> SubSeq(input.body, PacketStart(input), PacketStart(input) + n - 1)]
    BY <1>5, <2>1 DEF Filling, PacketSoFar
  <2>3. PICK s, z, h, m, c : /\ s = PacketStart(input) /\ z = PacketSize(input) /\ h = HeadSize(input)
                             /\ m = Len(input.body) /\ c = Consumed
    OBVIOUS
  <2>4. s \in Nat \ {0} /\ z \in Nat /\ n = c - h - (s - 1)
    BY <1>2, <2>1, <2>2, <2>3, PacketFacts DEF PacketShape, Taken
  <2>5. h \in Nat /\ m \in Nat /\ c \in Nat /\ c <= h + m
    <3>1. h \in Nat /\ m \in Nat /\ Len(Bytes(input)) = h + m
      BY <1>2, <2>3, BytesFacts DEF BytesShape
    <3>2. /\ Len(todo) \in Nat /\ Len(buf) \in Nat /\ c \in Nat
          /\ c = Len(Bytes(input)) - Len(todo) - Len(buf)
      BY <1>1, <2>3 DEF ReceiveTypes, BytesInv, Consumed
    <3> QED
      BY <3>1, <3>2
  <2>6. n \in Nat /\ n <= z /\ s + n - 1 <= m
    <3>1. n \in 0 .. z - 1
      BY <2>2, <2>3
    <3> QED
      BY <2>4, <2>5, <3>1
  <2> QED
    BY <1>4, <1>5, <2>2, <2>3, <2>6
<1>6. CASE parser.chunk # NoPacket
  <2>1. parser.state \in States
    BY <1>1, ParserFields
  <2>2. CASE parser.state \in {"ExpectNormalBody", "ExpectStreamBody", "ExpectChunkBody"}
    <3>1. \E left : Filling(left)
      BY <1>1, <2>2 DEF FillingInv
    <3> QED
      BY <1>5, <1>6, <3>1
  <2>3. CASE parser.state \in Complete
    <3>1. parser.chunk = WholePacket(input) /\ WholeLength(input) <= Len(input.body)
      BY <1>1, <2>3 DEF EndInv
    <3>2. Len(input.body) \in Nat
      BY <1>2, BytesFacts DEF BytesShape
    <3>3. ~NeverComplete(input)
      BY <3>1, <3>2 DEF WholeLength
    <3>4. PacketShape(input)
      BY <1>2, <3>3, PacketFacts
    <3>5. PICK s, z : s = PacketStart(input) /\ z = PacketSize(input)
      OBVIOUS
    <3>6. z # 0 /\ s \in Nat \ {0} /\ z \in Nat
      BY <1>6, <3>1, <3>4, <3>5 DEF WholePacket, PacketShape
    <3>7. WholeLength(input) = s - 1 + z
      BY <3>4, <3>5, <3>6 DEF PacketShape
    <3>8. s + z - 1 <= Len(input.body) /\ z <= z
      BY <3>1, <3>2, <3>6, <3>7
    <3>9. parser.chunk = [cap |-> z, data |-> SubSeq(input.body, s, s + z - 1)]
      BY <3>1, <3>5, <3>6 DEF WholePacket
    <3> QED
      BY <1>4, <1>6, <3>3, <3>5, <3>6, <3>8, <3>9
  <2> QED
    BY <1>1, <1>6, <2>1, <2>2, <2>3 DEF HeadInv, ChunkInv, EndInv, States, Complete
<1> QED
  BY <1>3, <1>6

LEMMA ReceivingIsIntact == ReceiveInv => RequestIntact
<1> SUFFICES ASSUME ReceiveInv, given # <<>>
             PROVE  /\ WholeLength(input) <= Len(input.body)
                    /\ \A i \in 1 .. Len(given) : given[i] = WholePacket(input)
  BY DEF RequestIntact
<1> QED
  BY DEF ReceiveInv, GivenInv, EndInv

HeaderSentType == headerSent \in BOOLEAN

LEMMA ContextTypes ==
    ASSUME ReceiveInv, PostingInv, HeaderSentType
    PROVE  ContextTypeOK
<1>1. /\ ReceiveTypes /\ PostingTypes /\ OwedInv /\ parser \in Parsers
      /\ parser.state \in States /\ parser.chunkLen \in Int /\ parser.contentLen \in -1 .. 3
  BY ParserFields DEF ReceiveInv, PostingInv, ReceiveTypes
<1>2. parser.contentLen \in -1 .. Len(Bytes(input))
  <2>1. PICK l, m, k : l = Len(Bytes(input)) /\ m = Len(input.text) /\ k = Len(input.body)
    OBVIOUS
  <2>2. l \in Nat /\ l >= 3
    <3>1. m \in Nat /\ k \in Nat /\ l = m + 4 + k
      BY <1>1, <2>1, InputsAssumption, BytesFacts DEF ReceiveTypes, BytesShape
    <3> QED
      BY <3>1
  <2> QED
    BY <1>1, <2>1, <2>2
<1>3. owed \in 0 .. MaxPosts
  BY <1>1, ContextAssumption DEF PostingTypes, OwedInv
<1>4. queue \in Seq([in : {"header", "packet", "constant"}, piece : Pieces])
  BY <1>1 DEF PostingTypes, Vectors
<1> QED
  BY <1>1, <1>2, <1>3, <1>4, RoomLeft DEF ContextTypeOK, ReceiveTypes, PostingTypes, HeaderSentType

LEMMA HeaderSentKeeps == HeaderSentType /\ [ContextNext]_contextVars => HeaderSentType'
<1> SUFFICES ASSUME HeaderSentType, [ContextNext]_contextVars
             PROVE  headerSent' = headerSent \/ headerSent' = TRUE
  BY Booleans DEF HeaderSentType
<1>1. CASE UNCHANGED contextVars
  BY <1>1 DEF contextVars, sending
<1>2. CASE Post
  BY <1>2 DEF Post, PostRequest, PostHeaderAndPacket, PostStreamHeader, PostChunk,
     PostStreamChunk, PostHeaderInstead, PostEofChunk
<1>3. CASE (\E n \in 1 .. Len(todo) : Read(n)) \/ \E n \in 1 .. Len(queue) : OnWrite(n)
  BY <1>3 DEF Read, OnWrite, sending
<1>4. CASE LoopThread
  BY <1>4 DEF LoopThread, ParseRound, ParseReturns, HandlerReturns, WriteComplete,
     MarkHeaderSent, sending
<1> QED
  BY <1>1, <1>2, <1>3, <1>4 DEF ContextNext

(* HttpContext::Parse and the parser under it: in every reachable state    *)
(* the parser's members, the packet in the making and the readable bytes   *)
(* say how much of the message has been consumed, and a Parse that has     *)
(* returned has left a single byte at most.                                *)
THEOREM ReceiveInvariance == ContextSafetySpec => [](ReceiveInv /\ LoopInv)
<1>1. ContextInit => LoopInv
  <2> SUFFICES ASSUME ContextInit PROVE Size(buf) <= 1
    BY DEF LoopInv
  <2>1. buf = <<>> /\ <<>> \in Seq(BodySymbols) /\ <<>> \in Seq(Symbols) /\ Len(<<>>) = 0
    BY DEF ContextInit
  <2>2. Size(buf) = 0
    BY <2>1, SizeFacts
  <2> QED
    BY <2>2
<1>2. PostingInv /\ ReceiveInv => PostingTypes /\ ReceiveTypes
  BY DEF PostingInv, ReceiveInv
<1> QED
  BY <1>1, <1>2, ReceiveInit, ReceiveStep, LoopKeeps, PostingInvariance, PTL DEF ContextSafetySpec

(* However the bytes of a message are split into reads, OnRequest gets the *)
(* packet of the message, whole, and nothing of what follows: what         *)
(* HttpParser::ParseNormalBody, ParseStream and ParseChunk put into chunk_ *)
(* over several calls of HttpContext::Parse.                               *)
THEOREM RequestCorrect == ContextSafetySpec => []RequestInv
<1>1. ContextInit => HeaderSentType
  BY DEF ContextInit, HeaderSentType
<1>2. ReceiveInv /\ PostingInv /\ HeaderSentType => RequestInv
  BY ContextTypes, ReceivingIsIntact DEF RequestInv
<1> QED
  BY <1>1, <1>2, HeaderSentKeeps, ReceiveInvariance, PostingInvariance, PTL DEF ContextSafetySpec

(* When HttpContext::Parse has returned, a message that was read to its    *)
(* end has been given to the handler, unless a single byte is left.        *)
THEOREM ServedCorrect == ContextSafetySpec => []Served
  BY ReceiveInvariance, ReceivingServes, PTL
============================================================================
