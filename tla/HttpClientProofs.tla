-------------------------- MODULE HttpClientProofs --------------------------
(***************************************************************************)
(* Proofs about TcpClient, DnsService and their composition HttpClient,    *)
(* for any number of segments, ticks, hosts, lists of addresses and tries; *)
(* and about HttpRequest, for every text and every URL.                    *)
(***************************************************************************)
EXTENDS HttpClient, Integers, Sequences, FiniteSets, FiniteSetTheorems, SequenceTheorems,
        WellFoundedInduction, TLAPS

(* The truth values.  SMT needs to be told when an assignment stores one.   *)
LEMMA Booleans == \A b : b \in BOOLEAN <=> b = TRUE \/ b = FALSE
  OBVIOUS

(* Every step of a client is one of the actions, or none. *)
LEMMA NextCases ==
    ASSUME [Next]_vars
    PROVE  \/ Establish \/ Fail \/ Arrive \/ Shutdown \/ Drain
           \/ Connect \/ Send \/ ForceClose
           \/ Poll \/ PollOther \/ HandleError \/ HandleClosed \/ ConnectEnds
           \/ HandleRead \/ ReadMore \/ ReadEnd \/ HandleWrite \/ NoTick
           \/ Tick \/ UNCHANGED vars
  BY DEF Next, Server, User, LoopStep

(* What is in the receive buffer has arrived before.  Without this the     *)
(* buffer need not keep its bound.                                         *)
BufferBound == inMsgs <= arrived

(* The part of the invariant that CallbacksFollowStatus needs. *)
StatusInv == TypeOK /\ BufferBound /\ CallbacksFollowStatus

LEMMA StatusInit == Init => StatusInv
  BY ClientAssumption, Booleans
  DEF Init, StatusInv, TypeOK, BufferBound, CallbacksFollowStatus, Events

(* OnClose, from wherever it is called, keeps the callbacks in step with   *)
(* the status: the second of two calls changes nothing.                    *)
LEMMA OnCloseKeeps ==
    ASSUME TypeOK, CallbacksFollowStatus, OnClose
    PROVE  /\ registered' = FALSE
           /\ ready' = FALSE \/ ready' = ready
           /\ status' = "DisConnected" /\ closed' = TRUE
           /\ calls' \in [connected : 0 .. 1, closed : 0 .. 1]
           /\ calls'.closed = 1
           /\ CallbacksFollowStatus'
  BY Booleans DEF TypeOK, CallbacksFollowStatus, OnClose

(* The server does not touch the client's side. *)
LEMMA ServerKeeps ==
    ASSUME StatusInv, Server
    PROVE  StatusInv'
  BY ClientAssumption, Booleans
  DEF StatusInv, TypeOK, BufferBound, CallbacksFollowStatus, Server,
      Establish, Fail, Arrive, Shutdown, Drain

(* Connect: all four ways it can turn out. *)
LEMMA ConnectKeeps ==
    ASSUME StatusInv, Connect
    PROVE  StatusInv'
<1> USE ClientAssumption, Booleans DEF StatusInv, TypeOK, BufferBound
<1>1. CASE NoSocket
  BY <1>1, OnCloseKeeps DEF Connect, NoSocket, sock
<1>2. CASE ConnectRefused
  BY <1>2, OnCloseKeeps DEF Connect, ConnectRefused, sock
<1>3. CASE StartConnect("syn")
  BY <1>3 DEF Connect, StartConnect, CallbacksFollowStatus
<1>4. CASE StartConnect("established")
  BY <1>4 DEF Connect, StartConnect, CallbacksFollowStatus
<1> QED
  BY <1>1, <1>2, <1>3, <1>4 DEF Connect

LEMMA StatusStep == StatusInv /\ [Next]_vars => StatusInv'
<1> SUFFICES ASSUME StatusInv, [Next]_vars PROVE StatusInv'
  OBVIOUS
<1> USE ClientAssumption, Booleans DEF StatusInv, TypeOK, BufferBound
<1>1. CASE Server
  BY <1>1, ServerKeeps
<1>2. CASE Connect
  BY <1>2, ConnectKeeps
<1>3. CASE Send
  BY <1>3 DEF Send, EnableWriting, HasInput, CallbacksFollowStatus
<1>4. CASE ForceClose \/ HandleError
  BY <1>4, OnCloseKeeps DEF ForceClose, HandleError, Handled, sock
<1>5. CASE Poll
  BY <1>5 DEF Poll, Readiness, Events, sock, CallbacksFollowStatus
<1>6. CASE PollOther \/ HandleClosed \/ NoTick \/ HandleRead
  BY <1>6 DEF PollOther, HandleClosed, NoTick, HandleRead, Handled, Extended,
              sock, epoll, CallbacksFollowStatus
<1>7. CASE ConnectEnds
  <2>1. CASE CheckError
    BY <1>7, <2>1, OnCloseKeeps DEF ConnectEnds, Handled, sock
  <2>2. CASE ~CheckError
    BY <1>7, <2>2
    DEF ConnectEnds, UpdateConnectionStatus, Handled, sock,
        CallbacksFollowStatus
  <2> QED
    BY <2>1, <2>2
<1>8. CASE ReadEnd
  <2>1. CASE OnClose
    BY <1>8, <2>1, OnCloseKeeps DEF ReadEnd, sock
  <2>2. CASE ~OnClose
    BY <1>8, <2>2 DEF ReadEnd, sock, CallbacksFollowStatus
  <2> QED
    BY <2>1, <2>2
<1>9. CASE HandleWrite
  <2>1. CASE net = "failed" /\ request = "queued"
    BY <1>9, <2>1, OnCloseKeeps DEF HandleWrite, Handled, Extended, sock
  <2>2. CASE ~(net = "failed" /\ request = "queued")
    BY <1>9, <2>2 DEF HandleWrite, Handled, EnableWriting, HasInput, Extended,
                      sock, CallbacksFollowStatus
  <2> QED
    BY <2>1, <2>2
<1>10. CASE Tick
  <2>1. CASE idle = 1
    BY <1>10, <2>1, OnCloseKeeps DEF Tick, sock
  <2>2. CASE idle # 1
    BY <1>10, <2>2 DEF Tick, sock, CallbacksFollowStatus
  <2> QED
    BY <2>1, <2>2
<1>11. CASE ReadMore
  <2>1. PICK n \in 1 .. inMsgs : inMsgs' = inMsgs - n
    BY <1>11 DEF ReadMore
  <2>2. inMsgs' \in 0 .. MaxIn /\ inMsgs' <= arrived
    BY <2>1
  <2>3. CASE OnClose
    BY <1>11, <2>2, <2>3, OnCloseKeeps DEF ReadMore
  <2>4. CASE UNCHANGED <<registered, ready, status, closed, calls>>
    BY <1>11, <2>2, <2>4 DEF ReadMore, CallbacksFollowStatus
  <2> QED
    BY <1>11, <2>3, <2>4 DEF ReadMore
<1>12. CASE UNCHANGED vars
  BY <1>12 DEF vars, sock, epoll, CallbacksFollowStatus
<1> QED
  BY <1>1, <1>2, <1>3, <1>4, <1>5, <1>6, <1>7, <1>8, <1>9, <1>10, <1>11,
     <1>12, NextCases DEF Server

(* What NoLostInput rests on.  A socket that was not connected has nothing *)
(* to read, and the loop handles events only of one that was; input of a   *)
(* client that connects or is connected is on the ready list, or the loop  *)
(* is about to read it, wherever the loop is, not only while it waits.     *)
SocketInv ==
    /\ net \in {"none", "syn"} => inMsgs = 0 /\ ~eof
    /\ status = "Init" => net = "none"
    /\ phase = "handle" => net \in {"established", "failed"}

InputInv ==
    (status \in {"Connecting", "Connected"} /\ HasInput /\ ~skipped)
        => \/ ready
           \/ phase = "handle" /\ "in" \in revents
           \/ phase = "read"

InputIInv == StatusInv /\ SocketInv /\ InputInv

(* The copy of a round has a host at hand while one is written back, and   *)
(* what is written back is a list that was found.                          *)
UpdateInv == worker = "update" => rest # {} /\ found \in Lists
DnsInv == Dns!TypeOK /\ UpdateInv

LEMMA InputInit == Init => InputIInv
  BY StatusInit DEF Init, InputIInv, SocketInv, InputInv, HasInput

LEMMA SocketStep == InputIInv /\ [Next]_vars => SocketInv'
<1> SUFFICES ASSUME InputIInv, [Next]_vars PROVE SocketInv'
  OBVIOUS
<1> USE DEF InputIInv, SocketInv
<1>1. CASE Establish \/ Fail
  BY <1>1 DEF Establish, Fail
<1>2. CASE Arrive \/ Shutdown \/ Drain
  BY <1>2 DEF Arrive, Shutdown, Drain
<1>3. CASE Connect
  BY <1>3 DEF Connect, NoSocket, ConnectRefused, StartConnect, OnClose, sock
<1>4. CASE Send
  BY <1>4 DEF Send
<1>5. CASE ForceClose
  BY <1>5 DEF ForceClose, OnClose, sock
<1>6. CASE Poll
  BY <1>6 DEF Poll, Readiness, sock, StatusInv, TypeOK
<1>7. CASE PollOther \/ HandleClosed \/ NoTick \/ HandleRead
  BY <1>7 DEF PollOther, HandleClosed, NoTick, HandleRead, Handled, sock
<1>8. CASE HandleError
  BY <1>8 DEF HandleError, Handled, OnClose, sock
<1>9. CASE ConnectEnds
  BY <1>9 DEF ConnectEnds, UpdateConnectionStatus, Handled, OnClose, sock
<1>10. CASE ReadMore
  BY <1>10 DEF ReadMore, OnClose
<1>11. CASE ReadEnd
  BY <1>11 DEF ReadEnd, OnClose, sock
<1>12. CASE HandleWrite
  BY <1>12 DEF HandleWrite, Handled, OnClose, sock
<1>13. CASE Tick
  BY <1>13 DEF Tick, OnClose, sock
<1>14. CASE UNCHANGED vars
  BY <1>14 DEF vars, sock
<1> QED
  BY <1>1, <1>3, <1>4, <1>6, <1>7, <1>8, <1>10, <1>11, <1>14,
     <1>2, <1>9, <1>5,
     <1>12, <1>13, NextCases

LEMMA InputStep == InputIInv /\ [Next]_vars => InputInv'
<1> SUFFICES ASSUME InputIInv, [Next]_vars PROVE InputInv'
  OBVIOUS
<1> USE DEF InputIInv, InputInv, HasInput
<1>1. CASE Server
  \* the channel of a client that connects or is connected is registered,
  \* so that what arrives puts it on the ready list
  <2>1. status \in {"Connecting", "Connected"} => registered
    BY DEF StatusInv, CallbacksFollowStatus
  <2>2. UNCHANGED <<status, skipped, phase, revents, registered>>
    BY <1>1 DEF Server, Establish, Fail, Arrive, Shutdown, Drain
  <2>3. CASE Establish \/ Fail \/ Arrive \/ Shutdown
    <3>1. ready' = registered
      BY <2>3 DEF Establish, Fail, Arrive, Shutdown
    <3> QED
      BY <2>1, <2>2, <3>1
  <2>4. CASE Drain
    <3>1. UNCHANGED <<inMsgs, eof>> /\ (ready => ready')
      BY <2>4 DEF Drain
    <3> QED
      BY <2>2, <3>1
  <2> QED
    BY <1>1, <2>3, <2>4 DEF Server
<1>2. CASE Connect
  <2>1. inMsgs = 0 /\ ~eof
    BY <1>2 DEF Connect, SocketInv
  <2>2. UNCHANGED <<inMsgs, eof>>
    BY <1>2 DEF Connect, NoSocket, ConnectRefused, StartConnect, sock
  <2> QED
    BY <2>1, <2>2
<1>3. CASE Send
  <2>1. UNCHANGED ready \/ EnableWriting(TRUE, FALSE)
    BY <1>3 DEF Send
  <2>2. ready => ready'
    BY <2>1 DEF EnableWriting
  <2> QED
    BY <1>3, <2>2 DEF Send
<1>4. CASE ForceClose \/ HandleError
  BY <1>4 DEF ForceClose, HandleError, Handled, OnClose
<1>5. CASE Poll
  \* what the poll takes off the list it reports
  <2>1. CASE net \in {"none", "syn"}
    BY <1>5, <2>1 DEF Poll, SocketInv, sock
  <2>2. CASE net = "failed"
    BY <1>5, <2>2 DEF Poll, Readiness, sock
  <2>3. CASE net = "established"
    BY <1>5, <2>3 DEF Poll, Readiness, sock
  <2> QED
    BY <2>1, <2>2, <2>3 DEF StatusInv, TypeOK
<1>6. CASE PollOther \/ NoTick \/ HandleRead
  BY <1>6 DEF PollOther, NoTick, HandleRead, Handled, sock, epoll
<1>7. CASE HandleClosed
  BY <1>7 DEF HandleClosed
<1>8. CASE ConnectEnds
  BY <1>8 DEF ConnectEnds, UpdateConnectionStatus, Handled, OnClose, sock
<1>9. CASE ReadMore
  \* the loop of reads goes on, or the callback has closed the client
  BY <1>9 DEF ReadMore, OnClose
<1>10. CASE ReadEnd
  \* the loop of reads ends with an empty buffer, or the client is closed
  BY <1>10 DEF ReadEnd, OnClose, sock
<1>11. CASE HandleWrite
  BY <1>11 DEF HandleWrite, Handled, EnableWriting, OnClose, sock
<1>12. CASE Tick
  BY <1>12 DEF Tick, OnClose, sock
<1>13. CASE UNCHANGED vars
  BY <1>13 DEF vars, sock, epoll
<1> QED
  BY <1>1, <1>2, <1>3, <1>4, <1>5, <1>6, <1>7, <1>8, <1>9, <1>10, <1>11,
     <1>12, <1>13, NextCases DEF Server

(* Status, socket and epoll of a TcpClient agree, whoever uses it          *)
(* (Connect, OnRead and OnWrite while connecting and after, OnClose).      *)
THEOREM TcpClientCorrect == SafetySpec => []InputIInv
<1>1. InputIInv /\ [Next]_vars => InputIInv'
  BY StatusStep, SocketStep, InputStep DEF InputIInv
<1> QED
  BY <1>1, InputInit, PTL DEF SafetySpec

----------------------------------------------------------------------------
(* HttpClient is one of the users of TcpClient: each step of it is, for    *)
(* the client, one of its steps, or none.                                  *)
LEMMA HttpStepCases ==
    ASSUME [HttpNext]_allVars
    PROVE  /\ [Next]_vars
           /\ \/ UNCHANGED dnsVars
              \/ \E h \in Hosts : Dns!AddHost(h)
              \/ Dns!Start \/ Dns!Stop \/ Dns!OnWork \/ Dns!Joined
<1>1. CASE InvalidUrl \/ ParseUrl
  BY <1>1 DEF InvalidUrl, ParseUrl
<1>2. CASE GetStep
  BY <1>2, SiteAssumption
  DEF GetStep, AddHost, CreateTcpClient, OnConnection, GetHostInfo, Next, User
<1>3. CASE InLoop(OtherStep) \/ InLoop(OnMessage) \/ HttpTick
  BY <1>3 DEF InLoop, OtherStep, OnMessage, HttpTick, Next, LoopStep
<1>4. CASE UserCloses
  BY <1>4 DEF UserCloses, InLoop, Next, User
<1>5. CASE Environment
  BY <1>5 DEF Environment, Segment, Next, Server
<1>6. CASE Thread(DnsUser) \/ Thread(Dns!OnWork) \/ Thread(Dns!Joined)
  BY <1>6 DEF Thread, DnsUser
<1>7. CASE UNCHANGED allVars
  BY <1>7 DEF allVars
<1> QED
  BY <1>1, <1>2, <1>3, <1>4, <1>5, <1>6, <1>7 DEF HttpNext, HttpLoopStep

(* HttpClient uses its TcpClient only in ways that TcpClient's own         *)
(* specification allows: Get connects once, OnConnection sends once.       *)
THEOREM HttpClientUsesTcpClient == HttpSpec => SafetySpec
<1>1. HttpInit => Init
  BY DEF HttpInit
<1>2. [HttpNext]_allVars => [Next]_vars
  BY HttpStepCases
<1> QED
  BY <1>1, <1>2, PTL DEF HttpSpec, SafetySpec

----------------------------------------------------------------------------
(* The table of the DnsService: whoever adds hosts and wherever its thread *)
(* is.                                                                     *)
DnsSteps ==
    \/ UNCHANGED dnsVars
    \/ \E h \in Hosts : Dns!AddHost(h)
    \/ Dns!Start \/ Dns!Stop \/ Dns!OnWork \/ Dns!Joined

LEMMA DnsInit == HttpInit => DnsInv
<1> SUFFICES ASSUME Dns!Init PROVE DnsInv
  BY DEF HttpInit
<1>1. DOMAIN hostsInfo = {} /\ 0 \in 0 .. Retry - 1
  BY SiteAssumption DEF Dns!Init
<1> QED
  BY <1>1, Booleans DEF Dns!Init, Dns!TypeOK, DnsInv, UpdateInv

(* The host at hand is one of the round. *)
LEMMA HostAtHand == rest # {} => Dns!Host \in rest
  BY DEF Dns!Host

(* Putting a list in the table keeps the table's type. *)
LEMMA PutKeeps ==
    ASSUME DnsInv, NEW h \in Hosts, NEW list \in SUBSET Families,
           Dns!Put(h, list)
    PROVE  /\ DOMAIN hostsInfo' = DOMAIN hostsInfo \cup {h}
           /\ DOMAIN hostsInfo' \subseteq Hosts
           /\ \A g \in DOMAIN hostsInfo' : hostsInfo'[g] \subseteq Families
           /\ \A g \in DOMAIN hostsInfo \ {h} : hostsInfo'[g] = hostsInfo[g]
           /\ hostsInfo'[h] = list
  BY DEF DnsInv, Dns!TypeOK, Dns!Put

LEMMA DnsStep == DnsInv /\ DnsSteps => DnsInv'
<1> SUFFICES ASSUME DnsInv, DnsSteps PROVE DnsInv'
  OBVIOUS
<1> USE SiteAssumption, Booleans DEF DnsInv, Dns!TypeOK, UpdateInv
<1>1. CASE UNCHANGED dnsVars
  BY <1>1 DEF dnsVars
<1>2. ASSUME NEW h \in Hosts, Dns!AddHost(h) PROVE DnsInv'
  <2>1. CASE h \in DOMAIN hostsInfo
    BY <1>2, <2>1 DEF Dns!AddHost
  <2>2. CASE h \notin DOMAIN hostsInfo
    <3>1. Dns!Put(h, {})
      BY <1>2, <2>2 DEF Dns!AddHost
    <3> QED
      BY <1>2, <3>1, PutKeeps DEF Dns!AddHost
  <2> QED
    BY <2>1, <2>2
<1>3. CASE Dns!Start \/ Dns!Stop \/ Dns!Joined
  BY <1>3 DEF Dns!Start, Dns!Stop, Dns!Joined
<1>4. CASE Dns!OnWork
  <2>1. CASE Dns!TestRunning
    BY <2>1 DEF Dns!TestRunning
  <2>2. CASE Dns!LookupFails
    BY <2>2 DEF Dns!LookupFails
  <2>3. CASE Dns!UpdateHost
    <3>1. Dns!Host \in Hosts /\ found \in SUBSET Families
      BY <2>3, HostAtHand DEF Dns!UpdateHost
    <3> QED
      BY <2>3, <3>1, PutKeeps DEF Dns!UpdateHost
  <2>4. CASE Dns!RoundDone
    BY <2>4 DEF Dns!RoundDone
  <2>5. ASSUME NEW list \in Lists, Dns!LookupFinds(list) PROVE DnsInv'
    BY <2>5 DEF Dns!LookupFinds
  <2> QED
    BY <1>4, <2>1, <2>2, <2>3, <2>4, <2>5 DEF Dns!OnWork
<1> QED
  BY <1>1, <1>2, <1>3, <1>4 DEF DnsSteps

(* Only two operations write to the table: AddHost leaves a host that is   *)
(* there alone, and UpdateHost is called with addresses that were found.   *)
LEMMA AddressesKept ==
    ASSUME DnsInv, DnsSteps, NEW h \in Hosts
    PROVE  HostKept(h)
<1>1. CASE UNCHANGED hostsInfo
  BY <1>1 DEF HostKept, Dns!GetHostAddress
<1>2. ASSUME NEW g \in Hosts, g \notin DOMAIN hostsInfo, Dns!Put(g, {})
      PROVE  HostKept(h)
  BY <1>2, PutKeeps DEF HostKept, Dns!GetHostAddress
<1>3. CASE Dns!UpdateHost
  <2>1. Dns!Host \in Hosts /\ found \in SUBSET Families /\ found # {}
    BY <1>3, HostAtHand, SiteAssumption
    DEF DnsInv, Dns!TypeOK, UpdateInv, Dns!UpdateHost
  <2>2. Dns!Put(Dns!Host, found)
    BY <1>3 DEF Dns!UpdateHost
  <2>3. /\ DOMAIN hostsInfo \subseteq DOMAIN hostsInfo'
        /\ \A g \in DOMAIN hostsInfo :
               hostsInfo'[g] = hostsInfo[g] \/ hostsInfo'[g] = found
    BY <2>1, <2>2, PutKeeps
  <2> QED
    BY <2>1, <2>3 DEF HostKept, Dns!GetHostAddress
<1> QED
  BY <1>1, <1>2, <1>3
  DEF DnsSteps, dnsVars, Dns!AddHost, Dns!Start, Dns!Stop, Dns!Joined,
      Dns!OnWork, Dns!TestRunning, Dns!LookupFails, Dns!RoundDone,
      Dns!LookupFinds

(* The part of the type that is HttpClient's own.  What has arrived is     *)
(* recorded segment by segment.                                            *)
GetType ==
    /\ get \in {"none", "invalid", "add", "resolve", "connect", "wait",
                "posted"}
    /\ addr \in {"name", "v4"}
    /\ sent \in Seq(Segments) /\ arrived = Len(sent)
    /\ answer \in BOOLEAN /\ told \in BOOLEAN

(* Only the network adds to what has arrived. *)
NoArrival ==
    \/ Establish \/ Fail \/ Shutdown \/ Drain
    \/ User \/ LoopStep \/ UNCHANGED vars

LEMMA ArrivedKept == NoArrival => UNCHANGED arrived
<1> SUFFICES ASSUME NoArrival PROVE UNCHANGED arrived
  OBVIOUS
<1> USE DEF sock
<1>1. CASE Establish \/ Fail \/ Shutdown \/ Drain \/ Send
  BY <1>1 DEF Establish, Fail, Shutdown, Drain, Send
<1>2. CASE Connect
  BY <1>2 DEF Connect, NoSocket, ConnectRefused, StartConnect
<1>3. CASE ForceClose \/ Poll \/ PollOther \/ HandleError \/ HandleClosed
  BY <1>3 DEF ForceClose, Poll, PollOther, HandleError, HandleClosed
<1>4. CASE ConnectEnds \/ HandleRead \/ ReadMore \/ ReadEnd \/ HandleWrite
  BY <1>4 DEF ConnectEnds, HandleRead, ReadMore, ReadEnd, HandleWrite
<1>5. CASE NoTick \/ Tick \/ UNCHANGED vars
  BY <1>5 DEF NoTick, Tick, vars
<1> QED
  BY <1>1, <1>2, <1>3, <1>4, <1>5 DEF NoArrival, User, LoopStep

(* A segment is recorded as it arrives, and at no other time. *)
LEMMA SentStep ==
    ASSUME GetType, [HttpNext]_allVars
    PROVE  sent' \in Seq(Segments) /\ arrived' = Len(sent')
<1>1. CASE \E r \in Responses : \E i \in DOMAIN r : Segment(r[i])
  <2>1. PICK r \in Responses : \E i \in DOMAIN r : Segment(r[i])
    BY <1>1
  <2>2. PICK i \in DOMAIN r : Segment(r[i])
    BY <2>1
  <2>3. r[i] \in Segments
    BY ResponsesAssumption
  <2>4. sent' = Append(sent, r[i]) /\ arrived' = arrived + 1
    BY <2>2 DEF Segment, Arrive
  <2> QED
    BY <2>3, <2>4 DEF GetType
<1>2. CASE UNCHANGED sent /\ NoArrival
  BY <1>2, ArrivedKept DEF GetType
<1>3. CASE InvalidUrl \/ ParseUrl \/ UNCHANGED allVars
  BY <1>3, <1>2 DEF InvalidUrl, ParseUrl, allVars, httpVars, NoArrival
<1>4. CASE GetStep
  BY <1>4, <1>2 DEF GetStep, AddHost, CreateTcpClient, OnConnection, GetHostInfo,
                    NoArrival, User
<1>5. CASE InLoop(OtherStep) \/ InLoop(OnMessage) \/ HttpTick
  BY <1>5, <1>2 DEF InLoop, OtherStep, OnMessage, HttpTick, NoArrival, LoopStep
<1>6. CASE UserCloses
  BY <1>6, <1>2 DEF UserCloses, InLoop, httpVars, NoArrival, User
<1>7. CASE (Establish \/ Fail \/ Shutdown \/ Drain) /\ UNCHANGED httpVars
  BY <1>7, <1>2 DEF httpVars, NoArrival
<1>8. CASE Thread(DnsUser) \/ Thread(Dns!OnWork) \/ Thread(Dns!Joined)
  BY <1>8, <1>2 DEF Thread, httpVars, NoArrival
<1> QED
  BY <1>1, <1>3, <1>4, <1>5, <1>6, <1>7, <1>8
  DEF HttpNext, HttpLoopStep, Environment

LEMMA GetTypeStep == GetType /\ [HttpNext]_allVars => GetType'
<1> SUFFICES ASSUME GetType, [HttpNext]_allVars PROVE GetType'
  OBVIOUS
<1>s. sent' \in Seq(Segments) /\ arrived' = Len(sent')
  BY SentStep
<1> USE Booleans, <1>s DEF GetType, TakeAddress, contextVars
<1>1. CASE InvalidUrl
  BY <1>1 DEF InvalidUrl
<1>2. CASE ParseUrl
  BY <1>2 DEF ParseUrl
<1>3. CASE GetStep
  BY <1>3 DEF GetStep, AddHost, CreateTcpClient, OnConnection, GetHostInfo
<1>4. CASE \/ InLoop(OtherStep) /\ UNCHANGED contextVars
           \/ HttpTick
           \/ InLoop(ForceClose) /\ UNCHANGED contextVars
  BY <1>4 DEF InLoop, HttpTick
<1>5. CASE InLoop(OnMessage)
  <2>1. answer' \in BOOLEAN
    BY <1>5 DEF InLoop, OnMessage
  <2> QED
    BY <1>5, <2>1 DEF InLoop
<1>6. CASE UNCHANGED httpVars
  BY <1>6 DEF httpVars
<1>7. CASE \E r \in Responses : \E i \in DOMAIN r : Segment(r[i])
  BY <1>7 DEF Segment
<1> QED
  BY <1>1, <1>2, <1>3, <1>4, <1>5, <1>6, <1>7
  DEF HttpNext, HttpLoopStep, UserCloses, Environment, Thread, allVars

HttpIInv == InputIInv /\ DnsInv /\ GetType

(* Connection, table of hosts and the progress of a Get are consistent in  *)
(* every state that HttpClient, TcpClient and DnsService reach together.   *)
THEOREM HttpInvariance == HttpSpec => []HttpIInv
<1>1. HttpInit => HttpIInv
  <2> SUFFICES ASSUME HttpInit PROVE HttpIInv
    OBVIOUS
  <2>1. sent \in Seq(Segments) /\ arrived = Len(sent)
    BY DEF HttpInit, Init
  <2> QED
    BY <2>1, InputInit, DnsInit, Booleans DEF HttpInit, HttpIInv, GetType
<1>2. HttpIInv /\ [HttpNext]_allVars => HttpIInv'
  <2> SUFFICES ASSUME HttpIInv, [HttpNext]_allVars PROVE HttpIInv'
    OBVIOUS
  <2>1. [Next]_vars /\ DnsSteps
    BY HttpStepCases DEF DnsSteps
  <2>2. InputIInv'
    BY <2>1, StatusStep, SocketStep, InputStep DEF HttpIInv, InputIInv
  <2> QED
    BY <2>1, <2>2, DnsStep, GetTypeStep DEF HttpIInv
<1> QED
  BY <1>1, <1>2, PTL DEF HttpSpec

(* UpdateConnectionStatus and OnClose: the connect callback comes once, as *)
(* the client becomes connected, and the close callback once, however many *)
(* of timeout, error, end of stream and ForceClose meet; and epoll has the *)
(* channel exactly while the client is connecting or connected.            *)
THEOREM ClientCorrect == HttpSpec => []ClientInv
<1>1. HttpIInv => ClientInv
  BY DEF HttpIInv, InputIInv, StatusInv, DnsInv, GetType, ClientInv,
         HttpTypeOK
<1> QED
  BY <1>1, HttpInvariance, PTL

(* While a connected client's loop waits, input is on epoll's ready list,  *)
(* unless its event was taken for the end of the connect (OnRead while     *)
(* connecting).                                                            *)
THEOREM InputCorrect == HttpSpec => []NoLostInput
<1>1. HttpIInv => NoLostInput
  BY DEF HttpIInv, InputIInv, InputInv, NoLostInput
<1> QED
  BY <1>1, HttpInvariance, PTL

(* Addresses that were found are never lost, whoever enters the host       *)
(* (AddHost) or fails to resolve it (OnWork, UpdateHost) meanwhile: what   *)
(* DnsServes says of every step.                                           *)
THEOREM HostsCorrect == HttpSpec => [][\A h \in Hosts : HostKept(h)]_allVars
<1>1. HttpIInv /\ [HttpNext]_allVars => [\A h \in Hosts : HostKept(h)]_allVars
  <2> SUFFICES ASSUME HttpIInv, HttpNext PROVE \A h \in Hosts : HostKept(h)
    OBVIOUS
  <2> QED
    BY HttpStepCases, AddressesKept DEF DnsSteps, HttpIInv
<1> QED
  BY <1>1, HttpInvariance, PTL DEF HttpSpec

----------------------------------------------------------------------------
(* HttpRequest: what arrives of a URL.                                     *)

(* A set of numbers that is not empty has a least one. *)
LEMMA LeastExists ==
    ASSUME NEW T, T \subseteq Nat, T # {}
    PROVE  \E x \in T : \A y \in T : x <= y
<1> DEFINE R == {p \in Nat \X Nat : p[1] < p[2]}
<1>1. IsWellFoundedOn(R, Nat)
  BY NatLessThanWellFounded, Zenon DEF OpToRel
<1>2. \A x, y \in Nat : <<y, x>> \in R <=> y < x
  OBVIOUS
<1> HIDE DEF R
<1>3. PICK x \in T : \A y \in T : ~ (<<y, x>> \in R)
  BY <1>1, WFMin
<1>4. ASSUME NEW y \in T PROVE x <= y
  <2>1. x \in Nat /\ y \in Nat
    OBVIOUS
  <2>2. ~ (y < x)
    BY <2>1, <1>2, <1>3
  <2> QED
    BY <2>1, <2>2
<1> QED
  BY <1>4

(* Induction, by the least number that is not in the set. *)
LEMMA NatSetInduction ==
    ASSUME NEW S, 0 \in S, \A n \in Nat : n \in S => n + 1 \in S
    PROVE  \A n \in Nat : n \in S
<1> DEFINE T == {n \in Nat : n \notin S}
<1>1. SUFFICES ASSUME T # {} PROVE FALSE
  OBVIOUS
<1>2. PICK x \in T : \A y \in T : x <= y
  BY <1>1, LeastExists
<1>3. x \in Nat /\ x # 0 /\ x \notin S
  OBVIOUS
<1>4. x - 1 \in Nat /\ ~ (x <= x - 1) /\ (x - 1) + 1 = x
  BY <1>3
<1>5. x - 1 \in S
  BY <1>2, <1>4
<1> QED
  BY <1>3, <1>4, <1>5

LEMMA ConcatAt ==
    ASSUME NEW S, NEW x \in Seq(S), NEW y \in Seq(S), NEW z, z = x \o y
    PROVE  /\ z \in Seq(S) /\ Len(z) = Len(x) + Len(y)
           /\ \A i \in 1 .. Len(z) : z[i] = IF i <= Len(x) THEN x[i] ELSE y[i - Len(x)]
  BY ConcatProperties

(* A recursion over the first m numbers has a value at each. *)
Recurses(u, base, m, h) == u[0] = base /\ \A n \in 1 .. m : u[n] = h[<<u[n - 1], n>>]

LEMMA Recursion ==
    ASSUME NEW S, NEW base \in S, NEW m \in Nat, NEW h \in [S \X (1 .. m) -> S]
    PROVE  \E u \in [0 .. m -> S] : Recurses(u, base, m, h)
<1> DEFINE P(k, v) == v[0] = base /\ \A n \in 1 .. k : v[n] = h[<<v[n - 1], n>>]
           N == {k \in Nat : k <= m => \E v \in [0 .. k -> S] : P(k, v)}
<1>1. 0 \in N
  <2>1. [n \in 0 .. 0 |-> base] \in [0 .. 0 -> S] /\ P(0, [n \in 0 .. 0 |-> base])
    OBVIOUS
  <2> QED
    BY <2>1
<1>2. ASSUME NEW k \in Nat, k \in N PROVE k + 1 \in N
  <2> SUFFICES ASSUME k + 1 <= m PROVE \E v \in [0 .. k + 1 -> S] : P(k + 1, v)
    OBVIOUS
  <2>1. k <= m
    OBVIOUS
  <2>2. PICK v \in [0 .. k -> S] : P(k, v)
    <3> HIDE DEF P
    <3> QED
      BY <1>2, <2>1
  <2> DEFINE w == [n \in 0 .. k + 1 |-> IF n = k + 1 THEN h[<<v[k], k + 1>>] ELSE v[n]]
  <2>3. v[k] \in S /\ h[<<v[k], k + 1>>] \in S
    OBVIOUS
  <2>4. w \in [0 .. k + 1 -> S]
    BY <2>3
  <2>5. w[0] = base /\ w[k + 1] = h[<<w[k], k + 1>>]
    <3>1. w[0] = v[0] /\ w[k] = v[k] /\ w[k + 1] = h[<<v[k], k + 1>>]
      OBVIOUS
    <3>2. v[0] = base
      BY <2>2
    <3> HIDE DEF w
    <3> QED
      BY <3>1, <3>2
  <2>6. \A n \in 1 .. k : w[n] = v[n] /\ w[n - 1] = v[n - 1]
    OBVIOUS
  <2> HIDE DEF w
  <2>7. ASSUME NEW n \in 1 .. k + 1 PROVE w[n] = h[<<w[n - 1], n>>]
    <3>1. CASE n = k + 1
      BY <2>5, <3>1
    <3>2. CASE n # k + 1
      <4>1. n \in 1 .. k
        BY <3>2
      <4> QED
        BY <2>2, <2>6, <4>1
    <3> QED
      BY <3>1, <3>2
  <2> QED
    BY <2>4, <2>5, <2>7
<1> HIDE DEF N
<1>3. m \in N
  BY <1>1, <1>2, NatSetInduction
<1> QED
  BY <1>3 DEF N, Recurses

Chars == 0 .. 255

(* The characters that UrlEncode writes. *)
Coded == Request!Plain \cup {Request!Plus, Request!Percent}

LEMMA PlainFacts ==
    /\ Request!Space = 32 /\ Request!Percent = 37 /\ Request!And = 38 /\ Request!Plus = 43
    /\ Request!Slash = 47 /\ Request!Equal = 61
    /\ Request!Query = 63
    /\ \A c \in Request!Plain : c \in Chars
        /\ c \notin {Request!Space, Request!Percent, Request!Plus} /\ c \notin 9 .. 13
    /\ {Request!And, Request!Equal, Request!Slash, Request!Query} \subseteq Request!Plain
    /\ 48 .. 57 \subseteq Request!Plain
    /\ 65 .. 70 \subseteq Request!Plain
<1>1. /\ Request!Space = 32 /\ Request!Percent = 37 /\ Request!And = 38 /\ Request!Plus = 43
      /\ Request!Slash = 47 /\ Request!Equal = 61
      /\ Request!Query = 63
  BY DEF Request!Space, Request!Percent, Request!And, Request!Plus, Request!Slash, Request!Equal,
      Request!Query
<1>2. Request!Plain = (48 .. 57) \cup (65 .. 90) \cup (97 .. 122)
              \cup {45, 95, 46, 33, 126, 42, 39, 40, 41, 38, 61, 47, 92, 63}
  BY <1>1 DEF Request!Plain, Request!Digits, Request!Upper, Request!Lower
<1> QED
  BY <1>1, <1>2 DEF Chars

LEMMA CodedFacts ==
    \A c \in Coded : c \in Chars /\ c # Request!Space /\ c \notin 9 .. 13
  BY PlainFacts DEF Coded, Chars

(* The two digits of an escape give its character. *)
LEMMA HexFacts ==
    ASSUME NEW c \in Chars
    PROVE  \E a, b : /\ Request!CharToHex(c) = <<a, b>> /\ a \in Request!Plain
                     /\ b \in Request!Plain
                     /\ {a, b} \subseteq DOMAIN Request!HexValue
                     /\ Request!HexValue[a] * 16 + Request!HexValue[b] = c
                     /\ a \notin {Request!And, Request!Equal, Request!Query}
                     /\ b \notin {Request!And, Request!Equal, Request!Query}
<1> DEFINE digit(n) == IF n > 9 THEN 65 + n - 10 ELSE 48 + n
<1>1. PICK q, r : q = c \div 16 /\ r = c % 16
  OBVIOUS
<1>2. q \in 0 .. 15 /\ r \in 0 .. 15 /\ c = 16 * q + r
  BY <1>1 DEF Chars
<1>3. DOMAIN Request!HexValue = (48 .. 57) \cup (65 .. 70) \cup (97 .. 102)
  BY DEF Request!HexValue, Request!Digits
<1>4. ASSUME NEW n \in 0 .. 15
      PROVE  /\ digit(n) \in (48 .. 57) \cup (65 .. 70) /\ digit(n) \in DOMAIN Request!HexValue
             /\ Request!HexValue[digit(n)] = n
  BY <1>3 DEF Request!HexValue, Request!Digits, Request!Upper
<1>5. PICK a, b : a = digit(q) /\ b = digit(r)
  OBVIOUS
<1>6. Request!CharToHex(c) = <<a, b>>
  BY <1>1, <1>5 DEF Request!CharToHex
<1>7. /\ a \in (48 .. 57) \cup (65 .. 70) /\ b \in (48 .. 57) \cup (65 .. 70)
      /\ a \in DOMAIN Request!HexValue /\ b \in DOMAIN Request!HexValue
      /\ Request!HexValue[a] = q /\ Request!HexValue[b] = r
  BY <1>2, <1>4, <1>5
<1>8. a \in Request!Plain /\ b \in Request!Plain
        /\ a \notin {Request!And, Request!Equal, Request!Query}
        /\ b \notin {Request!And, Request!Equal, Request!Query}
  BY <1>7, PlainFacts
<1> QED
  BY <1>2, <1>6, <1>7, <1>8

(* A character, and what it is written as. *)
Written(c, t) ==
    \/ c = Request!Space /\ Len(t) = 1 /\ t[1] = Request!Plus
    \/ c \in Request!Plain /\ Len(t) = 1 /\ t[1] = c
    \/ /\ c # Request!Space /\ c \notin Request!Plain /\ Len(t) = 3 /\ t[1] = Request!Percent
       /\ {t[2], t[3]} \subseteq DOMAIN Request!HexValue
       /\ Request!HexValue[t[2]] * 16 + Request!HexValue[t[3]] = c

LEMMA EncodedFacts ==
    ASSUME NEW c \in Chars
    PROVE  /\ Request!Encoded(c) \in Seq(Coded) /\ Written(c, Request!Encoded(c))
           /\ \A d \in {Request!And, Request!Equal, Request!Query} : d # c
               => Request!Encoded(c) \in Seq(Coded \ {d})
<1>1. CASE c = Request!Space
  <2>1. Request!Encoded(c) = <<Request!Plus>>
    BY <1>1 DEF Request!Encoded
  <2>2. Request!Plus \in Coded /\ \A d \in {Request!And, Request!Equal, Request!Query} :
          Request!Plus \in Coded \ {d}
    BY PlainFacts DEF Coded
  <2> QED
    BY <1>1, <2>1, <2>2 DEF Written
<1>2. CASE c # Request!Space /\ c \in Request!Plain
  <2>1. Request!Encoded(c) = <<c>> /\ c \in Coded
    BY <1>2 DEF Request!Encoded, Coded
  <2> QED
    BY <1>2, <2>1 DEF Written
<1>3. CASE c # Request!Space /\ c \notin Request!Plain
  <2>1. PICK a, b : /\ Request!CharToHex(c) = <<a, b>> /\ a \in Request!Plain /\ b \in Request!Plain
                    /\ {a, b} \subseteq DOMAIN Request!HexValue
                    /\ Request!HexValue[a] * 16 + Request!HexValue[b] = c
                    /\ a \notin {Request!And, Request!Equal, Request!Query}
                    /\ b \notin {Request!And, Request!Equal, Request!Query}
    BY HexFacts
  <2>2. Request!Encoded(c) = <<Request!Percent, a, b>>
    <3>1. Request!Encoded(c) = <<Request!Percent>> \o <<a, b>>
      BY <1>3, <2>1 DEF Request!Encoded
    <3>2. PICK x, y, z : x = <<Request!Percent>> /\ y = <<a, b>> /\ z = x \o y
      OBVIOUS
    <3>3. /\ x \in Seq(Chars) /\ Len(x) = 1 /\ x[1] = Request!Percent
          /\ y \in Seq(Chars) /\ Len(y) = 2 /\ y[1] = a /\ y[2] = b
      BY <2>1, <3>2, PlainFacts DEF Chars
    <3>4. /\ z \in Seq(Chars) /\ Len(z) = 3
          /\ \A i \in 1 .. 3 : z[i] = IF i <= 1 THEN x[i] ELSE y[i - 1]
      <4>1. /\ z \in Seq(Chars) /\ Len(z) = Len(x) + Len(y)
            /\ \A i \in 1 .. Len(z) : z[i] = IF i <= Len(x) THEN x[i] ELSE y[i - Len(x)]
        BY <3>2, <3>3, ConcatAt
      <4> QED
        BY <3>3, <4>1
    <3>5. z = <<z[1], z[2], z[3]>>
      BY <3>4
    <3>6. z[1] = Request!Percent /\ z[2] = a /\ z[3] = b
      BY <3>3, <3>4
    <3> QED
      BY <3>1, <3>2, <3>5, <3>6
  <2>3. a \in Coded /\ b \in Coded /\ Request!Percent \in Coded
          /\ Request!Percent \notin {Request!And, Request!Equal, Request!Query}
    BY <2>1, PlainFacts DEF Coded
  <2>4. Written(c, Request!Encoded(c))
    <3>1. PICK t : t = <<Request!Percent, a, b>>
      OBVIOUS
    <3>2. Len(t) = 3 /\ t[1] = Request!Percent /\ t[2] = a /\ t[3] = b
      BY <3>1
    <3> QED
      BY <1>3, <2>1, <2>2, <3>1, <3>2 DEF Written
  <2>5. ASSUME NEW d \in {Request!And, Request!Equal, Request!Query}
        PROVE  Request!Encoded(c) \in Seq(Coded \ {d})
    BY <2>1, <2>2, <2>3
  <2> QED
    BY <2>2, <2>3, <2>4, <2>5
<1> QED
  BY <1>1, <1>2, <1>3

(* The recursion of UrlEncode, as a function from places to texts. *)
EncodesUpTo(T, s, u) ==
    /\ u \in [0 .. Len(s) -> Seq(T)]
    /\ u[0] = <<>>
    /\ \A n \in 1 .. Len(s) : u[n] = u[n - 1] \o Request!Encoded(s[n])

LEMMA EncodeUpTo ==
    ASSUME NEW T, NEW s \in Seq(Chars), \A i \in 1 .. Len(s) : Request!Encoded(s[i]) \in Seq(T)
    PROVE  \E u : EncodesUpTo(T, s, u) /\ Request!UrlEncode(s) = u[Len(s)]
<1> DEFINE E(n, r) == IF n = 0 THEN <<>> ELSE r \o Request!Encoded(s[n])
           Eq(u) == u = [n \in 0 .. Len(s) |-> E(n, u[n - 1])]
<1>1. PICK m \in Nat : m = Len(s)
  OBVIOUS
<1>2. \E u : Eq(u)
  <2> DEFINE h == [p \in Seq(T) \X (1 .. m) |-> p[1] \o Request!Encoded(s[p[2]])]
  <2>1. ASSUME NEW x \in Seq(T), NEW n \in 1 .. m
        PROVE  x \o Request!Encoded(s[n]) \in Seq(T) /\ h[<<x, n>>] = x \o Request!Encoded(s[n])
    <3>1. Request!Encoded(s[n]) \in Seq(T)
      BY <1>1
    <3>2. x \o Request!Encoded(s[n]) \in Seq(T)
      BY <3>1, ConcatProperties
    <3> QED
      BY <3>2
  <2>2. h \in [Seq(T) \X (1 .. m) -> Seq(T)]
    BY <2>1
  <2> HIDE DEF h
  <2>3. <<>> \in Seq(T)
    OBVIOUS
  <2>4. PICK u \in [0 .. m -> Seq(T)] : u[0] = <<>> /\ \A n \in 1 .. m : u[n] = h[<<u[n - 1], n>>]
    <3>1. PICK Q : Q = Seq(T)
      OBVIOUS
    <3>2. PICK b : b = <<>>
      OBVIOUS
    <3>3. PICK g : g = h
      OBVIOUS
    <3>4. b \in Q /\ g \in [Q \X (1 .. m) -> Q]
      BY <2>2, <2>3, <3>1, <3>2, <3>3
    <3>5. \E u \in [0 .. m -> Q] : Recurses(u, b, m, g)
      BY <1>1, <3>4, Recursion
    <3> QED
      BY <3>1, <3>2, <3>3, <3>5 DEF Recurses
  <2>5. ASSUME NEW n \in 0 .. m PROVE u[n] = E(n, u[n - 1])
    <3>1. CASE n = 0
      BY <2>4, <3>1
    <3>2. CASE n # 0
      <4>1. n \in 1 .. m /\ u[n - 1] \in Seq(T)
        BY <3>2
      <4>2. u[n] = u[n - 1] \o Request!Encoded(s[n])
        BY <2>1, <2>4, <4>1
      <4> QED
        BY <3>2, <4>2
    <3> QED
      BY <3>1, <3>2
  <2>6. u = [n \in 0 .. m |-> E(n, u[n - 1])]
    <3> HIDE DEF E
    <3> QED
      BY <2>5
  <2> QED
    BY <1>1, <2>6
<1>3. PICK u : u = CHOOSE v : Eq(v)
  OBVIOUS
<1>4. Eq(u)
  <2> HIDE DEF Eq
  <2> QED
    BY <1>2, <1>3
<1>5. Request!UrlEncode(s) = u[Len(s)]
  BY <1>3 DEF Request!UrlEncode
<1>6. /\ DOMAIN u = 0 .. m /\ u[0] = <<>>
      /\ \A n \in 1 .. m : u[n] = u[n - 1] \o Request!Encoded(s[n])
  <2>1. u = [n \in 0 .. m |-> E(n, u[n - 1])]
    BY <1>1, <1>4
  <2>2. DOMAIN u = 0 .. m /\ \A n \in 0 .. m : u[n] = E(n, u[n - 1])
    <3> HIDE DEF E
    <3> QED
      BY <2>1
  <2> QED
    BY <2>2
<1>7. \A n \in 0 .. m : u[n] \in Seq(T)
  <2> DEFINE N == {n \in Nat : n <= m => u[n] \in Seq(T)}
  <2>1. 0 \in N
    <3>1. u[0] \in Seq(T)
      BY <1>6, EmptySeq
    <3> QED
      BY <3>1
  <2>2. ASSUME NEW n \in Nat, n \in N PROVE n + 1 \in N
    <3> SUFFICES ASSUME n + 1 <= m PROVE u[n + 1] \in Seq(T)
      OBVIOUS
    <3>1. u[n] \in Seq(T)
      BY <2>2
    <3>2. PICK k : k = n + 1
      OBVIOUS
    <3>3. k \in 1 .. m /\ k - 1 = n
      BY <3>2
    <3>4. u[k] = u[n] \o Request!Encoded(s[k]) /\ Request!Encoded(s[k]) \in Seq(T)
      BY <1>1, <1>6, <3>3
    <3> QED
      BY <3>1, <3>2, <3>4, ConcatProperties
  <2> HIDE DEF N
  <2>3. \A n \in Nat : n \in N
    BY <2>1, <2>2, NatSetInduction
  <2> QED
    BY <2>3 DEF N
<1>8. u \in [0 .. m -> Seq(T)]
  <2>1. u = [n \in 0 .. m |-> u[n]]
    <3>1. Eq(u) => \E F : u = [n \in 0 .. m |-> F[n]]
      <4> DEFINE F == [n \in 0 .. m |-> E(n, u[n - 1])]
      <4>1. SUFFICES ASSUME Eq(u) PROVE u = [n \in 0 .. m |-> F[n]]
        OBVIOUS
      <4>2. u = F
        BY <1>1, <4>1
      <4>3. F = [n \in 0 .. m |-> F[n]]
        <5> HIDE DEF E
        <5> QED OBVIOUS
      <4> HIDE DEF F
      <4> QED
        BY <4>2, <4>3
    <3> HIDE DEF Eq
    <3>2. PICK F : u = [n \in 0 .. m |-> F[n]]
      BY <3>1, <1>4
    <3> QED
      BY <3>2
  <2> QED
    BY <1>7, <2>1
<1> QED
  BY <1>1, <1>5, <1>6, <1>8 DEF EncodesUpTo

(* What is written in place of a character is among T, so the text is. *)
LEMMA EncodeInto ==
    ASSUME NEW T, NEW s \in Seq(Chars), \A i \in 1 .. Len(s) : Request!Encoded(s[i]) \in Seq(T)
    PROVE  Request!UrlEncode(s) \in Seq(T)
<1>1. PICK u : EncodesUpTo(T, s, u) /\ Request!UrlEncode(s) = u[Len(s)]
  BY EncodeUpTo
<1>2. u \in [0 .. Len(s) -> Seq(T)] /\ Len(s) \in 0 .. Len(s)
  BY <1>1 DEF EncodesUpTo
<1> QED
  BY <1>1, <1>2

LEMMA EncodeType ==
    ASSUME NEW s \in Seq(Chars)
    PROVE  /\ Request!UrlEncode(s) \in Seq(Coded)
           /\ \A d \in {Request!And, Request!Equal, Request!Query} :
                  (\A i \in 1 .. Len(s) : s[i] # d) => Request!UrlEncode(s) \in Seq(Coded \ {d})
<1>1. \A i \in 1 .. Len(s) : s[i] \in Chars
  OBVIOUS
<1>2. Request!UrlEncode(s) \in Seq(Coded)
  BY <1>1, EncodeInto, EncodedFacts
<1>3. ASSUME NEW d \in {Request!And, Request!Equal, Request!Query}, \A i \in 1 .. Len(s) : s[i] # d
      PROVE  Request!UrlEncode(s) \in Seq(Coded \ {d})
  <2>1. \A i \in 1 .. Len(s) : Request!Encoded(s[i]) \in Seq(Coded \ {d})
    BY <1>1, <1>3, EncodedFacts
  <2> QED
    BY <2>1, EncodeInto
<1> QED
  BY <1>2, <1>3

(* Where each character is written: p[n] characters are written for the    *)
(* first n.                                                                *)
Places(s, e, p) ==
    /\ p \in [0 .. Len(s) -> Nat]
    /\ p[0] = 0 /\ p[Len(s)] = Len(e)
    /\ \A n \in 0 .. Len(s) : p[n] <= Len(e)
    /\ \A n \in 1 .. Len(s) :
           /\ p[n] = p[n - 1] + Len(Request!Encoded(s[n]))
           /\ \A j \in 1 .. Len(Request!Encoded(s[n])) : e[p[n - 1] + j] = Request!Encoded(s[n])[j]

LEMMA EncodePlaces ==
    ASSUME NEW s \in Seq(Chars)
    PROVE  \E p : Places(s, Request!UrlEncode(s), p)
<1>1. PICK e : e = Request!UrlEncode(s)
  OBVIOUS
<1>2. PICK m \in Nat : m = Len(s)
  OBVIOUS
<1>3. \A i \in 1 .. m : Request!Encoded(s[i]) \in Seq(Coded)
  BY <1>2, EncodedFacts
<1>4. PICK u : EncodesUpTo(Coded, s, u) /\ e = u[m]
  BY <1>1, <1>2, <1>3, EncodeUpTo
<1>5. /\ \A n \in 0 .. m : u[n] \in Seq(Coded)
      /\ u[0] = <<>> /\ \A n \in 1 .. m : u[n] = u[n - 1] \o Request!Encoded(s[n])
  BY <1>2, <1>4 DEF EncodesUpTo
<1>6. ASSUME NEW n \in 1 .. m
      PROVE  /\ Len(u[n]) = Len(u[n - 1]) + Len(Request!Encoded(s[n]))
             /\ \A i \in 1 .. Len(u[n]) :
                    u[n][i] = IF i <= Len(u[n - 1]) THEN u[n - 1][i]
                              ELSE Request!Encoded(s[n])[i - Len(u[n - 1])]
  <2>1. PICK x, y, z : x = u[n - 1] /\ y = Request!Encoded(s[n]) /\ z = u[n]
    OBVIOUS
  <2>2. x \in Seq(Coded) /\ y \in Seq(Coded) /\ z = x \o y
    <3>1. n \in 0 .. m /\ n - 1 \in 0 .. m
      BY <1>2
    <3>2. u[n - 1] \in Seq(Coded) /\ u[n] = u[n - 1] \o Request!Encoded(s[n])
      BY <1>5, <3>1
    <3>3. Request!Encoded(s[n]) \in Seq(Coded)
      BY <1>3
    <3> QED
      BY <2>1, <3>2, <3>3
  <2>3. /\ Len(z) = Len(x) + Len(y)
        /\ \A i \in 1 .. Len(z) : z[i] = IF i <= Len(x) THEN x[i] ELSE y[i - Len(x)]
    BY <2>2, ConcatAt
  <2> QED
    BY <2>1, <2>3
<1> DEFINE Prefix(n) == Len(u[n]) <= Len(e) /\ \A i \in 1 .. Len(u[n]) : e[i] = u[n][i]
<1>7. \A n \in 0 .. m : Prefix(n)
  <2> DEFINE N == {k \in Nat : k <= m => Prefix(m - k)}
  <2>1. 0 \in N
    <3>1. u[m] \in Seq(Coded) /\ m - 0 = m
      BY <1>2, <1>5
    <3> QED
      BY <1>4, <3>1
  <2>2. ASSUME NEW k \in Nat, k \in N PROVE k + 1 \in N
    <3> SUFFICES ASSUME k + 1 <= m PROVE Prefix(m - (k + 1))
      OBVIOUS
    <3>1. PICK n : n = m - k
      OBVIOUS
    <3>2. n \in 1 .. m /\ m - (k + 1) = n - 1 /\ k <= m
      BY <1>2, <3>1
    <3>3. Prefix(n)
      BY <2>2, <3>1, <3>2
    <3>4. Len(u[n]) = Len(u[n - 1]) + Len(Request!Encoded(s[n]))
      BY <1>6, <3>2
    <3>5. \A i \in 1 .. Len(u[n]) : i <= Len(u[n - 1]) => u[n][i] = u[n - 1][i]
      BY <1>6, <3>2
    <3>6. u[n] \in Seq(Coded) /\ u[n - 1] \in Seq(Coded) /\ Request!Encoded(s[n]) \in Seq(Coded)
      BY <1>3, <1>5, <3>2
    <3>7. PICK a, b, c \in Nat : a = Len(u[n - 1]) /\ b = Len(u[n])
            /\ c = Len(Request!Encoded(s[n]))
      BY <3>6
    <3>8. a <= b
      <4>1. b = a + c /\ a \in Nat /\ c \in Nat
        BY <3>4, <3>7
      <4> QED
        BY <4>1
    <3>9. e \in Seq(Coded)
      BY <1>2, <1>4, <1>5
    <3>10. PICK l \in Nat : l = Len(e)
      BY <3>9
    <3>11. b <= l /\ \A i \in 1 .. b : e[i] = u[n][i]
      BY <3>3, <3>7, <3>10
    <3>12. \A i \in 1 .. b : i <= a => u[n][i] = u[n - 1][i]
      BY <3>7, <3>5
    <3>13. \A i \in 1 .. a : i \in 1 .. b /\ i <= a
      BY <3>7, <3>8
    <3>14. \A i \in 1 .. a : e[i] = u[n - 1][i]
      BY <3>11, <3>12, <3>13
    <3> QED
      BY <3>2, <3>7, <3>8, <3>10, <3>11, <3>14
  <2> HIDE DEF N, Prefix
  <2>3. \A k \in Nat : k \in N
    BY <2>1, <2>2, NatSetInduction
  <2>4. ASSUME NEW n \in 0 .. m PROVE Prefix(n)
    <3>1. PICK k : k = m - n
      OBVIOUS
    <3>2. k \in Nat /\ m - k = n /\ k <= m
      BY <1>2, <3>1
    <3>3. Prefix(m - k)
      BY <2>3, <3>2 DEF N
    <3> QED
      BY <3>2, <3>3
  <2> QED
    BY <2>4
<1> DEFINE p == [n \in 0 .. m |-> Len(u[n])]
<1>8. /\ p \in [0 .. m -> Nat] /\ p[0] = 0 /\ p[m] = Len(e)
      /\ \A n \in 0 .. m : p[n] = Len(u[n]) /\ p[n] <= Len(e)
  <2>1. \A n \in 0 .. m : Len(u[n]) \in Nat /\ Len(u[n]) <= Len(e)
    BY <1>5, <1>7
  <2> QED
    BY <1>2, <1>4, <1>5, <2>1
<1> HIDE DEF p
<1>9. ASSUME NEW n \in 1 .. m
      PROVE  /\ p[n] = p[n - 1] + Len(Request!Encoded(s[n]))
             /\ \A j \in 1 .. Len(Request!Encoded(s[n])) :
                 e[p[n - 1] + j] = Request!Encoded(s[n])[j]
  <2>1. u[n] \in Seq(Coded) /\ u[n - 1] \in Seq(Coded) /\ Request!Encoded(s[n]) \in Seq(Coded)
    BY <1>3, <1>5
  <2>2. PICK a, b, c \in Nat : a = Len(u[n - 1]) /\ b = Len(u[n]) /\ c = Len(Request!Encoded(s[n]))
    BY <2>1
  <2>3. p[n] = b /\ p[n - 1] = a
    <3>1. n \in 0 .. m /\ n - 1 \in 0 .. m
      BY <1>2
    <3> QED
      BY <1>8, <2>2, <3>1
  <2>4. b = a + c
    BY <1>6, <2>2
  <2>5. Prefix(n)
    BY <1>7
  <2>6. \A i \in 1 .. b : e[i] = u[n][i]
    BY <2>2, <2>5
  <2>7. \A i \in 1 .. b : u[n][i] = IF i <= a THEN u[n - 1][i] ELSE Request!Encoded(s[n])[i - a]
    BY <1>6, <2>2
  <2>8. ASSUME NEW j \in 1 .. c PROVE e[a + j] = Request!Encoded(s[n])[j]
    <3>1. PICK i : i = a + j
      OBVIOUS
    <3>2. i \in 1 .. b /\ ~ (i <= a) /\ i - a = j
      <4>1. a \in Nat /\ c \in Nat /\ b = a + c /\ j \in 1 .. c
        BY <2>2, <2>4
      <4> QED
        BY <4>1, <3>1
    <3>3. e[i] = Request!Encoded(s[n])[i - a]
      BY <2>6, <2>7, <3>2
    <3> QED
      BY <3>1, <3>2, <3>3
  <2> QED
    BY <2>2, <2>3, <2>4, <2>8
<1> QED
  BY <1>1, <1>2, <1>8, <1>9 DEF Places

(* Nothing gets shorter by encoding; a text gets longer by an escape.      *)
LEMMA EncodeLength ==
    ASSUME NEW s \in Seq(Chars)
    PROVE  /\ Len(Request!UrlEncode(s)) >= Len(s)
           /\ \A i \in 1 .. Len(s) : s[i] \in {Request!Plus, Request!Percent}
               => Len(Request!UrlEncode(s)) > Len(s)
<1>1. PICK e : e = Request!UrlEncode(s)
  OBVIOUS
<1>2. PICK m \in Nat : m = Len(s)
  OBVIOUS
<1>3. PICK p : Places(s, e, p)
  BY <1>1, EncodePlaces
<1>4. /\ \A n \in 0 .. m : p[n] \in Nat
      /\ p[0] = 0 /\ p[m] = Len(e)
      /\ \A n \in 1 .. m : p[n] = p[n - 1] + Len(Request!Encoded(s[n]))
  BY <1>2, <1>3 DEF Places
<1>5. \A n \in 1 .. m : /\ Len(Request!Encoded(s[n])) \in {1, 3}
                        /\ s[n] \in {Request!Plus, Request!Percent} => Len(Request!Encoded(s[n]))
                            = 3
  <2>1. ASSUME NEW n \in 1 .. m
        PROVE  /\ Len(Request!Encoded(s[n])) \in {1, 3}
               /\ s[n] \in {Request!Plus, Request!Percent} => Len(Request!Encoded(s[n])) = 3
    <3>1. PICK c, t : c = s[n] /\ t = Request!Encoded(s[n])
      OBVIOUS
    <3>2. c \in Chars
      BY <1>2, <3>1
    <3>3. Written(c, t)
      BY <3>1, <3>2, EncodedFacts
    <3>4. c \in {Request!Plus, Request!Percent} => c # Request!Space /\ c \notin Request!Plain
      <4>1. Request!Plus # Request!Space /\ Request!Percent # Request!Space
        BY PlainFacts
      <4>2. \A d \in Request!Plain : d # Request!Plus /\ d # Request!Percent
        BY PlainFacts, Zenon
      <4> QED
        BY <4>1, <4>2, Zenon
    <3>5. Len(t) \in {1, 3} /\ (c \in {Request!Plus, Request!Percent} => Len(t) = 3)
      BY <3>3, <3>4 DEF Written
    <3> QED
      BY <3>1, <3>5
  <2> QED
    BY <2>1
<1>6. ASSUME NEW i \in 1 .. m
      PROVE  p[m] >= m /\ (s[i] \in {Request!Plus, Request!Percent} => p[m] > m)
  <2> DEFINE P(n) == p[n] >= n /\ (n >= i /\ s[i] \in {Request!Plus, Request!Percent} => p[n] > n)
             N == {n \in Nat : n <= m => P(n)}
  <2>1. 0 \in N
    <3>1. p[0] = 0 /\ i \in Nat /\ i > 0
      BY <1>2, <1>4
    <3> QED
      BY <3>1
  <2>2. ASSUME NEW n \in Nat, n \in N PROVE n + 1 \in N
    <3> SUFFICES ASSUME n + 1 <= m PROVE P(n + 1)
      OBVIOUS
    <3>1. PICK k : k = n + 1
      OBVIOUS
    <3>2. k \in 1 .. m /\ k - 1 = n /\ n \in 0 .. m
      BY <1>2, <3>1
    <3>3. PICK l : l = Len(Request!Encoded(s[k]))
      OBVIOUS
    <3>4. p[k] = p[n] + l /\ l \in {1, 3} /\ p[n] \in Nat
      BY <1>4, <1>5, <3>2, <3>3
    <3>5. s[k] \in {Request!Plus, Request!Percent} => l = 3
      BY <1>5, <3>2, <3>3
    <3>6. P(n)
      BY <2>2, <3>2
    <3>7. p[k] >= k
      BY <3>1, <3>4, <3>6
    <3>8. ASSUME k >= i, s[i] \in {Request!Plus, Request!Percent} PROVE p[k] > k
      <4>1. CASE i = k
        BY <3>1, <3>4, <3>5, <3>6, <3>8, <4>1
      <4>2. CASE i # k
        <5>1. n >= i
          BY <1>2, <3>1, <3>8, <4>2
        <5>2. p[n] > n
          BY <3>6, <3>8, <5>1
        <5> QED
          BY <3>1, <3>4, <5>2
      <4> QED
        BY <4>1, <4>2
    <3> QED
      BY <3>1, <3>7, <3>8
  <2> HIDE DEF N, P
  <2>3. m \in N
    BY <1>2, <2>1, <2>2, NatSetInduction
  <2>4. i \in Nat /\ m >= i
    BY <1>2
  <2> QED
    BY <1>2, <2>3, <2>4 DEF N, P
<1>7. CASE m = 0
  BY <1>1, <1>2, <1>4, <1>7
<1>8. CASE m # 0
  <2>1. 1 \in 1 .. m
    BY <1>2, <1>8
  <2>2. p[m] >= m
    BY <1>6, <2>1
  <2> QED
    BY <1>1, <1>2, <1>4, <1>6, <2>2
<1> QED
  BY <1>7, <1>8

(* Where nothing is plain, something is marked. *)
LEMMA EncodeMarks ==
    ASSUME NEW s \in Seq(Chars), ~ Request!IsPlain(s)
    PROVE  \E i \in 1 .. Len(Request!UrlEncode(s)) :
           Request!UrlEncode(s)[i] \in {Request!Plus, Request!Percent}
<1>1. PICK e : e = Request!UrlEncode(s)
  OBVIOUS
<1>2. PICK m \in Nat : m = Len(s)
  OBVIOUS
<1>3. PICK p : Places(s, e, p)
  BY <1>1, EncodePlaces
<1>4. PICK n \in 1 .. m : s[n] \notin Request!Plain
  BY <1>2 DEF Request!IsPlain
<1>5. /\ p[n - 1] \in Nat /\ p[n] \in Nat /\ p[n] = p[n - 1] + Len(Request!Encoded(s[n]))
      /\ p[n] <= Len(e)
      /\ \A j \in 1 .. Len(Request!Encoded(s[n])) : e[p[n - 1] + j] = Request!Encoded(s[n])[j]
  <2>1. n \in 0 .. m /\ n - 1 \in 0 .. m
    BY <1>2, <1>4
  <2> QED
    BY <1>2, <1>3, <1>4, <2>1 DEF Places
<1>6. PICK c, t : c = s[n] /\ t = Request!Encoded(s[n])
  OBVIOUS
<1>7. Written(c, t)
  BY <1>2, <1>4, <1>6, EncodedFacts
<1>8. Len(t) \in {1, 3} /\ t[1] \in {Request!Plus, Request!Percent}
  BY <1>4, <1>6, <1>7 DEF Written
<1>9. e \in Seq(Coded)
  BY <1>1, EncodeType
<1>10. PICK a, b, l : a = p[n - 1] /\ b = p[n] /\ l = Len(e)
  OBVIOUS
<1>11. PICK k : k = a + 1
  OBVIOUS
<1>12. k \in 1 .. l
  <2>1. a \in Nat /\ b \in Nat /\ b = a + Len(t) /\ b <= l /\ l \in Nat
    BY <1>5, <1>6, <1>9, <1>10
  <2>2. Len(t) = 1 \/ Len(t) = 3
    BY <1>8
  <2> QED
    BY <1>11, <2>1, <2>2
<1>13. e[k] = t[1]
  <2>1. 1 \in 1 .. Len(Request!Encoded(s[n]))
    BY <1>6, <1>8
  <2>2. e[p[n - 1] + 1] = Request!Encoded(s[n])[1]
    BY <1>5, <2>1
  <2> QED
    BY <1>6, <1>10, <1>11, <2>2
<1> QED
  BY <1>1, <1>8, <1>10, <1>12, <1>13

(* A plain text is written as it is. *)
LEMMA EncodePlain ==
    ASSUME NEW s \in Seq(Chars), Request!IsPlain(s)
    PROVE  Request!UrlEncode(s) = s
<1>1. PICK e : e = Request!UrlEncode(s)
  OBVIOUS
<1>2. PICK m \in Nat : m = Len(s)
  OBVIOUS
<1>3. PICK p : Places(s, e, p)
  BY <1>1, EncodePlaces
<1>4. ASSUME NEW n \in 1 .. m
      PROVE  Len(Request!Encoded(s[n])) = 1 /\ Request!Encoded(s[n])[1] = s[n]
  <2>1. PICK c, t : c = s[n] /\ t = Request!Encoded(s[n])
    OBVIOUS
  <2>2. Written(c, t) /\ c \in Request!Plain
    BY <1>2, <2>1, EncodedFacts, SMTT(20) DEF Request!IsPlain
  <2> QED
    BY <2>1, <2>2, PlainFacts DEF Written
<1>5. /\ \A n \in 0 .. m : p[n] \in Nat
      /\ p[0] = 0 /\ p[m] = Len(e)
      /\ \A n \in 1 .. m : p[n] = p[n - 1] + 1 /\ e[p[n - 1] + 1] = s[n]
  <2>1. /\ \A n \in 0 .. m : p[n] \in Nat
        /\ p[0] = 0 /\ p[m] = Len(e)
    BY <1>2, <1>3 DEF Places
  <2>2. ASSUME NEW n \in 1 .. m PROVE p[n] = p[n - 1] + 1 /\ e[p[n - 1] + 1] = s[n]
    <3>1. /\ p[n] = p[n - 1] + Len(Request!Encoded(s[n]))
          /\ \A j \in 1 .. Len(Request!Encoded(s[n])) : e[p[n - 1] + j] = Request!Encoded(s[n])[j]
      BY <1>2, <1>3 DEF Places
    <3>2. 1 \in 1 .. Len(Request!Encoded(s[n])) /\ Request!Encoded(s[n])[1] = s[n]
      BY <1>4
    <3>3. e[p[n - 1] + 1] = Request!Encoded(s[n])[1]
      BY <3>1, <3>2
    <3> QED
      BY <1>4, <3>1, <3>2, <3>3
  <2> QED
    BY <2>1, <2>2
<1>6. \A n \in 0 .. m : p[n] = n
  <2> DEFINE N == {n \in Nat : n <= m => p[n] = n}
  <2>1. 0 \in N
    BY <1>5
  <2>2. ASSUME NEW n \in Nat, n \in N PROVE n + 1 \in N
    <3> SUFFICES ASSUME n + 1 <= m PROVE p[n + 1] = n + 1
      OBVIOUS
    <3>1. PICK k : k = n + 1
      OBVIOUS
    <3>2. k \in 1 .. m /\ k - 1 = n
      BY <1>2, <3>1
    <3>3. p[k] = p[n] + 1 /\ p[n] = n
      BY <1>2, <1>5, <2>2, <3>2
    <3> QED
      BY <3>1, <3>3
  <2> HIDE DEF N
  <2>3. \A n \in Nat : n \in N
    BY <2>1, <2>2, NatSetInduction
  <2> QED
    BY <1>2, <2>3 DEF N
<1>7. \A n \in 1 .. m : e[n] = s[n]
  <2>1. ASSUME NEW n \in 1 .. m PROVE e[n] = s[n]
    <3>1. n - 1 \in 0 .. m /\ (n - 1) + 1 = n
      BY <1>2
    <3>2. p[n - 1] = n - 1 /\ e[p[n - 1] + 1] = s[n]
      BY <1>5, <1>6, <3>1
    <3> QED
      BY <3>1, <3>2
  <2> QED
    BY <2>1
<1>8. Len(e) = m
  BY <1>2, <1>5, <1>6
<1>9. e \in Seq(Chars)
  <2>1. Coded \subseteq Chars /\ e \in Seq(Coded)
    BY <1>1, CodedFacts, EncodeType
  <2> QED
    BY <2>1
<1> QED
  BY <1>1, <1>2, <1>7, <1>8, <1>9, SeqEqual

LEMMA EncodeChars == \A s \in Seq(Chars) : Request!UrlEncode(s) \in Seq(Chars)
<1>1. Coded \subseteq Chars
  BY CodedFacts
<1>2. ASSUME NEW s \in Seq(Chars) PROVE Request!UrlEncode(s) \in Seq(Chars)
  BY <1>1, EncodeType
<1> QED
  BY <1>2

(* A text that is not plain grows by being encoded twice. *)
LEMMA EncodeGrows ==
    ASSUME NEW s \in Seq(Chars), ~ Request!IsPlain(s)
    PROVE  ~ Request!IsPlain(Request!UrlEncode(s))
           /\ Len(Request!UrlEncode(Request!UrlEncode(s))) > Len(s)
<1>1. PICK e : e = Request!UrlEncode(s)
  OBVIOUS
<1>2. e \in Seq(Chars)
  BY <1>1, EncodeChars
<1>3. PICK i \in 1 .. Len(e) : e[i] \in {Request!Plus, Request!Percent}
  BY <1>1, EncodeMarks
<1>4. ~ Request!IsPlain(e)
  <2>1. i \in DOMAIN e
    BY <1>2, <1>3
  <2>2. e[i] \notin Request!Plain
    BY <1>3, PlainFacts
  <2> QED
    BY <2>1, <2>2 DEF Request!IsPlain
<1>5. Len(Request!UrlEncode(e)) > Len(e)
  BY <1>2, <1>3, EncodeLength
<1>6. Len(e) >= Len(s)
  BY <1>1, EncodeLength
<1>7. Len(Request!UrlEncode(e)) \in Nat /\ Len(e) \in Nat /\ Len(s) \in Nat
  <2>1. Request!UrlEncode(e) \in Seq(Chars)
    BY <1>2, EncodeChars
  <2> QED
    BY <1>2, <2>1
<1> QED
  BY <1>1, <1>4, <1>5, <1>6, <1>7

(* Texts are encoded one after the other. *)
LEMMA EncodeConcat ==
    ASSUME NEW a \in Seq(Chars), NEW b \in Seq(Chars)
    PROVE  Request!UrlEncode(a \o b) = Request!UrlEncode(a) \o Request!UrlEncode(b)
<1>1. PICK s : s = a \o b
  OBVIOUS
<1>2. PICK k \in Nat : k = Len(a)
  OBVIOUS
<1>3. PICK l \in Nat : l = Len(b)
  OBVIOUS
<1>4. /\ s \in Seq(Chars) /\ Len(s) = Len(a) + Len(b)
      /\ \A i \in 1 .. Len(s) : s[i] = IF i <= Len(a) THEN a[i] ELSE b[i - Len(a)]
  BY <1>1, ConcatAt
<1>5. ASSUME NEW t \in Seq(Chars)
      PROVE  \E v : EncodesUpTo(Coded, t, v) /\ Request!UrlEncode(t) = v[Len(t)]
  <2>1. \A i \in 1 .. Len(t) : Request!Encoded(t[i]) \in Seq(Coded)
    BY EncodedFacts
  <2> QED
    BY <2>1, EncodeUpTo
<1>6. PICK u : EncodesUpTo(Coded, s, u) /\ Request!UrlEncode(s) = u[k + l]
  BY <1>2, <1>3, <1>4, <1>5
<1>7. PICK v : EncodesUpTo(Coded, a, v) /\ Request!UrlEncode(a) = v[k]
  BY <1>2, <1>5
<1>8. PICK w : EncodesUpTo(Coded, b, w) /\ Request!UrlEncode(b) = w[l]
  BY <1>3, <1>5
<1>9. /\ u[0] = <<>> /\ \A n \in 1 .. k + l : u[n] = u[n - 1] \o Request!Encoded(s[n])
  BY <1>2, <1>3, <1>4, <1>6 DEF EncodesUpTo
<1>10. /\ v[0] = <<>> /\ \A n \in 1 .. k : v[n] = v[n - 1] \o Request!Encoded(a[n])
       /\ \A n \in 0 .. k : v[n] \in Seq(Coded)
  BY <1>2, <1>7 DEF EncodesUpTo
<1>11. /\ w[0] = <<>> /\ \A n \in 1 .. l : w[n] = w[n - 1] \o Request!Encoded(b[n])
       /\ \A n \in 0 .. l : w[n] \in Seq(Coded)
  BY <1>3, <1>8 DEF EncodesUpTo
<1>12. /\ \A n \in 1 .. k : s[n] = a[n]
       /\ \A n \in 1 .. l : s[k + n] = b[n]
  <2>1. \A i \in 1 .. k + l : s[i] = IF i <= k THEN a[i] ELSE b[i - k]
    BY <1>2, <1>3, <1>4
  <2>2. ASSUME NEW n \in 1 .. l PROVE s[k + n] = b[n]
    <3>1. PICK i : i = k + n
      OBVIOUS
    <3>2. i \in 1 .. k + l /\ ~ (i <= k) /\ i - k = n
      BY <1>2, <1>3, <3>1
    <3> QED
      BY <2>1, <3>1, <3>2
  <2> QED
    BY <1>2, <1>3, <2>1, <2>2
<1>13. u[k] = v[k]
  <2> DEFINE N == {n \in Nat : n <= k => u[n] = v[n]}
  <2>1. 0 \in N
    BY <1>9, <1>10
  <2>2. ASSUME NEW n \in Nat, n \in N PROVE n + 1 \in N
    <3> SUFFICES ASSUME n + 1 <= k PROVE u[n + 1] = v[n + 1]
      OBVIOUS
    <3>1. PICK j : j = n + 1
      OBVIOUS
    <3>2. j \in 1 .. k /\ j \in 1 .. k + l /\ j - 1 = n /\ n <= k
      BY <1>2, <1>3, <3>1
    <3>3. u[n] = v[n]
      BY <2>2, <3>2
    <3>4. u[j] = u[n] \o Request!Encoded(s[j])
      BY <1>9, <3>2
    <3>5. v[j] = v[n] \o Request!Encoded(a[j])
      BY <1>10, <3>2
    <3>6. s[j] = a[j]
      BY <1>12, <3>2
    <3> QED
      BY <3>1, <3>3, <3>4, <3>5, <3>6
  <2> HIDE DEF N
  <2>3. k \in N
    BY <1>2, <2>1, <2>2, NatSetInduction
  <2> QED
    BY <1>2, <2>3 DEF N
<1>14. PICK x : x = v[k]
  OBVIOUS
<1>15. x \in Seq(Coded)
  BY <1>2, <1>10, <1>14
<1>16. u[k + l] = x \o w[l]
  <2> DEFINE N == {n \in Nat : n <= l => u[k + n] = x \o w[n]}
  <2>1. 0 \in N
    <3>1. k + 0 = k
      BY <1>2
    <3>2. x \o <<>> = x
      BY <1>15, ConcatEmptySeq
    <3>3. u[k + 0] = x \o w[0]
      BY <1>11, <1>13, <1>14, <3>1, <3>2
    <3> QED
      BY <3>3
  <2>2. ASSUME NEW n \in Nat, n \in N PROVE n + 1 \in N
    <3> SUFFICES ASSUME n + 1 <= l PROVE u[k + (n + 1)] = x \o w[n + 1]
      OBVIOUS
    <3>1. PICK j, i : j = n + 1 /\ i = k + j
      OBVIOUS
    <3>2. /\ j \in 1 .. l /\ j - 1 = n /\ n <= l /\ n \in 0 .. l
          /\ i \in 1 .. k + l /\ i - 1 = k + n
      BY <1>2, <1>3, <3>1
    <3>3. u[k + n] = x \o w[n]
      BY <2>2, <3>2
    <3>4. PICK y, c : y = w[n] /\ c = Request!Encoded(b[j])
      OBVIOUS
    <3>5. u[i] = u[i - 1] \o Request!Encoded(s[i])
      BY <1>9, <3>2
    <3>6. s[i] = b[j]
      BY <1>12, <3>1, <3>2
    <3>7. u[i] = (x \o y) \o c
      BY <3>2, <3>3, <3>4, <3>5, <3>6
    <3>8. w[j] = y \o c
      BY <1>11, <3>2, <3>4
    <3>9. y \in Seq(Coded)
      BY <1>11, <3>2, <3>4
    <3>10. c \in Seq(Coded)
      <4>1. b[j] \in Chars
        BY <1>3, <3>2
      <4> QED
        BY <3>4, <4>1, EncodedFacts
    <3>11. (x \o y) \o c = x \o (y \o c)
      BY <1>15, <3>9, <3>10, ConcatAssociative, SMTT(30)
    <3> QED
      BY <3>1, <3>7, <3>8, <3>11
  <2> HIDE DEF N
  <2>3. l \in N
    BY <1>3, <2>1, <2>2, NatSetInduction
  <2> QED
    BY <1>3, <2>3 DEF N
<1> QED
  BY <1>1, <1>6, <1>7, <1>8, <1>14, <1>16

(* A character that is written as it is divides what is written. *)
LEMMA EncodeAround ==
    ASSUME NEW a \in Seq(Chars), NEW c \in Request!Plain, NEW b \in Seq(Chars)
    PROVE  Request!UrlEncode(a \o <<c>> \o b) = Request!UrlEncode(a) \o <<c>>
           \o Request!UrlEncode(b)
<1>1. PICK x, y : x = <<c>> /\ y = a \o x
  OBVIOUS
<1>2. c \in Chars
  BY PlainFacts
<1>3. x \in Seq(Chars) /\ Request!IsPlain(x)
  BY <1>1, <1>2 DEF Request!IsPlain
<1>4. Request!UrlEncode(x) = x
  BY <1>3, EncodePlain
<1>5. y \in Seq(Chars)
  BY <1>1, <1>3, ConcatProperties
<1>6. Request!UrlEncode(y) = Request!UrlEncode(a) \o Request!UrlEncode(x)
  BY <1>1, <1>3, EncodeConcat
<1>7. Request!UrlEncode(y \o b) = Request!UrlEncode(y) \o Request!UrlEncode(b)
  BY <1>5, EncodeConcat
<1> QED
  BY <1>1, <1>4, <1>6, <1>7

(* One step of UrlDecode, from what is decoded behind it. *)
Decoded(s, f, i) ==
    IF i > Len(s) THEN <<>>
    ELSE IF Request!Escape(s, i)
    THEN <<Request!HexValue[s[i + 1]] * 16 + Request!HexValue[s[i + 2]]>> \o f[i + 3]
    ELSE <<IF s[i] = Request!Plus THEN Request!Space ELSE s[i]>> \o f[i + 1]

LEMMA HexChars ==
    \A a, b \in DOMAIN Request!HexValue : Request!HexValue[a] * 16 + Request!HexValue[b] \in Chars
<1>1. DOMAIN Request!HexValue = (48 .. 57) \cup (65 .. 70) \cup (97 .. 102)
  BY DEF Request!HexValue, Request!Digits
<1>2. \A a \in DOMAIN Request!HexValue : Request!HexValue[a] \in 0 .. 15
  BY <1>1 DEF Request!HexValue, Request!Digits, Request!Upper
<1> QED
  BY <1>2 DEF Chars

(* A step looks only at what is behind it. *)
LEMMA DecodedType ==
    ASSUME NEW s \in Seq(Chars), NEW i \in 1 .. Len(s) + 1, NEW f,
           \A j \in i + 1 .. Len(s) + 1 : f[j] \in Seq(Chars)
    PROVE  /\ Decoded(s, f, i) \in Seq(Chars)
           /\ \A g : (\A j \in i + 1 .. Len(s) + 1 : g[j] = f[j])
                         => Decoded(s, g, i) = Decoded(s, f, i)
<1>1. PICK m \in Nat : m = Len(s)
  OBVIOUS
<1>2. CASE i > m
  BY <1>1, <1>2 DEF Decoded
<1>3. CASE ~ (i > m) /\ Request!Escape(s, i)
  <2>1. s[i + 1] \in DOMAIN Request!HexValue /\ s[i + 2] \in DOMAIN Request!HexValue /\ i + 2 <= m
    BY <1>1, <1>3 DEF Request!Escape
  <2>2. PICK c : c = Request!HexValue[s[i + 1]] * 16 + Request!HexValue[s[i + 2]]
    OBVIOUS
  <2>3. c \in Chars
    BY <2>1, <2>2, HexChars
  <2>4. i + 3 \in i + 1 .. m + 1
    BY <1>1, <2>1
  <2>5. \A h : Decoded(s, h, i) = <<c>> \o h[i + 3]
    BY <1>1, <1>3, <2>2 DEF Decoded
  <2>6. <<c>> \o f[i + 3] \in Seq(Chars)
    <3>1. f[i + 3] \in Seq(Chars) /\ <<c>> \in Seq(Chars)
      BY <1>1, <2>3, <2>4
    <3> QED
      BY <3>1, ConcatProperties
  <2> QED
    BY <1>1, <2>4, <2>5, <2>6
<1>4. CASE ~ (i > m) /\ ~ Request!Escape(s, i)
  <2>1. PICK c : c = IF s[i] = Request!Plus THEN Request!Space ELSE s[i]
    OBVIOUS
  <2>2. c \in Chars
    <3>1. Request!Space \in Chars
      BY PlainFacts DEF Chars
    <3>2. i \in 1 .. Len(s)
      BY <1>1, <1>4
    <3>3. s[i] \in Chars
      BY <3>2
    <3> QED
      BY <2>1, <3>1, <3>3
  <2>3. i + 1 \in i + 1 .. m + 1
    BY <1>1, <1>4
  <2>4. \A h : Decoded(s, h, i) = <<c>> \o h[i + 1]
    BY <1>1, <1>4, <2>1 DEF Decoded
  <2>5. <<c>> \o f[i + 1] \in Seq(Chars)
    <3>1. f[i + 1] \in Seq(Chars) /\ <<c>> \in Seq(Chars)
      BY <1>1, <2>2, <2>3
    <3> QED
      BY <3>1, ConcatProperties
  <2> QED
    BY <1>1, <2>3, <2>4, <2>5
<1> QED
  BY <1>2, <1>3, <1>4

(* The recursion of UrlDecode, as a function from places to texts. *)
LEMMA DecodeFrom ==
    ASSUME NEW s \in Seq(Chars)
    PROVE  \E f : /\ Request!UrlDecode(s) = f[1]
                  /\ \A i \in 1 .. Len(s) + 1 : f[i] \in Seq(Chars) /\ f[i] = Decoded(s, f, i)
<1>1. PICK m \in Nat : m = Len(s)
  OBVIOUS
<1> DEFINE Eq(f) == f = [i \in 1 .. Len(s) + 1 |-> Decoded(s, f, i)]
<1>2. \E f : Eq(f)
  <2> DEFINE P(k, f) == \A i \in m + 1 - k .. m + 1 : f[i] \in Seq(Chars) /\ f[i] = Decoded(s, f, i)
             N == {k \in Nat : k <= m => \E f \in [m + 1 - k .. m + 1 -> Seq(Chars)] : P(k, f)}
  <2>1. 0 \in N
    <3>1. PICK f : f = [i \in m + 1 - 0 .. m + 1 |-> <<>>]
      OBVIOUS
    <3>2. f \in [m + 1 - 0 .. m + 1 -> Seq(Chars)] /\ f[m + 1] = <<>>
      BY <1>1, <3>1
    <3>3. Decoded(s, f, m + 1) = <<>>
      BY <1>1 DEF Decoded
    <3>4. P(0, f)
      <4>1. \A i \in m + 1 - 0 .. m + 1 : i = m + 1
        BY <1>1
      <4> QED
        BY <3>2, <3>3, <4>1
    <3> HIDE DEF P
    <3> QED
      BY <3>2, <3>4
  <2>2. ASSUME NEW k \in Nat, k \in N PROVE k + 1 \in N
    <3> SUFFICES ASSUME k + 1 <= m
                 PROVE  \E f \in [m + 1 - (k + 1) .. m + 1 -> Seq(Chars)] : P(k + 1, f)
      <4> HIDE DEF P
      <4> QED
        OBVIOUS
    <3>1. k <= m
      BY <1>1
    <3>2. PICK f \in [m + 1 - k .. m + 1 -> Seq(Chars)] : P(k, f)
      <4> HIDE DEF P
      <4> QED
        BY <2>2, <3>1
    <3>3. PICK n : n = m - k
      OBVIOUS
    <3>4. n \in 1 .. m /\ m + 1 - k = n + 1 /\ m + 1 - (k + 1) = n
      BY <1>1, <3>1, <3>3
    <3>5. \A i \in n + 1 .. m + 1 : f[i] \in Seq(Chars) /\ f[i] = Decoded(s, f, i)
      BY <3>2, <3>4
    <3>6. PICK d : d = Decoded(s, f, n)
      OBVIOUS
    <3>7. d \in Seq(Chars)
      <4>1. n \in 1 .. m + 1
        BY <1>1, <3>4
      <4> QED
        BY <1>1, <3>5, <3>6, <4>1, DecodedType
    <3>8. PICK g : g = [i \in n .. m + 1 |-> IF i = n THEN d ELSE f[i]]
      OBVIOUS
    <3>9. \A i \in n + 1 .. m + 1 : i \in n .. m + 1 /\ i # n
      BY <1>1, <3>4
    <3>10. g[n] = d /\ \A i \in n + 1 .. m + 1 : g[i] = f[i]
      <4>1. n \in n .. m + 1
        BY <1>1, <3>4
      <4> QED
        BY <3>8, <3>9, <4>1
    <3>11. \A i \in n .. m + 1 : i = n \/ i \in n + 1 .. m + 1
      BY <1>1, <3>4
    <3>12. ASSUME NEW i \in n .. m + 1 PROVE g[i] \in Seq(Chars) /\ g[i] = Decoded(s, g, i)
      <4>1. g[i] = Decoded(s, f, i) /\ g[i] \in Seq(Chars)
        BY <3>5, <3>6, <3>7, <3>10, <3>11
      <4>2. i \in 1 .. Len(s) + 1 /\ i + 1 .. m + 1 \subseteq n + 1 .. m + 1
        BY <1>1, <3>4
      <4>3. \A j \in i + 1 .. Len(s) + 1 : f[j] \in Seq(Chars) /\ g[j] = f[j]
        BY <1>1, <3>5, <3>10, <4>2
      <4>4. Decoded(s, g, i) = Decoded(s, f, i)
        BY <4>2, <4>3, DecodedType
      <4> QED
        BY <4>1, <4>4
    <3>13. g \in [n .. m + 1 -> Seq(Chars)]
      BY <3>5, <3>7, <3>8, <3>11
    <3>14. P(k + 1, g)
      BY <3>4, <3>12
    <3> HIDE DEF P
    <3> QED
      BY <3>4, <3>13, <3>14
  <2> HIDE DEF N
  <2>3. m \in N
    BY <1>1, <2>1, <2>2, NatSetInduction
  <2>4. m + 1 - m = 1
    BY <1>1
  <2>5. PICK f \in [1 .. m + 1 -> Seq(Chars)] : P(m, f)
    <3> HIDE DEF P
    <3> QED
      BY <1>1, <2>3, <2>4 DEF N
  <2>6. \A i \in 1 .. m + 1 : f[i] = Decoded(s, f, i)
    BY <2>4, <2>5
  <2>7. f = [i \in 1 .. m + 1 |-> Decoded(s, f, i)]
    BY <2>5, <2>6
  <2> QED
    BY <1>1, <2>7
<1>3. PICK f : f = CHOOSE g : Eq(g)
  OBVIOUS
<1>4. Eq(f)
  <2> HIDE DEF Eq
  <2> QED
    BY <1>2, <1>3
<1>5. Request!UrlDecode(s) = f[1]
  BY <1>3 DEF Request!UrlDecode, Decoded
<1>6. \A i \in 1 .. m + 1 : f[i] = Decoded(s, f, i)
  <2>1. f = [i \in 1 .. m + 1 |-> Decoded(s, f, i)]
    BY <1>1, <1>4
  <2>2. \A g : g = [i \in 1 .. m + 1 |-> Decoded(s, f, i)] => \A i \in 1 .. m + 1 :
          g[i] = Decoded(s, f, i)
    OBVIOUS
  <2> QED
    BY <2>1, <2>2
<1>7. \A i \in 1 .. m + 1 : f[i] \in Seq(Chars)
  <2> DEFINE N == {k \in Nat : k <= m => \A i \in m + 1 - k .. m + 1 : f[i] \in Seq(Chars)}
  <2>1. 0 \in N
    <3>1. \A i \in m + 1 - 0 .. m + 1 : i = m + 1
      BY <1>1
    <3>2. f[m + 1] = <<>>
      <4>1. m + 1 \in 1 .. m + 1 /\ m + 1 > m
        BY <1>1
      <4> QED
        BY <1>1, <1>6, <4>1 DEF Decoded
    <3>3. f[m + 1] \in Seq(Chars)
      BY <3>2, EmptySeq
    <3> QED
      BY <3>1, <3>3
  <2>2. ASSUME NEW k \in Nat, k \in N PROVE k + 1 \in N
    <3> SUFFICES ASSUME k + 1 <= m
                 PROVE  \A i \in m + 1 - (k + 1) .. m + 1 : f[i] \in Seq(Chars)
      OBVIOUS
    <3>1. PICK n : n = m - k
      OBVIOUS
    <3>2. n \in 1 .. m /\ m + 1 - k = n + 1 /\ m + 1 - (k + 1) = n /\ k <= m
      BY <1>1, <3>1
    <3>3. \A i \in n + 1 .. m + 1 : f[i] \in Seq(Chars)
      BY <2>2, <3>2
    <3>4. f[n] \in Seq(Chars)
      <4>1. n \in 1 .. m + 1
        BY <1>1, <3>2
      <4>2. Decoded(s, f, n) \in Seq(Chars)
        BY <1>1, <3>3, <4>1, DecodedType
      <4> QED
        BY <1>6, <4>1, <4>2
    <3>5. \A i \in n .. m + 1 : i = n \/ i \in n + 1 .. m + 1
      BY <1>1, <3>2
    <3> QED
      BY <3>2, <3>3, <3>4, <3>5
  <2> HIDE DEF N
  <2>3. m \in N
    BY <1>1, <2>1, <2>2, NatSetInduction
  <2>4. m + 1 - m = 1
    BY <1>1
  <2> QED
    BY <1>1, <2>3, <2>4 DEF N
<1> QED
  BY <1>1, <1>5, <1>6, <1>7

(* At the place where a character is written, it is what is decoded. *)
LEMMA DecodeOne ==
    ASSUME NEW e \in Seq(Chars), NEW f, NEW i \in 1 .. Len(e), NEW c \in Chars, NEW x,
           Written(c, x), i + Len(x) <= Len(e) + 1,
           \A j \in 1 .. Len(x) : e[i + (j - 1)] = x[j]
    PROVE  Decoded(e, f, i) = <<c>> \o f[i + Len(x)]
<1>1. ~ (i > Len(e)) /\ i \in Int /\ Len(e) \in Nat
  OBVIOUS
<1>2. i + (1 - 1) = i /\ i + (2 - 1) = i + 1 /\ i + (3 - 1) = i + 2
  BY <1>1
<1>3. CASE c = Request!Space /\ Len(x) = 1 /\ x[1] = Request!Plus
  <2>1. e[i] = Request!Plus
    BY <1>2, <1>3
  <2>2. ~ Request!Escape(e, i)
    BY <2>1, PlainFacts DEF Request!Escape
  <2> QED
    BY <1>1, <1>3, <2>1, <2>2 DEF Decoded
<1>4. CASE c \in Request!Plain /\ Len(x) = 1 /\ x[1] = c
  <2>1. e[i] = c
    BY <1>2, <1>4
  <2>2. c # Request!Plus /\ c # Request!Percent
    BY <1>4, PlainFacts
  <2>3. ~ Request!Escape(e, i)
    BY <2>1, <2>2 DEF Request!Escape
  <2> QED
    BY <1>1, <1>4, <2>1, <2>2, <2>3 DEF Decoded
<1>5. CASE /\ c # Request!Space /\ c \notin Request!Plain /\ Len(x) = 3 /\ x[1] = Request!Percent
           /\ {x[2], x[3]} \subseteq DOMAIN Request!HexValue
           /\ Request!HexValue[x[2]] * 16 + Request!HexValue[x[3]] = c
  <2>1. \A j \in {1, 2, 3} : j \in 1 .. Len(x)
    BY <1>5
  <2>2. e[i] = x[1] /\ e[i + 1] = x[2] /\ e[i + 2] = x[3]
    BY <1>2, <2>1
  <2>3. i + 2 <= Len(e)
    BY <1>1, <1>5
  <2>4. Request!Escape(e, i)
    BY <1>5, <2>2, <2>3 DEF Request!Escape
  <2> QED
    BY <1>1, <1>5, <2>2, <2>4 DEF Decoded
<1> QED
  BY <1>3, <1>4, <1>5 DEF Written

(* Decoding undoes encoding, whatever the text. *)
THEOREM CodecCorrect ==
    ASSUME NEW t \in Seq(Chars)
    PROVE  Request!UrlDecode(Request!UrlEncode(t)) = t
<1>1. PICK e : e = Request!UrlEncode(t)
  OBVIOUS
<1>2. PICK m \in Nat : m = Len(t)
  OBVIOUS
<1>3. e \in Seq(Chars)
  BY <1>1, EncodeChars
<1>4. PICK l \in Nat : l = Len(e)
  BY <1>3
<1>5. PICK p : Places(t, e, p)
  BY <1>1, EncodePlaces
<1>6. PICK f : /\ Request!UrlDecode(e) = f[1]
               /\ \A i \in 1 .. l + 1 : f[i] \in Seq(Chars) /\ f[i] = Decoded(e, f, i)
  BY <1>3, <1>4, DecodeFrom
<1>7. /\ \A n \in 0 .. m : p[n] \in Nat /\ p[n] <= l
      /\ p[0] = 0 /\ p[m] = l
  BY <1>2, <1>4, <1>5 DEF Places
<1>8. ASSUME NEW n \in 1 .. m PROVE f[p[n - 1] + 1] = <<t[n]>> \o f[p[n] + 1]
  <2>1. PICK c, x : c = t[n] /\ x = Request!Encoded(t[n])
    OBVIOUS
  <2>2. c \in Chars
    BY <1>2, <2>1
  <2>3. Written(c, x)
    BY <2>1, <2>2, EncodedFacts
  <2>4. Len(x) = 1 \/ Len(x) = 3
    BY <2>3 DEF Written
  <2>5. PICK i : i = p[n - 1] + 1
    OBVIOUS
  <2>6. /\ p[n] = p[n - 1] + Len(x)
        /\ \A j \in 1 .. Len(x) : e[p[n - 1] + j] = x[j]
    BY <1>2, <1>5, <2>1 DEF Places
  <2>7. p[n - 1] \in Nat /\ p[n] \in Nat /\ p[n] <= l
    <3>1. n \in 0 .. m /\ n - 1 \in 0 .. m
      BY <1>2
    <3> QED
      BY <1>7, <3>1
  <2>8. i \in 1 .. l /\ i + Len(x) = p[n] + 1 /\ i + Len(x) <= l + 1
    <3>1. PICK a, b, q : a = p[n - 1] /\ b = p[n] /\ q = Len(x)
      OBVIOUS
    <3>2. a \in Nat /\ b \in Nat /\ b <= l /\ b = a + q /\ i = a + 1
      BY <2>5, <2>6, <2>7, <3>1
    <3>3. q = 1 \/ q = 3
      BY <2>4, <3>1
    <3>4. i \in 1 .. l /\ i + q = b + 1 /\ i + q <= l + 1
      BY <1>4, <3>2, <3>3
    <3> QED
      BY <3>1, <3>4
  <2>9. \A j \in 1 .. Len(x) : e[i + (j - 1)] = x[j]
    <3>1. ASSUME NEW j \in 1 .. Len(x) PROVE i + (j - 1) = p[n - 1] + j
      BY <2>5, <2>7
    <3> QED
      BY <2>6, <3>1
  <2>10. Decoded(e, f, i) = <<c>> \o f[i + Len(x)]
    BY <1>3, <1>4, <2>2, <2>3, <2>8, <2>9, DecodeOne
  <2>11. f[i] = Decoded(e, f, i)
    <3>1. i \in 1 .. l + 1
      BY <1>4, <2>8
    <3> QED
      BY <1>6, <3>1
  <2> QED
    BY <2>1, <2>5, <2>8, <2>10, <2>11
<1> DEFINE Rest(n) == /\ Len(f[p[n] + 1]) = m - n
                      /\ \A j \in 1 .. m - n : f[p[n] + 1][j] = t[n + j]
           N == {k \in Nat : k <= m => Rest(m - k)}
<1>9. 0 \in N
  <2>1. f[l + 1] = <<>>
    <3>1. l + 1 \in 1 .. l + 1 /\ l + 1 > l
      BY <1>4
    <3> QED
      BY <1>4, <1>6, <3>1 DEF Decoded
  <2>2. m - 0 = m /\ m - m = 0 /\ 1 .. 0 = {}
    BY <1>2
  <2>3. Rest(m)
    BY <1>7, <2>1, <2>2
  <2> HIDE DEF Rest
  <2> QED
    BY <2>2, <2>3
<1>10. ASSUME NEW k \in Nat, k \in N PROVE k + 1 \in N
  <2> SUFFICES ASSUME k + 1 <= m PROVE Rest(m - (k + 1))
    BY SMTT(20)
  <2>1. PICK n : n = m - k
    OBVIOUS
  <2>2. n \in 1 .. m /\ m - (k + 1) = n - 1 /\ k <= m
    BY <1>2, <2>1
  <2>3. Rest(n)
    BY <1>10, <2>1, <2>2
  <2>4. PICK x, y, z : x = <<t[n]>> /\ y = f[p[n] + 1] /\ z = f[p[n - 1] + 1]
    OBVIOUS
  <2>5. z = x \o y
    BY <1>8, <2>2, <2>4
  <2>6. x \in Seq(Chars) /\ Len(x) = 1 /\ x[1] = t[n]
    <3>1. t[n] \in Chars
      BY <1>2, <2>2
    <3> QED
      BY <2>4, <3>1
  <2>7. y \in Seq(Chars)
    <3>1. p[n] + 1 \in 1 .. l + 1
      <4>1. p[n] \in Nat /\ p[n] <= l
        BY <1>2, <1>7, <2>2
      <4> QED
        BY <1>4, <4>1
    <3> QED
      BY <1>6, <2>4, <3>1
  <2>8. Len(y) = m - n /\ \A j \in 1 .. m - n : y[j] = t[n + j]
    BY <2>3, <2>4
  <2>9. /\ Len(z) = Len(x) + Len(y)
        /\ \A i \in 1 .. Len(z) : z[i] = IF i <= Len(x) THEN x[i] ELSE y[i - Len(x)]
    <3>1. x \in Seq(Chars) /\ y \in Seq(Chars)
      BY <2>6, <2>7
    <3> QED
      BY <2>5, <3>1, ConcatAt
  <2>10. Len(z) = m - (n - 1)
    BY <1>2, <2>2, <2>6, <2>8, <2>9
  <2>11. ASSUME NEW j \in 1 .. m - (n - 1) PROVE z[j] = t[(n - 1) + j]
    <3>1. z[j] = IF j <= 1 THEN x[j] ELSE y[j - 1]
      BY <2>6, <2>9, <2>10
    <3>2. CASE j = 1
      <4>1. (n - 1) + j = n /\ j <= 1
        BY <2>2, <3>2
      <4> QED
        BY <2>6, <3>1, <3>2, <4>1
    <3>3. CASE j # 1
      <4>1. ~ (j <= 1) /\ j - 1 \in 1 .. m - n /\ n + (j - 1) = (n - 1) + j
        BY <1>2, <2>2, <3>3
      <4> QED
        BY <2>8, <3>1, <4>1
    <3> QED
      BY <3>2, <3>3
  <2>12. Rest(n - 1)
    BY <2>4, <2>10, <2>11
  <2> HIDE DEF Rest
  <2> QED
    BY <2>2, <2>12
<1> HIDE DEF N
<1>11. m \in N
  BY <1>2, <1>9, <1>10, NatSetInduction
<1>12. m - m = 0 /\ m - 0 = m /\ 0 + 1 = 1 /\ \A j \in 1 .. m : 0 + j = j
  BY <1>2
<1>13. Len(f[1]) = m /\ \A j \in 1 .. m : f[1][j] = t[j]
  <2>1. Rest(0)
    <3> HIDE DEF Rest
    <3> QED
      BY <1>2, <1>11, <1>12 DEF N
  <2> QED
    BY <1>7, <1>12, <2>1
<1>14. f[1] \in Seq(Chars)
  <2>1. 1 \in 1 .. l + 1
    BY <1>4
  <2> QED
    BY <1>6, <2>1
<1>15. f[1] = t
  BY <1>2, <1>13, <1>14, SeqEqual
<1> QED
  BY <1>1, <1>6, <1>15

(* A character between two texts. *)
LEMMA AroundAt ==
    ASSUME NEW S, NEW x \in Seq(S), NEW c \in S, NEW y \in Seq(S), NEW z, z = x \o <<c>> \o y
    PROVE  /\ z \in Seq(S) /\ Len(z) = Len(x) + 1 + Len(y)
           /\ \A i \in 1 .. Len(x) : z[i] = x[i]
           /\ z[Len(x) + 1] = c
           /\ \A i \in 1 .. Len(y) : z[Len(x) + 1 + i] = y[i]
<1>1. PICK m \in Nat, n \in Nat : m = Len(x) /\ n = Len(y)
  OBVIOUS
<1>2. PICK w, v : w = <<c>> /\ v = x \o w
  OBVIOUS
<1>3. w \in Seq(S) /\ Len(w) = 1 /\ w[1] = c
  BY <1>2
<1>4. w \in Seq(S) /\ x \in Seq(S)
  BY <1>3
<1>5. /\ v \in Seq(S) /\ Len(v) = Len(x) + Len(w)
      /\ \A i \in 1 .. Len(v) : v[i] = IF i <= Len(x) THEN x[i] ELSE w[i - Len(x)]
  BY <1>2, <1>4, ConcatAt
<1>6. v \in Seq(S) /\ y \in Seq(S)
  BY <1>5
<1>7. z = v \o y
  BY <1>2
<1>8. /\ z \in Seq(S) /\ Len(z) = Len(v) + Len(y)
      /\ \A i \in 1 .. Len(z) : z[i] = IF i <= Len(v) THEN v[i] ELSE y[i - Len(v)]
  <2>1. ASSUME NEW r, r = v \o y
        PROVE  /\ r \in Seq(S) /\ Len(r) = Len(v) + Len(y)
               /\ \A i \in 1 .. Len(v) + Len(y) : r[i] = IF i <= Len(v) THEN v[i] ELSE y[i - Len(v)]
    BY <1>6, <2>1, ConcatProperties
  <2>2. Len(z) = Len(v) + Len(y)
    BY <1>7, <2>1
  <2> QED
    BY <1>7, <2>1, <2>2
<1>9. Len(v) = m + 1
  BY <1>1, <1>3, <1>5
<1>10. Len(z) = m + 1 + n
  BY <1>1, <1>8, <1>9
<1>11. \A i \in 1 .. m + 1 : z[i] = v[i]
  BY <1>1, <1>8, <1>9, <1>10
<1>12. \A i \in 1 .. m : z[i] = x[i]
  BY <1>1, <1>5, <1>9, <1>11
<1>13. z[m + 1] = c
  <2>1. m + 1 \in 1 .. m + 1 /\ ~ (m + 1 <= m) /\ (m + 1) - m = 1
    BY <1>1
  <2>2. v[m + 1] = w[1]
    BY <1>1, <1>5, <1>9, <2>1
  <2> QED
    BY <1>3, <1>11, <2>1, <2>2
<1>14. ASSUME NEW i \in 1 .. n PROVE z[m + 1 + i] = y[i]
  <2>1. PICK j : j = m + 1 + i
    OBVIOUS
  <2>2. j \in 1 .. m + 1 + n /\ ~ (j <= m + 1) /\ j - (m + 1) = i
    BY <1>1, <2>1
  <2> QED
    BY <1>8, <1>9, <1>10, <2>1, <2>2
<1> QED
  BY <1>1, <1>8, <1>10, <1>12, <1>13, <1>14

(* A part of a text. *)
LEMMA PartAt ==
    ASSUME NEW S, NEW s \in Seq(S), NEW a \in Nat \ {0}, NEW b \in Int, b <= Len(s),
           NEW z, z = SubSeq(s, a, b)
    PROVE  /\ z \in Seq(S) /\ Len(z) = IF a <= b THEN b - a + 1 ELSE 0
           /\ \A i \in 1 .. b - a + 1 : z[i] = s[a + i - 1]
<1>1. \A i \in a .. b : i \in 1 .. Len(s)
  OBVIOUS
<1>2. \A i \in a .. b : s[i] \in S
  BY <1>1
<1> QED
  BY <1>2, SubSeqProperties

LEMMA SplitNone ==
    ASSUME NEW s, NEW c, ~ Request!Has(s, c)
    PROVE  Request!SplitAt(s, c) = <<s, <<>>>>
  BY DEF Request!SplitAt

LEMMA SplitOf ==
    ASSUME NEW S, NEW x \in Seq(S), NEW c \in S, NEW y \in Seq(S), ~ Request!Has(x, c)
    PROVE  Request!SplitAt(x \o <<c>> \o y, c) = <<x, y>>
<1>1. PICK z : z = x \o <<c>> \o y
  OBVIOUS
<1>2. PICK m \in Nat, n \in Nat : m = Len(x) /\ n = Len(y)
  OBVIOUS
<1>3. /\ z \in Seq(S) /\ Len(z) = m + 1 + n
      /\ \A i \in 1 .. m : z[i] = x[i]
      /\ z[m + 1] = c
      /\ \A i \in 1 .. n : z[m + 1 + i] = y[i]
  BY <1>1, <1>2, AroundAt
<1>4. DOMAIN z = 1 .. m + 1 + n
  BY <1>2, <1>3
<1>5. m + 1 \in DOMAIN z
  BY <1>2, <1>4
<1>6. Request!Has(z, c)
  BY <1>3, <1>5 DEF Request!Has
<1>7. \A i \in 1 .. m : z[i] # c
  <2>1. \A i \in 1 .. m : x[i] # c
    BY <1>2 DEF Request!Has
  <2> QED
    BY <1>3, <2>1
<1> DEFINE J == {j \in DOMAIN z : z[j] = c}
<1>8. m + 1 \in J /\ \A j \in J : m + 1 <= j
  BY <1>2, <1>3, <1>4, <1>5, <1>7
<1>9. Request!Min(J) = m + 1
  <2>1. J \subseteq Int
    BY <1>2, <1>4
  <2> HIDE DEF J
  <2>2. \A k \in J : (\A j \in J : k <= j) => k = m + 1
    BY <1>2, <1>8, <2>1
  <2>3. Request!Min(J) \in J /\ \A j \in J : Request!Min(J) <= j
    BY <1>8 DEF Request!Min
  <2> QED
    BY <2>2, <2>3
<1>10. Request!SplitAt(z, c) = <<SubSeq(z, 1, m), SubSeq(z, m + 2, Len(z))>>
  <2>1. (m + 1) - 1 = m /\ (m + 1) + 1 = m + 2
    BY <1>2
  <2>2. Request!SplitAt(z, c)
          = <<SubSeq(z, 1, Request!Min(J) - 1), SubSeq(z, Request!Min(J) + 1, Len(z))>>
    BY <1>6 DEF Request!SplitAt
  <2> HIDE DEF J
  <2> QED
    BY <1>9, <2>1, <2>2
<1>11. SubSeq(z, 1, m) = x
  <2>1. PICK q : q = SubSeq(z, 1, m)
    OBVIOUS
  <2>2. 1 \in Nat \ {0} /\ m \in Int /\ m <= Len(z)
    BY <1>2, <1>3
  <2>3. /\ q \in Seq(S) /\ Len(q) = IF 1 <= m THEN m - 1 + 1 ELSE 0
        /\ \A i \in 1 .. m - 1 + 1 : q[i] = z[1 + i - 1]
    BY <1>3, <2>1, <2>2, PartAt
  <2>4. Len(q) = m /\ m - 1 + 1 = m /\ \A i \in 1 .. m : 1 + i - 1 = i
    BY <1>2, <2>3
  <2>5. \A i \in 1 .. m : q[i] = x[i]
    BY <1>3, <2>3, <2>4
  <2> QED
    BY <1>2, <2>1, <2>3, <2>4, <2>5, SeqEqual
<1>12. SubSeq(z, m + 2, Len(z)) = y
  <2>1. PICK a, b : a = m + 2 /\ b = Len(z)
    OBVIOUS
  <2>2. PICK q : q = SubSeq(z, a, b)
    OBVIOUS
  <2>3. a \in Nat \ {0} /\ b \in Int /\ b <= Len(z) /\ b - a + 1 = n /\ b = m + 1 + n
    BY <1>2, <1>3, <2>1
  <2>4. /\ q \in Seq(S) /\ Len(q) = IF a <= b THEN b - a + 1 ELSE 0
        /\ \A i \in 1 .. b - a + 1 : q[i] = z[a + i - 1]
    <3>1. z \in Seq(S)
      BY <1>3
    <3>2. a \in Nat \ {0} /\ b \in Int /\ b <= Len(z)
      BY <2>3
    <3> QED
      BY <2>2, <3>1, <3>2, PartAt
  <2>5. Len(q) = n
    BY <1>2, <2>1, <2>3, <2>4
  <2>6. \A i \in 1 .. n : a + i - 1 = m + 1 + i
    BY <1>2, <2>1
  <2>7. \A i \in 1 .. n : q[i] = y[i]
    BY <1>3, <2>3, <2>4, <2>6
  <2> QED
    BY <1>2, <2>1, <2>2, <2>4, <2>5, <2>7, SeqEqual
<1> QED
  BY <1>1, <1>10, <1>11, <1>12

(* A text that has the character is what stands before its first one, the  *)
(* character, and the rest.                                                *)
LEMMA SplitFacts ==
    ASSUME NEW S, NEW s \in Seq(S), NEW c, Request!Has(s, c)
    PROVE  \E x, y \in Seq(S) : /\ s = x \o <<c>> \o y /\ ~ Request!Has(x, c)
                                /\ Request!SplitAt(s, c) = <<x, y>>
<1>1. PICK l \in Nat : l = Len(s)
  OBVIOUS
<1> DEFINE J == {j \in 1 .. l : s[j] = c}
<1>2. J \subseteq Nat /\ J # {}
  BY <1>1 DEF Request!Has
<1>3. PICK i \in J : \A j \in J : i <= j
  <2> HIDE DEF J
  <2> QED
    BY <1>2, LeastExists
<1>4. i \in 1 .. l /\ s[i] = c
  BY <1>3
<1>5. c \in S
  BY <1>1, <1>4
<1>6. PICK x, y : x = SubSeq(s, 1, i - 1) /\ y = SubSeq(s, i + 1, l)
  OBVIOUS
<1>7. /\ x \in Seq(S) /\ Len(x) = i - 1
      /\ \A j \in 1 .. i - 1 : x[j] = s[j]
  <2>1. PICK b : b = i - 1
    OBVIOUS
  <2>2. b \in Int /\ b <= Len(s) /\ 1 \in Nat \ {0} /\ b >= 0
    BY <1>1, <1>4, <2>1
  <2>3. /\ x \in Seq(S) /\ Len(x) = IF 1 <= b THEN b - 1 + 1 ELSE 0
        /\ \A j \in 1 .. b - 1 + 1 : x[j] = s[1 + j - 1]
    BY <1>6, <2>1, <2>2, PartAt
  <2>4. Len(x) = b /\ b - 1 + 1 = b /\ \A j \in 1 .. b : 1 + j - 1 = j
    BY <2>2, <2>3
  <2> QED
    BY <2>1, <2>3, <2>4
<1>8. /\ y \in Seq(S) /\ Len(y) = l - i
      /\ \A j \in 1 .. l - i : y[j] = s[i + j]
  <2>1. PICK a : a = i + 1
    OBVIOUS
  <2>2. a \in Nat \ {0} /\ l \in Int /\ l <= Len(s) /\ l - a + 1 = l - i /\ a = i + 1
    BY <1>1, <1>4, <2>1
  <2>3. /\ y \in Seq(S) /\ Len(y) = IF a <= l THEN l - a + 1 ELSE 0
        /\ \A j \in 1 .. l - a + 1 : y[j] = s[a + j - 1]
    BY <1>6, <2>1, <2>2, PartAt
  <2>4. Len(y) = l - i /\ \A j \in 1 .. l - i : a + j - 1 = i + j
    BY <1>1, <1>4, <2>1, <2>3
  <2> QED
    BY <2>2, <2>3, <2>4
<1>9. PICK z : z = x \o <<c>> \o y
  OBVIOUS
<1>10. /\ z \in Seq(S) /\ Len(z) = Len(x) + 1 + Len(y)
       /\ \A j \in 1 .. Len(x) : z[j] = x[j]
       /\ z[Len(x) + 1] = c
       /\ \A j \in 1 .. Len(y) : z[Len(x) + 1 + j] = y[j]
  <2>1. x \in Seq(S) /\ y \in Seq(S)
    BY <1>7, <1>8
  <2> QED
    BY <1>5, <1>9, <2>1, AroundAt
<1>11. Len(z) = l /\ Len(x) + 1 = i
  BY <1>1, <1>4, <1>7, <1>8, <1>10
<1>12. ASSUME NEW j \in 1 .. l PROVE z[j] = s[j]
  <2>1. CASE j < i
    <3>1. j \in 1 .. i - 1
      BY <1>1, <1>4, <2>1
    <3> QED
      BY <1>7, <1>10, <3>1
  <2>2. CASE j = i
    BY <1>4, <1>10, <1>11, <2>2
  <2>3. CASE j > i
    <3>1. PICK k : k = j - i
      OBVIOUS
    <3>2. k \in 1 .. l - i /\ i + k = j
      BY <1>1, <1>4, <2>3, <3>1
    <3>3. z[i + k] = y[k]
      BY <1>8, <1>10, <1>11, <3>2
    <3> QED
      BY <1>8, <3>2, <3>3
  <2> QED
    BY <1>1, <1>4, <2>1, <2>2, <2>3
<1>13. z = s
  BY <1>1, <1>10, <1>11, <1>12, SeqEqual
<1>14. ~ Request!Has(x, c)
  <2>1. ASSUME NEW j \in DOMAIN x, x[j] = c PROVE FALSE
    <3>1. j \in 1 .. i - 1
      BY <1>7, <2>1
    <3>2. j \in J /\ ~ (i <= j)
      BY <1>1, <1>4, <1>7, <2>1, <3>1
    <3> QED
      BY <1>3, <3>2
  <2> QED
    BY <2>1 DEF Request!Has
<1>15. Request!SplitAt(z, c) = <<x, y>>
  <2>1. x \in Seq(S) /\ y \in Seq(S)
    BY <1>7, <1>8
  <2> QED
    BY <1>5, <1>9, <1>14, <2>1, SplitOf
<1> QED
  BY <1>7, <1>8, <1>9, <1>13, <1>14, <1>15

(* And, Equal and Query are written where they are read, and nowhere else. *)
LEMMA EncodeHas ==
    ASSUME NEW s \in Seq(Chars), NEW d \in {Request!And, Request!Equal, Request!Query},
           ~ Request!Has(s, d)
    PROVE  ~ Request!Has(Request!UrlEncode(s), d)
<1>1. \A i \in 1 .. Len(s) : s[i] # d
  BY DEF Request!Has
<1>2. PICK e : e = Request!UrlEncode(s)
  OBVIOUS
<1>3. e \in Seq(Coded \ {d})
  BY <1>1, <1>2, EncodeType
<1>4. \A i \in DOMAIN e : e[i] # d
  BY <1>3
<1> QED
  BY <1>2, <1>4 DEF Request!Has

(* The path of the first line is decoded to what it was. *)
LEMMA PathEncode ==
    ASSUME NEW s \in Seq(Chars)
    PROVE  Request!SetPath(Request!UrlEncode(s)) = s
<1>1. PICK e : e = Request!UrlEncode(s)
  OBVIOUS
<1>2. CASE Request!NeedUrlDecoding(e)
  BY <1>1, <1>2, CodecCorrect DEF Request!SetPath
<1>3. CASE ~ Request!NeedUrlDecoding(e)
  <2>1. e \in Seq(Chars)
    BY <1>1, EncodeChars
  <2>2. \A i \in 1 .. Len(e) : e[i] \notin {Request!Plus, Request!Percent}
    BY <1>3, <2>1 DEF Request!NeedUrlDecoding, Request!Has
  <2>3. Request!IsPlain(s)
    BY <1>1, <2>2, EncodeMarks
  <2>4. e = s
    BY <1>1, <2>3, EncodePlain
  <2> QED
    BY <1>1, <1>3, <2>4 DEF Request!SetPath
<1> QED
  BY <1>2, <1>3

LEMMA PathType ==
    ASSUME NEW s \in Seq(Chars), s # <<>>
    PROVE  Request!SetPath(s) \in Seq(Chars) /\ Request!SetPath(s) # <<>>
<1>1. CASE ~ Request!NeedUrlDecoding(s)
  BY <1>1 DEF Request!SetPath
<1>2. CASE Request!NeedUrlDecoding(s)
  <2>1. PICK f : /\ Request!UrlDecode(s) = f[1]
                 /\ \A i \in 1 .. Len(s) + 1 : f[i] \in Seq(Chars) /\ f[i] = Decoded(s, f, i)
    BY DecodeFrom
  <2>2. PICK m : m = Len(s)
    OBVIOUS
  <2>3. m \in Nat /\ m # 0
    BY <2>2
  <2>4. 1 \in 1 .. m + 1 /\ 1 + 1 \in 1 .. m + 1 /\ 1 \in 1 .. m /\ ~ (1 > m)
    BY <2>3
  <2>5. f[1] \in Seq(Chars) /\ f[1] = Decoded(s, f, 1)
    BY <2>1, <2>2, <2>4
  <2>6. \A c \in Chars, y \in Seq(Chars) : <<c>> \o y # <<>>
    <3>1. ASSUME NEW c \in Chars, NEW y \in Seq(Chars) PROVE <<c>> \o y # <<>>
      <4>1. <<c>> \in Seq(Chars) /\ <<c>> # <<>>
        OBVIOUS
      <4> QED
        BY <4>1, ConcatEqualIffEmpty
    <3> QED
      BY <3>1
  <2>7. CASE Request!Escape(s, 1)
    <3>1. /\ s[1 + 1] \in DOMAIN Request!HexValue /\ s[1 + 2] \in DOMAIN Request!HexValue
          /\ 1 + 3 \in 1 .. m + 1
      BY <2>2, <2>3, <2>7 DEF Request!Escape
    <3>2. PICK c, y : c = Request!HexValue[s[1 + 1]] * 16 + Request!HexValue[s[1 + 2]]
            /\ y = f[1 + 3]
      OBVIOUS
    <3>3. c \in Chars /\ y \in Seq(Chars)
      BY <2>1, <2>2, <3>1, <3>2, HexChars
    <3>4. f[1] = <<c>> \o y
      BY <2>2, <2>4, <2>5, <2>7, <3>2 DEF Decoded
    <3> QED
      BY <1>2, <2>1, <2>5, <2>6, <3>3, <3>4 DEF Request!SetPath
  <2>8. CASE ~ Request!Escape(s, 1)
    <3>1. PICK c, y : c = (IF s[1] = Request!Plus THEN Request!Space ELSE s[1]) /\ y = f[1 + 1]
      OBVIOUS
    <3>2. c \in Chars /\ y \in Seq(Chars)
      <4>1. s[1] \in Chars /\ y \in Seq(Chars)
        BY <2>1, <2>2, <2>4, <3>1
      <4>2. Request!Space \in Chars
        BY PlainFacts DEF Chars
      <4> QED
        BY <3>1, <4>1, <4>2
    <3>3. f[1] = <<c>> \o y
      BY <2>2, <2>4, <2>5, <2>8, <3>1 DEF Decoded
    <3> QED
      BY <1>2, <2>1, <2>5, <2>6, <3>2, <3>3 DEF Request!SetPath
  <2> QED
    BY <2>7, <2>8
<1> QED
  BY <1>1, <1>2

(* Without a question mark the path and the list come apart as they were.  *)
LEMMA PathKept ==
    ASSUME NEW path \in Seq(Chars), NEW list \in Seq(Chars), ~ Request!Has(path, Request!Query)
    PROVE  /\ Request!SplitAt(Request!UrlEncode(path), Request!Query)
              = <<Request!UrlEncode(path), <<>>>>
           /\ Request!SplitAt(Request!UrlEncode(path \o <<Request!Query>> \o list), Request!Query)
                  = <<Request!UrlEncode(path), Request!UrlEncode(list)>>
<1>1. ~ Request!Has(Request!UrlEncode(path), Request!Query)
  BY EncodeHas
<1>2. Request!Query \in Request!Plain /\ Request!Query \in Chars
  BY PlainFacts
<1>3. Request!UrlEncode(path \o <<Request!Query>> \o list) = Request!UrlEncode(path)
        \o <<Request!Query>> \o Request!UrlEncode(list)
  BY <1>2, EncodeAround
<1>4. PICK x, y : x = Request!UrlEncode(path) /\ y = Request!UrlEncode(list)
  OBVIOUS
<1>5. x \in Seq(Chars) /\ y \in Seq(Chars)
  BY <1>4, EncodeChars
<1>6. Request!SplitAt(x \o <<Request!Query>> \o y, Request!Query) = <<x, y>>
  BY <1>1, <1>2, <1>4, <1>5, SplitOf
<1> QED
  BY <1>1, <1>3, <1>4, <1>6, SplitNone

(* With a question mark the path is cut at the first one.                  *)
LEMMA PathCut ==
    ASSUME NEW path \in Seq(Chars), NEW list \in Seq(Chars), Request!Has(path, Request!Query)
    PROVE  Request!SetPath(Request!SplitAt(Request!UrlEncode(path \o list),
           Request!Query)[1]) # path
<1>1. PICK x, y \in Seq(Chars) : path = x \o <<Request!Query>> \o y
        /\ ~ Request!Has(x, Request!Query)
  BY SplitFacts
<1>2. PICK q : q = <<Request!Query>>
  OBVIOUS
<1>3. x \in Seq(Chars) /\ y \in Seq(Chars) /\ q \in Seq(Chars) /\ Request!Query \in Chars
  BY <1>1, <1>2, PlainFacts
<1>4. PICK w : w = x \o q
  OBVIOUS
<1>5. w \in Seq(Chars)
  BY <1>3, <1>4, ConcatProperties
<1>6. path \o list = w \o (y \o list)
  <2>1. path = w \o y
    BY <1>1, <1>2, <1>4
  <2>2. (w \o y) \o list = w \o (y \o list)
    BY <1>3, <1>5, ConcatAssociative, SMTT(30)
  <2> QED
    BY <2>1, <2>2
<1>7. PICK r : r = y \o list
  OBVIOUS
<1>8. r \in Seq(Chars)
  BY <1>3, <1>7, ConcatProperties
<1>9. Request!SplitAt(Request!UrlEncode(x \o <<Request!Query>> \o r), Request!Query)
        = <<Request!UrlEncode(x), Request!UrlEncode(r)>>
  BY <1>1, <1>3, <1>8, PathKept
<1>10. Request!SetPath(Request!SplitAt(Request!UrlEncode(path \o list), Request!Query)[1]) = x
  <2>1. Request!SplitAt(Request!UrlEncode(path \o list), Request!Query)[1] = Request!UrlEncode(x)
    BY <1>2, <1>4, <1>6, <1>7, <1>9
  <2> QED
    BY <1>3, <2>1, PathEncode
<1>11. x # path
  <2>1. Len(path) = Len(x) + 1 + Len(y)
    BY <1>1, <1>3, AroundAt
  <2>2. Len(x) \in Nat /\ Len(y) \in Nat
    BY <1>3
  <2> QED
    BY <2>1, <2>2
<1> QED
  BY <1>10, <1>11

(* Trim leaves a part of the text. *)
LEMMA TrimInto ==
    ASSUME NEW S, NEW s \in Seq(S)
    PROVE  Request!Trim(s) \in Seq(S) /\ Len(Request!Trim(s)) <= Len(s)
<1>1. PICK l \in Nat : l = Len(s)
  OBVIOUS
<1> DEFINE K == {i \in DOMAIN s : s[i] \notin {Request!Space} \cup 9 .. 13}
<1>2. CASE K = {}
  BY <1>1, <1>2 DEF Request!Trim
<1>3. CASE K # {}
  <2>1. K \subseteq 1 .. l
    BY <1>1
  <2>2. PICK a \in K : \A y \in K : a <= y
    <3>1. K \subseteq Nat
      BY <1>1, <2>1
    <3> HIDE DEF K
    <3> QED
      BY <1>3, <3>1, LeastExists
  <2>3. PICK b \in K : \A y \in K : b >= y
    <3> DEFINE T == {l - y : y \in K}
    <3>1. T \subseteq Nat /\ T # {}
      BY <1>1, <1>3, <2>1
    <3> HIDE DEF T
    <3>2. PICK t \in T : \A y \in T : t <= y
      BY <3>1, LeastExists
    <3>3. PICK b \in K : t = l - b
      BY <3>2 DEF T
    <3>4. ASSUME NEW y \in K PROVE b >= y
      <4>1. l - b <= l - y
        BY <3>2, <3>3 DEF T
      <4>2. b \in Int /\ y \in Int
        BY <2>1
      <4> QED
        BY <1>1, <4>1, <4>2
    <3> QED
      BY <3>4
  <2>4. Request!Min(K) \in K /\ Request!Max(K) \in K
    <3> HIDE DEF K
    <3> QED
      BY <2>2, <2>3 DEF Request!Min, Request!Max
  <2>5. Request!Trim(s) = SubSeq(s, Request!Min(K), Request!Max(K))
    BY <1>3 DEF Request!Trim
  <2>6. PICK m, n, z : m = Request!Min(K) /\ n = Request!Max(K) /\ z = SubSeq(s, m, n)
    OBVIOUS
  <2>7. m \in Nat \ {0} /\ n \in Int /\ n <= Len(s)
    <3>1. m \in 1 .. l /\ n \in 1 .. l
      BY <2>1, <2>4, <2>6
    <3> QED
      BY <1>1, <3>1
  <2>8. z \in Seq(S) /\ Len(z) = IF m <= n THEN n - m + 1 ELSE 0
    <3>1. /\ z \in Seq(S) /\ Len(z) = IF m <= n THEN n - m + 1 ELSE 0
          /\ \A i \in 1 .. n - m + 1 : z[i] = s[m + i - 1]
      <4>1. z = SubSeq(s, m, n)
        BY <2>6
      <4> QED
        BY <2>7, <4>1, PartAt
    <3> QED
      BY <3>1
  <2>9. Len(z) <= Len(s)
    BY <1>1, <2>7, <2>8
  <2> QED
    BY <2>5, <2>6, <2>8, <2>9
<1> QED
  BY <1>2, <1>3

(* What is encoded has nothing to trim. *)
LEMMA TrimCoded ==
    ASSUME NEW s \in Seq(Coded)
    PROVE  Request!Trim(s) = s
<1>1. PICK l \in Nat : l = Len(s)
  OBVIOUS
<1>2. DOMAIN s = 1 .. l
  BY <1>1
<1>3. {i \in DOMAIN s : s[i] \notin {Request!Space} \cup 9 .. 13} = 1 .. l
  <2>1. \A i \in 1 .. l : s[i] \in Coded
    BY <1>1
  <2>2. \A i \in 1 .. l : s[i] \notin {Request!Space} \cup 9 .. 13
    BY <2>1, CodedFacts
  <2> QED
    BY <1>2, <2>2
<1>4. CASE l = 0
  <2>1. 1 .. l = {}
    BY <1>4
  <2>2. Request!Trim(s) = <<>>
    BY <1>3, <2>1 DEF Request!Trim
  <2> QED
    BY <1>1, <1>4, <2>2, EmptySeq
<1>5. CASE l # 0
  <2>1. 1 \in 1 .. l /\ l \in 1 .. l
    BY <1>1, <1>5
  <2>2. Request!Trim(s) = SubSeq(s, Request!Min(1 .. l), Request!Max(1 .. l))
    <3>1. 1 .. l # {}
      BY <2>1
    <3> QED
      BY <1>3, <3>1 DEF Request!Trim
  <2>3. Request!Min(1 .. l) = 1
    <3>1. Request!Min(1 .. l) \in 1 .. l /\ \A y \in 1 .. l : Request!Min(1 .. l) <= y
      <4>1. \A y \in 1 .. l : 1 <= y
        BY <1>1
      <4> QED
        BY <2>1, <4>1 DEF Request!Min
    <3>2. Request!Min(1 .. l) <= 1
      BY <2>1, <3>1
    <3> QED
      BY <1>1, <3>1, <3>2
  <2>4. Request!Max(1 .. l) = l
    <3>1. Request!Max(1 .. l) \in 1 .. l /\ \A y \in 1 .. l : Request!Max(1 .. l) >= y
      <4>1. \A y \in 1 .. l : l >= y
        BY <1>1
      <4> QED
        BY <2>1, <4>1 DEF Request!Max
    <3>2. Request!Max(1 .. l) >= l
      BY <2>1, <3>1
    <3> QED
      BY <1>1, <3>1, <3>2
  <2>5. SubSeq(s, 1, l) = s
    BY <1>1, SubSeqFull
  <2> QED
    BY <2>2, <2>3, <2>4, <2>5
<1> QED
  BY <1>4, <1>5

(* The two sides of a split. *)
LEMMA SplitInto ==
    ASSUME NEW S, NEW s \in Seq(S), NEW c
    PROVE  /\ Request!SplitAt(s, c)[1] \in Seq(S \ {c}) /\ Len(Request!SplitAt(s, c)[1]) <= Len(s)
           /\ Request!SplitAt(s, c)[2] \in Seq(S) /\ Len(Request!SplitAt(s, c)[2]) <= Len(s)
<1>1. \A x \in Seq(S) : ~ Request!Has(x, c) => x \in Seq(S \ {c})
  BY DEF Request!Has
<1>2. CASE ~ Request!Has(s, c)
  <2>1. Request!SplitAt(s, c) = <<s, <<>>>>
    BY <1>2, SplitNone
  <2> QED
    BY <1>1, <1>2, <2>1
<1>3. CASE Request!Has(s, c)
  <2>1. PICK x, y \in Seq(S) : s = x \o <<c>> \o y /\ ~ Request!Has(x, c)
          /\ Request!SplitAt(s, c) = <<x, y>>
    BY <1>3, SplitFacts, SMTT(30)
  <2>2. c \in S
    BY <1>3 DEF Request!Has
  <2>3. Len(s) = Len(x) + 1 + Len(y)
    BY <2>1, <2>2, AroundAt
  <2>4. Len(x) \in Nat /\ Len(y) \in Nat
    BY <2>1
  <2> QED
    BY <1>1, <2>1, <2>3, <2>4
<1> QED
  BY <1>2, <1>3

(* The names that Parameters gives to what it goes through. *)
PairsOf(q) == {p \in Request!Pieces(q, Request!And) :
    Request!Has(SubSeq(q, p[1], p[2]), Request!Equal)}
KeyOf(q, p) == Request!Trim(Request!SplitAt(SubSeq(q, p[1], p[2]), Request!Equal)[1])
ValueOf(q, p) == Request!Trim(Request!SplitAt(SubSeq(q, p[1], p[2]), Request!Equal)[2])
IsLast(q, k, p) ==
    /\ p \in PairsOf(q) /\ KeyOf(q, p) = k
    /\ \A r \in PairsOf(q) : KeyOf(q, r) = k => r[1] <= p[1]

LEMMA ParametersFacts ==
    ASSUME NEW q
    PROVE  \E last : /\ Request!Parameters(q) = [k \in {KeyOf(q, p) : p \in PairsOf(q)} |->
                                            ValueOf(q, last[k])]
                     /\ \A k \in {KeyOf(q, p) : p \in PairsOf(q)} :
                            (\E p : IsLast(q, k, p)) => IsLast(q, k, last[k])
<1> DEFINE K == {KeyOf(q, p) : p \in PairsOf(q)}
           lastOf(k) == CHOOSE p \in PairsOf(q) :
                            /\ KeyOf(q, p) = k
                            /\ \A r \in PairsOf(q) : KeyOf(q, r) = k => r[1] <= p[1]
<1>1. PICK last : last = [k \in K |-> lastOf(k)]
  OBVIOUS
<1>2. Request!Parameters(q) = [k \in K |-> ValueOf(q, lastOf(k))]
  BY DEF Request!Parameters, PairsOf, KeyOf, ValueOf
<1>3. \A k \in K : (\E p : IsLast(q, k, p)) => IsLast(q, k, lastOf(k))
  BY DEF IsLast
<1> HIDE DEF lastOf
<1>4. \A k \in K : last[k] = lastOf(k)
  BY <1>1
<1>5. Request!Parameters(q) = [k \in K |-> ValueOf(q, last[k])]
  BY <1>2, <1>4
<1> QED
  BY <1>3, <1>4, <1>5

LEMMA PieceFacts ==
    ASSUME NEW q \in Seq(Chars), NEW p \in Request!Pieces(q, Request!And)
    PROVE  /\ p \in Nat \X Nat /\ 1 <= p[1] /\ p[1] <= p[2] /\ p[2] <= Len(q)
           /\ p[1] = 1 \/ q[p[1] - 1] = Request!And
           /\ p[2] = Len(q) \/ q[p[2] + 1] = Request!And
           /\ \A i \in p[1] .. p[2] : q[i] # Request!And
           /\ SubSeq(q, p[1], p[2]) \in Seq(Chars \ {Request!And})
           /\ Len(SubSeq(q, p[1], p[2])) <= Len(q)
<1>1. PICK l \in Nat : l = Len(q)
  OBVIOUS
<1>2. PICK a, b : a = p[1] /\ b = p[2]
  OBVIOUS
<1>3. /\ a \in 1 .. l /\ b \in 1 .. l /\ p = <<a, b>> /\ a <= b
      /\ a = 1 \/ q[a - 1] = Request!And
      /\ b = l \/ q[b + 1] = Request!And
      /\ \A i \in a .. b : q[i] # Request!And
  <2>1. DOMAIN q = 1 .. l
    BY <1>1
  <2> QED
    BY <1>1, <1>2, <2>1 DEF Request!Pieces
<1>4. PICK z : z = SubSeq(q, a, b)
  OBVIOUS
<1>5. a \in Nat \ {0} /\ b \in Int /\ b <= Len(q)
  BY <1>1, <1>3
<1>6. /\ z \in Seq(Chars) /\ Len(z) = IF a <= b THEN b - a + 1 ELSE 0
      /\ \A i \in 1 .. b - a + 1 : z[i] = q[a + i - 1]
  BY <1>4, <1>5, PartAt
<1>7. Len(z) = b - a + 1 /\ Len(z) <= l
  BY <1>1, <1>3, <1>6
<1>8. \A i \in 1 .. b - a + 1 : z[i] # Request!And
  <2>1. ASSUME NEW i \in 1 .. b - a + 1 PROVE a + i - 1 \in a .. b
    BY <1>1, <1>3
  <2> QED
    BY <1>3, <1>6, <2>1
<1>9. z \in Seq(Chars \ {Request!And})
  BY <1>6, <1>7, <1>8
<1>10. p \in Nat \X Nat /\ 1 <= a /\ a <= b /\ b <= l
  <2>1. a \in Nat /\ b \in Nat /\ 1 <= a /\ b <= l
    BY <1>1, <1>3
  <2> QED
    BY <1>3, <2>1
<1>11. /\ a = 1 \/ q[a - 1] = Request!And
       /\ b = l \/ q[b + 1] = Request!And
       /\ \A i \in a .. b : q[i] # Request!And
  BY <1>3
<1>12. SubSeq(q, a, b) \in Seq(Chars \ {Request!And}) /\ Len(SubSeq(q, a, b)) <= l
  BY <1>4, <1>7, <1>9
<1> QED
  BY <1>1, <1>2, <1>10, <1>11, <1>12

(* What a query is taken apart into. *)
LEMMA PairType ==
    ASSUME NEW q \in Seq(Chars), NEW p \in PairsOf(q)
    PROVE  /\ KeyOf(q, p) \in Seq(Chars \ {Request!And, Request!Equal})
           /\ Len(KeyOf(q, p)) <= Len(q)
           /\ ValueOf(q, p) \in Seq(Chars \ {Request!And})
<1>1. PICK t : t = SubSeq(q, p[1], p[2])
  OBVIOUS
<1>2. t \in Seq(Chars \ {Request!And}) /\ Len(t) <= Len(q)
  BY <1>1, PieceFacts DEF PairsOf
<1>3. PICK C : C = Chars \ {Request!And}
  OBVIOUS
<1>4. t \in Seq(C)
  BY <1>2, <1>3
<1>5. PICK x, y : x = Request!SplitAt(t, Request!Equal)[1]
        /\ y = Request!SplitAt(t, Request!Equal)[2]
  OBVIOUS
<1>6. x \in Seq(C \ {Request!Equal}) /\ Len(x) <= Len(t) /\ y \in Seq(C)
  BY <1>4, <1>5, SplitInto
<1>7. Request!Trim(x) \in Seq(C \ {Request!Equal}) /\ Len(Request!Trim(x)) <= Len(x)
  BY <1>6, TrimInto
<1>8. Request!Trim(y) \in Seq(C)
  BY <1>6, TrimInto
<1>9. Len(Request!Trim(x)) <= Len(q)
  <2>1. Len(Request!Trim(x)) \in Nat /\ Len(x) \in Nat /\ Len(t) \in Nat /\ Len(q) \in Nat
    BY <1>4, <1>6, <1>7
  <2> QED
    BY <1>2, <1>6, <1>7, <2>1
<1>10. C \ {Request!Equal} = Chars \ {Request!And, Request!Equal}
  BY <1>3
<1> QED
  BY <1>1, <1>3, <1>5, <1>7, <1>8, <1>9, <1>10 DEF KeyOf, ValueOf

(* Of the pairs with a key there is a last one, and only one. *)
LEMMA LastExists ==
    ASSUME NEW q \in Seq(Chars), NEW k \in {KeyOf(q, p) : p \in PairsOf(q)}
    PROVE  \E p : IsLast(q, k, p)
<1>1. PICK l \in Nat : l = Len(q)
  OBVIOUS
<1> DEFINE R == {p \in PairsOf(q) : KeyOf(q, p) = k}
           T == {l - p[1] : p \in R}
<1>2. \A p \in R : p[1] \in 1 .. l
  <2>1. ASSUME NEW p \in R PROVE p[1] \in 1 .. l
    <3>1. p \in Request!Pieces(q, Request!And)
      BY DEF PairsOf
    <3>2. p \in Nat \X Nat /\ 1 <= p[1] /\ p[1] <= p[2] /\ p[2] <= Len(q)
      BY <3>1, PieceFacts
    <3>3. p[1] \in Nat /\ p[2] \in Nat
      BY <3>2
    <3> QED
      BY <1>1, <3>2, <3>3
  <2> QED
    BY <2>1
<1>3. R # {}
  OBVIOUS
<1> HIDE DEF R
<1>4. T \subseteq Nat /\ T # {}
  BY <1>1, <1>2, <1>3
<1>5. PICK t \in T : \A y \in T : t <= y
  <2> HIDE DEF T
  <2> QED
    BY <1>4, LeastExists
<1>6. PICK p \in R : t = l - p[1]
  BY <1>5
<1>7. ASSUME NEW r \in R PROVE r[1] <= p[1]
  <2>1. l - p[1] <= l - r[1]
    BY <1>5, <1>6
  <2>2. p[1] \in Int /\ r[1] \in Int
    BY <1>2, <1>6
  <2> QED
    BY <1>1, <2>1, <2>2
<1> QED
  BY <1>6, <1>7 DEF IsLast, R

LEMMA LastUnique ==
    ASSUME NEW q \in Seq(Chars), NEW k, NEW p, NEW r, IsLast(q, k, p), IsLast(q, k, r)
    PROVE  p = r
<1>1. p \in Request!Pieces(q, Request!And) /\ r \in Request!Pieces(q, Request!And)
  BY DEF IsLast, PairsOf
<1>2. PICK a, b, c, d : a = p[1] /\ b = p[2] /\ c = r[1] /\ d = r[2]
  OBVIOUS
<1>3. PICK l : l = Len(q)
  OBVIOUS
<1>4. /\ p = <<a, b>> /\ a \in Nat /\ b \in Nat /\ a <= b /\ b <= l
      /\ b = l \/ q[b + 1] = Request!And
      /\ \A i \in a .. b : q[i] # Request!And
  BY <1>1, <1>2, <1>3, PieceFacts
<1>5. /\ r = <<c, d>> /\ c \in Nat /\ d \in Nat /\ c <= d /\ d <= l
      /\ d = l \/ q[d + 1] = Request!And
      /\ \A i \in c .. d : q[i] # Request!And
  BY <1>1, <1>2, <1>3, PieceFacts
<1>6. a <= c /\ c <= a
  BY <1>2 DEF IsLast
<1>7. a = c
  BY <1>4, <1>5, <1>6
<1>8. l \in Nat
  BY <1>3
<1>9. CASE b < d
  <2>1. b # l /\ b + 1 \in c .. d
    BY <1>4, <1>5, <1>7, <1>8, <1>9
  <2> QED
    BY <1>4, <1>5, <2>1
<1>10. CASE d < b
  <2>1. d # l /\ d + 1 \in a .. b
    BY <1>4, <1>5, <1>7, <1>8, <1>10
  <2> QED
    BY <1>4, <1>5, <2>1
<1>11. CASE b = d
  BY <1>4, <1>5, <1>7, <1>11
<1> QED
  BY <1>4, <1>5, <1>9, <1>10, <1>11

LEMMA ParametersAt ==
    ASSUME NEW q \in Seq(Chars)
    PROVE  /\ DOMAIN Request!Parameters(q) = {KeyOf(q, p) : p \in PairsOf(q)}
           /\ Request!Parameters(q)
               = [k \in DOMAIN Request!Parameters(q) |-> Request!Parameters(q)[k]]
           /\ \A k, p : IsLast(q, k, p)
                            => k \in DOMAIN Request!Parameters(q) /\ Request!Parameters(q)[k]
                                = ValueOf(q, p)
<1>1. PICK last : /\ Request!Parameters(q)
                     = [k \in {KeyOf(q, p) : p \in PairsOf(q)} |-> ValueOf(q, last[k])]
                  /\ \A k \in {KeyOf(q, p) : p \in PairsOf(q)} :
                         (\E p : IsLast(q, k, p)) => IsLast(q, k, last[k])
  BY ParametersFacts
<1>2. PICK K : K = {KeyOf(q, p) : p \in PairsOf(q)}
  OBVIOUS
<1>3. PICK P : P = Request!Parameters(q)
  OBVIOUS
<1>4. P = [k \in K |-> ValueOf(q, last[k])]
  BY <1>1, <1>2, <1>3
<1>5. DOMAIN P = K /\ \A k \in K : P[k] = ValueOf(q, last[k])
  BY <1>4
<1>6. P = [k \in DOMAIN P |-> P[k]]
  BY <1>4
<1>7. ASSUME NEW k, NEW p, IsLast(q, k, p) PROVE k \in K /\ P[k] = ValueOf(q, p)
  <2>1. k \in K
    BY <1>2, <1>7 DEF IsLast
  <2>2. IsLast(q, k, last[k])
    BY <1>1, <1>2, <1>7, <2>1
  <2>3. last[k] = p
    BY <1>7, <2>2, LastUnique
  <2> QED
    BY <1>5, <2>1, <2>3
<1> QED
  BY <1>2, <1>3, <1>5, <1>6, <1>7

LEMMA ParametersType ==
    ASSUME NEW q \in Seq(Chars), NEW k \in DOMAIN Request!Parameters(q)
    PROVE  /\ k \in Seq(Chars \ {Request!And, Request!Equal}) /\ Len(k) <= Len(q)
           /\ Request!Parameters(q)[k] \in Seq(Chars \ {Request!And})
<1>1. k \in {KeyOf(q, p) : p \in PairsOf(q)}
  BY ParametersAt
<1>2. PICK p : IsLast(q, k, p)
  BY <1>1, LastExists
<1>3. Request!Parameters(q)[k] = ValueOf(q, p)
  BY <1>2, ParametersAt
<1>4. p \in PairsOf(q) /\ KeyOf(q, p) = k
  BY <1>2 DEF IsLast
<1> QED
  BY <1>3, <1>4, PairType

LEMMA ParametersFinite ==
    ASSUME NEW q \in Seq(Chars)
    PROVE  IsFiniteSet(DOMAIN Request!Parameters(q))
<1>1. PICK l \in Nat : l = Len(q)
  OBVIOUS
<1>2. IsFiniteSet(1 .. l)
  BY <1>1, FS_Interval
<1>3. IsFiniteSet((1 .. l) \X (1 .. l))
  BY <1>2, FS_Product
<1>4. PairsOf(q) \subseteq (1 .. l) \X (1 .. l)
  <2>1. DOMAIN q = 1 .. l
    BY <1>1
  <2> QED
    BY <2>1 DEF PairsOf, Request!Pieces
<1>5. IsFiniteSet(PairsOf(q))
  BY <1>3, <1>4, FS_Subset
<1>6. PICK K : K = {KeyOf(q, p) : p \in PairsOf(q)}
  OBVIOUS
<1>7. PICK g : g = [p \in PairsOf(q) |-> KeyOf(q, p)]
  OBVIOUS
<1>8. g \in Surjection(PairsOf(q), K)
  <2>1. g \in [PairsOf(q) -> K] /\ \A k \in K : \E p \in PairsOf(q) : g[p] = k
    BY <1>6, <1>7
  <2> QED
    BY <2>1 DEF Surjection
<1>9. IsFiniteSet(K)
  BY <1>5, <1>8, FS_Surjection
<1> QED
  BY <1>6, <1>9, ParametersAt

(* A key and a value that are written as a pair. *)
IsPair(a, b) ==
    /\ a \in Seq(Coded) /\ ~ Request!Has(a, Request!And) /\ ~ Request!Has(a, Request!Equal)
    /\ b \in Seq(Coded) /\ ~ Request!Has(b, Request!And)

LEMMA PairText ==
    ASSUME NEW a, NEW b, IsPair(a, b), NEW y, y = a \o <<Request!Equal>> \o b
    PROVE  /\ y \in Seq(Coded) /\ Len(y) \in Nat \ {0}
           /\ \A i \in 1 .. Len(y) : y[i] # Request!And
<1>1. a \in Seq(Coded) /\ b \in Seq(Coded) /\ Request!Equal \in Coded
  BY PlainFacts DEF IsPair, Coded
<1>2. PICK m \in Nat, n \in Nat : m = Len(a) /\ n = Len(b)
  BY <1>1
<1>3. /\ y \in Seq(Coded) /\ Len(y) = m + 1 + n
      /\ \A i \in 1 .. m : y[i] = a[i]
      /\ y[m + 1] = Request!Equal
      /\ \A i \in 1 .. n : y[m + 1 + i] = b[i]
  BY <1>1, <1>2, AroundAt
<1>4. (\A i \in 1 .. m : a[i] # Request!And) /\ (\A i \in 1 .. n : b[i] # Request!And)
  <2>1. DOMAIN a = 1 .. m /\ DOMAIN b = 1 .. n
    BY <1>1, <1>2
  <2>2. ~ Request!Has(a, Request!And) /\ ~ Request!Has(b, Request!And)
    BY DEF IsPair
  <2> QED
    BY <2>1, <2>2 DEF Request!Has
<1>5. Request!Equal # Request!And
  BY PlainFacts
<1>6. ASSUME NEW i \in 1 .. m + 1 + n PROVE y[i] # Request!And
  <2>1. CASE i <= m
    <3>1. i \in 1 .. m
      BY <1>2, <2>1
    <3> QED
      BY <1>3, <1>4, <3>1
  <2>2. CASE i = m + 1
    BY <1>3, <1>5, <2>2
  <2>3. CASE i > m + 1
    <3>1. PICK j : j = i - (m + 1)
      OBVIOUS
    <3>2. j \in 1 .. n /\ m + 1 + j = i
      BY <1>2, <2>3, <3>1
    <3> QED
      BY <1>3, <1>4, <3>2
  <2> QED
    BY <1>2, <2>1, <2>2, <2>3
<1>7. m + 1 + n \in Nat \ {0}
  BY <1>2
<1> QED
  BY <1>3, <1>6, <1>7

(* Where a pair stands, its key and its value are found. *)
Stands(a, b, q, p) == SubSeq(q, p[1], p[2]) = a \o <<Request!Equal>> \o b
IsRead(a, b, q, p) ==
    Request!Has(SubSeq(q, p[1], p[2]), Request!Equal) /\ KeyOf(q, p) = a /\ ValueOf(q, p) = b

LEMMA PairAt ==
    ASSUME NEW a, NEW b, IsPair(a, b), NEW q, NEW p, Stands(a, b, q, p)
    PROVE  IsRead(a, b, q, p)
<1>1. a \in Seq(Coded) /\ b \in Seq(Coded) /\ ~ Request!Has(a, Request!Equal)
        /\ Request!Equal \in Coded
  BY PlainFacts DEF IsPair, Coded
<1>2. PICK t : t = SubSeq(q, p[1], p[2]) /\ t = a \o <<Request!Equal>> \o b
  BY DEF Stands
<1>3. Request!SplitAt(t, Request!Equal) = <<a, b>>
  BY <1>1, <1>2, SplitOf
<1>4. Request!Has(t, Request!Equal)
  <2>1. t \in Seq(Coded) /\ Len(t) = Len(a) + 1 + Len(b) /\ t[Len(a) + 1] = Request!Equal
    BY <1>1, <1>2, AroundAt
  <2>2. PICK m \in Nat, n \in Nat : m = Len(a) /\ n = Len(b)
    BY <1>1
  <2>3. m + 1 \in 1 .. Len(t)
    BY <2>1, <2>2
  <2>4. m + 1 \in DOMAIN t
    BY <2>1, <2>3
  <2> QED
    BY <2>1, <2>2, <2>4 DEF Request!Has
<1>5. KeyOf(q, p) = Request!Trim(a) /\ ValueOf(q, p) = Request!Trim(b)
  BY <1>2, <1>3 DEF KeyOf, ValueOf
<1> QED
  BY <1>1, <1>2, <1>4, <1>5, TrimCoded DEF IsRead

LEMMA CodedSeq == \A s \in Seq(Coded) : s \in Seq(Chars)
<1>1. Coded \subseteq Chars
  BY CodedFacts
<1> QED
  BY <1>1

(* A query of one pair. *)
LEMMA FirstPair ==
    ASSUME NEW a, NEW b, IsPair(a, b), NEW y, y = a \o <<Request!Equal>> \o b
    PROVE  DOMAIN Request!Parameters(y) = {a} /\ Request!Parameters(y)[a] = b
<1>1. /\ y \in Seq(Coded) /\ Len(y) \in Nat \ {0}
      /\ \A i \in 1 .. Len(y) : y[i] # Request!And
  BY PairText
<1>2. y \in Seq(Chars)
  BY <1>1, CodedSeq
<1>3. PICK l : l = Len(y)
  OBVIOUS
<1>4. PICK p : p = <<1, l>>
  OBVIOUS
<1>5. DOMAIN y = 1 .. l /\ l \in Nat \ {0}
  BY <1>1, <1>3
<1>6. Request!Pieces(y, Request!And) = {p}
  <2>1. ASSUME NEW r \in Request!Pieces(y, Request!And) PROVE r = p
    <3>1. PICK c, d \in 1 .. l : r = <<c, d>>
      BY <1>5 DEF Request!Pieces
    <3>2. /\ c = 1 \/ y[c - 1] = Request!And
          /\ d = l \/ y[d + 1] = Request!And
      BY <1>3, <3>1 DEF Request!Pieces
    <3>3. c = 1
      <4>1. c # 1 => c - 1 \in 1 .. l
        BY <1>5
      <4> QED
        BY <1>1, <1>3, <3>2, <4>1
    <3>4. d = l
      <4>1. d # l => d + 1 \in 1 .. l
        BY <1>5
      <4> QED
        BY <1>1, <1>3, <3>2, <4>1
    <3> QED
      BY <1>4, <3>1, <3>3, <3>4
  <2>2. p \in Request!Pieces(y, Request!And)
    <3>1. 1 \in 1 .. l /\ l \in 1 .. l /\ 1 <= l
      BY <1>5
    <3>2. p \in (DOMAIN y) \X (DOMAIN y) /\ p[1] = 1 /\ p[2] = l
      BY <1>4, <1>5, <3>1
    <3> QED
      BY <1>1, <1>3, <3>1, <3>2 DEF Request!Pieces
  <2> QED
    BY <2>1, <2>2
<1>7. SubSeq(y, p[1], p[2]) = y
  <2>1. SubSeq(y, 1, l) = y
    BY <1>2, <1>3, SubSeqFull
  <2> QED
    BY <1>4, <2>1
<1>8. /\ Request!Has(SubSeq(y, p[1], p[2]), Request!Equal)
      /\ KeyOf(y, p) = a /\ ValueOf(y, p) = b
  <2>1. Stands(a, b, y, p)
    BY <1>7 DEF Stands
  <2>2. IsRead(a, b, y, p)
    BY <2>1, PairAt
  <2> QED
    BY <2>2 DEF IsRead
<1>9. PairsOf(y) = {p}
  BY <1>6, <1>8 DEF PairsOf
<1>10. IsLast(y, a, p)
  <2>1. p[1] <= p[1]
    BY <1>4
  <2> QED
    BY <1>8, <1>9, <2>1 DEF IsLast
<1>11. {KeyOf(y, r) : r \in PairsOf(y)} = {a}
  BY <1>8, <1>9
<1> QED
  BY <1>2, <1>8, <1>10, <1>11, ParametersAt

LEMMA SamePart ==
    ASSUME NEW S, NEW s \in Seq(S), NEW t \in Seq(S), NEW a \in Nat \ {0}, NEW b \in Int,
           b <= Len(s), b <= Len(t), \A i \in a .. b : s[i] = t[i]
    PROVE  SubSeq(s, a, b) = SubSeq(t, a, b)
<1>1. PICK v, w : v = SubSeq(s, a, b) /\ w = SubSeq(t, a, b)
  OBVIOUS
<1>2. /\ v \in Seq(S) /\ Len(v) = IF a <= b THEN b - a + 1 ELSE 0
      /\ \A i \in 1 .. b - a + 1 : v[i] = s[a + i - 1]
  BY <1>1, PartAt
<1>3. /\ w \in Seq(S) /\ Len(w) = IF a <= b THEN b - a + 1 ELSE 0
      /\ \A i \in 1 .. b - a + 1 : w[i] = t[a + i - 1]
  BY <1>1, PartAt
<1>4. \A i \in 1 .. b - a + 1 : a + i - 1 \in a .. b
  OBVIOUS
<1>5. \A i \in 1 .. b - a + 1 : v[i] = w[i]
  BY <1>2, <1>3, <1>4
<1>6. CASE a <= b
  <2>1. Len(v) = b - a + 1 /\ Len(w) = b - a + 1
    BY <1>2, <1>3, <1>6
  <2> QED
    BY <1>1, <1>2, <1>3, <1>5, <2>1, SeqEqual
<1>7. CASE ~ (a <= b)
  <2>1. Len(v) = 0 /\ Len(w) = 0
    BY <1>2, <1>3, <1>7
  <2> QED
    BY <1>1, <1>2, <1>3, <2>1, EmptySeq
<1> QED
  BY <1>6, <1>7

(* The pieces of a query to which a text without And is appended. *)
PiecesGrow(x, y, z) ==
    /\ Request!Pieces(z, Request!And) = Request!Pieces(x, Request!And) \cup {<<Len(x) + 2, Len(z)>>}
    /\ \A r \in Request!Pieces(x, Request!And) : SubSeq(z, r[1], r[2]) = SubSeq(x, r[1], r[2])
    /\ SubSeq(z, Len(x) + 2, Len(z)) = y

LEMMA NextPieces ==
    ASSUME NEW x \in Seq(Chars), NEW y \in Seq(Chars), Len(y) # 0, ~ Request!Has(y, Request!And),
           NEW z, z = x \o <<Request!And>> \o y
    PROVE  PiecesGrow(x, y, z)
<1>1. PICK m \in Nat, n \in Nat : m = Len(x) /\ n = Len(y)
  OBVIOUS
<1>2. Request!And \in Chars
  BY PlainFacts
<1>3. /\ z \in Seq(Chars) /\ Len(z) = m + 1 + n
      /\ \A i \in 1 .. m : z[i] = x[i]
      /\ z[m + 1] = Request!And
      /\ \A i \in 1 .. n : z[m + 1 + i] = y[i]
  BY <1>1, <1>2, AroundAt
<1>4. PICK l : l = m + 1 + n
  OBVIOUS
<1>5. DOMAIN x = 1 .. m /\ DOMAIN y = 1 .. n /\ DOMAIN z = 1 .. l /\ l = Len(z) /\ l \in Nat
  BY <1>1, <1>3, <1>4
<1>6. n # 0 /\ n >= 1
  BY <1>1
<1>7. \A i \in m + 2 .. l : z[i] # Request!And
  <2>1. ASSUME NEW i \in m + 2 .. l PROVE z[i] # Request!And
    <3>1. PICK j : j = i - (m + 1)
      OBVIOUS
    <3>2. j \in 1 .. n /\ m + 1 + j = i
      BY <1>1, <1>4, <3>1
    <3>3. y[j] # Request!And
      BY <1>5, <3>2 DEF Request!Has
    <3> QED
      BY <1>3, <3>2, <3>3
  <2> QED
    BY <2>1
<1>8. PICK p : p = <<m + 2, l>>
  OBVIOUS
<1>9. p \in Request!Pieces(z, Request!And)
  <2>1. m + 2 \in 1 .. l /\ l \in 1 .. l /\ m + 2 <= l /\ (m + 2) - 1 = m + 1
    BY <1>1, <1>4, <1>6
  <2>2. p \in (DOMAIN z) \X (DOMAIN z) /\ p[1] = m + 2 /\ p[2] = l
    BY <1>5, <1>8, <2>1
  <2>3. z[p[1] - 1] = Request!And
    BY <1>3, <2>1, <2>2
  <2>4. \A i \in p[1] .. p[2] : z[i] # Request!And
    BY <1>7, <2>2
  <2> QED
    BY <1>5, <2>1, <2>2, <2>3, <2>4 DEF Request!Pieces
<1>10. ASSUME NEW r \in Request!Pieces(x, Request!And)
       PROVE  r \in Request!Pieces(z, Request!And) /\ SubSeq(z, r[1], r[2]) = SubSeq(x, r[1], r[2])
  <2>1. PICK c, d \in 1 .. m : r = <<c, d>>
    BY <1>5 DEF Request!Pieces
  <2>2. /\ c <= d
        /\ c = 1 \/ x[c - 1] = Request!And
        /\ d = m \/ x[d + 1] = Request!And
        /\ \A i \in c .. d : x[i] # Request!And
    BY <1>1, <2>1 DEF Request!Pieces
  <2>3. c \in 1 .. l /\ d \in 1 .. l
    BY <1>1, <1>4, <2>1
  <2>4. c = 1 \/ z[c - 1] = Request!And
    <3>1. c # 1 => c - 1 \in 1 .. m
      BY <1>1, <2>1
    <3> QED
      BY <1>3, <2>2, <3>1
  <2>5. z[d + 1] = Request!And
    <3>1. d # m => d + 1 \in 1 .. m
      BY <1>1, <2>1
    <3> QED
      BY <1>3, <2>2, <3>1
  <2>6. \A i \in c .. d : z[i] = x[i]
    <3>1. \A i \in c .. d : i \in 1 .. m
      BY <1>1, <2>1
    <3> QED
      BY <1>3, <3>1
  <2>7. r \in Request!Pieces(z, Request!And)
    <3>1. r \in (DOMAIN z) \X (DOMAIN z) /\ r[1] = c /\ r[2] = d
      BY <1>5, <2>1, <2>3
    <3> QED
      BY <2>2, <2>4, <2>5, <2>6, <3>1 DEF Request!Pieces
  <2>8. SubSeq(z, c, d) = SubSeq(x, c, d)
    <3>1. c \in Nat \ {0} /\ d \in Int /\ d <= Len(z) /\ d <= Len(x)
      BY <1>1, <1>3, <2>1
    <3>2. z \in Seq(Chars) /\ x \in Seq(Chars)
      BY <1>3
    <3> QED
      BY <2>6, <3>1, <3>2, SamePart
  <2> QED
    BY <2>1, <2>7, <2>8
<1>11. ASSUME NEW r \in Request!Pieces(z, Request!And)
       PROVE  r \in Request!Pieces(x, Request!And) \/ r = p
  <2>1. PICK c, d \in 1 .. l : r = <<c, d>>
    BY <1>5 DEF Request!Pieces
  <2>2. /\ c <= d
        /\ c = 1 \/ z[c - 1] = Request!And
        /\ d = l \/ z[d + 1] = Request!And
        /\ \A i \in c .. d : z[i] # Request!And
    BY <1>5, <2>1 DEF Request!Pieces
  <2>3. c \in Nat /\ d \in Nat /\ 1 <= c /\ d <= l
    BY <1>5, <2>1
  <2>4. CASE d <= m
    <3>1. c \in 1 .. m /\ d \in 1 .. m /\ d # l
      BY <1>1, <1>4, <2>2, <2>3, <2>4
    <3>2. c = 1 \/ x[c - 1] = Request!And
      <4>1. c # 1 => c - 1 \in 1 .. m
        BY <1>1, <3>1
      <4> QED
        BY <1>3, <2>2, <4>1
    <3>3. d = m \/ x[d + 1] = Request!And
      <4>1. d # m => d + 1 \in 1 .. m
        BY <1>1, <3>1
      <4> QED
        BY <1>3, <2>2, <3>1, <4>1
    <3>4. \A i \in c .. d : x[i] # Request!And
      <4>1. \A i \in c .. d : i \in 1 .. m
        BY <1>1, <3>1
      <4> QED
        BY <1>3, <2>2, <4>1
    <3>5. r \in (DOMAIN x) \X (DOMAIN x) /\ r[1] = c /\ r[2] = d
      BY <1>5, <2>1, <3>1
    <3>6. d = Len(x) \/ x[d + 1] = Request!And
      BY <1>1, <3>3
    <3> QED
      BY <2>2, <3>2, <3>4, <3>5, <3>6 DEF Request!Pieces
  <2>5. CASE ~ (d <= m)
    <3>1. c > m + 1
      <4>1. ~ (m + 1 \in c .. d)
        BY <1>3, <2>2
      <4> QED
        BY <1>1, <2>3, <2>5, <4>1
    <3>2. c = m + 2
      <4>1. c # 1
        BY <1>1, <2>3, <3>1
      <4>2. z[c - 1] = Request!And
        BY <2>2, <4>1
      <4>3. ~ (c - 1 \in m + 2 .. l)
        BY <1>7, <4>2
      <4> QED
        BY <1>1, <1>5, <2>2, <2>3, <3>1, <4>3
    <3>3. d = l
      <4>1. ~ (d + 1 \in m + 2 .. l) \/ z[d + 1] # Request!And
        BY <1>7
      <4>2. d # l => d + 1 \in m + 2 .. l
        BY <1>1, <1>5, <2>3, <2>5
      <4> QED
        BY <2>2, <4>1, <4>2
    <3> QED
      BY <1>8, <2>1, <3>2, <3>3
  <2> QED
    BY <2>4, <2>5
<1>12. SubSeq(z, m + 2, l) = y
  <2>1. PICK c, q : c = m + 2 /\ q = SubSeq(z, c, l)
    OBVIOUS
  <2>2. c \in Nat \ {0} /\ l \in Int /\ l <= Len(z) /\ l - c + 1 = n
    BY <1>1, <1>4, <1>5, <2>1
  <2>3. z \in Seq(Chars) /\ q = SubSeq(z, c, l)
    BY <1>3, <2>1
  <2>4. /\ q \in Seq(Chars) /\ Len(q) = IF c <= l THEN l - c + 1 ELSE 0
        /\ \A i \in 1 .. l - c + 1 : q[i] = z[c + i - 1]
    BY <2>2, <2>3, PartAt
  <2>5. Len(q) = n /\ \A i \in 1 .. n : c + i - 1 = m + 1 + i
    BY <1>1, <1>4, <1>6, <2>1, <2>2, <2>4
  <2>6. \A i \in 1 .. n : q[i] = y[i]
    BY <1>3, <2>2, <2>4, <2>5
  <2>7. q = y
    BY <1>1, <2>4, <2>5, <2>6, SeqEqual
  <2> QED
    BY <2>1, <2>7
<1>13. Request!Pieces(z, Request!And) = Request!Pieces(x, Request!And) \cup {p}
  BY <1>9, <1>10, <1>11
<1> QED
  BY <1>1, <1>5, <1>8, <1>10, <1>12, <1>13 DEF PiecesGrow

(* One pair more. *)
OneMore(x, a, b, z) ==
    /\ DOMAIN Request!Parameters(z) = DOMAIN Request!Parameters(x) \cup {a}
    /\ Request!Parameters(z)[a] = b
    /\ \A k \in DOMAIN Request!Parameters(x) : k # a => Request!Parameters(z)[k]
        = Request!Parameters(x)[k]

LEMMA NextPair ==
    ASSUME NEW x \in Seq(Coded), NEW a, NEW b, IsPair(a, b), NEW y, y = a \o <<Request!Equal>> \o b,
           NEW z, z = x \o <<Request!And>> \o y
    PROVE  OneMore(x, a, b, z)
<1>1. /\ y \in Seq(Coded) /\ Len(y) \in Nat \ {0}
      /\ \A i \in 1 .. Len(y) : y[i] # Request!And
  BY PairText
<1>2. x \in Seq(Chars) /\ y \in Seq(Chars) /\ Len(y) # 0
  BY <1>1, CodedSeq
<1>3. ~ Request!Has(y, Request!And)
  BY <1>1 DEF Request!Has
<1>4. PICK p : p = <<Len(x) + 2, Len(z)>>
  OBVIOUS
<1>5. /\ Request!Pieces(z, Request!And) = Request!Pieces(x, Request!And) \cup {p}
      /\ \A r \in Request!Pieces(x, Request!And) : SubSeq(z, r[1], r[2]) = SubSeq(x, r[1], r[2])
      /\ SubSeq(z, p[1], p[2]) = y
  <2>1. /\ Request!Pieces(z, Request!And)
           = Request!Pieces(x, Request!And) \cup {<<Len(x) + 2, Len(z)>>}
        /\ \A r \in Request!Pieces(x, Request!And) : SubSeq(z, r[1], r[2]) = SubSeq(x, r[1], r[2])
        /\ SubSeq(z, Len(x) + 2, Len(z)) = y
    <3>1. PiecesGrow(x, y, z)
      BY <1>2, <1>3, NextPieces
    <3> QED
      BY <3>1 DEF PiecesGrow
  <2>2. p[1] = Len(x) + 2 /\ p[2] = Len(z)
    BY <1>4
  <2> QED
    BY <1>4, <2>1, <2>2
<1>6. z \in Seq(Chars)
  <2>1. Request!And \in Chars
    BY PlainFacts
  <2> QED
    BY <1>2, <2>1, AroundAt
<1>7. IsRead(a, b, z, p)
  <2>1. Stands(a, b, z, p)
    BY <1>5 DEF Stands
  <2> QED
    BY <2>1, PairAt
<1>8. PairsOf(z) = PairsOf(x) \cup {p}
  BY <1>5, <1>7 DEF PairsOf, IsRead
<1>9. \A r \in PairsOf(x) : KeyOf(z, r) = KeyOf(x, r) /\ ValueOf(z, r) = ValueOf(x, r)
  BY <1>5 DEF PairsOf, KeyOf, ValueOf
<1>10. KeyOf(z, p) = a /\ ValueOf(z, p) = b
  BY <1>7 DEF IsRead
<1>11. {KeyOf(z, r) : r \in PairsOf(z)} = {KeyOf(x, r) : r \in PairsOf(x)} \cup {a}
  <2>1. ASSUME NEW r \in PairsOf(z)
        PROVE  KeyOf(z, r) \in {KeyOf(x, t) : t \in PairsOf(x)} \cup {a}
    BY <1>8, <1>9, <1>10
  <2>2. ASSUME NEW r \in PairsOf(x) PROVE KeyOf(x, r) \in {KeyOf(z, t) : t \in PairsOf(z)}
    BY <1>8, <1>9
  <2>3. a \in {KeyOf(z, t) : t \in PairsOf(z)}
    BY <1>8, <1>10
  <2> QED
    <3>1. \A r \in PairsOf(z) : KeyOf(z, r) \in {KeyOf(x, t) : t \in PairsOf(x)} \cup {a}
      BY <2>1, Zenon
    <3>2. \A r \in PairsOf(x) : KeyOf(x, r) \in {KeyOf(z, t) : t \in PairsOf(z)}
      BY <2>2, Zenon
    <3> QED
      BY <2>3, <3>1, <3>2, ZenonT(30)
<1>12. DOMAIN Request!Parameters(z) = DOMAIN Request!Parameters(x) \cup {a}
  BY <1>2, <1>6, <1>11, ParametersAt
<1>13. \A r \in PairsOf(x) : r[1] <= p[1]
  <2>1. ASSUME NEW r \in PairsOf(x) PROVE r[1] <= p[1]
    <3>1. r \in Request!Pieces(x, Request!And)
      BY DEF PairsOf
    <3>2. r \in Nat \X Nat /\ r[1] <= r[2] /\ r[2] <= Len(x)
      BY <1>2, <3>1, PieceFacts
    <3>3. r[1] \in Nat /\ r[2] \in Nat /\ Len(x) \in Nat
      BY <3>2
    <3>4. p[1] = Len(x) + 2
      BY <1>4
    <3> QED
      BY <3>2, <3>3, <3>4
  <2> QED
    BY <2>1
<1>14. IsLast(z, a, p)
  <2>1. p[1] <= p[1]
    BY <1>4
  <2> QED
    BY <1>8, <1>10, <1>13, <2>1 DEF IsLast
<1>15. Request!Parameters(z)[a] = b
  BY <1>6, <1>10, <1>14, ParametersAt
<1>16. ASSUME NEW k \in DOMAIN Request!Parameters(x), k # a
       PROVE  Request!Parameters(z)[k] = Request!Parameters(x)[k]
  <2>1. k \in {KeyOf(x, r) : r \in PairsOf(x)}
    BY <1>2, ParametersAt
  <2>2. PICK r : IsLast(x, k, r)
    BY <1>2, <2>1, LastExists
  <2>3. Request!Parameters(x)[k] = ValueOf(x, r)
    BY <1>2, <2>2, ParametersAt
  <2>4. r \in PairsOf(x) /\ KeyOf(x, r) = k
    BY <2>2 DEF IsLast
  <2>5. IsLast(z, k, r)
    BY <1>8, <1>9, <1>10, <1>16, <2>2, <2>4 DEF IsLast
  <2>6. Request!Parameters(z)[k] = ValueOf(z, r)
    BY <1>6, <2>5, ParametersAt
  <2> QED
    BY <1>9, <2>3, <2>4, <2>6
<1> QED
  BY <1>12, <1>15, <1>16 DEF OneMore

(* The recursion of List, as a function from numbers of pairs to texts. *)
PairOf(parameters, k) == k \o <<Request!Equal>> \o parameters[k]
ListsUpTo(parameters, order, u) ==
    /\ u[0] = <<>>
    /\ \A n \in 1 .. Len(order) :
           u[n] = u[n - 1] \o <<IF n = 1 THEN Request!Query ELSE Request!And>>
               \o PairOf(parameters, order[n])

LEMMA ListUpTo ==
    ASSUME NEW parameters, NEW order, Len(order) \in Nat,
           \A n \in 1 .. Len(order) : PairOf(parameters, order[n]) \in Seq(Chars)
    PROVE  \E u : ListsUpTo(parameters, order, u) /\ Request!List(parameters, order) = u[Len(order)]
<1> DEFINE E(n, r) == IF n = 0 THEN <<>>
                      ELSE r \o <<IF n = 1 THEN Request!Query ELSE Request!And>>
                          \o PairOf(parameters, order[n])
           Eq(u) == u = [n \in 0 .. Len(order) |-> E(n, u[n - 1])]
<1>1. PICK m \in Nat : m = Len(order)
  OBVIOUS
<1>2. \E u : Eq(u)
  <2> DEFINE h == [p \in Seq(Chars) \X (1 .. m) |-> E(p[2], p[1])]
  <2>1. ASSUME NEW x \in Seq(Chars), NEW n \in 1 .. m
        PROVE  E(n, x) \in Seq(Chars) /\ h[<<x, n>>] = E(n, x)
    <3>1. PICK y, z : y = <<IF n = 1 THEN Request!Query ELSE Request!And>>
            /\ z = PairOf(parameters, order[n])
      OBVIOUS
    <3>2. y \in Seq(Chars)
      <4>1. Request!Query \in Chars /\ Request!And \in Chars
        BY PlainFacts
      <4> QED
        BY <3>1, <4>1
    <3>3. z \in Seq(Chars)
      BY <1>1, <3>1
    <3>4. x \o y \in Seq(Chars)
      BY <3>2, ConcatProperties
    <3>5. (x \o y) \o z \in Seq(Chars)
      BY <3>3, <3>4, ConcatProperties
    <3>6. E(n, x) = (x \o y) \o z
      BY <1>1, <3>1
    <3>7. h[<<x, n>>] = E(n, x)
      <4> HIDE DEF E
      <4> QED
        OBVIOUS
    <3> HIDE DEF E, h
    <3> QED
      BY <3>5, <3>6, <3>7
  <2>2. h \in [Seq(Chars) \X (1 .. m) -> Seq(Chars)]
    <3> HIDE DEF E
    <3> QED
      BY <2>1
  <2> HIDE DEF h
  <2>3. PICK u \in [0 .. m -> Seq(Chars)] : Recurses(u, <<>>, m, h)
    <3>1. PICK Q, b, g : Q = Seq(Chars) /\ b = <<>> /\ g = h
      OBVIOUS
    <3>2. b \in Q /\ g \in [Q \X (1 .. m) -> Q]
      BY <2>2, <3>1
    <3>3. \E u \in [0 .. m -> Q] : Recurses(u, b, m, g)
      BY <1>1, <3>2, Recursion
    <3> QED
      BY <3>1, <3>3
  <2>4. ASSUME NEW n \in 0 .. m PROVE u[n] = E(n, u[n - 1])
    <3>1. CASE n = 0
      <4>1. u[0] = <<>>
        BY <2>3 DEF Recurses
      <4> QED
        BY <3>1, <4>1
    <3>2. CASE n # 0
      <4>1. n \in 1 .. m /\ u[n - 1] \in Seq(Chars)
        BY <1>1, <2>3, <3>2
      <4>2. u[n] = h[<<u[n - 1], n>>]
        BY <2>3, <4>1 DEF Recurses
      <4> HIDE DEF E
      <4> QED
        BY <2>1, <4>1, <4>2
    <3> HIDE DEF E
    <3> QED
      BY <3>1, <3>2
  <2>5. u = [n \in 0 .. m |-> E(n, u[n - 1])]
    <3> HIDE DEF E
    <3> QED
      BY <2>3, <2>4
  <2> QED
    BY <1>1, <2>5
<1>3. PICK u : u = CHOOSE v : Eq(v)
  OBVIOUS
<1>4. Eq(u)
  <2> HIDE DEF Eq
  <2> QED
    BY <1>2, <1>3
<1>5. Request!List(parameters, order) = u[Len(order)]
  BY <1>3 DEF Request!List, PairOf
<1>6. \A n \in 0 .. m : u[n] = E(n, u[n - 1])
  <2>1. u = [n \in 0 .. m |-> E(n, u[n - 1])]
    BY <1>1, <1>4
  <2> HIDE DEF E
  <2>2. \A g : g = [n \in 0 .. m |-> E(n, u[n - 1])] => \A n \in 0 .. m : g[n] = E(n, u[n - 1])
    OBVIOUS
  <2> QED
    BY <2>1, <2>2
<1>7. u[0] = <<>>
  <2>1. 0 \in 0 .. m
    BY <1>1
  <2> QED
    BY <1>6, <2>1
<1>8. ASSUME NEW n \in 1 .. m
      PROVE  u[n] = u[n - 1] \o <<IF n = 1 THEN Request!Query ELSE Request!And>>
             \o PairOf(parameters, order[n])
  <2>1. n \in 0 .. m /\ n # 0
    BY <1>1
  <2>2. u[n] = E(n, u[n - 1])
    <3> HIDE DEF E
    <3> QED
      BY <1>6, <2>1
  <2> QED
    BY <2>1, <2>2
<1> QED
  BY <1>1, <1>5, <1>7, <1>8 DEF ListsUpTo

(* A key and a value as they come out of a URL. *)
IsParameter(k, v) == k \in Seq(Chars \ {Request!And, Request!Equal})
    /\ v \in Seq(Chars \ {Request!And})

LEMMA ParameterChars ==
    ASSUME NEW k, NEW v, IsParameter(k, v)
    PROVE  /\ k \in Seq(Chars) /\ ~ Request!Has(k, Request!And) /\ ~ Request!Has(k, Request!Equal)
           /\ v \in Seq(Chars) /\ ~ Request!Has(v, Request!And)
<1>1. PICK A, B : A = Chars \ {Request!And, Request!Equal} /\ B = Chars \ {Request!And}
  OBVIOUS
<1>2. A \subseteq Chars /\ B \subseteq Chars /\ Request!And \notin A /\ Request!Equal \notin A
        /\ Request!And \notin B
  BY <1>1
<1>3. k \in Seq(A) /\ v \in Seq(B)
  BY <1>1 DEF IsParameter
<1>4. k \in Seq(Chars) /\ v \in Seq(Chars)
  BY <1>2, <1>3
<1>5. ~ Request!Has(k, Request!And) /\ ~ Request!Has(k, Request!Equal)
        /\ ~ Request!Has(v, Request!And)
  BY <1>2, <1>3 DEF Request!Has
<1> QED
  BY <1>4, <1>5

LEMMA EncodePair ==
    ASSUME NEW k, NEW v, IsParameter(k, v)
    PROVE  /\ k \o <<Request!Equal>> \o v \in Seq(Chars)
           /\ Request!UrlEncode(k \o <<Request!Equal>> \o v) = Request!UrlEncode(k)
               \o <<Request!Equal>> \o Request!UrlEncode(v)
           /\ IsPair(Request!UrlEncode(k), Request!UrlEncode(v))
<1>1. /\ k \in Seq(Chars) /\ ~ Request!Has(k, Request!And) /\ ~ Request!Has(k, Request!Equal)
      /\ v \in Seq(Chars) /\ ~ Request!Has(v, Request!And)
  BY ParameterChars
<1>2. Request!Equal \in Request!Plain /\ Request!Equal \in Chars
  BY PlainFacts
<1>3. k \o <<Request!Equal>> \o v \in Seq(Chars)
  BY <1>1, <1>2, AroundAt
<1>4. Request!UrlEncode(k \o <<Request!Equal>> \o v) = Request!UrlEncode(k) \o <<Request!Equal>>
        \o Request!UrlEncode(v)
  BY <1>1, <1>2, EncodeAround
<1>5. Request!UrlEncode(k) \in Seq(Coded) /\ Request!UrlEncode(v) \in Seq(Coded)
  BY <1>1, EncodeType
<1>6. ~ Request!Has(Request!UrlEncode(k), Request!And)
        /\ ~ Request!Has(Request!UrlEncode(k), Request!Equal)
        /\ ~ Request!Has(Request!UrlEncode(v), Request!And)
  BY <1>1, EncodeHas
<1> QED
  BY <1>3, <1>4, <1>5, <1>6 DEF IsPair

(* What is read of the first n pairs. *)
ReadUpTo(parameters, order, n, got) ==
    /\ DOMAIN got = {Request!UrlEncode(order[i]) : i \in 1 .. n}
    /\ \A i \in 1 .. n : got[Request!UrlEncode(order[i])] = Request!UrlEncode(parameters[order[i]])

LEMMA ListRead ==
    ASSUME NEW parameters, NEW order, Len(order) \in Nat,
           \A n \in 1 .. Len(order) : IsParameter(order[n], parameters[order[n]]),
           \A i, j \in 1 .. Len(order) : i # j => order[i] # order[j],
           NEW u, ListsUpTo(parameters, order, u)
    PROVE  \A n \in 1 .. Len(order) :
               \E w \in Seq(Chars) : /\ u[n] = <<Request!Query>> \o w
                                     /\ ReadUpTo(parameters, order, n,
                                         Request!Parameters(Request!UrlEncode(w)))
<1> DEFINE P(n, w) == /\ u[n] = <<Request!Query>> \o w
                      /\ ReadUpTo(parameters, order, n, Request!Parameters(Request!UrlEncode(w)))
           N == {n \in Nat : n \in 1 .. Len(order) => \E w \in Seq(Chars) : P(n, w)}
<1>1. PICK m \in Nat : m = Len(order)
  OBVIOUS
<1>2. PICK q, c : q = <<Request!Query>> /\ c = <<Request!And>>
  OBVIOUS
<1>3. q \in Seq(Chars) /\ c \in Seq(Chars) /\ Request!And \in Chars /\ Request!And \in Request!Plain
  <2>1. Request!Query \in Chars /\ Request!And \in Chars /\ Request!And \in Request!Plain
    BY PlainFacts
  <2> QED
    BY <1>2, <2>1
<1>4. ASSUME NEW n \in 1 .. m
      PROVE  /\ PairOf(parameters, order[n]) \in Seq(Chars)
             /\ Request!UrlEncode(PairOf(parameters, order[n]))
                    = Request!UrlEncode(order[n]) \o <<Request!Equal>>
                        \o Request!UrlEncode(parameters[order[n]])
             /\ IsPair(Request!UrlEncode(order[n]), Request!UrlEncode(parameters[order[n]]))
  <2>1. IsParameter(order[n], parameters[order[n]])
    BY <1>1
  <2> QED
    BY <2>1, EncodePair DEF PairOf
<1>5. 0 \in N
  BY <1>1
<1>6. ASSUME m >= 1 PROVE \E w \in Seq(Chars) : P(1, w)
  <2>1. 1 \in 1 .. m
    BY <1>1, <1>6
  <2>2. PICK w : w = PairOf(parameters, order[1])
    OBVIOUS
  <2>3. PICK k, v : k = Request!UrlEncode(order[1]) /\ v = Request!UrlEncode(parameters[order[1]])
    OBVIOUS
  <2>4. w \in Seq(Chars) /\ Request!UrlEncode(w) = k \o <<Request!Equal>> \o v /\ IsPair(k, v)
    BY <1>4, <2>1, <2>2, <2>3
  <2>5. u[1] = <<>> \o q \o w
    <3>1. u[0] = <<>> /\ 1 - 1 = 0
      BY DEF ListsUpTo
    <3>2. u[1] = u[1 - 1] \o <<IF 1 = 1 THEN Request!Query ELSE Request!And>>
            \o PairOf(parameters, order[1])
      BY <1>1, <2>1 DEF ListsUpTo
    <3> QED
      BY <1>2, <2>2, <3>1, <3>2
  <2>6. <<>> \o q = q
    BY <1>3, ConcatEmptySeq
  <2>7. DOMAIN Request!Parameters(Request!UrlEncode(w)) = {k}
          /\ Request!Parameters(Request!UrlEncode(w))[k] = v
    BY <2>4, FirstPair
  <2>8. ReadUpTo(parameters, order, 1, Request!Parameters(Request!UrlEncode(w)))
    <3>1. \A i : i \in 1 .. 1 <=> i = 1
      OBVIOUS
    <3> QED
      BY <2>3, <2>7, <3>1 DEF ReadUpTo
  <2> QED
    BY <1>2, <2>4, <2>5, <2>6, <2>8
<1>7. ASSUME NEW n \in Nat, n >= 1, n + 1 <= m, NEW w \in Seq(Chars), P(n, w)
      PROVE  \E t \in Seq(Chars) : P(n + 1, t)
  <2>1. PICK j : j = n + 1
    OBVIOUS
  <2>2. j \in 1 .. m /\ j # 1 /\ j - 1 = n /\ \A i : i \in 1 .. j <=> i \in 1 .. n \/ i = j
    BY <1>1, <1>7, <2>1
  <2>3. PICK p, k, v : /\ p = PairOf(parameters, order[j])
                       /\ k = Request!UrlEncode(order[j])
                       /\ v = Request!UrlEncode(parameters[order[j]])
    OBVIOUS
  <2>4. p \in Seq(Chars) /\ Request!UrlEncode(p) = k \o <<Request!Equal>> \o v /\ IsPair(k, v)
    BY <1>4, <2>2, <2>3
  <2>5. PICK t : t = w \o c \o p
    OBVIOUS
  <2>6. w \o c \in Seq(Chars)
    BY <1>3, ConcatProperties
  <2>7. t \in Seq(Chars)
    BY <2>4, <2>5, <2>6, ConcatProperties
  <2>8. u[j] = q \o t
    <3>1. u[j] = u[j - 1] \o <<IF j = 1 THEN Request!Query ELSE Request!And>>
            \o PairOf(parameters, order[j])
      BY <1>1, <2>2 DEF ListsUpTo
    <3>2. u[j] = (q \o w) \o c \o p
      BY <1>2, <1>7, <2>2, <2>3, <3>1
    <3>3. (q \o w) \o c = q \o (w \o c)
      BY <1>3, ConcatAssociative
    <3>4. (q \o (w \o c)) \o p = q \o ((w \o c) \o p)
      <4>1. PICK g : g = w \o c
        OBVIOUS
      <4>2. g \in Seq(Chars) /\ q \in Seq(Chars) /\ p \in Seq(Chars)
        BY <1>3, <2>4, <2>6, <4>1
      <4>3. \A x, y, z \in Seq(Chars) : (x \o y) \o z = x \o (y \o z)
        BY ConcatAssociative, SMTT(30)
      <4>4. (q \o g) \o p = q \o (g \o p)
        BY <4>2, <4>3
      <4> QED
        BY <4>1, <4>4
    <3> QED
      BY <2>5, <3>2, <3>3, <3>4
  <2>9. PICK x, y, z : x = Request!UrlEncode(w) /\ y = Request!UrlEncode(p)
          /\ z = Request!UrlEncode(t)
    OBVIOUS
  <2>10. z = x \o <<Request!And>> \o y
    BY <1>2, <1>3, <2>4, <2>5, <2>9, EncodeAround
  <2>11. x \in Seq(Coded)
    BY <2>9, EncodeType
  <2>12. /\ DOMAIN Request!Parameters(z) = DOMAIN Request!Parameters(x) \cup {k}
         /\ Request!Parameters(z)[k] = v
         /\ \A i \in DOMAIN Request!Parameters(x) : i # k => Request!Parameters(z)[i]
             = Request!Parameters(x)[i]
    <3>1. IsPair(k, v) /\ y = k \o <<Request!Equal>> \o v
      BY <2>4, <2>9
    <3>2. OneMore(x, k, v, z)
      BY <2>10, <2>11, <3>1, NextPair
    <3> QED
      BY <3>2 DEF OneMore
  <2>13. /\ DOMAIN Request!Parameters(x) = {Request!UrlEncode(order[i]) : i \in 1 .. n}
         /\ \A i \in 1 .. n : Request!Parameters(x)[Request!UrlEncode(order[i])]
             = Request!UrlEncode(parameters[order[i]])
    BY <1>7, <2>9 DEF ReadUpTo
  <2>14. ASSUME NEW i \in 1 .. n PROVE Request!UrlEncode(order[i]) # k
    <3>1. i \in 1 .. m /\ i # j
      BY <1>1, <1>7, <2>1
    <3>2. order[i] # order[j]
      BY <1>1, <2>2, <3>1
    <3>3. order[i] \in Seq(Chars) /\ order[j] \in Seq(Chars)
      BY <1>1, <2>2, <3>1, ParameterChars
    <3>4. Request!UrlDecode(Request!UrlEncode(order[i])) = order[i]
            /\ Request!UrlDecode(Request!UrlEncode(order[j])) = order[j]
      BY <3>3, CodecCorrect
    <3> QED
      BY <2>3, <3>2, <3>4
  <2>15. DOMAIN Request!Parameters(z) = {Request!UrlEncode(order[i]) : i \in 1 .. j}
    BY <2>2, <2>3, <2>12, <2>13
  <2>16. ASSUME NEW i \in 1 .. j
         PROVE  Request!Parameters(z)[Request!UrlEncode(order[i])]
                = Request!UrlEncode(parameters[order[i]])
    <3>1. CASE i = j
      BY <2>3, <2>12, <3>1
    <3>2. CASE i \in 1 .. n
      BY <2>12, <2>13, <2>14, <3>2
    <3> QED
      BY <2>2, <3>1, <3>2
  <2>17. ReadUpTo(parameters, order, j, Request!Parameters(z))
    BY <2>15, <2>16 DEF ReadUpTo
  <2> QED
    BY <1>2, <2>1, <2>7, <2>8, <2>9, <2>17
<1> HIDE DEF P
<1>8. ASSUME NEW n \in Nat, n \in N PROVE n + 1 \in N
  <2> SUFFICES ASSUME n + 1 \in 1 .. m PROVE \E w \in Seq(Chars) : P(n + 1, w)
    BY <1>1
  <2>1. CASE n = 0
    <3>1. m >= 1 /\ n + 1 = 1
      BY <1>1, <2>1
    <3> QED
      BY <1>6, <3>1
  <2>2. CASE n # 0
    <3>1. n >= 1 /\ n + 1 <= m /\ n \in 1 .. Len(order)
      BY <1>1, <2>2
    <3>2. PICK w \in Seq(Chars) : P(n, w)
      BY <1>8, <3>1
    <3> QED
      BY <1>7, <3>1, <3>2
  <2> QED
    BY <2>1, <2>2
<1> HIDE DEF N
<1>9. \A n \in Nat : n \in N
  BY <1>5, <1>8, NatSetInduction
<1>10. \A n \in 1 .. m : n \in Nat
  BY <1>1
<1> QED
  BY <1>1, <1>9, <1>10 DEF N, P

(* Texts of a bounded length that are closed under encoding are plain: any *)
(* other would grow without end.                                           *)
LEMMA ClosedIsPlain ==
    ASSUME NEW K, NEW l \in Nat,
           \A k \in K : k \in Seq(Chars) /\ Len(k) <= l /\ Request!UrlEncode(k) \in K
    PROVE  \A k \in K : Request!IsPlain(k)
<1> DEFINE R == {k \in K : ~ Request!IsPlain(k)}
           T == {l - Len(k) : k \in R}
<1>1. \A k \in K : k \in Seq(Chars) /\ Len(k) \in 0 .. l
  OBVIOUS
<1>2. SUFFICES ASSUME R # {} PROVE FALSE
  OBVIOUS
<1>3. R \subseteq K
  OBVIOUS
<1>4. \A k \in R : ~ Request!IsPlain(k)
  OBVIOUS
<1>5. \A k \in K : ~ Request!IsPlain(k) => k \in R
  OBVIOUS
<1> HIDE DEF R
<1>6. T \subseteq Nat /\ T # {}
  BY <1>1, <1>2, <1>3
<1>7. PICK t \in T : \A y \in T : t <= y
  <2> HIDE DEF T
  <2> QED
    BY <1>6, LeastExists
<1>8. PICK k \in R : t = l - Len(k)
  BY <1>7
<1>9. \A y \in R : Len(y) <= Len(k)
  <2>1. ASSUME NEW y \in R PROVE Len(y) <= Len(k)
    <3>1. l - Len(k) <= l - Len(y)
      BY <1>7, <1>8
    <3>2. Len(k) \in Nat /\ Len(y) \in Nat
      BY <1>1, <1>3, <1>8
    <3> QED
      BY <3>1, <3>2
  <2> QED
    BY <2>1
<1>10. PICK e, f : e = Request!UrlEncode(k) /\ f = Request!UrlEncode(e)
  OBVIOUS
<1>11. k \in K /\ e \in K /\ f \in K
  BY <1>3, <1>8, <1>10
<1>12. k \in Seq(Chars) /\ e \in Seq(Chars) /\ ~ Request!IsPlain(k)
  BY <1>1, <1>4, <1>8, <1>11
<1>13. ~ Request!IsPlain(e) /\ Len(f) > Len(k)
  BY <1>10, <1>12, EncodeGrows
<1>14. ~ Request!IsPlain(f)
  BY <1>10, <1>12, <1>13, EncodeGrows
<1>15. Len(f) <= Len(k)
  BY <1>5, <1>9, <1>11, <1>14
<1>16. Len(f) \in Nat /\ Len(k) \in Nat
  BY <1>1, <1>11
<1> QED
  BY <1>13, <1>15, <1>16

(* The parameters that are read are those that were sent if and only if    *)
(* all of them are plain.                                                  *)
LEMMA SameParameters ==
    ASSUME NEW P, NEW G, NEW l \in Nat, P = [k \in DOMAIN P |-> P[k]],
           G = [k \in DOMAIN G |-> G[k]],
           \A k \in DOMAIN P : k \in Seq(Chars) /\ Len(k) <= l /\ P[k] \in Seq(Chars),
           DOMAIN G = {Request!UrlEncode(k) : k \in DOMAIN P},
           \A k \in DOMAIN P : G[Request!UrlEncode(k)] = Request!UrlEncode(P[k])
    PROVE  G = P <=> \A k \in DOMAIN P : Request!IsPlain(k) /\ Request!IsPlain(P[k])
<1>1. ASSUME G = P PROVE \A k \in DOMAIN P : Request!IsPlain(k) /\ Request!IsPlain(P[k])
  <2>1. \A k \in DOMAIN P : Request!UrlEncode(k) \in DOMAIN P
    BY <1>1
  <2>2. PICK K : K = DOMAIN P
    OBVIOUS
  <2>3. \A k \in K : k \in Seq(Chars) /\ Len(k) <= l /\ Request!UrlEncode(k) \in K
    BY <2>1, <2>2
  <2>4. \A k \in K : Request!IsPlain(k)
    BY <2>3, ClosedIsPlain
  <2>5. ASSUME NEW k \in K PROVE Request!IsPlain(P[k])
    <3>1. k \in Seq(Chars) /\ Request!IsPlain(k)
      BY <2>3, <2>4
    <3>2. Request!UrlEncode(k) = k
      BY <3>1, EncodePlain
    <3>3. Request!UrlEncode(P[k]) = P[k]
      BY <1>1, <2>2, <3>2
    <3>4. PICK v : v = P[k]
      OBVIOUS
    <3>5. v \in Seq(Chars) /\ Request!UrlEncode(v) = v
      BY <2>2, <3>3, <3>4
    <3>6. ASSUME ~ Request!IsPlain(v) PROVE FALSE
      <4>1. Len(Request!UrlEncode(Request!UrlEncode(v))) > Len(v)
        BY <3>5, <3>6, EncodeGrows
      <4>2. Len(v) > Len(v) /\ Len(v) \in Nat
        BY <3>5, <4>1
      <4> QED
        BY <4>2
    <3> QED
      BY <3>4, <3>6
  <2> QED
    BY <2>2, <2>4, <2>5
<1>2. ASSUME \A k \in DOMAIN P : Request!IsPlain(k) /\ Request!IsPlain(P[k]) PROVE G = P
  <2>1. \A k \in DOMAIN P : Request!UrlEncode(k) = k /\ Request!UrlEncode(P[k]) = P[k]
    BY <1>2, EncodePlain
  <2>2. DOMAIN G = DOMAIN P
    BY <2>1
  <2>3. \A k \in DOMAIN P : G[k] = P[k]
    BY <2>1
  <2> QED
    BY <2>2, <2>3
<1> QED
  BY <1>1, <1>2

(* An order of the keys has each of them at one place. *)
LEMMA OrderFacts ==
    ASSUME NEW K, IsFiniteSet(K), NEW order \in Request!SetToSeqs(K)
    PROVE  /\ Len(order) \in Nat
           /\ \A i \in 1 .. Len(order) : order[i] \in K
           /\ \A i, j \in 1 .. Len(order) : i # j => order[i] # order[j]
           /\ \A k \in K : \E i \in 1 .. Len(order) : order[i] = k
<1>1. PICK n : n = Cardinality(K)
  OBVIOUS
<1>2. n \in Nat
  BY <1>1, FS_CardinalityType
<1>3. order \in [1 .. n -> K] /\ \A i, j \in 1 .. n : i # j => order[i] # order[j]
  <2>1. n = Request!Cardinality(K)
    BY <1>1 DEF Cardinality, Request!Cardinality
  <2> QED
    BY <2>1 DEF Request!SetToSeqs
<1>4. Len(order) = n
  BY <1>2, <1>3
<1>5. order \in Injection(1 .. n, K)
  BY <1>3 DEF Injection, IsInjective
<1>6. IsFiniteSet(1 .. n) /\ Cardinality(1 .. n) = n
  BY <1>2, FS_Interval
<1>7. order \in Surjection(1 .. n, K)
  BY <1>1, <1>5, <1>6, FS_Injection
<1>8. \A k \in K : \E i \in 1 .. n : order[i] = k
  BY <1>7 DEF Surjection
<1> QED
  BY <1>2, <1>3, <1>4, <1>8

(* A query without characters has no parameters. *)
LEMMA NoParameters == DOMAIN Request!Parameters(<<>>) = {}
<1>1. <<>> \in Seq(Chars)
  BY EmptySeq
<1>2. PairsOf(<<>>) = {}
  BY DEF PairsOf, Request!Pieces
<1> QED
  BY <1>1, <1>2, ParametersAt

(* What is taken from a URL that begins with a slash. *)
LEMMA TakenFacts ==
    ASSUME NEW url \in Seq(Chars), url # <<>>, url[1] = Request!Slash
    PROVE  \E query \in Seq(Chars) :
               /\ Request!Taken(url).path \in Seq(Chars) /\ Request!Taken(url).path # <<>>
               /\ Request!Taken(url).parameters = Request!Parameters(query)
<1>1. PICK a, query : a = Request!SplitAt(url, Request!Query)[1]
        /\ query = Request!SplitAt(url, Request!Query)[2]
  OBVIOUS
<1>2. a \in Seq(Chars \ {Request!Query}) /\ query \in Seq(Chars)
  BY <1>1, SplitInto
<1>3. a \in Seq(Chars)
  <2>1. PICK A : A = Chars \ {Request!Query}
    OBVIOUS
  <2>2. A \subseteq Chars /\ a \in Seq(A)
    BY <1>2, <2>1
  <2> QED
    BY <2>2
<1>4. a # <<>>
  <2>1. CASE ~ Request!Has(url, Request!Query)
    BY <1>1, <2>1, SplitNone
  <2>2. CASE Request!Has(url, Request!Query)
    <3>1. PICK x, y \in Seq(Chars) :
              /\ url = x \o <<Request!Query>> \o y /\ ~ Request!Has(x, Request!Query)
              /\ Request!SplitAt(url, Request!Query) = <<x, y>>
      BY <2>2, SplitFacts, SMTT(30)
    <3>2. url[Len(x) + 1] = Request!Query
      <4>1. Request!Query \in Chars /\ x \in Seq(Chars) /\ y \in Seq(Chars)
        BY <3>1, PlainFacts
      <4> QED
        BY <3>1, <4>1, AroundAt
    <3>3. x # <<>>
      <4>1. ASSUME x = <<>> PROVE FALSE
        <5>1. Len(x) + 1 = 1
          BY <4>1
        <5>2. Request!Query # Request!Slash
          BY PlainFacts
        <5> QED
          BY <3>2, <5>1, <5>2
      <4> QED
        BY <4>1
    <3> QED
      BY <1>1, <3>1, <3>3
  <2> QED
    BY <2>1, <2>2
<1>5. Request!Taken(url).path = Request!SetPath(a) /\ Request!Taken(url).parameters
        = Request!Parameters(query)
  BY <1>1 DEF Request!Taken
<1> QED
  BY <1>2, <1>3, <1>4, <1>5, PathType

(* The target that is written: the path alone, or with the list of the     *)
(* parameters behind a question mark.                                      *)
IsTarget(path, P, target) ==
    \/ DOMAIN P = {} /\ target = Request!UrlEncode(path)
    \/ \E w \in Seq(Chars) :
           /\ target = Request!UrlEncode(path \o <<Request!Query>> \o w)
           /\ DOMAIN Request!Parameters(Request!UrlEncode(w))
               = {Request!UrlEncode(k) : k \in DOMAIN P}
           /\ \A k \in DOMAIN P : Request!Parameters(Request!UrlEncode(w))[Request!UrlEncode(k)]
               = Request!UrlEncode(P[k])

LEMMA TargetFacts ==
    ASSUME NEW path \in Seq(Chars), path # <<>>, NEW query \in Seq(Chars),
           NEW P, P = Request!Parameters(query), NEW order \in Request!SetToSeqs(DOMAIN P)
    PROVE  IsTarget(path, P, Request!Target(path, P, order))
<1>1. IsFiniteSet(DOMAIN P)
  BY ParametersFinite
<1>2. /\ Len(order) \in Nat
      /\ \A i \in 1 .. Len(order) : order[i] \in DOMAIN P
      /\ \A i, j \in 1 .. Len(order) : i # j => order[i] # order[j]
      /\ \A k \in DOMAIN P : \E i \in 1 .. Len(order) : order[i] = k
  BY <1>1, OrderFacts, ZenonT(30)
<1>3. PICK n \in Nat : n = Len(order)
  BY <1>2
<1>4. \A i \in 1 .. n : IsParameter(order[i], P[order[i]])
  <2>1. \A k \in DOMAIN P : IsParameter(k, P[k])
    BY ParametersType DEF IsParameter
  <2> QED
    BY <1>2, <1>3, <2>1
<1>5. \A i \in 1 .. n : PairOf(P, order[i]) \in Seq(Chars)
  <2>1. ASSUME NEW i \in 1 .. n PROVE PairOf(P, order[i]) \in Seq(Chars)
    <3>1. IsParameter(order[i], P[order[i]])
      BY <1>4
    <3> QED
      BY <3>1, EncodePair DEF PairOf
  <2> QED
    BY <2>1
<1>6. PICK u : ListsUpTo(P, order, u) /\ Request!List(P, order) = u[n]
  BY <1>3, <1>5, ListUpTo
<1>7. Request!Target(path, P, order) = Request!UrlEncode(path \o u[n])
  BY <1>6 DEF Request!Target
<1>8. CASE n = 0
  <2>1. 1 .. n = {}
    BY <1>8
  <2>2. DOMAIN P = {}
    BY <1>2, <1>3, <2>1
  <2>3. u[n] = <<>>
    BY <1>6, <1>8 DEF ListsUpTo
  <2>4. path \o <<>> = path
    BY ConcatEmptySeq
  <2> QED
    BY <1>7, <2>2, <2>3, <2>4 DEF IsTarget
<1>9. CASE n # 0
  <2>1. n \in 1 .. n
    BY <1>3, <1>9
  <2>2. \A i \in 1 .. Len(order) :
            \E w \in Seq(Chars) : /\ u[i] = <<Request!Query>> \o w
                                  /\ ReadUpTo(P, order, i, Request!Parameters(Request!UrlEncode(w)))
    BY <1>2, <1>3, <1>4, <1>6, ListRead
  <2>3. PICK w \in Seq(Chars) : /\ u[n] = <<Request!Query>> \o w
                                /\ ReadUpTo(P, order, n, Request!Parameters(Request!UrlEncode(w)))
    BY <1>3, <2>1, <2>2
  <2>4. path \o (<<Request!Query>> \o w) = path \o <<Request!Query>> \o w
    <3>1. PICK q : q = <<Request!Query>>
      OBVIOUS
    <3>2. q \in Seq(Chars)
      BY <3>1, PlainFacts
    <3>3. path \in Seq(Chars) /\ q \in Seq(Chars) /\ w \in Seq(Chars)
      BY <2>3, <3>2
    <3>4. (path \o q) \o w = path \o (q \o w)
      BY <3>3, ConcatAssociative
    <3> QED
      BY <3>1, <3>4
  <2>5. Request!Target(path, P, order) = Request!UrlEncode(path \o <<Request!Query>> \o w)
    BY <1>7, <2>3, <2>4
  <2>6. PICK G : G = Request!Parameters(Request!UrlEncode(w))
    OBVIOUS
  <2>7. /\ DOMAIN G = {Request!UrlEncode(order[i]) : i \in 1 .. n}
        /\ \A i \in 1 .. n : G[Request!UrlEncode(order[i])] = Request!UrlEncode(P[order[i]])
    BY <2>3, <2>6 DEF ReadUpTo
  <2>8. DOMAIN G = {Request!UrlEncode(k) : k \in DOMAIN P}
    BY <1>2, <1>3, <2>7
  <2>9. \A k \in DOMAIN P : G[Request!UrlEncode(k)] = Request!UrlEncode(P[k])
    BY <1>2, <1>3, <2>7
  <2> QED
    BY <2>3, <2>5, <2>6, <2>8, <2>9 DEF IsTarget
<1> QED
  BY <1>8, <1>9

(* Whatever URL it is, the target arrives as TargetArrives says. *)
THEOREM TargetCorrect ==
    ASSUME NEW url \in Seq(Chars), url # <<>>, url[1] = Request!Slash
    PROVE  Request!TargetArrives(url)
<1>1. PICK asked : asked = Request!Taken(url)
  OBVIOUS
<1>2. PICK path, P, query : /\ path = asked.path /\ P = asked.parameters
                            /\ query \in Seq(Chars) /\ P = Request!Parameters(query)
                            /\ path \in Seq(Chars) /\ path # <<>>
  BY <1>1, TakenFacts
<1> DEFINE plain == \A k \in DOMAIN P : Request!IsPlain(k) /\ Request!IsPlain(P[k])
<1>3. SUFFICES ASSUME NEW order \in Request!SetToSeqs(DOMAIN P), NEW target,
                      target = Request!Target(path, P, order), NEW got, got = Request!Taken(target)
               PROVE  /\ ~ Request!Has(target, Request!Space)
                      /\ got.path = path <=> ~ Request!Has(path, Request!Query)
                      /\ ~ Request!Has(path, Request!Query) => (got.parameters = P <=> plain)
  BY <1>1, <1>2 DEF Request!TargetArrives
<1>4. got.path = Request!SetPath(Request!SplitAt(target, Request!Query)[1])
      /\ got.parameters = Request!Parameters(Request!SplitAt(target, Request!Query)[2])
  BY <1>3 DEF Request!Taken
<1>5. IsTarget(path, P, target)
  BY <1>2, <1>3, TargetFacts
<1>6. \A s \in Seq(Chars) : ~ Request!Has(Request!UrlEncode(s), Request!Space)
  <2>1. ASSUME NEW s \in Seq(Chars) PROVE ~ Request!Has(Request!UrlEncode(s), Request!Space)
    <3>1. PICK e : e = Request!UrlEncode(s)
      OBVIOUS
    <3>2. e \in Seq(Coded)
      BY <3>1, EncodeType
    <3>3. \A i \in DOMAIN e : e[i] # Request!Space
      BY <3>2, CodedFacts
    <3> QED
      BY <3>1, <3>3 DEF Request!Has
  <2> QED
    BY <2>1
<1>7. P = [k \in DOMAIN P |-> P[k]]
  BY <1>2, ParametersAt
<1>8. CASE DOMAIN P = {} /\ target = Request!UrlEncode(path)
  <2>1. ~ Request!Has(target, Request!Space)
    BY <1>2, <1>6, <1>8
  <2>2. ASSUME Request!Has(path, Request!Query) PROVE got.path # path
    <3>1. path \o <<>> = path /\ <<>> \in Seq(Chars)
      BY <1>2, ConcatEmptySeq, EmptySeq
    <3>2. Request!SetPath(Request!SplitAt(Request!UrlEncode(path \o <<>>), Request!Query)[1]) # path
      BY <1>2, <2>2, <3>1, PathCut
    <3> QED
      BY <1>4, <1>8, <3>1, <3>2
  <2>3. ASSUME ~ Request!Has(path, Request!Query)
        PROVE  got.path = path /\ (got.parameters = P <=> plain)
    <3>1. Request!SplitAt(target, Request!Query) = <<Request!UrlEncode(path), <<>>>>
      <4>1. Request!SplitAt(Request!UrlEncode(path), Request!Query)
              = <<Request!UrlEncode(path), <<>>>>
        BY <1>2, <2>3, EncodeHas, SplitNone
      <4> QED
        BY <1>8, <4>1
    <3>2. got.path = path
      BY <1>2, <1>4, <3>1, PathEncode
    <3>3. PICK G : G = Request!Parameters(<<>>)
      OBVIOUS
    <3>4. DOMAIN G = {} /\ G = [k \in DOMAIN G |-> G[k]]
      <4>1. <<>> \in Seq(Chars)
        BY EmptySeq
      <4> QED
        BY <3>3, <4>1, NoParameters, ParametersAt
    <3>5. G = P
      BY <1>7, <1>8, <3>4
    <3>6. got.parameters = G
      BY <1>4, <3>1, <3>3
    <3> QED
      BY <1>8, <3>2, <3>5, <3>6
  <2> HIDE DEF plain
  <2> QED
    BY <2>1, <2>2, <2>3
<1>9. ASSUME NEW w \in Seq(Chars), target = Request!UrlEncode(path \o <<Request!Query>> \o w),
             DOMAIN Request!Parameters(Request!UrlEncode(w))
                 = {Request!UrlEncode(k) : k \in DOMAIN P},
             \A k \in DOMAIN P : Request!Parameters(Request!UrlEncode(w))[Request!UrlEncode(k)]
                 = Request!UrlEncode(P[k])
      PROVE  /\ ~ Request!Has(target, Request!Space)
             /\ got.path = path <=> ~ Request!Has(path, Request!Query)
             /\ ~ Request!Has(path, Request!Query) => (got.parameters = P <=> plain)
  <2>1. PICK q, r : q = <<Request!Query>> /\ r = q \o w
    OBVIOUS
  <2>2. q \in Seq(Chars)
    BY <2>1, PlainFacts
  <2>3. r \in Seq(Chars)
    BY <2>1, <2>2, ConcatProperties
  <2>4. path \o r = path \o <<Request!Query>> \o w
    <3>1. path \in Seq(Chars) /\ q \in Seq(Chars) /\ w \in Seq(Chars)
      BY <1>2, <2>2
    <3>2. (path \o q) \o w = path \o (q \o w)
      BY <3>1, ConcatAssociative, SMTT(30)
    <3> QED
      BY <2>1, <3>2
  <2>5. path \o r \in Seq(Chars)
    BY <1>2, <2>3, ConcatProperties
  <2>6. ~ Request!Has(target, Request!Space)
    BY <1>6, <1>9, <2>4, <2>5
  <2>7. ASSUME Request!Has(path, Request!Query) PROVE got.path # path
    <3>1. Request!SetPath(Request!SplitAt(Request!UrlEncode(path \o r), Request!Query)[1]) # path
      BY <1>2, <2>3, <2>7, PathCut
    <3> QED
      BY <1>4, <1>9, <2>4, <3>1
  <2>8. ASSUME ~ Request!Has(path, Request!Query)
        PROVE  got.path = path /\ (got.parameters = P <=> plain)
    <3>1. Request!SplitAt(target, Request!Query) = <<Request!UrlEncode(path), Request!UrlEncode(w)>>
      BY <1>2, <1>9, <2>8, PathKept
    <3>2. got.path = path
      BY <1>2, <1>4, <3>1, PathEncode
    <3>3. PICK G : G = Request!Parameters(Request!UrlEncode(w))
      OBVIOUS
    <3>4. Request!UrlEncode(w) \in Seq(Chars)
      BY EncodeChars
    <3>5. G = [k \in DOMAIN G |-> G[k]]
      BY <3>3, <3>4, ParametersAt
    <3>6. PICK l \in Nat : l = Len(query)
      BY <1>2
    <3>7. \A k \in DOMAIN P : k \in Seq(Chars) /\ Len(k) <= l /\ P[k] \in Seq(Chars)
      <4>1. ASSUME NEW k \in DOMAIN P PROVE k \in Seq(Chars) /\ Len(k) <= l /\ P[k] \in Seq(Chars)
        <5>1. k \in Seq(Chars \ {Request!And, Request!Equal}) /\ Len(k) <= Len(query)
                /\ P[k] \in Seq(Chars \ {Request!And})
          BY <1>2, ParametersType
        <5>2. IsParameter(k, P[k])
          BY <5>1 DEF IsParameter
        <5> QED
          BY <3>6, <5>1, <5>2, ParameterChars
      <4> QED
        BY <4>1
    <3>8. /\ DOMAIN G = {Request!UrlEncode(k) : k \in DOMAIN P}
          /\ \A k \in DOMAIN P : G[Request!UrlEncode(k)] = Request!UrlEncode(P[k])
      BY <1>9, <3>3
    <3>9. G = P <=> plain
      BY <1>7, <3>5, <3>6, <3>7, <3>8, SameParameters
    <3>10. got.parameters = G
      BY <1>4, <3>1, <3>3
    <3> HIDE DEF plain
    <3> QED
      BY <3>2, <3>9, <3>10
  <2> HIDE DEF plain
  <2> QED
    BY <2>6, <2>7, <2>8
<1> HIDE DEF plain
<1> QED
  BY <1>5, <1>8, <1>9 DEF IsTarget

(* RequestArrives, which a run checks for the texts and URLs up to a bound *)
(* and TargetArrives states for one URL.                                   *)
THEOREM RequestCorrect == HttpSpec => []RequestArrives
<1>1. MaxText \in Nat
  BY SiteAssumption
<1>2. \A text \in Request!Texts(MaxText) : text \in Seq(Chars)
  <2>1. {Request!Space, Request!Percent, Request!And, Request!Plus, 50, 51, Request!Equal,
          Request!Query, 70} \subseteq Chars
    BY PlainFacts DEF Chars
  <2>2. \A S : S \subseteq Chars => \A text \in Request!BoundedSeq(S, MaxText) : text \in Seq(Chars)
    BY <1>1 DEF Request!BoundedSeq, Request!SeqOf
  <2> QED
    BY <2>1, <2>2 DEF Request!Texts
<1>3. \A url \in Request!Urls(MaxText) : url \in Seq(Chars) /\ url # <<>> /\ url[1] = Request!Slash
  <2>1. /\ <<Request!Slash>> \in Seq(Chars) /\ <<Request!Slash, Request!Query>> \in Seq(Chars)
        /\ <<50, Request!Equal>> \in Seq(Chars)
        /\ <<Request!Query, 97, Request!Equal, 50>> \in Seq(Chars) /\ <<>> \in Seq(Chars)
    BY PlainFacts DEF Chars
  <2>2. ASSUME NEW x \in Seq(Chars), x # <<>>, x[1] = Request!Slash, NEW p \in Seq(Chars),
               NEW q \in Seq(Chars)
        PROVE  x \o p \o q \in Seq(Chars) /\ x \o p \o q # <<>> /\ (x \o p \o q)[1] = Request!Slash
    <3>1. PICK y, z : y = x \o p /\ z = y \o q
      OBVIOUS
    <3>2. /\ y \in Seq(Chars) /\ Len(y) = Len(x) + Len(p)
          /\ \A i \in 1 .. Len(y) : y[i] = IF i <= Len(x) THEN x[i] ELSE p[i - Len(x)]
      BY <3>1, ConcatAt
    <3>3. Len(x) \in Nat /\ Len(x) # 0 /\ Len(p) \in Nat /\ Len(q) \in Nat
      BY <2>2
    <3>4. 1 \in 1 .. Len(y) /\ 1 <= Len(x) /\ 1 <= Len(y)
      BY <3>2, <3>3
    <3>5. y \in Seq(Chars) /\ y[1] = Request!Slash
      BY <2>2, <3>2, <3>4
    <3>6. z = y \o q /\ y \in Seq(Chars)
      BY <3>1, <3>5
    <3>7. /\ z \in Seq(Chars) /\ Len(z) = Len(y) + Len(q)
          /\ \A i \in 1 .. Len(z) : z[i] = IF i <= Len(y) THEN y[i] ELSE q[i - Len(y)]
      BY <3>6, ConcatAt
    <3>8. Len(y) \in Nat
      BY <3>5
    <3>9. 1 \in 1 .. Len(z)
      BY <3>3, <3>4, <3>7, <3>8
    <3>10. z[1] = Request!Slash /\ z # <<>>
      BY <3>4, <3>5, <3>7, <3>9
    <3> QED
      BY <3>1, <3>7, <3>10
  <2>3. /\ <<Request!Slash>> # <<>> /\ <<Request!Slash>>[1] = Request!Slash
        /\ <<Request!Slash, Request!Query>> # <<>> /\ <<Request!Slash, Request!Query>>[1]
            = Request!Slash
    OBVIOUS
  <2> QED
    <3>1. ASSUME NEW x \in Seq(Chars), x # <<>>, x[1] = Request!Slash,
                 NEW A, NEW B, A \subseteq Seq(Chars), B \subseteq Seq(Chars),
                 NEW url \in Request!Joins(x, A, B)
          PROVE  url \in Seq(Chars) /\ url # <<>> /\ url[1] = Request!Slash
      <4>1. PICK p \in A, q \in B : url = x \o p \o q
        BY DEF Request!Joins
      <4>2. p \in Seq(Chars) /\ q \in Seq(Chars)
        BY <3>1, <4>1
      <4> QED
        BY <2>2, <3>1, <4>1, <4>2
    <3>2. PICK x, y, T, P, Q : /\ x = <<Request!Slash>> /\ y = <<Request!Slash, Request!Query>>
                               /\ T = Request!Texts(MaxText)
                               /\ P = {<<>>, <<50, Request!Equal>>}
                               /\ Q = {<<>>, <<Request!Query, 97, Request!Equal, 50>>}
      OBVIOUS
    <3>3. /\ x \in Seq(Chars) /\ x # <<>> /\ x[1] = Request!Slash
          /\ y \in Seq(Chars) /\ y # <<>> /\ y[1] = Request!Slash
      BY <2>1, <2>3, <3>2
    <3>4. T \subseteq Seq(Chars) /\ P \subseteq Seq(Chars) /\ Q \subseteq Seq(Chars)
      BY <1>2, <2>1, <3>2
    <3>5. Request!Urls(MaxText) = Request!Joins(x, T, Q) \cup Request!Joins(y, P, T)
      BY <3>2 DEF Request!Urls
    <3> QED
      BY <3>1, <3>3, <3>4, <3>5
<1>4. RequestArrives
  BY <1>2, <1>3, CodecCorrect, TargetCorrect DEF RequestArrives
<1> QED
  BY <1>4, PTL
=============================================================================
