----------------------------- MODULE HttpClient -----------------------------
(***************************************************************************)
(* nest::mm::HttpClient: Get or Post of one URL, over a TcpClient and the  *)
(* DnsService.                                                             *)
(*                                                                         *)
(* Get runs in the thread of the loop.  It looks its host up in the table  *)
(* of the DnsService and, if there is nothing, enters the host and         *)
(* resolves it itself, while the service's thread and other users do what  *)
(* they do with the table.  Then it makes a TcpClient, whose connect       *)
(* callback posts the request.  What the server sends comes in segments,   *)
(* and each read hands some of them to HttpContext::Parse, which may come  *)
(* to no end: the loop's thread is lost then, or the whole process.        *)
(***************************************************************************)
EXTENDS TcpClient, SequencesExt

CONSTANTS
    Hosts, Lists, Retry,  \* see DnsService
    Site,                 \* the host of the URL
    Responses,            \* what a server may send: sequences of segments,
                          \* sequences of the symbols of HttpParser
    MaxBody, MaxChunk, MaxLine,  \* see HttpParser
    MaxText               \* bound: see Urls of HttpRequest

Families == {"v4", "v6"}

ASSUME SiteAssumption ==
    /\ Site \in Hosts
    /\ Lists \subseteq (SUBSET Families) \ {{}}
    /\ Retry \in Nat \ {0} /\ MaxText \in Nat

VARIABLES
    \* of DnsService
    hostsInfo, running, worker, stopping, rest, tries, found,
    \* of HttpClient
    get,     \* how far Get, or Post, is
    addr,    \* addr_ while Get runs: "v4" for an IPv4 address of the host,
             \* or its name
    sent,    \* the segments that have arrived
    buf,     \* the readable part of the MsgBuffer
    parser,  \* httpParser_ of the HttpContext
    answer,  \* history: the handler has got the response
    told     \* history: closeCb_(nullptr) was called

dnsVars == <<hostsInfo, running, worker, stopping, rest, tries, found>>
contextVars == <<buf, parser, answer>>
httpVars == <<get, addr, sent, contextVars, told>>
allVars == <<vars, dnsVars, httpVars>>

Dns == INSTANCE DnsService
Request == INSTANCE HttpRequest
Parser == INSTANCE HttpParser

Segments == Seq(Parser!Symbols)

ASSUME ResponsesAssumption ==
    \A r \in Responses : r \in Seq(Segments) /\ Len(r) <= MaxIn

HttpTypeOK ==
    /\ TypeOK /\ Dns!TypeOK
    /\ get \in {"none", "invalid", "add", "resolve", "connect", "wait",
                "posted"}
    /\ addr \in {"name", "v4"}
    /\ sent \in Seq(Segments) /\ arrived = Len(sent)
    /\ answer \in BOOLEAN /\ told \in BOOLEAN

HttpInit ==
    /\ Init /\ Dns!Init
    /\ get = "none" /\ addr = "name" /\ answer = FALSE /\ told = FALSE
    /\ sent = <<>> /\ buf = <<>> /\ parser = Parser!NewParser

----------------------------------------------------------------------------
(* Get and Post.                                                           *)

(* The loop's thread is inside Get. *)
InGet == get \in {"add", "resolve", "connect"}

(* UpdateConnectionStatus has called OnConnection, which is to post. *)
InOnConnection == get = "wait" /\ status = "Connected"

(* ParseUrl refuses the URL, and closeCb_ is called. *)
InvalidUrl ==
    /\ get = "none" /\ phase = "user"
    /\ get' = "invalid" /\ told' = TRUE
    /\ UNCHANGED <<vars, dnsVars, addr, sent, contextVars>>

(* The first IPv4 address of the list becomes addr_.  If it has none, the  *)
(* name stays, which connect takes for 0.0.0.0.                            *)
TakeAddress(list) == addr' = IF "v4" \in list THEN "v4" ELSE addr

(* ParseUrl asks the table. *)
ParseUrl ==
    /\ get = "none" /\ phase = "user"
    /\ LET list == Dns!GetHostAddress(Site)
       IN  /\ get' = IF list = {} THEN "add" ELSE "connect"
           /\ TakeAddress(list)
    /\ UNCHANGED <<vars, dnsVars, sent, contextVars, told>>

(* The table has no addresses: ParseUrl enters the host, ... *)
AddHost ==
    /\ get = "add" /\ get' = "resolve"
    /\ Dns!AddHost(Site)
    /\ UNCHANGED <<vars, addr, sent, contextVars, told>>

(* ... and resolves it, in this thread, without keeping the result. *)
GetHostInfo(list) ==
    /\ get = "resolve" /\ get' = "connect"
    /\ TakeAddress(list)
    /\ UNCHANGED <<vars, dnsVars, sent, contextVars, told>>

(* CreateTcpClient makes the client with addr_ and connects it. *)
CreateTcpClient ==
    /\ get = "connect" /\ get' = "wait"
    /\ Connect
    /\ addr' = "name"
    /\ UNCHANGED <<dnsVars, sent, contextVars, told>>

(* OnConnection posts the request. *)
OnConnection ==
    /\ InOnConnection
    /\ get' = "posted"
    /\ Send
    /\ UNCHANGED <<dnsVars, addr, sent, contextVars, told>>

----------------------------------------------------------------------------
(* What the server sends, and HttpContext::Parse.                          *)

(* A segment of one of the responses. *)
Segment(s) ==
    /\ Arrive
    /\ sent' = Append(sent, s)
    /\ \E r \in Responses : IsPrefix(sent', r)
    /\ UNCHANGED <<dnsVars, get, addr, contextVars, told>>

(* Mutant: an error leaves the connection open. *)
Round_NoClose(c) ==
    LET r == Parser!Parse(c.parser, c.buf)
    IN  IF Parser!Size(c.buf) <= 1 \/ Parser!UsesNull(c.parser, c.buf) THEN c
        ELSE [c EXCEPT !.parser = r.p, !.buf = r.buf,
                       !.answer = @ \/ r.returned \in Parser!Complete]

(* A round of the loop in Parse: a complete message goes to the handler,   *)
(* an error closes the connection; neither leaves the loop.  There is no   *)
(* round with a byte at most, nor in a process that has died.              *)
Round(c) ==
    LET r == Parser!Parse(c.parser, c.buf)
    IN  IF Parser!Size(c.buf) <= 1 \/ Parser!UsesNull(c.parser, c.buf) THEN c
        ELSE [parser |-> r.p, buf |-> r.buf,
              answer |-> c.answer \/ r.returned \in Parser!Complete,
              closes |-> c.closes \/ r.returned = "ExpectError"]

Reading(text) ==
    [parser |-> parser, buf |-> text, answer |-> FALSE, closes |-> FALSE]

(* HttpContext::Parse, with its one outcome.  A round takes symbols or,    *)
(* once, sets the error; so when as many rounds as there are symbols and   *)
(* one more have left two bytes or more, the rounds that follow change     *)
(* nothing, and Parse does not return.                                     *)
ContextParse(text) ==
    LET after[n \in 0 .. Len(text) + 1] ==
            IF n = 0 THEN {Reading(text)} ELSE {Round(c) : c \in after[n - 1]}
    IN  after[Len(text) + 1]

(* The process has used a null pointer. *)
Died == Parser!UsesNull(parser, buf)

(* The loop's thread does not come out of Parse. *)
Spins == buf # <<>> /\ ~Died /\ Parser!Size(buf) > 1

----------------------------------------------------------------------------
(* Callbacks of the connection.                                            *)

(* OnMessage, with the read that calls it. *)
OnMessage ==
    /\ ReadMore
    /\ LET segments == SubSeq(sent, arrived - inMsgs + 1, arrived - inMsgs')
       IN  \E c \in ContextParse(buf \o FlattenSeq(segments)) :
               /\ parser' = c.parser /\ buf' = c.buf /\ closed' = c.closes
               /\ answer' = (answer \/ c.answer)

(* Any other step of the loop. *)
OtherStep ==
    \/ Poll \/ PollOther \/ HandleError \/ HandleClosed \/ ConnectEnds
    \/ HandleRead \/ ReadEnd \/ HandleWrite \/ NoTick

InLoop(step) ==
    /\ ~Died /\ ~Spins /\ ~InGet /\ ~InOnConnection
    /\ step
    /\ UNCHANGED <<dnsVars, get, addr, sent, told>>

HttpTick == InLoop(Tick) /\ UNCHANGED contextVars

GetStep ==
    \/ AddHost \/ CreateTcpClient \/ OnConnection
    \/ \E list \in Lists \cup {{}} : GetHostInfo(list)

HttpLoopStep ==
    \/ GetStep
    \/ InLoop(OtherStep) /\ UNCHANGED contextVars
    \/ InLoop(OnMessage)
    \/ HttpTick

(* ForceClose by the user, who knows the client once it was made.  The     *)
(* handler is called in every round of a Parse that has a complete message *)
(* and does not end.                                                       *)
UserCloses ==
    /\ get \in {"wait", "posted"}
    /\ \/ InLoop(ForceClose) /\ UNCHANGED contextVars
       \/ /\ Spins /\ parser.state \in Parser!Complete
          /\ ForceClose
          /\ UNCHANGED <<dnsVars, httpVars>>

Environment ==
    \/ \E r \in Responses : \E i \in DOMAIN r : Segment(r[i])
    \/ (Establish \/ Fail \/ Shutdown \/ Drain) /\ UNCHANGED <<dnsVars, httpVars>>

(* The owner of the DnsService, and other users of it. *)
DnsUser == Dns!Start \/ Dns!Stop \/ \E h \in Hosts : Dns!AddHost(h)

(* A step of another thread of the process. *)
Thread(step) == ~Died /\ step /\ UNCHANGED <<vars, httpVars>>

HttpNext ==
    \/ InvalidUrl \/ ParseUrl \/ HttpLoopStep \/ UserCloses \/ Environment
    \/ Thread(DnsUser) \/ Thread(Dns!OnWork) \/ Thread(Dns!Joined)
    \/ Died /\ UNCHANGED allVars

(* The loop and the resolver go on, unless the thread or the process is    *)
(* lost; getaddrinfo returns, and finds a host that is looked up again and *)
(* again.  The owner of the service, the user and the server need not do   *)
(* anything.                                                               *)
HttpSpec ==
    /\ HttpInit /\ [][HttpNext]_allVars
    /\ WF_allVars(HttpLoopStep) /\ SF_allVars(HttpTick)
    /\ WF_allVars(Thread(Dns!OnWork)) /\ WF_allVars(Thread(Dns!Joined))
    /\ SF_allVars(\E list \in Lists : Thread(Dns!LookupFinds(list)))

----------------------------------------------------------------------------
(* Properties.                                                             *)

ClientInv == HttpTypeOK /\ CallbacksFollowStatus

(* Addresses that were found are never lost, whoever enters the host or    *)
(* fails to resolve it meanwhile.  A host in the table gets addresses, if  *)
(* the service is not stopped, also one entered while a round is underway; *)
(* and Stop returns, also while the client's loop spins in Parse; only the *)
(* death of the process ends the service.                                  *)
HostKept(h) == Dns!GetHostAddress(h) # {} => Dns!GetHostAddress(h)' # {}
DnsServes ==
    /\ [][\A h \in Hosts : HostKept(h)]_allVars
    /\ \A h \in Hosts :
           (h \in DOMAIN hostsInfo /\ running)
               ~> (Dns!GetHostAddress(h) # {} \/ ~running \/ Died)
    /\ stopping ~> (~stopping \/ Died)

(* Whatever URL a new client is given, the request that arrives is the     *)
(* one of the URL, as far as the two ends agree.  Decoding undoes          *)
(* encoding.  The path arrives unless its decoded form has a question      *)
(* mark, which UrlEncode does not escape; the parameters, whose values     *)
(* neither end decodes, arrive if and only if no character of theirs is    *)
(* escaped; and the target is one word of the line in any case, so that    *)
(* the line is accepted.                                                   *)
RequestArrives ==
    HttpInit =>
        /\ \A text \in Request!Texts(MaxText) :
               Request!UrlDecode(Request!UrlEncode(text)) = text
        /\ \A url \in Request!Urls(MaxText) : Request!TargetArrives(url)

(* Input of a connected client is read or the client is closed, also input *)
(* whose event was taken for the end of the connect; unless the callback   *)
(* for earlier input does not return.                                      *)
InputServed ==
    (status = "Connected" /\ HasInput)
        ~> ((inMsgs = 0 /\ ~eof) \/ closed \/ Spins \/ Died)

(* Parse was called when a header block or a line of a chunked body had    *)
(* come in part, of two bytes or more, and waits for the rest in its loop, *)
(* where nobody reads it.                                                  *)
CutLine ==
    /\ Spins
    /\ parser.state \in {"ExpectHeaders", "ExpectChunkLen", "ExpectLastEmptyChunk"}

(* Every Get ends: the handler gets the response, or the close callback    *)
(* comes, whatever resolving, connecting and the idle timeout do, and      *)
(* whatever the server sends or fails to send, but for two things.  A      *)
(* response that is read while one of its lines is not complete ends       *)
(* nothing (HttpContext::Parse does not return, and the loop that would    *)
(* count the idle time is lost); and one whose status line is not three    *)
(* words, like "HTTP/1.1 404 Not Found", ends the process.  A body may be  *)
(* cut anywhere, and an error or bytes behind the message, with which      *)
(* Parse does not return either, come after the answer or the close.       *)
GetEnds ==
    get # "none" ~> (answer \/ told \/ calls.closed > 0 \/ CutLine \/ Died)
=============================================================================
