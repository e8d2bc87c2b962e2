---------------------------- MODULE HttpContext ----------------------------
(***************************************************************************)
(* nest::mm::HttpContext: the parse loop over what a connection has read,  *)
(* and the posting of messages in pieces, each sent when the write         *)
(* complete callback reports the one before.                               *)
(*                                                                         *)
(* All of it runs in the thread of the connection's loop.  A Send that the *)
(* socket takes at once calls the write complete callback before it        *)
(* returns, so Parse, the handler's callbacks, the Post functions and      *)
(* WriteComplete call each other; stack is this chain of calls, innermost  *)
(* first.  The connection is reduced to what HttpContext sees of it: a     *)
(* list of pointers to what the socket has not taken yet.                  *)
(***************************************************************************)
EXTENDS HttpParser

CONSTANTS
    Inputs,    \* what a peer may send: [text, body], see Bytes
    MaxPosts,  \* bound: Post calls of the handler
    MaxGiven   \* bound: packets remembered in given

ASSUME ContextAssumption == MaxPosts \in Nat /\ MaxGiven \in Nat \ {0}

VARIABLES
    \* receiving
    input,      \* what this peer sends
    todo,       \* its bytes that have not been read
    buf,        \* the readable part of the MsgBuffer
    parser,     \* httpParser_
    closed,     \* the connection was closed
    \* sending
    postState,  \* postState_
    headerSent, \* headerSent_, which nothing initialises
    header,     \* header_
    outPacket,  \* outPakcet_
    queue,      \* iovecList_: [in, piece], a pointer into a member or a
                \* constant, and what was there when it was queued
    stack,      \* the calls in progress
    \* histories
    given,      \* the first packets that OnRequest got
    posts,      \* Post calls so far
    posted,     \* pieces of the accepted messages
    wire,       \* pieces that were written
    owed,       \* messages without their OnSent or OnSentNextChunk
    dropped     \* a chunk was replaced by a header: see PostChunk

receiving == <<input, todo, buf, parser, closed, given>>
sending == <<postState, headerSent, header, outPacket, queue, posts, posted,
             wire, owed, dropped>>
contextVars == <<receiving, sending, stack>>

Bytes(in) == in.text \o CRLFCRLF \o in.body

(* The fields that frame the body, and the length of the first chunk. *)
Framing(in) == {in.text[i] : i \in 2 .. Len(in.text)} \ {"other"}
Chunked(in) == Framing(in) = {"chunked"}
ChunkSize(in) == ChunkLength(SubSeq(in.body, 1, Search(in.body, CRLF) - 1))

(* A message that peers send: a line and fields, of which one at most      *)
(* frames the body.  The first line of a chunked body has digits.          *)
WellFormed(in) ==
    /\ in.text \in Seq(Lines \cup Fields) /\ in.text # <<>>
    /\ in.text[1] \in Lines /\ \A i \in 2 .. Len(in.text) : in.text[i] \in Fields
    /\ \A f, g \in Framing(in) : f = g
    /\ in.body \in Seq(BodySymbols)
    /\ Chunked(in) => \A i \in 1 .. Search(in.body, CRLF) - 1 :
                          in.body[i] \in DOMAIN DigitValue

ASSUME InputsAssumption == \A in \in Inputs : WellFormed(in)

PostStates == {"Init", "Http", "HttpHeader", "HttpBody", "HttpStreamHeader",
               "HttpStreamChunk", "ChunkHeader", "ChunkLen", "ChunkBody",
               "ChunkEOF"}

(* In the loop of Parse, in a callback of the handler, before              *)
(* WriteComplete, before the assignment to headerSent_ that follows a Send.*)
Frames == {"parse", "request", "sent", "next", "complete", "mark"}

(* A piece is a part of the message of one Post call.  Lost stands for     *)
(* bytes read through a pointer whose target has been assigned to.         *)
Parts == {"head", "len", "data", "eof"}
Piece(part) == [post |-> posts + 1, part |-> part]
NoPiece == [post |-> 0, part |-> "head"]
Lost == [post |-> -1, part |-> "data"]
Pieces == [post : 1 .. MaxPosts, part : Parts] \cup {NoPiece, Lost}

ContextTypeOK ==
    /\ input \in Inputs /\ todo \in Seq(Symbols) /\ buf \in Seq(Symbols)
    /\ parser.state \in States /\ parser.chunkLen \in Int
    /\ parser.contentLen \in -1 .. Len(Bytes(input))
    /\ Len(parser.chunk.data) <= IF parser.chunk = NoPacket THEN 0
                                 ELSE parser.chunk.cap
    /\ closed \in BOOLEAN
    /\ postState \in PostStates /\ headerSent \in BOOLEAN
    /\ header \in Pieces /\ outPacket \in Pieces
    /\ queue \in Seq([in : {"header", "packet", "constant"}, piece : Pieces])
    /\ stack \in Seq(Frames)
    /\ Len(given) <= MaxGiven /\ posts \in 0 .. MaxPosts
    /\ posted \in Seq(Pieces) /\ wire \in Seq(Pieces)
    /\ owed \in 0 .. MaxPosts /\ dropped \in BOOLEAN

ContextInit ==
    /\ input \in Inputs /\ todo = Bytes(input)
    /\ buf = <<>> /\ parser = NewParser /\ closed = FALSE
    /\ postState = "Init" /\ headerSent \in BOOLEAN
    /\ header = NoPiece /\ outPacket = NoPiece /\ queue = <<>>
    /\ stack = <<>>
    /\ given = <<>> /\ posts = 0 /\ posted = <<>> /\ wire = <<>>
    /\ owed = 0 /\ dropped = FALSE

----------------------------------------------------------------------------
(* Receiving.                                                              *)

In(frame) == stack # <<>> /\ Head(stack) = frame

(* TcpConnection::OnRead has read n bytes and calls Parse. *)
Read(n) ==
    /\ stack = <<>> /\ ~closed
    /\ n <= Len(todo)
    /\ buf' = buf \o SubSeq(todo, 1, n)
    /\ todo' = Retrieve(todo, n)
    /\ stack' = <<"parse">>
    /\ UNCHANGED <<input, parser, closed, given, sending>>

(* Mutant: the loop leaves two bytes alone. *)
MoreToParse_Two == Size(buf) > 2

(* The condition of the loop: a single byte has to wait. *)
MoreToParse == Size(buf) > 1

(* One round of the loop.  An error does not leave it. *)
ParseRound ==
    /\ In("parse") /\ MoreToParse
    /\ LET r == Parse(parser, buf)
       IN  /\ parser' = r.p /\ buf' = r.buf
           /\ closed' = (closed \/ r.returned = "ExpectError")
           /\ IF r.returned \in Complete
              THEN /\ stack' = <<"request">> \o stack
                   /\ given' = IF Len(given) < MaxGiven
                               THEN Append(given, r.p.chunk) ELSE given
              ELSE UNCHANGED <<stack, given>>
    /\ UNCHANGED <<input, todo, sending>>

ParseReturns ==
    /\ In("parse") /\ ~MoreToParse
    /\ stack' = Tail(stack)
    /\ UNCHANGED <<receiving, sending>>

(* OnRequest, OnSent or OnSentNextChunk returns. *)
HandlerReturns ==
    /\ In("request") \/ In("sent") \/ In("next")
    /\ stack' = Tail(stack)
    /\ UNCHANGED <<receiving, sending>>

----------------------------------------------------------------------------
(* Sending.                                                                *)

(* TcpConnection::Send of a piece with the calls under it: refused by a    *)
(* closed connection; taken by the socket, which completes the write       *)
(* before Send returns; taken in part; or queued behind other pieces.  An  *)
(* empty header_ has no bytes to be queued.  A socket that takes nothing   *)
(* garbles the connection's output: TcpConnection models that.             *)
Send(in, piece, calls) ==
    \/ /\ closed
       /\ stack' = calls
       /\ UNCHANGED <<queue, wire>>
    \/ /\ ~closed /\ queue = <<>>
       /\ wire' = IF piece = NoPiece THEN wire ELSE Append(wire, piece)
       /\ stack' = <<"complete">> \o calls
       /\ UNCHANGED queue
    \/ /\ ~closed /\ piece # NoPiece
       /\ queue' = Append(queue, [in |-> in, piece |-> piece])
       /\ stack' = calls
       /\ UNCHANGED wire
    \/ /\ ~closed /\ queue # <<>> /\ piece = NoPiece
       /\ stack' = calls
       /\ UNCHANGED <<queue, wire>>

(* The handler may post in its callbacks, and between events.  With a      *)
(* message underway the guarded functions return false and do nothing;     *)
(* PostChunk and PostEofChunk have no guard, and a handler must not call   *)
(* them then.                                                              *)
MayPost ==
    /\ stack = <<>> \/ In("request") \/ In("sent") \/ In("next")
    /\ postState = "Init"
    /\ posts < MaxPosts
    /\ posts' = posts + 1
    /\ UNCHANGED receiving

(* Mutant: the state is set after Send, and WriteComplete has been there.  *)
PostRequest_StateAfterSend ==
    /\ MayPost
    /\ header' = Piece("head")
    /\ postState' = "Http"
    /\ queue = <<>> /\ UNCHANGED <<queue, stack>>
    /\ wire' = Append(wire, Piece("head"))
    /\ posted' = Append(posted, Piece("head"))
    /\ owed' = owed + 1
    /\ UNCHANGED <<headerSent, outPacket, dropped>>

(* PostRequest(header_and_body) *)
PostRequest ==
    /\ MayPost
    /\ header' = Piece("head")
    /\ postState' = "Http"
    /\ Send("header", Piece("head"), stack)
    /\ posted' = Append(posted, Piece("head"))
    /\ owed' = owed + 1
    /\ UNCHANGED <<headerSent, outPacket, dropped>>

(* PostRequest(header, packet) *)
PostHeaderAndPacket ==
    /\ MayPost
    /\ header' = Piece("head")
    /\ outPacket' = Piece("data")
    /\ postState' = "HttpHeader"
    /\ Send("header", Piece("head"), stack)
    /\ posted' = posted \o <<Piece("head"), Piece("data")>>
    /\ owed' = owed + 1
    /\ UNCHANGED <<headerSent, dropped>>

(* PostStreamHeader and PostChunkHeader are the same code.  The state is   *)
(* Init again before Send, so WriteComplete has nothing to do in it, and   *)
(* headerSent_ can be set in the same step.                                *)
PostStreamHeader ==
    /\ MayPost
    /\ header' = Piece("head")
    /\ Send("header", Piece("head"), stack)
    /\ headerSent' = TRUE
    /\ posted' = Append(posted, Piece("head"))
    /\ UNCHANGED <<postState, outPacket, owed, dropped>>

(* Mutant: the state of the body comes with the length. *)
PostChunk_SkipsBody ==
    /\ MayPost /\ headerSent
    /\ outPacket' = Piece("data")
    /\ header' = Piece("len")
    /\ postState' = "ChunkBody"
    /\ Send("header", Piece("len"), stack)
    /\ posted' = posted \o <<Piece("len"), Piece("data")>>
    /\ owed' = owed + 1
    /\ UNCHANGED <<headerSent, dropped>>

(* PostChunk: the length is sent from header_, the chunk follows. *)
PostChunk ==
    /\ MayPost /\ headerSent
    /\ outPacket' = Piece("data")
    /\ header' = Piece("len")
    /\ postState' = "ChunkLen"
    /\ Send("header", Piece("len"), stack)
    /\ posted' = posted \o <<Piece("len"), Piece("data")>>
    /\ owed' = owed + 1
    /\ UNCHANGED <<headerSent, dropped>>

(* PostStreamChunk *)
PostStreamChunk ==
    /\ MayPost /\ headerSent
    /\ outPacket' = Piece("data")
    /\ postState' = "HttpStreamChunk"
    /\ Send("packet", Piece("data"), stack)
    /\ posted' = Append(posted, Piece("data"))
    /\ owed' = owed + 1
    /\ UNCHANGED <<headerSent, header, dropped>>

(* Both without headerSent_: header_, whatever is in it, is sent instead   *)
(* of the packet, and headerSent_ is set when Send has returned.           *)
PostHeaderInstead ==
    /\ MayPost /\ ~headerSent
    /\ outPacket' = Piece("data")
    /\ postState' \in {"ChunkHeader", "HttpStreamHeader"}
    /\ Send("header", header, <<"mark">> \o stack)
    /\ dropped' = TRUE
    /\ UNCHANGED <<headerSent, header, posted, owed>>

MarkHeaderSent ==
    /\ In("mark")
    /\ headerSent' = TRUE
    /\ stack' = Tail(stack)
    /\ UNCHANGED <<receiving, postState, header, outPacket, queue, posts,
                   posted, wire, owed, dropped>>

(* PostEofChunk *)
PostEofChunk ==
    /\ MayPost
    /\ postState' = "ChunkEOF"
    /\ Send("constant", Piece("eof"), stack)
    /\ posted' = Append(posted, Piece("eof"))
    /\ owed' = owed + 1
    /\ UNCHANGED <<headerSent, header, outPacket, dropped>>

Post ==
    \/ PostRequest \/ PostHeaderAndPacket \/ PostStreamHeader \/ PostChunk
    \/ PostStreamChunk \/ PostHeaderInstead \/ PostEofChunk

(* WriteComplete after a header or a chunk length: the packet follows. *)
SendPacket ==
    /\ \/ postState = "HttpHeader" /\ postState' = "HttpBody"
       \/ postState = "ChunkLen" /\ postState' = "ChunkBody"
    /\ Send("packet", outPacket, Tail(stack))
    /\ UNCHANGED owed

(* WriteComplete after the last piece: the handler is told. *)
TellHandler ==
    /\ \/ /\ postState \in {"Http", "HttpBody", "ChunkEOF"}
          /\ stack' = <<"sent">> \o Tail(stack)
          /\ postState' = "Init"
       \/ /\ postState \in {"ChunkBody", "HttpStreamHeader", "HttpStreamChunk"}
          /\ stack' = <<"next">> \o Tail(stack)
          /\ postState' = "Init"
       \/ /\ postState = "ChunkHeader"
          /\ stack' = <<"next">> \o Tail(stack)
          /\ postState' = "ChunkLen"
    /\ owed' = IF dropped THEN owed ELSE owed - 1
    /\ UNCHANGED <<queue, wire>>

NothingToTell ==
    /\ postState = "Init"
    /\ stack' = Tail(stack)
    /\ UNCHANGED <<postState, queue, wire, owed>>

WriteComplete ==
    /\ In("complete")
    /\ SendPacket \/ TellHandler \/ NothingToTell
    /\ UNCHANGED <<receiving, headerSent, header, outPacket, posts, posted,
                   dropped>>

(* What the socket reads through a queued pointer. *)
Target(vec) ==
    CASE vec.in = "header" -> IF vec.piece = header THEN vec.piece ELSE Lost
      [] vec.in = "packet" -> IF vec.piece = outPacket THEN vec.piece ELSE Lost
      [] vec.in = "constant" -> vec.piece

(* TcpConnection::OnWrite: the first n queued pieces are written, and      *)
(* after the last one WriteComplete is called.                             *)
OnWrite(n) ==
    /\ stack = <<>> /\ ~closed
    /\ n <= Len(queue)
    /\ wire' = wire \o [i \in 1 .. n |-> Target(queue[i])]
    /\ queue' = Retrieve(queue, n)
    /\ stack' = IF n = Len(queue) THEN <<"complete">> ELSE <<>>
    /\ UNCHANGED <<receiving, postState, headerSent, header, outPacket, posts,
                   posted, owed, dropped>>

----------------------------------------------------------------------------
LoopThread ==
    \/ ParseRound \/ ParseReturns \/ HandlerReturns \/ WriteComplete
    \/ MarkHeaderSent

ContextNext ==
    \/ \E n \in 1 .. Len(todo) : Read(n)
    \/ \E n \in 1 .. Len(queue) : OnWrite(n)
    \/ Post
    \/ LoopThread

ContextSafetySpec == ContextInit /\ [][ContextNext]_contextVars

(* A function that is not finished goes on; handlers return. *)
ContextSpec == ContextSafetySpec /\ WF_contextVars(LoopThread)

----------------------------------------------------------------------------
(* Properties.                                                             *)

(* The packet of a message, and how many bytes of the body it ends with,   *)
(* had all bytes come in one piece: no packet, one of the length, the data *)
(* of the first chunk, or MaxBody bytes of a stream.                       *)
PacketSize(in) ==
    CASE Framing(in) = {} -> IF in.text[1] \in {"GET", "404"} THEN 0 ELSE MaxBody
      [] Chunked(in) -> ChunkSize(in)
      [] OTHER -> LengthField[CHOOSE f \in Framing(in) : TRUE]

PacketStart(in) == IF Chunked(in) THEN Search(in.body, CRLF) + 2 ELSE 1

WholePacket(in) ==
    IF PacketSize(in) = 0 THEN NoPacket
    ELSE [cap |-> PacketSize(in),
          data |-> SubSeq(in.body, PacketStart(in), PacketStart(in) + PacketSize(in) - 1)]

NeverComplete(in) ==
    Framing(in) = {"length=bad"} \/ (Chunked(in) /\ Search(in.body, CRLF) = 0)

WholeLength(in) ==
    IF NeverComplete(in) THEN Len(in.body) + 1
    ELSE PacketStart(in) - 1 + IF Chunked(in) /\ ChunkSize(in) = 0 THEN Len(CRLF)
                                                                 ELSE PacketSize(in)

(* However the bytes are split into reads, OnRequest gets the packet of    *)
(* the message: bytes of a body that came in several reads are put         *)
(* together, none twice, none of what follows.                             *)
RequestIntact ==
    given # <<>> =>
        /\ WholeLength(input) <= Len(input.body)
        /\ \A i \in 1 .. Len(given) : given[i] = WholePacket(input)

(* Types, the room left in a packet among them, and what was given. *)
RequestInv == ContextTypeOK /\ RequestIntact

(* When Parse has returned, a message that has been read to its end was    *)
(* given to the handler, unless a single byte is left (which the loop      *)
(* leaves for the next read) or the connection was closed.                 *)
Served ==
    (/\ stack = <<>> /\ ~closed
     /\ Len(Bytes(input)) - Len(todo) >=
            Len(input.text) + Len(CRLFCRLF) + WholeLength(input))
        => given # <<>> \/ Size(buf) = 1

(* No pointer was overwritten under the socket and no chunk was dropped.   *)
Clean == ~dropped /\ ~closed /\ \A i \in 1 .. Len(wire) : wire[i] # Lost

(* A step that calls OnSent or OnSentNextChunk in place of WriteComplete.  *)
Told ==
    /\ In("complete")
    /\ Len(stack') = Len(stack) /\ Head(stack') \in {"sent", "next"}

(* The handler is told that its message was sent when every piece posted   *)
(* so far is with the socket, in order, although a Send in a callback may  *)
(* complete, and tell the handler, before that callback returns.           *)
SentMeansOut ==
    [][(Told /\ Clean) => wire' = posted' /\ queue' = <<>>]_contextVars

(* Between events, each message has its one OnSent or OnSentNextChunk      *)
(* behind it, except one underway, which has a piece in the socket's       *)
(* queue: a write complete callback will come and go on with it.           *)
OneAnswerEach ==
    (stack = <<>> /\ Clean) =>
        IF postState = "Init" THEN owed = 0 ELSE owed = 1 /\ queue # <<>>

(* Every call of Parse returns. *)
EveryParseReturns ==
    (\E i \in 1 .. Len(stack) : stack[i] = "parse")
        ~> (\A i \in 1 .. Len(stack) : stack[i] # "parse")
============================================================================
