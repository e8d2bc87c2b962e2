----------------------------- MODULE HttpParser -----------------------------
(***************************************************************************)
(* nest::mm::HttpParser: one call of Parse as a function of the parser's   *)
(* members and the readable part of the MsgBuffer.                         *)
(*                                                                         *)
(* The bytes are symbols.  The text of a header block is a method or       *)
(* status line (one symbol that counts as two bytes) and header fields; it *)
(* ends with "r", "l", "r", "l".  The symbols of a body are "r", "l",      *)
(* digits of chunk lengths and letters.  Of the members, reason_ and the   *)
(* flags isStream_ and isChunked_ are never read by Parse.                 *)
(***************************************************************************)
EXTENDS Integers, Sequences, FiniteSets

CONSTANTS
    MaxBody,   \* kHttpMaxBodySize, in symbols
    MaxChunk,  \* the largest chunk length that is not an error
    MaxLine    \* the longest chunk length line without CRLF (32)

ASSUME HttpLimits ==
    MaxBody \in Nat \ {0} /\ MaxChunk \in Nat /\ MaxLine \in Nat

Lines == {"GET", "POST", "200", "404"}
BadLine == "404 Not Found"  \* any first line that is not three words

(* "other" is any field that does not frame the body: it includes          *)
(* "transfer-encoding: chunked" with the usual space, which the parser     *)
(* keeps in the value and does not recognise.                              *)
LengthField == [f \in {"length=0", "length=1", "length=3"} |->
                    CASE f = "length=0" -> 0
                      [] f = "length=1" -> 1
                      [] f = "length=3" -> 3]
Fields == DOMAIN LengthField \cup {"length=bad", "chunked", "other"}

DigitValue == [d \in {"0", "1", "2", "3"} |->
                  CASE d = "0" -> 0 [] d = "1" -> 1 [] d = "2" -> 2
                    [] d = "3" -> 3]
Letters == {"a", "b", "c", "d", "e", "f"}
BodySymbols == {"r", "l"} \cup DOMAIN DigitValue \cup Letters
Symbols == Lines \cup {BadLine} \cup Fields \cup BodySymbols

States == {"ExpectHeaders", "ExpectNormalBody", "ExpectStreamBody",
           "ExpectHttpComplete", "ExpectChunkLen", "ExpectChunkBody",
           "ExpectChunkComplete", "ExpectLastEmptyChunk", "ExpectError"}
Complete == {"ExpectHttpComplete", "ExpectChunkComplete"}

(* chunk_: a Packet with its capacity, or none. *)
NoPacket == [cap |-> -1, data |-> <<>>]
NewPacket(size) == [cap |-> size, data |-> <<>>]
Space(packet) == packet.cap - Len(packet.data)

NewParser == [state |-> "ExpectHeaders", chunkLen |-> 0, contentLen |-> 0,
              chunk |-> NoPacket]

(* ReadableBytes *)
Size(buf) ==
    Len(buf) + Cardinality({i \in 1 .. Len(buf) : buf[i] \in Lines \cup {BadLine}})

Retrieve(buf, n) == SubSeq(buf, n + 1, Len(buf))

(* Where mark begins in buf, 0 if it does not occur: std::search. *)
Search(buf, mark) ==
    LET at == {i \in 1 .. Len(buf) - Len(mark) + 1 :
                  SubSeq(buf, i, i + Len(mark) - 1) = mark}
    IN  IF at = {} THEN 0 ELSE CHOOSE i \in at : \A j \in at : i <= j

CRLF == <<"r", "l">>
CRLFCRLF == CRLF \o CRLF

Result(p, buf, returned) == [p |-> p, buf |-> buf, returned |-> returned]
Parsed(p, buf) == Result(p, buf, p.state)

----------------------------------------------------------------------------
(* ParseHeaders on a well-formed block: the framing of the body. *)
ParseHeaders(p, text) ==
    LET line == text[1]
        has(f) == \E i \in 2 .. Len(text) : text[i] = f
        lengths == {f \in DOMAIN LengthField : has(f)}
    IN  IF lengths # {}
        THEN LET n == LengthField[CHOOSE f \in lengths : TRUE]
             IN  [p EXCEPT !.contentLen = n,
                           !.state = IF n = 0 THEN "ExpectHttpComplete"
                                              ELSE "ExpectNormalBody"]
        ELSE IF has("length=bad") THEN [p EXCEPT !.state = "ExpectError"]
        ELSE IF has("chunked") THEN [p EXCEPT !.state = "ExpectChunkLen"]
        ELSE IF line \in {"GET", "404"}
        THEN [p EXCEPT !.chunkLen = 0, !.state = "ExpectHttpComplete"]
        ELSE [p EXCEPT !.contentLen = -1, !.state = "ExpectStreamBody"]

(* ProcessMethodLine makes no req_ for a line that is not three words, and *)
(* ParseHeaders goes on with the null pointer: the process dies.  Parse is *)
(* to be used only where this does not hold.                               *)
UsesNull(p, buf) ==
    /\ p.state = "ExpectHeaders"
    /\ buf # <<>> /\ buf[1] = BadLine
    /\ Search(buf, CRLFCRLF) > 0

(* kExpectHeaders: without the end of the block, kExpectContinue is        *)
(* returned and the state stays.                                           *)
ParseHead(p, buf) ==
    LET end == Search(buf, CRLFCRLF)
    IN  IF Size(buf) > Len(CRLFCRLF) /\ end > 0
        THEN Parsed(ParseHeaders(p, SubSeq(buf, 1, end - 1)),
                    Retrieve(buf, end + Len(CRLFCRLF) - 1))
        ELSE IF Size(buf) > Len(CRLFCRLF) /\ Size(buf) > MaxBody
        THEN Parsed([p EXCEPT !.state = "ExpectError"], buf)
        ELSE Result(p, buf, "ExpectContinue")

(* Mutant: every call makes a packet of its own. *)
Fill_Anew(p, buf, capacity) ==
    LET packet == NewPacket(capacity)
        n == IF Size(buf) < Space(packet) THEN Size(buf) ELSE Space(packet)
    IN  [packet |-> [packet EXCEPT !.data = @ \o SubSeq(buf, 1, n)], n |-> n]

(* What the three body parsers begin with: the packet is made if there is  *)
(* none and takes what is readable and fits.                               *)
Fill(p, buf, capacity) ==
    LET packet == IF p.chunk = NoPacket THEN NewPacket(capacity) ELSE p.chunk
        n == IF Size(buf) < Space(packet) THEN Size(buf) ELSE Space(packet)
    IN  [packet |-> [packet EXCEPT !.data = @ \o SubSeq(buf, 1, n)], n |-> n]

ParseNormalBody(p, buf) ==
    LET f == Fill(p, buf, p.contentLen)
        left == p.contentLen - f.n
    IN  Parsed([p EXCEPT !.chunk = f.packet, !.contentLen = left,
                         !.state = IF left = 0 THEN "ExpectHttpComplete" ELSE @],
               Retrieve(buf, f.n))

ParseStream(p, buf) ==
    LET f == Fill(p, buf, MaxBody)
    IN  Parsed([p EXCEPT !.chunk = f.packet,
                         !.state = IF Space(f.packet) = 0
                                   THEN "ExpectChunkComplete" ELSE @],
               Retrieve(buf, f.n))

ParseChunk(p, buf) ==
    LET f == Fill(p, buf, p.chunkLen)
        left == p.chunkLen - f.n
    IN  Parsed([p EXCEPT !.chunk = f.packet, !.chunkLen = left,
                         !.state = IF left = 0 \/ Space(f.packet) = 0
                                   THEN "ExpectChunkComplete" ELSE @],
               Retrieve(buf, f.n))

(* strtol, base 16 *)
ChunkLength(digits) ==
    LET value[n \in 0 .. Len(digits)] ==
            IF n = 0 THEN 0 ELSE 16 * value[n - 1] + DigitValue[digits[n]]
    IN  value[Len(digits)]

(* kExpectChunkLen.  A length above MaxChunk sets the error state, which   *)
(* the assignments that follow overwrite: it has no effect.                *)
ParseChunkLen(p, buf) ==
    LET crlf == Search(buf, CRLF)
        length == ChunkLength(SubSeq(buf, 1, crlf - 1))
        tooLarge == IF length > MaxChunk THEN [p EXCEPT !.state = "ExpectError"]
                                         ELSE p
    IN  IF crlf > 0
        THEN Parsed([tooLarge EXCEPT
                        !.chunkLen = length,
                        !.state = IF length = 0 THEN "ExpectLastEmptyChunk"
                                                ELSE "ExpectChunkBody"],
                    Retrieve(buf, crlf + 1))
        ELSE IF Size(buf) > MaxLine
        THEN Parsed([p EXCEPT !.state = "ExpectError"], <<>>)
        ELSE Parsed(p, buf)

ParseLastEmptyChunk(p, buf) ==
    LET crlf == Search(buf, CRLF)
    IN  IF crlf > 0
        THEN Parsed([p EXCEPT !.chunk = NoPacket,
                              !.state = "ExpectChunkComplete"],
                    Retrieve(buf, crlf + 1))
        ELSE Parsed(p, buf)

(* HttpParser::Parse.  A completed message or an error stays. *)
Parse(p, buf) ==
    CASE p.state = "ExpectHeaders" -> ParseHead(p, buf)
      [] p.state = "ExpectNormalBody" -> ParseNormalBody(p, buf)
      [] p.state = "ExpectStreamBody" -> ParseStream(p, buf)
      [] p.state = "ExpectChunkLen" -> ParseChunkLen(p, buf)
      [] p.state = "ExpectChunkBody" -> ParseChunk(p, buf)
      [] p.state = "ExpectLastEmptyChunk" -> ParseLastEmptyChunk(p, buf)
      [] OTHER -> Parsed(p, buf)
============================================================================
