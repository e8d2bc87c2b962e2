---------------------------- MODULE HttpRequest ----------------------------
(***************************************************************************)
(* nest::mm::HttpRequest and HttpUtils: what becomes of the head of a      *)
(* message between the two ends.  The client takes path and query out of   *)
(* the URL, decodes the path, and MakeHeaders encodes path and parameters  *)
(* into the first line; the parser of the other end splits the line and    *)
(* decodes the path.  The module has no state: it says what the functions  *)
(* compute, and compares the two ends over bounded inputs.                 *)
(*                                                                         *)
(* Text is a sequence of character codes.                                  *)
(***************************************************************************)
EXTENDS Naturals, Sequences, SequencesExt, FiniteSetsExt

Space == 32   Percent == 37  And == 38    Plus == 43
Slash == 47   Equal == 61    Query == 63

Digits == 48 .. 57
Upper == 65 .. 90
Lower == 97 .. 122

(* The characters that UrlEncode writes as they are: letters, digits and   *)
(* - _ . ! ~ * ' ( ) & = / \ ?                                             *)
Plain == Digits \cup Upper \cup Lower
             \cup {45, 95, 46, 33, 126, 42, 39, 40, 41, And, Equal, Slash, 92,
                   Query}

IsPlain(s) == \A i \in DOMAIN s : s[i] \in Plain
Has(s, c) == \E i \in DOMAIN s : s[i] = c

----------------------------------------------------------------------------
(* HttpUtils.                                                              *)

CharToHex(c) ==
    LET digit(n) == IF n > 9 THEN 65 + n - 10 ELSE 48 + n
    IN  <<digit(c \div 16), digit(c % 16)>>

Encoded(c) ==
    IF c = Space THEN <<Plus>>
    ELSE IF c \in Plain THEN <<c>> ELSE <<Percent>> \o CharToHex(c)

UrlEncode(s) ==
    LET upTo[n \in 0 .. Len(s)] ==
            IF n = 0 THEN <<>> ELSE upTo[n - 1] \o Encoded(s[n])
    IN  upTo[Len(s)]

HexValue == [c \in Digits \cup 65 .. 70 \cup 97 .. 102 |->
                IF c \in Digits THEN c - 48
                ELSE IF c \in Upper THEN c - 55 ELSE c - 87]

(* Mutant: the last two digits of the text are not looked at. *)
Escape_OffByOne(s, i) ==
    /\ s[i] = Percent /\ i + 2 < Len(s)
    /\ {s[i + 1], s[i + 2]} \subseteq DOMAIN HexValue

(* An escape of two hexadecimal digits stands at i. *)
Escape(s, i) ==
    /\ s[i] = Percent /\ i + 2 <= Len(s)
    /\ {s[i + 1], s[i + 2]} \subseteq DOMAIN HexValue

(* A percent sign that begins no escape stands for itself. *)
UrlDecode(s) ==
    LET from[i \in 1 .. Len(s) + 1] ==
            IF i > Len(s) THEN <<>>
            ELSE IF Escape(s, i)
            THEN <<HexValue[s[i + 1]] * 16 + HexValue[s[i + 2]]>> \o from[i + 3]
            ELSE <<IF s[i] = Plus THEN Space ELSE s[i]>> \o from[i + 1]
    IN  from[1]

NeedUrlDecoding(s) == Has(s, Plus) \/ Has(s, Percent)

(* Trim: isspace at both ends. *)
Trim(s) ==
    LET kept == {i \in DOMAIN s : s[i] \notin {Space} \cup 9 .. 13}
    IN  IF kept = {} THEN <<>> ELSE SubSeq(s, Min(kept), Max(kept))

----------------------------------------------------------------------------
(* HttpRequest.                                                            *)

(* The first c of s splits it in two; without one all of it comes first. *)
SplitAt(s, c) ==
    IF Has(s, c)
    THEN LET i == Min({j \in DOMAIN s : s[j] = c})
         IN  <<SubSeq(s, 1, i - 1), SubSeq(s, i + 1, Len(s))>>
    ELSE <<s, <<>>>>

(* StringUtils::SplitString with one character, as a set of places.  It    *)
(* also gives empty pieces, from which nothing is made here.               *)
Pieces(s, c) ==
    {p \in (DOMAIN s) \X (DOMAIN s) :
        /\ p[1] <= p[2]
        /\ p[1] = 1 \/ s[p[1] - 1] = c
        /\ p[2] = Len(s) \/ s[p[2] + 1] = c
        /\ \A i \in p[1] .. p[2] : s[i] # c}

(* SetQuery, ParseParameters: of pieces with the same key the last wins. *)
Parameters(query) ==
    LET pieces == {p \in Pieces(query, And) :
                      Has(SubSeq(query, p[1], p[2]), Equal)}
        pair(p) == SplitAt(SubSeq(query, p[1], p[2]), Equal)
        key(p) == Trim(pair(p)[1])
        last(k) == CHOOSE p \in pieces :
                       /\ key(p) = k
                       /\ \A q \in pieces : key(q) = k => q[1] <= p[1]
    IN  [k \in {key(p) : p \in pieces} |-> Trim(pair(last(k))[2])]

SetPath(s) == IF NeedUrlDecoding(s) THEN UrlDecode(s) ELSE s

(* ParseUrl of the client and ProcessMethodLine of the parser take a       *)
(* target apart in the same way.                                           *)
Taken(target) ==
    [path |-> SetPath(SplitAt(target, Query)[1]),
     parameters |-> Parameters(SplitAt(target, Query)[2])]

(* AppendRequestFirstLine: the target it writes, with the parameters in    *)
(* the order in which the unordered map has them.                          *)
List(parameters, order) ==
    LET pair(k) == k \o <<Equal>> \o parameters[k]
        upTo[n \in 0 .. Len(order)] ==
            IF n = 0 THEN <<>>
            ELSE upTo[n - 1] \o <<IF n = 1 THEN Query ELSE And>> \o pair(order[n])
    IN  upTo[Len(order)]

Target(path, parameters, order) ==
    UrlEncode((IF path = <<>> THEN <<Slash>> ELSE path) \o List(parameters, order))

----------------------------------------------------------------------------
(* Properties.                                                             *)

(* What the other end takes from the target, against what the URL said:    *)
(* the request keeps its path and parameters except where characters of   *)
(* theirs are not escaped that should be, or are escaped and not decoded.  *)
TargetArrives(url) ==
    LET sent == Taken(url)
        keys == DOMAIN sent.parameters
        plain == \A k \in keys : IsPlain(k) /\ IsPlain(sent.parameters[k])
    IN  \A order \in SetToSeqs(keys) :
            LET target == Target(sent.path, sent.parameters, order)
                got == Taken(target)
            IN  /\ ~Has(target, Space)
                /\ got.path = sent.path <=> ~Has(sent.path, Query)
                /\ (~Has(sent.path, Query)
                        => (got.parameters = sent.parameters <=> plain))

(* Texts of up to n characters: letters, the digits of an escaped          *)
(* question mark, space and plus, and the characters with a meaning.       *)
Texts(n) == BoundedSeq({Space, Percent, And, Plus, 50, 51, Equal, Query, 70}, n)

(* "/" text, "/" text "?a=2", "/?" text and "/?2=" text *)
Joins(x, A, B) == {x \o p \o q : p \in A, q \in B}
Urls(n) ==
    Joins(<<Slash>>, Texts(n), {<<>>, <<Query, 97, Equal, 50>>})
    \cup Joins(<<Slash, Query>>, {<<>>, <<50, Equal>>}, Texts(n))
=============================================================================
