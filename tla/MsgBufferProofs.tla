-------------------------- MODULE MsgBufferProofs --------------------------
(***************************************************************************)
(* Proofs about MsgBuffer, for bytes, offsets, capacities and operations   *)
(* of any size: the indices stay valid, and the buffer is a queue of bytes.*)
(***************************************************************************)
EXTENDS MsgBuffer, SequenceTheorems, TLAPS

(* What holds of the buffer between any two operations. *)
IsBuffer(b) ==
    /\ b \in [mem : {b.mem}, size : Nat, head : Nat, tail : Nat, initCap : Nat]
    /\ b.mem \in [0 .. b.size - 1 -> Byte]
    /\ b.head <= b.tail /\ b.tail <= b.size
    /\ b.size = b.initCap + kBufferOffset /\ b.initCap >= InitCap

----------------------------------------------------------------------------
(* Sequences.                                                              *)

(* A function on 1 .. n is a sequence of length n. *)
LEMMA FunctionIsSeq ==
    ASSUME NEW S, NEW n \in Nat, NEW f \in [1 .. n -> S]
    PROVE  f \in Seq(S) /\ Len(f) = n
<1>1. f \in Seq(S)
  BY SeqDef
<1>2. DOMAIN f = 1 .. n /\ DOMAIN f = 1 .. Len(f) /\ Len(f) \in Nat
  BY <1>1, LenProperties
<1>3. Len(f) = n
  BY <1>2
<1> QED
  BY <1>1, <1>3

(* The two parts of a sequence make it up. *)
LEMMA SplitSeq ==
    ASSUME NEW S, NEW s \in Seq(S), NEW n \in 0 .. Len(s)
    PROVE  /\ SubSeq(s, 1, n) \in Seq(S) /\ Len(SubSeq(s, 1, n)) = n
           /\ SubSeq(s, n + 1, Len(s)) \in Seq(S)
           /\ Len(SubSeq(s, n + 1, Len(s))) = Len(s) - n
           /\ SubSeq(s, 1, n) \o SubSeq(s, n + 1, Len(s)) = s
<1>1. Len(s) \in Nat /\ \A i \in 1 .. Len(s) : s[i] \in S
  BY LenProperties, ElementOfSeq
<1> DEFINE a == SubSeq(s, 1, n)  z == SubSeq(s, n + 1, Len(s))
<1>2. a \in Seq(S) /\ Len(a) = n /\ \A i \in 1 .. n : a[i] = s[i]
  <2>1. \A i \in 1 .. n : s[i] \in S
    BY <1>1
  <2> QED
    BY <1>1, <2>1, SubSeqProperties
<1>3. z \in Seq(S) /\ Len(z) = Len(s) - n
      /\ \A i \in 1 .. Len(s) - n : z[i] = s[n + i]
  <2>1. \A i \in n + 1 .. Len(s) : s[i] \in S
    BY <1>1
  <2>2. /\ z \in Seq(S)
        /\ Len(z) = IF n + 1 <= Len(s) THEN Len(s) - (n + 1) + 1 ELSE 0
        /\ \A i \in 1 .. Len(s) - (n + 1) + 1 : z[i] = s[n + 1 + i - 1]
    BY <1>1, <2>1, SubSeqProperties
  <2> QED
    BY <1>1, <2>2
<1> HIDE DEF a, z
<1>4. a \o z \in Seq(S) /\ Len(a \o z) = Len(s)
      /\ \A i \in 1 .. Len(s) : (a \o z)[i] = IF i <= n THEN a[i] ELSE z[i - n]
  BY <1>1, <1>2, <1>3, ConcatProperties
<1>5. \A i \in 1 .. Len(s) : (a \o z)[i] = s[i]
  BY <1>1, <1>2, <1>3, <1>4
<1>6. a \o z = s
  BY <1>4, <1>5, SeqEqual
<1> QED
  BY <1>2, <1>3, <1>6 DEF a, z

(* Reversing twice is reversing not at all: what htonl does ntohl undoes. *)
LEMMA ReverseTwice ==
    ASSUME NEW S, NEW s \in Seq(S)
    PROVE  /\ Reverse(s) \in Seq(S) /\ Len(Reverse(s)) = Len(s)
           /\ Reverse(Reverse(s)) = s
<1>1. ASSUME NEW t \in Seq(S)
      PROVE  /\ Reverse(t) \in Seq(S) /\ Len(Reverse(t)) = Len(t)
             /\ \A i \in 1 .. Len(t) : Reverse(t)[i] = t[Len(t) - i + 1]
  <2>1. Len(t) \in Nat /\ \A i \in 1 .. Len(t) : t[i] \in S
    BY LenProperties, ElementOfSeq
  <2>2. Reverse(t) = [i \in 1 .. Len(t) |-> t[(Len(t) - i) + 1]]
    BY DEF Reverse
  <2>3. Reverse(t) \in [1 .. Len(t) -> S]
    BY <2>1, <2>2
  <2> QED
    BY <2>1, <2>2, <2>3, FunctionIsSeq
<1>2. Len(s) \in Nat
  BY LenProperties
<1> DEFINE r == Reverse(s)
<1>3. /\ r \in Seq(S) /\ Len(r) = Len(s)
      /\ \A i \in 1 .. Len(s) : r[i] = s[Len(s) - i + 1]
  BY <1>1
<1> HIDE DEF r
<1>4. /\ Reverse(r) \in Seq(S) /\ Len(Reverse(r)) = Len(s)
      /\ \A i \in 1 .. Len(s) : Reverse(r)[i] = r[Len(s) - i + 1]
  BY <1>1, <1>3
<1>5. ASSUME NEW i \in 1 .. Len(s) PROVE Reverse(r)[i] = s[i]
  <2>1. Len(s) - i + 1 \in 1 .. Len(s) /\ Len(s) - (Len(s) - i + 1) + 1 = i
    BY <1>2
  <2> QED
    BY <1>3, <1>4, <2>1
<1>6. Reverse(r) = s
  BY <1>4, <1>5, SeqEqual
<1> QED
  BY <1>3, <1>6 DEF r

----------------------------------------------------------------------------
(* The helpers of MsgBuffer.                                               *)

(* The readable bytes, one by one. *)
LEMMA ContentProperties ==
    ASSUME NEW b, IsBuffer(b)
    PROVE  /\ ReadableBytes(b) \in Nat
           /\ Content(b) \in Seq(Byte) /\ Len(Content(b)) = ReadableBytes(b)
           /\ \A i \in 1 .. ReadableBytes(b) :
                  Content(b)[i] = b.mem[b.head + i - 1]
<1>1. ReadableBytes(b) \in Nat
  BY DEF IsBuffer, ReadableBytes
<1>2. \A i \in 1 .. ReadableBytes(b) : b.head + i - 1 \in 0 .. b.size - 1
  BY DEF IsBuffer, ReadableBytes
<1>3. Content(b) \in [1 .. ReadableBytes(b) -> Byte]
  BY <1>1, <1>2 DEF Content, IsBuffer
<1> QED
  BY <1>1, <1>3, FunctionIsSeq DEF Content

(* Every write of the buffer: it stays a buffer, ... *)
LEMMA MemcpyKeeps ==
    ASSUME NEW b, IsBuffer(b), NEW at \in Nat, NEW s \in Seq(Byte),
           NEW head \in Nat, NEW tail \in Nat, head <= tail, tail <= b.size
    PROVE  IsBuffer(Memcpy(b, at, s, head, tail))
<1> DEFINE c == Memcpy(b, at, s, head, tail)
<1>1. Len(s) \in Nat /\ \A i \in 1 .. Len(s) : s[i] \in Byte
  BY LenProperties, ElementOfSeq
<1>2. /\ c.size = b.size /\ c.head = head /\ c.tail = tail
      /\ c.initCap = b.initCap
      /\ c.mem = [i \in 0 .. b.size - 1 |->
                     IF at <= i /\ i < at + Len(s) THEN s[i - at + 1]
                     ELSE b.mem[i]]
      /\ c \in [mem : {c.mem}, size : {b.size}, head : {head}, tail : {tail},
                initCap : {b.initCap}]
  BY DEF Memcpy, IsBuffer
<1>3. \A i \in 0 .. b.size - 1 : c.mem[i] \in Byte
  BY <1>1, <1>2 DEF IsBuffer
<1> QED
  BY <1>2, <1>3 DEF IsBuffer

(* ... and this is what can be read afterwards. *)
LEMMA MemcpyContent ==
    ASSUME NEW b, IsBuffer(b), NEW at \in Nat, NEW s \in Seq(Byte),
           NEW head \in Nat, NEW tail \in Nat, head <= tail, tail <= b.size
    PROVE  \A i \in 1 .. tail - head :
               Content(Memcpy(b, at, s, head, tail))[i] =
                   IF at <= head + i - 1 /\ head + i - 1 < at + Len(s)
                   THEN s[head + i - at] ELSE b.mem[head + i - 1]
<1> DEFINE c == Memcpy(b, at, s, head, tail)
<1>1. /\ c.head = head /\ c.tail = tail
      /\ c.mem = [i \in 0 .. b.size - 1 |->
                     IF at <= i /\ i < at + Len(s) THEN s[i - at + 1]
                     ELSE b.mem[i]]
  BY DEF Memcpy, IsBuffer
<1>2. ReadableBytes(c) = tail - head
  BY <1>1 DEF ReadableBytes
<1>3. IsBuffer(c)
  BY MemcpyKeeps
<1> HIDE DEF c
<1>4. \A i \in 1 .. tail - head : Content(c)[i] = c.mem[head + i - 1]
  <2>1. \A i \in 1 .. ReadableBytes(c) : Content(c)[i] = c.mem[c.head + i - 1]
    BY <1>3, ContentProperties
  <2> QED
    BY <1>1, <1>2, <2>1
<1>5. ASSUME NEW i \in 1 .. tail - head
      PROVE  Content(c)[i] = IF at <= head + i - 1 /\ head + i - 1 < at + Len(s)
                             THEN s[head + i - at] ELSE b.mem[head + i - 1]
  <2>1. head + i - 1 \in 0 .. b.size - 1 /\ head + i - 1 - at + 1 = head + i - at
    BY SMTT(20) DEF IsBuffer
  <2> QED
    BY <1>1, <1>4, <2>1
<1> QED
  BY <1>5 DEF c

(* A constructed buffer is empty and has the room it was asked for. *)
LEMMA NewBufferProperties ==
    ASSUME NEW len \in Nat, len >= InitCap
    PROVE  /\ IsBuffer(NewBuffer(len)) /\ WritableBytes(NewBuffer(len)) = len
           /\ Content(NewBuffer(len)) = <<>>
<1> DEFINE b == NewBuffer(len)
<1>1. 0 \in Byte
  BY BufferAssumption DEF Byte
<1>2. /\ b.size = len + kBufferOffset /\ b.head = kBufferOffset
      /\ b.tail = kBufferOffset /\ b.initCap = len
      /\ b.mem = [i \in 0 .. len + kBufferOffset - 1 |-> 0]
      /\ b \in [mem : {b.mem}, size : {len + kBufferOffset},
                head : {kBufferOffset}, tail : {kBufferOffset}, initCap : {len}]
  BY DEF NewBuffer
<1>3. IsBuffer(b)
  BY <1>1, <1>2, BufferAssumption DEF IsBuffer
<1>4. WritableBytes(b) = len /\ ReadableBytes(b) = 0
  BY <1>2, BufferAssumption DEF WritableBytes, ReadableBytes
<1> HIDE DEF b
<1>5. Content(b) = <<>>
  BY <1>3, <1>4, ContentProperties, EmptySeq
<1> QED
  BY <1>3, <1>4, <1>5 DEF b

(* Writing behind the readable bytes appends to them. *)
LEMMA AppendInPlaceProperties ==
    ASSUME NEW b, IsBuffer(b), NEW s \in Seq(Byte), Len(s) <= WritableBytes(b)
    PROVE  /\ IsBuffer(AppendInPlace(b, s))
           /\ Content(AppendInPlace(b, s)) = Content(b) \o s
           /\ WritableBytes(AppendInPlace(b, s)) = WritableBytes(b) - Len(s)
<1> DEFINE c == AppendInPlace(b, s)  h == b.head  t == b.tail  n == Len(s)
           d == Content(b) \o s
<1>1. /\ n \in Nat /\ h \in Nat /\ t \in Nat /\ t + n \in Nat
      /\ h <= t /\ h <= t + n /\ t + n <= b.size
  BY LenProperties DEF IsBuffer, WritableBytes
<1>2. c = Memcpy(b, t, s, h, t + n)
  BY DEF AppendInPlace
<1>3. /\ d \in Seq(Byte) /\ Len(d) = t - h + n
      /\ \A i \in 1 .. t - h + n : d[i] = IF i <= t - h THEN b.mem[h + i - 1]
                                         ELSE s[i - (t - h)]
  <2>1. /\ Content(b) \in Seq(Byte) /\ Len(Content(b)) = t - h
        /\ \A i \in 1 .. t - h : Content(b)[i] = b.mem[h + i - 1]
    BY ContentProperties DEF ReadableBytes
  <2>2. /\ d \in Seq(Byte) /\ Len(d) = Len(Content(b)) + n
        /\ \A i \in 1 .. Len(Content(b)) + n :
               d[i] = IF i <= Len(Content(b)) THEN Content(b)[i]
                      ELSE s[i - Len(Content(b))]
    BY <2>1, ConcatProperties
  <2> HIDE DEF d, h, t, n
  <2> QED
    BY <1>1, <2>1, <2>2
<1>4. WritableBytes(c) = WritableBytes(b) - n
  BY <1>1 DEF AppendInPlace, Memcpy, WritableBytes, IsBuffer
<1>5. c.head = h /\ c.tail = t + n
  BY DEF AppendInPlace, Memcpy, IsBuffer
<1> HIDE DEF c, d, h, t, n
<1>6. IsBuffer(c)
  BY <1>1, <1>2, MemcpyKeeps
<1>7. \A i \in 1 .. t + n - h :
          Content(c)[i] = IF t <= h + i - 1 /\ h + i - 1 < t + Len(s)
                          THEN s[h + i - t] ELSE b.mem[h + i - 1]
  BY <1>1, <1>2, MemcpyContent
<1>8. ASSUME NEW i \in 1 .. t + n - h PROVE Content(c)[i] = d[i]
  <2>1. i \in 1 .. t - h + n /\ h + i - t = i - (t - h)
        /\ (i <= t - h <=> ~(t <= h + i - 1)) /\ h + i - 1 < t + n
    BY <1>1
  <2> QED
    BY <1>3, <1>7, <2>1 DEF n
<1>9. Content(c) = d
  <2>1. Content(c) \in Seq(Byte) /\ Len(Content(c)) = t + n - h
    <3>1. ReadableBytes(c) = t + n - h
      BY <1>1, <1>5 DEF ReadableBytes
    <3> QED
      BY <1>6, <3>1, ContentProperties
  <2>2. Len(Content(c)) = Len(d) /\ \A i \in 1 .. Len(d) : Content(c)[i] = d[i]
    BY <1>1, <1>3, <1>8, <2>1
  <2> QED
    BY <1>3, <2>1, <2>2, SeqEqual
<1> QED
  BY <1>4, <1>6, <1>9 DEF c, d, n

(* What is written where the readable bytes are to be is all of them. *)
LEMMA MemcpyAll ==
    ASSUME NEW b, IsBuffer(b), NEW at \in Nat, NEW d \in Seq(Byte),
           at + Len(d) <= b.size
    PROVE  /\ IsBuffer(Memcpy(b, at, d, at, at + Len(d)))
           /\ Content(Memcpy(b, at, d, at, at + Len(d))) = d
<1> DEFINE n == Len(d)  h == at  e == at + n  c == Memcpy(b, at, d, h, e)
<1>1. n \in Nat /\ e \in Nat /\ h \in Nat /\ h <= e /\ e <= b.size /\ e - h = n /\ h = at
  BY LenProperties
<1>2. c.head = at /\ c.tail = e
  BY DEF Memcpy, IsBuffer
<1>3. c = Memcpy(b, at, d, h, e)
  OBVIOUS
<1> HIDE DEF n, h, e, c
<1>4. IsBuffer(c)
  BY <1>1, <1>3, MemcpyKeeps
<1>5. \A i \in 1 .. e - h :
          Content(c)[i] = IF at <= h + i - 1 /\ h + i - 1 < at + Len(d)
                          THEN d[h + i - at] ELSE b.mem[h + i - 1]
  BY <1>1, <1>3, MemcpyContent, SMTT(60)
<1>6. ASSUME NEW i \in 1 .. n PROVE Content(c)[i] = d[i]
  <2>1. i \in 1 .. e - h /\ h + i - at = i
        /\ at <= h + i - 1 /\ h + i - 1 < at + n
    BY <1>1
  <2> QED
    BY <1>5, <2>1 DEF n
<1>7. Content(c) = d
  <2>1. ReadableBytes(c) = n
    BY <1>1, <1>2 DEF ReadableBytes
  <2>2. Content(c) \in Seq(Byte) /\ Len(Content(c)) = n
    BY <1>4, <2>1, ContentProperties
  <2> QED
    BY <1>6, <2>2, SeqEqual DEF n
<1> QED
  BY <1>4, <1>7 DEF c, e, h, n

(* Moving the readable bytes to the front keeps them, and the space before *)
(* them comes behind them.                                                 *)
LEMMA MoveToFrontProperties ==
    ASSUME NEW b, IsBuffer(b), b.head >= kBufferOffset
    PROVE  /\ IsBuffer(MoveToFront(b)) /\ Content(MoveToFront(b)) = Content(b)
           /\ WritableBytes(MoveToFront(b))
                  = b.head - kBufferOffset + WritableBytes(b)
<1>1. Content(b) \in Seq(Byte) /\ Len(Content(b)) = ReadableBytes(b)
  BY ContentProperties
<1>2. kBufferOffset \in Nat /\ kBufferOffset + ReadableBytes(b) <= b.size
  BY BufferAssumption DEF IsBuffer, ReadableBytes
<1>3. MoveToFront(b) = Memcpy(b, kBufferOffset, Content(b), kBufferOffset,
                              kBufferOffset + Len(Content(b)))
  BY <1>1 DEF MoveToFront
<1>4. IsBuffer(MoveToFront(b)) /\ Content(MoveToFront(b)) = Content(b)
  BY <1>1, <1>2, <1>3, MemcpyAll, ZenonT(40)
<1>5. WritableBytes(MoveToFront(b)) = b.head - kBufferOffset + WritableBytes(b)
  BY <1>2 DEF MoveToFront, Memcpy, IsBuffer, WritableBytes, ReadableBytes
<1> QED
  BY <1>4, <1>5

(* Moving to a larger buffer keeps the readable bytes and makes room. *)
LEMMA GrowProperties ==
    ASSUME NEW b, IsBuffer(b), NEW len \in Nat
    PROVE  /\ IsBuffer(Grow(b, len)) /\ Content(Grow(b, len)) = Content(b)
           /\ WritableBytes(Grow(b, len)) >= len
<1> DEFINE size == Larger(2 * b.size, kBufferOffset + ReadableBytes(b) + len)
           new == NewBuffer(size)
<1>1. /\ Content(b) \in Seq(Byte) /\ Len(Content(b)) = ReadableBytes(b)
      /\ ReadableBytes(b) \in Nat
  BY ContentProperties
<1>2. size \in Nat /\ size >= InitCap /\ size >= ReadableBytes(b) + len
  <2>1. b.size \in Nat /\ b.size >= InitCap /\ InitCap \in Nat
        /\ kBufferOffset \in Nat
    BY BufferAssumption DEF IsBuffer
  <2>2. size \in Nat /\ size >= 2 * b.size
        /\ size >= kBufferOffset + ReadableBytes(b) + len
    BY <1>1, <2>1 DEF Larger
  <2> HIDE DEF size
  <2> QED
    BY <1>1, <2>1, <2>2
<1> HIDE DEF size
<1>3. IsBuffer(new) /\ WritableBytes(new) = size /\ Content(new) = <<>>
  BY <1>2, NewBufferProperties
<1>4. Grow(b, len) = AppendInPlace(new, Content(b))
  BY DEF Grow, size
<1> HIDE DEF new
<1>5. Len(Content(b)) <= WritableBytes(new)
  BY <1>1, <1>2, <1>3
<1>6. /\ IsBuffer(AppendInPlace(new, Content(b)))
      /\ Content(AppendInPlace(new, Content(b))) = Content(new) \o Content(b)
      /\ WritableBytes(AppendInPlace(new, Content(b)))
             = WritableBytes(new) - Len(Content(b))
  BY <1>1, <1>3, <1>5, AppendInPlaceProperties
<1>7. <<>> \o Content(b) = Content(b)
  BY <1>1, ConcatEmptySeq
<1>8. size - ReadableBytes(b) >= len
  BY <1>1, <1>2
<1> QED
  BY <1>1, <1>3, <1>4, <1>6, <1>7, <1>8

(* EnsureWritableBytes makes room, whichever way it goes, and nothing that *)
(* can be read changes.                                                    *)
LEMMA EnsureWritableBytesProperties ==
    ASSUME NEW b, IsBuffer(b), NEW len \in Nat
    PROVE  /\ IsBuffer(EnsureWritableBytes(b, len))
           /\ Content(EnsureWritableBytes(b, len)) = Content(b)
           /\ WritableBytes(EnsureWritableBytes(b, len)) >= len
<1>1. WritableBytes(b) \in Nat /\ b.head \in Nat
  BY DEF IsBuffer, WritableBytes
<1>2. CASE WritableBytes(b) >= len
  BY <1>2 DEF EnsureWritableBytes
<1>3. CASE ~(WritableBytes(b) >= len)
           /\ b.head + WritableBytes(b) >= len + kBufferOffset
  <2>1. b.head >= kBufferOffset
        /\ b.head - kBufferOffset + WritableBytes(b) >= len
    BY <1>1, <1>3, BufferAssumption
  <2>2. EnsureWritableBytes(b, len) = MoveToFront(b)
    BY <1>3 DEF EnsureWritableBytes
  <2> QED
    BY <2>1, <2>2, MoveToFrontProperties
<1>4. CASE ~(WritableBytes(b) >= len)
           /\ ~(b.head + WritableBytes(b) >= len + kBufferOffset)
  BY <1>4, GrowProperties DEF EnsureWritableBytes
<1> QED
  BY <1>2, <1>3, <1>4

LEMMA AppendToProperties ==
    ASSUME NEW b, IsBuffer(b), NEW s \in Seq(Byte)
    PROVE  IsBuffer(AppendTo(b, s)) /\ Content(AppendTo(b, s)) = Content(b) \o s
<1> DEFINE c == EnsureWritableBytes(b, Len(s))
<1>1. Len(s) \in Nat
  BY LenProperties
<1>2. IsBuffer(c) /\ Content(c) = Content(b) /\ Len(s) <= WritableBytes(c)
  <2>1. WritableBytes(c) >= Len(s) /\ IsBuffer(c) /\ Content(c) = Content(b)
    BY <1>1, EnsureWritableBytesProperties
  <2>2. WritableBytes(c) \in Int
    BY <2>1 DEF IsBuffer, WritableBytes
  <2> HIDE DEF c
  <2> QED
    BY <1>1, <2>1, <2>2
<1>3. AppendTo(b, s) = AppendInPlace(c, s)
  BY DEF AppendTo
<1> HIDE DEF c
<1> QED
  BY <1>2, <1>3, AppendInPlaceProperties

(* AddInFront puts the bytes before the readable ones, in each of the      *)
(* three ways it does that.                                                *)
LEMMA PrependProperties ==
    ASSUME NEW b, IsBuffer(b), NEW s \in Seq(Byte)
    PROVE  IsBuffer(Prepend(b, s)) /\ Content(Prepend(b, s)) = s \o Content(b)
<1> DEFINE n == Len(s)  h == b.head  t == b.tail  d == s \o Content(b)
<1>1. /\ n \in Nat /\ h \in Nat /\ t \in Nat /\ h <= t /\ t <= b.size
      /\ b.size \in Nat /\ b.initCap \in Nat /\ b.initCap >= InitCap
      /\ ReadableBytes(b) = t - h /\ WritableBytes(b) = b.size - t
  BY LenProperties DEF IsBuffer, ReadableBytes, WritableBytes
<1>2. /\ d \in Seq(Byte) /\ Len(d) = n + t - h
      /\ \A i \in 1 .. n + t - h : d[i] = IF i <= n THEN s[i]
                                         ELSE b.mem[h + i - n - 1]
  <2>1. /\ Content(b) \in Seq(Byte) /\ Len(Content(b)) = t - h
        /\ \A i \in 1 .. t - h : Content(b)[i] = b.mem[h + i - 1]
    BY ContentProperties DEF ReadableBytes
  <2>2. /\ d \in Seq(Byte) /\ Len(d) = n + Len(Content(b))
        /\ \A i \in 1 .. n + Len(Content(b)) :
               d[i] = IF i <= n THEN s[i] ELSE Content(b)[i - n]
    BY <2>1, ConcatProperties
  <2> HIDE DEF d, h, t, n
  <2>3. ASSUME NEW i \in 1 .. n + t - h, i > n
        PROVE  Content(b)[i - n] = b.mem[h + i - n - 1]
    <3>1. i - n \in 1 .. t - h /\ h + (i - n) - 1 = h + i - n - 1
      BY <1>1, <2>3
    <3> QED
      BY <2>1, <3>1
  <2> QED
    BY <1>1, <2>1, <2>2, <2>3
<1>3. CASE h >= n
  \* into the space before the data
  <2> DEFINE k == h - n  c == Memcpy(b, k, s, k, t)
  <2>1. Prepend(b, s) = c
    BY <1>3 DEF Prepend
  <2>2. k \in Nat /\ k <= t /\ t - k = n + t - h /\ h = k + n
    BY <1>1, <1>3
  <2>3. c.head = k /\ c.tail = t
    BY DEF Memcpy, IsBuffer
  <2> HIDE DEF d, h, t, n, k
  <2>4. IsBuffer(c)
    BY <1>1, <2>2, MemcpyKeeps
  <2>5. \A i \in 1 .. t - k :
            Content(c)[i] = IF k <= k + i - 1 /\ k + i - 1 < k + Len(s)
                            THEN s[k + i - k] ELSE b.mem[k + i - 1]
    BY <1>1, <2>2, MemcpyContent
  <2> HIDE DEF c
  <2>6. ASSUME NEW i \in 1 .. t - k PROVE Content(c)[i] = d[i]
    <3>1. /\ i \in 1 .. n + t - h /\ k + i - k = i /\ k <= k + i - 1
          /\ (k + i - 1 < k + n <=> i <= n) /\ h + i - n - 1 = k + i - 1
      BY <1>1, <2>2
    <3> QED
      BY <1>2, <2>5, <3>1 DEF n
  <2>7. ReadableBytes(c) = t - k
    BY <2>2, <2>3 DEF ReadableBytes
  <2>8. Content(c) \in Seq(Byte) /\ Len(Content(c)) = t - k
    BY <2>4, <2>7, ContentProperties
  <2>9. Content(c) = d
    BY <1>2, <2>2, <2>6, <2>8, SeqEqual
  <2> QED
    BY <2>1, <2>4, <2>9 DEF d
<1>4. CASE ~(h >= n) /\ n <= WritableBytes(b)
  \* by moving the data up
  <2>1. Prepend(b, s) = Memcpy(b, h, d, h, t + n)
    BY <1>4 DEF Prepend
  <2> HIDE DEF d, h, t, n
  <2>2. t + n = h + Len(d) /\ h + Len(d) <= b.size
    BY <1>1, <1>2, <1>4
  <2>3. IsBuffer(b) /\ Prepend(b, s) = Memcpy(b, h, d, h, h + Len(d))
    BY <2>1, <2>2
  <2>4. IsBuffer(Prepend(b, s)) /\ Content(Prepend(b, s)) = d
    BY <1>1, <1>2, <2>2, <2>3, MemcpyAll
  <2> QED
    BY <2>4 DEF d
<1>5. CASE ~(h >= n) /\ ~(n <= WritableBytes(b))
  \* in a new buffer
  <2> DEFINE size == Larger(b.initCap, n + ReadableBytes(b))
             new == NewBuffer(size)
  <2>1. Prepend(b, s) = AppendInPlace(new, d)
    BY <1>5 DEF Prepend
  <2> HIDE DEF d, h, t, n
  <2>2. size \in Nat /\ size >= InitCap /\ size >= Len(d)
    BY <1>1, <1>2, BufferAssumption DEF Larger
  <2> HIDE DEF size
  <2>3. IsBuffer(new) /\ Content(new) = <<>> /\ Len(d) <= WritableBytes(new)
    <3>1. IsBuffer(new) /\ WritableBytes(new) = size /\ Content(new) = <<>>
      BY <2>2, NewBufferProperties
    <3> QED
      BY <1>1, <1>2, <2>2, <3>1
  <2> HIDE DEF new
  <2>4. /\ IsBuffer(AppendInPlace(new, d))
        /\ Content(AppendInPlace(new, d)) = Content(new) \o d
    BY <1>2, <2>3, AppendInPlaceProperties
  <2>5. <<>> \o d = d
    BY <1>2, ConcatEmptySeq
  <2> QED
    BY <2>1, <2>3, <2>4, <2>5 DEF d
<1> QED
  BY <1>3, <1>4, <1>5

(* RetrieveAll: the vector keeps its size. *)
LEMMA ClearedProperties ==
    ASSUME NEW b, IsBuffer(b)
    PROVE  IsBuffer(Cleared(b)) /\ Content(Cleared(b)) = <<>>
<1>1. ~(b.size > 2 * b.initCap)
  BY BufferAssumption DEF IsBuffer
<1>2. Cleared(b) = [b EXCEPT !.size = b.size,
                             !.mem = [i \in 0 .. b.size - 1 |-> b.mem[i]],
                             !.head = kBufferOffset, !.tail = kBufferOffset]
  BY <1>1 DEF Cleared
<1>3. IsBuffer(Cleared(b))
  <2> DEFINE c == Cleared(b)
  <2>1. /\ c.size = b.size /\ c.initCap = b.initCap
        /\ c.head = kBufferOffset /\ c.tail = kBufferOffset
        /\ c.mem = [i \in 0 .. b.size - 1 |-> b.mem[i]]
        /\ c \in [mem : {c.mem}, size : {b.size}, head : {kBufferOffset},
                  tail : {kBufferOffset}, initCap : {b.initCap}]
    BY <1>2 DEF IsBuffer
  <2>2. c.mem \in [0 .. b.size - 1 -> Byte]
    BY <2>1 DEF IsBuffer
  <2> HIDE DEF c
  <2> QED
    BY <2>1, <2>2, BufferAssumption DEF IsBuffer, c
<1>4. ReadableBytes(Cleared(b)) = 0
  BY <1>2, BufferAssumption DEF IsBuffer, ReadableBytes
<1> QED
  BY <1>3, <1>4, ContentProperties, EmptySeq

(* Bytes that are given up at either end: what is left is a part of what   *)
(* could be read.                                                          *)
LEMMA NarrowedProperties ==
    ASSUME NEW b, IsBuffer(b), NEW x \in Nat, NEW y \in Nat,
           x + y <= ReadableBytes(b), NEW first, first = x + 1,
           NEW c, c \in [mem : {b.mem}, size : {b.size}, head : {b.head + x},
                         tail : {b.tail - y}, initCap : {b.initCap}]
    PROVE  /\ IsBuffer(c)
           /\ Content(c) = SubSeq(Content(b), first, Len(Content(b)) - y)
<1> DEFINE n == ReadableBytes(b)  k == n - y  d == SubSeq(Content(b), x + 1, k)
<1>1. /\ n \in Nat /\ Content(b) \in Seq(Byte) /\ Len(Content(b)) = n
      /\ \A i \in 1 .. n : Content(b)[i] = b.mem[b.head + i - 1]
  BY ContentProperties
<1>2. /\ k \in Nat /\ x <= k /\ k <= n
      /\ b.head \in Nat /\ b.tail \in Nat /\ n = b.tail - b.head
  BY <1>1 DEF IsBuffer, ReadableBytes
<1>3. /\ c.size = b.size /\ c.initCap = b.initCap /\ c.mem = b.mem
      /\ c.head = b.head + x /\ c.tail = b.tail - y
      /\ c \in [mem : {c.mem}, size : {b.size}, head : {b.head + x},
                tail : {b.tail - y}, initCap : {b.initCap}]
  OBVIOUS
<1> HIDE DEF n, k
<1>4. ReadableBytes(c) = k - x
  BY <1>1, <1>2, <1>3, SMTT(20) DEF ReadableBytes, k
<1>5. IsBuffer(c)
  <2>1. /\ b.head + x \in Nat /\ b.tail - y \in Nat
        /\ b.head + x <= b.tail - y /\ b.tail - y <= b.size
    BY <1>1, <1>2, SMTT(20) DEF IsBuffer, k
  <2> QED
    BY <1>3, <2>1 DEF IsBuffer
<1>6. /\ d \in Seq(Byte) /\ Len(d) = k - x
      /\ \A i \in 1 .. k - x : d[i] = Content(b)[x + i]
  <2>1. \A i \in x + 1 .. k : Content(b)[i] \in Byte
    BY <1>1, <1>2, ElementOfSeq, SMTT(20)
  <2>2. /\ d \in Seq(Byte)
        /\ Len(d) = IF x + 1 <= k THEN k - (x + 1) + 1 ELSE 0
        /\ \A i \in 1 .. k - (x + 1) + 1 : d[i] = Content(b)[x + 1 + i - 1]
    BY <1>2, <2>1, SubSeqProperties
  <2>3. k - (x + 1) + 1 = k - x /\ \A i \in 1 .. k - x : x + 1 + i - 1 = x + i
    BY <1>2
  <2> HIDE DEF d
  <2> QED
    BY <1>2, <2>2, <2>3
<1> HIDE DEF d
<1>7. ASSUME NEW i \in 1 .. k - x PROVE Content(c)[i] = d[i]
  <2>1. Content(c)[i] = c.mem[c.head + i - 1]
    BY <1>4, <1>5, ContentProperties
  <2>2. x + i \in 1 .. n /\ b.head + x + i - 1 = b.head + (x + i) - 1
    BY <1>1, <1>2
  <2>3. Content(b)[x + i] = b.mem[b.head + x + i - 1]
    BY <1>1, <2>2
  <2> QED
    BY <1>3, <1>6, <2>1, <2>3
<1>8. Content(c) \in Seq(Byte) /\ Len(Content(c)) = k - x
  BY <1>4, <1>5, ContentProperties
<1>9. Content(c) = d
  BY <1>6, <1>7, <1>8, SeqEqual
<1> QED
  BY <1>1, <1>5, <1>9 DEF d, k

LEMMA RetrievedProperties ==
    ASSUME NEW b, IsBuffer(b), NEW len \in Nat
    PROVE  /\ IsBuffer(Retrieved(b, len))
           /\ Content(Retrieved(b, len))
                  = SubSeq(Content(b), len + 1, Len(Content(b)))
<1>1. /\ ReadableBytes(b) \in Nat /\ Len(Content(b)) = ReadableBytes(b)
      /\ Content(b) \in Seq(Byte)
  BY ContentProperties
<1>2. CASE len >= ReadableBytes(b)
  <2>1. SubSeq(Content(b), len + 1, Len(Content(b))) = <<>>
    BY <1>1, <1>2, SubSeqEmpty
  <2> QED
    BY <1>2, <2>1, ClearedProperties DEF Retrieved
<1>3. CASE ~(len >= ReadableBytes(b))
  <2> DEFINE c == [b EXCEPT !.head = @ + len]
  <2>1. c \in [mem : {b.mem}, size : {b.size}, head : {b.head + len},
              tail : {b.tail - 0}, initCap : {b.initCap}]
    BY DEF IsBuffer
  <2>2. len + 0 <= ReadableBytes(b) /\ Len(Content(b)) - 0 = Len(Content(b))
    BY <1>1, <1>3
  <2>3. Retrieved(b, len) = c
    BY <1>3 DEF Retrieved
  <2> HIDE DEF c
  <2>4. /\ IsBuffer(c)
        /\ Content(c) = SubSeq(Content(b), len + 1, Len(Content(b)) - 0)
    BY <2>1, <2>2, NarrowedProperties
  <2> QED
    BY <2>2, <2>3, <2>4
<1> QED
  BY <1>2, <1>3

(* Unwrite *)
LEMMA UnwrittenProperties ==
    ASSUME NEW b, IsBuffer(b), NEW offset \in Nat, ReadableBytes(b) >= offset,
           NEW c, c = [b EXCEPT !.tail = @ - offset]
    PROVE  /\ IsBuffer(c)
           /\ Content(c) = SubSeq(Content(b), 1, Len(Content(b)) - offset)
<1> DEFINE x == 0
<1>1. c \in [mem : {b.mem}, size : {b.size}, head : {b.head + x},
            tail : {b.tail - offset}, initCap : {b.initCap}]
  BY DEF IsBuffer
<1>2. ReadableBytes(b) \in Nat
  BY ContentProperties
<1>3. x \in Nat /\ x + offset <= ReadableBytes(b) /\ 1 = x + 1
  BY <1>2
<1> HIDE DEF x
<1> QED
  BY <1>1, <1>3, NarrowedProperties

----------------------------------------------------------------------------
(* The operations.  Each is one of these as far as the readable bytes and  *)
(* the histories are concerned, however it moves and allocates.            *)

Appended(s) ==
    op' = Call("append", s, 0) /\ Content(m') = Content(m) \o s
        /\ front' = front
PutInFront(s) ==
    op' = Call("addInFront", s, 0) /\ Content(m') = s \o Content(m)
        /\ front' = IF s = <<>> THEN front ELSE <<>>
IntPutInFront(int) ==
    op' = Call("addInFront", Reverse(int), 0)
        /\ Content(m') = Reverse(int) \o Content(m) /\ front' = int
Taken(n) ==
    op' = Call("retrieve", <<>>, n)
        /\ Content(m') = SubSeq(Content(m), n + 1, Len(Content(m)))
        /\ (front' = <<>> \/ (n = 0 /\ front' = front))
TakenBack(n) ==
    op' = Call("unwrite", <<>>, n) /\ n <= Len(Content(m))
        /\ Content(m') = SubSeq(Content(m), 1, Len(Content(m)) - n)
        /\ front' = IF Len(Content(m)) - n >= Len(front) THEN front ELSE <<>>
RoomMade(n) ==
    op' = Call("ensureWritable", <<>>, n) /\ Content(m') = Content(m)
        /\ front' = front

Effect ==
    \/ \E s \in Seq(Byte) : Appended(s) \/ PutInFront(s)
    \/ \E int \in Ints : IntPutInFront(int)
    \/ \E n \in Nat : Taken(n) \/ TakenBack(n) \/ RoomMade(n)
    \/ UNCHANGED <<m, front, op>>

(* The memory part of the invariant. *)
MemInv == IsBuffer(m) /\ reserved \in Nat /\ reserved <= WritableBytes(m)

(* A new buffer that nobody has reserved space in. *)
LEMMA BecomesKeeps ==
    ASSUME NEW b, IsBuffer(b), Becomes(b)
    PROVE  MemInv' /\ m' = b
<1>1. m' = b /\ reserved' = 0
  BY DEF Becomes
<1>2. IsBuffer(m') /\ WritableBytes(m') \in Nat
  BY <1>1 DEF IsBuffer, WritableBytes
<1> QED
  BY <1>1, <1>2 DEF MemInv, IsBuffer, WritableBytes

LEMMA StringsAreSeqs ==
    /\ \A s \in Strings : s \in Seq(Byte)
    /\ \A int \in Ints :
           /\ int \in Seq(Byte) /\ int # <<>>
           /\ Reverse(int) \in Seq(Byte) /\ Len(Reverse(int)) = Len(int)
           /\ Reverse(Reverse(int)) = int
<1>1. ASSUME NEW s \in Strings PROVE s \in Seq(Byte)
  <2>1. PICK n \in 0 .. MaxLen : s \in [1 .. n -> Byte]
    BY DEF Strings
  <2> QED
    BY <2>1, FunctionIsSeq
<1>2. ASSUME NEW int \in Ints PROVE int \in Seq(Byte) /\ int # <<>>
  <2>1. PICK n \in IntLens : int \in [1 .. n -> Byte]
    BY DEF Ints
  <2>2. n \in Nat \ {0}
    BY BufferAssumption
  <2>3. int \in Seq(Byte) /\ Len(int) = n
    BY <2>1, <2>2, FunctionIsSeq
  <2> QED
    BY <2>2, <2>3, EmptySeq
<1> QED
  BY <1>1, <1>2, ReverseTwice

LEMMA AppendStringEffect ==
    ASSUME MemInv, NEW s \in Seq(Byte), AppendString(s)
    PROVE  MemInv' /\ Appended(s)
<1>1. IsBuffer(AppendTo(m, s)) /\ Content(AppendTo(m, s)) = Content(m) \o s
  BY AppendToProperties DEF MemInv
<1>2. MemInv' /\ m' = AppendTo(m, s)
  BY <1>1, BecomesKeeps DEF AppendString
<1> QED
  BY <1>1, <1>2 DEF AppendString, Appended

LEMMA ReadFdEffect ==
    ASSUME MemInv, NEW s \in Seq(Byte), ReadFd(s)
    PROVE  MemInv' /\ Appended(s)
<1> DEFINE w == WritableBytes(m)
<1>1. Len(s) \in Nat /\ w \in Nat /\ IsBuffer(m)
  BY LenProperties DEF MemInv, IsBuffer, WritableBytes
<1>2. CASE Len(s) <= w
  <2>1. /\ IsBuffer(AppendInPlace(m, s))
        /\ Content(AppendInPlace(m, s)) = Content(m) \o s
    BY <1>1, <1>2, AppendInPlaceProperties
  <2>2. MemInv' /\ m' = AppendInPlace(m, s)
    BY <1>2, <2>1, BecomesKeeps DEF ReadFd
  <2> QED
    BY <2>1, <2>2 DEF ReadFd, Appended
<1>3. CASE ~(Len(s) <= w)
  \* the second part comes from the buffer on the stack
  <2> DEFINE x == SubSeq(s, 1, w)  y == SubSeq(s, w + 1, Len(s))
             c == AppendInPlace(m, x)
  <2>1. w \in 0 .. Len(s)
    BY <1>1, <1>3
  <2>2. x \in Seq(Byte) /\ Len(x) = w /\ y \in Seq(Byte) /\ x \o y = s
    BY <2>1, SplitSeq
  <2>3. Becomes(AppendTo(c, y)) /\ op' = Call("append", s, 0) /\ front' = front
    BY <1>3 DEF ReadFd
  <2> HIDE DEF x, y
  <2>4. IsBuffer(c) /\ Content(c) = Content(m) \o x
    BY <1>1, <2>2, AppendInPlaceProperties
  <2> HIDE DEF c
  <2>5. /\ IsBuffer(AppendTo(c, y))
        /\ Content(AppendTo(c, y)) = (Content(m) \o x) \o y
    BY <2>2, <2>4, AppendToProperties
  <2>6. MemInv' /\ m' = AppendTo(c, y)
    BY <2>3, <2>5, BecomesKeeps
  <2>7. (Content(m) \o x) \o y = Content(m) \o s
    <3>1. Content(m) \in Seq(Byte)
      BY <1>1, ContentProperties
    <3>2. \A t, u, v \in Seq(Byte) : (t \o u) \o v = t \o (u \o v)
      BY ConcatAssociative
    <3>3. (Content(m) \o x) \o y = Content(m) \o (x \o y)
      BY <2>2, <3>1, <3>2
    <3> QED
      BY <2>2, <3>3
  <2> QED
    BY <2>3, <2>5, <2>6, <2>7 DEF Appended
<1> QED
  BY <1>2, <1>3

LEMMA HasWrittenEffect ==
    ASSUME MemInv, NEW s \in Seq(Byte), HasWritten(s)
    PROVE  MemInv' /\ Appended(s)
<1>1. /\ Len(s) \in Nat /\ Len(s) <= reserved /\ reserved \in Nat
      /\ reserved <= WritableBytes(m) /\ WritableBytes(m) \in Nat /\ IsBuffer(m)
      /\ m' = AppendInPlace(m, s) /\ reserved' = reserved - Len(s)
  BY LenProperties DEF MemInv, HasWritten, IsBuffer, WritableBytes
<1>2. Len(s) <= WritableBytes(m)
  BY <1>1
<1>3. /\ IsBuffer(AppendInPlace(m, s))
      /\ Content(AppendInPlace(m, s)) = Content(m) \o s
      /\ WritableBytes(AppendInPlace(m, s)) = WritableBytes(m) - Len(s)
  BY <1>1, <1>2, AppendInPlaceProperties
<1>4. IsBuffer(m') /\ reserved' \in Nat /\ reserved' <= WritableBytes(m')
  BY <1>1, <1>3
<1> QED
  BY <1>1, <1>3, <1>4
  DEF HasWritten, Appended, MemInv, IsBuffer, WritableBytes

LEMMA ReserveEffect ==
    ASSUME MemInv, NEW n \in Nat, Reserve(n)
    PROVE  MemInv' /\ RoomMade(n)
<1>1. /\ IsBuffer(EnsureWritableBytes(m, n))
      /\ Content(EnsureWritableBytes(m, n)) = Content(m)
      /\ WritableBytes(EnsureWritableBytes(m, n)) >= n
  BY EnsureWritableBytesProperties DEF MemInv
<1>2. m' = EnsureWritableBytes(m, n) /\ reserved' = n
  BY DEF Reserve
<1>3. WritableBytes(m') \in Int
  BY <1>1, <1>2 DEF IsBuffer, WritableBytes
<1>4. IsBuffer(m') /\ reserved' \in Nat /\ reserved' <= WritableBytes(m')
  BY <1>1, <1>2, <1>3
<1> QED
  BY <1>1, <1>2, <1>4 DEF Reserve, RoomMade, MemInv, IsBuffer, WritableBytes

LEMMA AddInFrontEffect ==
    ASSUME MemInv, NEW s \in Seq(Byte)
    PROVE  /\ AddInFront(s) => MemInv' /\ PutInFront(s)
           /\ \A int : s = Reverse(int) /\ AddInFrontInt(int)
                         => MemInv' /\ IntPutInFront(int)
<1>1. IsBuffer(Prepend(m, s)) /\ Content(Prepend(m, s)) = s \o Content(m)
  BY PrependProperties DEF MemInv
<1>2. Becomes(Prepend(m, s)) => MemInv' /\ m' = Prepend(m, s)
  BY <1>1, BecomesKeeps
<1>3. AddInFront(s) => MemInv' /\ PutInFront(s)
  BY <1>1, <1>2 DEF AddInFront, PutInFront
<1>4. ASSUME NEW int, s = Reverse(int), AddInFrontInt(int)
      PROVE  MemInv' /\ IntPutInFront(int)
  <2>1. Becomes(Prepend(m, s)) /\ op' = Call("addInFront", s, 0) /\ front' = int
    BY <1>4 DEF AddInFrontInt, HostToNetwork
  <2> QED
    BY <1>1, <1>2, <1>4, <2>1 DEF IntPutInFront
<1> QED
  BY <1>3, <1>4

LEMMA RetrieveEffect ==
    ASSUME MemInv, NEW n \in Nat, Retrieve(n)
    PROVE  MemInv' /\ Taken(n)
<1>1. /\ IsBuffer(Retrieved(m, n))
      /\ Content(Retrieved(m, n)) = SubSeq(Content(m), n + 1, Len(Content(m)))
  BY RetrievedProperties DEF MemInv
<1>2. MemInv' /\ m' = Retrieved(m, n)
  BY <1>1, BecomesKeeps DEF Retrieve
<1> QED
  BY <1>1, <1>2 DEF Retrieve, Taken

LEMMA RetrieveAllEffect ==
    ASSUME MemInv, RetrieveAll
    PROVE  MemInv' /\ Taken(ReadableBytes(m)) /\ ReadableBytes(m) \in Nat
<1> DEFINE n == ReadableBytes(m)
<1>1. n \in Nat /\ Content(m) \in Seq(Byte) /\ Len(Content(m)) = n
  BY ContentProperties DEF MemInv
<1>2. IsBuffer(Cleared(m)) /\ Content(Cleared(m)) = <<>>
  BY ClearedProperties DEF MemInv
<1>3. MemInv' /\ m' = Cleared(m)
  BY <1>2, BecomesKeeps DEF RetrieveAll
<1>4. op' = Call("retrieve", <<>>, n) /\ front' = <<>>
  BY DEF RetrieveAll
<1> HIDE DEF n
<1>5. SubSeq(Content(m), n + 1, Len(Content(m))) = <<>>
  BY <1>1, SubSeqEmpty
<1> QED
  BY <1>1, <1>2, <1>3, <1>4, <1>5 DEF Taken, n

LEMMA UnwriteEffect ==
    ASSUME MemInv, NEW n \in Nat, Unwrite(n)
    PROVE  MemInv' /\ TakenBack(n)
<1> DEFINE c == [m EXCEPT !.tail = @ - n]
<1>1. /\ ReadableBytes(m) >= n /\ Becomes(c) /\ op' = Call("unwrite", <<>>, n)
      /\ front' = IF ReadableBytes(m) - n >= Len(front) THEN front ELSE <<>>
  BY DEF Unwrite
<1>2. c = [m EXCEPT !.tail = @ - n]
  OBVIOUS
<1> HIDE DEF c
<1>3. /\ IsBuffer(c)
      /\ Content(c) = SubSeq(Content(m), 1, Len(Content(m)) - n)
  BY <1>1, <1>2, UnwrittenProperties DEF MemInv
<1>4. MemInv' /\ m' = c
  BY <1>1, <1>3, BecomesKeeps
<1>5. Len(Content(m)) = ReadableBytes(m) /\ ReadableBytes(m) \in Nat
  BY ContentProperties DEF MemInv
<1> QED
  BY <1>1, <1>3, <1>4, <1>5 DEF TakenBack

LEMMA StepEffect ==
    ASSUME MemInv, [Next]_vars
    PROVE  MemInv' /\ Effect
<1>1. ASSUME NEW s \in Strings,
             AppendString(s) \/ AddInFront(s) \/ ReadFd(s) \/ HasWritten(s)
      PROVE  MemInv' /\ Effect
  <2>1. s \in Seq(Byte)
    BY StringsAreSeqs
  <2>2. MemInv' /\ (Appended(s) \/ PutInFront(s))
    BY <1>1, <2>1, AppendStringEffect, AddInFrontEffect, ReadFdEffect,
       HasWrittenEffect
  <2> QED
    BY <2>1, <2>2 DEF Effect
<1>2. ASSUME NEW int \in Ints, AppendInt(int) PROVE MemInv' /\ Effect
  <2>1. Reverse(int) \in Seq(Byte) /\ AppendString(Reverse(int))
    BY <1>2, StringsAreSeqs DEF AppendInt, HostToNetwork
  <2>2. MemInv' /\ Appended(Reverse(int))
    BY <2>1, AppendStringEffect
  <2> QED
    BY <2>1, <2>2 DEF Effect
<1>3. ASSUME NEW int \in Ints, AddInFrontInt(int) PROVE MemInv' /\ Effect
  <2>1. Reverse(int) \in Seq(Byte)
    BY StringsAreSeqs
  <2>2. MemInv' /\ IntPutInFront(int)
    BY <1>3, <2>1, AddInFrontEffect
  <2> QED
    BY <2>2 DEF Effect
<1>4. ASSUME NEW n \in Nat, Retrieve(n) \/ Reserve(n) \/ Unwrite(n)
      PROVE  MemInv' /\ Effect
  BY <1>4, RetrieveEffect, ReserveEffect, UnwriteEffect DEF Effect
<1>5. ASSUME NEW n \in IntLens, ReadInt(n) PROVE MemInv' /\ Effect
  <2>1. n \in Nat /\ Retrieve(n)
    BY <1>5, BufferAssumption DEF ReadInt
  <2> QED
    BY <2>1, <1>4
<1>6. CASE RetrieveAll
  BY <1>6, RetrieveAllEffect DEF Effect
<1>7. CASE UNCHANGED vars
  BY <1>7 DEF vars, MemInv, Effect, IsBuffer, WritableBytes
<1> QED
  <2>1. 0 .. MaxLen \subseteq Nat
    BY BufferAssumption
  <2> QED
    BY <1>1, <1>2, <1>3, <1>4, <1>5, <1>6, <1>7, <2>1 DEF Next

LEMMA MemInit == Init => MemInv /\ Content(m) = <<>>
<1> SUFFICES ASSUME Init PROVE MemInv /\ Content(m) = <<>>
  OBVIOUS
<1>1. m = NewBuffer(InitCap) /\ reserved = 0
  BY DEF Init
<1>2. IsBuffer(m) /\ WritableBytes(m) = InitCap /\ Content(m) = <<>>
  BY <1>1, BufferAssumption, NewBufferProperties
<1> QED
  BY <1>1, <1>2, BufferAssumption DEF MemInv

----------------------------------------------------------------------------
(* What FrontInt rests on: the readable bytes begin with the integer, in   *)
(* network order.                                                          *)
StartsWith(s, t) ==
    Len(t) <= Len(s) /\ \A i \in 1 .. Len(t) : s[i] = t[i]

FrontInv ==
    front \in Ints \cup {<<>>} /\ StartsWith(Content(m), Reverse(front))

LEMMA FrontIsSeq ==
    ASSUME NEW int \in Ints \cup {<<>>}
    PROVE  /\ int \in Seq(Byte) /\ Reverse(int) \in Seq(Byte)
           /\ Len(Reverse(int)) = Len(int) /\ Reverse(Reverse(int)) = int
  BY StringsAreSeqs, EmptySeq, ReverseTwice

LEMMA NothingIsStart ==
    ASSUME NEW s \in Seq(Byte) PROVE StartsWith(s, Reverse(<<>>))
<1>1. Len(Reverse(<<>>)) = 0 /\ Len(s) \in Nat
  BY FrontIsSeq, EmptySeq, LenProperties
<1> QED
  BY <1>1 DEF StartsWith

(* Appending keeps the start, and taking back does that leaves it there. *)
LEMMA StartKept ==
    ASSUME NEW s \in Seq(Byte), NEW t \in Seq(Byte), StartsWith(s, t)
    PROVE  /\ \A x \in Seq(Byte) : StartsWith(s \o x, t)
           /\ \A n \in Nat : n <= Len(s) /\ Len(s) - n >= Len(t)
                  => StartsWith(SubSeq(s, 1, Len(s) - n), t)
<1>1. Len(s) \in Nat /\ Len(t) \in Nat /\ \A i \in 1 .. Len(s) : s[i] \in Byte
  BY LenProperties, ElementOfSeq
<1>2. ASSUME NEW x \in Seq(Byte) PROVE StartsWith(s \o x, t)
  <2> DEFINE y == s \o x
  <2>1. /\ Len(y) = Len(s) + Len(x) /\ Len(x) \in Nat
        /\ \A i \in 1 .. Len(s) + Len(x) : y[i] = IF i <= Len(s) THEN s[i]
                                              ELSE x[i - Len(s)]
    BY ConcatProperties, LenProperties
  <2> HIDE DEF y
  <2>2. StartsWith(y, t)
    BY <1>1, <2>1 DEF StartsWith
  <2> QED
    BY <2>2 DEF y
<1>3. ASSUME NEW n \in Nat, n <= Len(s), Len(s) - n >= Len(t)
      PROVE  StartsWith(SubSeq(s, 1, Len(s) - n), t)
  <2> DEFINE k == Len(s) - n  y == SubSeq(s, 1, k)
  <2>1. k \in 0 .. Len(s)
    BY <1>1, <1>3
  <2> HIDE DEF k
  <2>2. Len(y) = k
    BY <2>1, SplitSeq
  <2>3. \A i \in 1 .. k : y[i] = s[i]
    <3>1. \A i \in 1 .. k : s[i] \in Byte
      BY <1>1, <2>1
    <3>2. \A i \in 1 .. k - 1 + 1 : y[i] = s[1 + i - 1]
      BY <2>1, <3>1, SubSeqProperties
    <3> HIDE DEF y
    <3>3. \A i \in 1 .. k : i \in 1 .. k - 1 + 1 /\ 1 + i - 1 = i
      BY <2>1
    <3> QED
      BY <3>2, <3>3
  <2> HIDE DEF y
  <2>4. StartsWith(y, t)
    BY <1>1, <1>3, <2>1, <2>2, <2>3 DEF StartsWith, k
  <2> QED
    BY <2>4 DEF y, k
<1> QED
  BY <1>2, <1>3

LEMMA StartPut ==
    ASSUME NEW s \in Seq(Byte), NEW t \in Seq(Byte)
    PROVE  StartsWith(t \o s, t)
<1> DEFINE y == t \o s
<1>1. /\ Len(y) = Len(t) + Len(s) /\ Len(t) \in Nat /\ Len(s) \in Nat
      /\ \A i \in 1 .. Len(t) + Len(s) : y[i] = IF i <= Len(t) THEN t[i]
                                            ELSE s[i - Len(t)]
  BY ConcatProperties, LenProperties
<1> HIDE DEF y
<1>2. StartsWith(y, t)
  BY <1>1 DEF StartsWith
<1> QED
  BY <1>2 DEF y

LEMMA FrontStep ==
    ASSUME MemInv, MemInv', FrontInv, Effect
    PROVE  FrontInv'
<1> DEFINE q == Content(m)  r == Content(m')  t == Reverse(front)
<1>1. q \in Seq(Byte) /\ r \in Seq(Byte) /\ Len(q) \in Nat
  <2>1. IsBuffer(m) /\ IsBuffer(m')
    BY DEF MemInv, IsBuffer
  <2> QED
    BY <2>1, ContentProperties, LenProperties
<1>2. /\ front \in Ints \cup {<<>>} /\ t \in Seq(Byte)
      /\ Len(t) = Len(front) /\ StartsWith(q, t)
  BY FrontIsSeq DEF FrontInv
<1>3. SUFFICES front' \in Ints \cup {<<>>} /\ StartsWith(r, Reverse(front'))
  BY DEF FrontInv, Content, ReadableBytes, Reverse, StartsWith
<1>4. CASE front' = <<>>
  BY <1>1, <1>4, NothingIsStart
<1>5. ASSUME front' = front, r = q
      PROVE  StartsWith(r, Reverse(front')) /\ front' \in Ints \cup {<<>>}
  BY <1>2, <1>5
<1> HIDE DEF q, r, t
<1>6. ASSUME NEW s \in Seq(Byte), Appended(s)
      PROVE  front' \in Ints \cup {<<>>} /\ StartsWith(r, Reverse(front'))
  <2>1. r = q \o s /\ front' = front
    BY <1>6 DEF Appended, q, r
  <2>2. StartsWith(q \o s, t)
    BY <1>1, <1>2, StartKept
  <2> QED
    BY <1>2, <2>1, <2>2 DEF t
<1>7. ASSUME NEW s \in Seq(Byte), PutInFront(s)
      PROVE  front' \in Ints \cup {<<>>} /\ StartsWith(r, Reverse(front'))
  <2>1. CASE s = <<>>
    <3>1. r = <<>> \o q /\ front' = front
      BY <1>7, <2>1 DEF PutInFront, q, r
    <3>2. <<>> \o q = q
      BY <1>1, ConcatEmptySeq
    <3> QED
      BY <1>5, <3>1, <3>2
  <2>2. CASE s # <<>>
    BY <1>4, <1>7, <2>2 DEF PutInFront
  <2> QED
    BY <2>1, <2>2
<1>8. ASSUME NEW int \in Ints, IntPutInFront(int)
      PROVE  front' \in Ints \cup {<<>>} /\ StartsWith(r, Reverse(front'))
  <2>1. r = Reverse(int) \o q /\ front' = int /\ Reverse(int) \in Seq(Byte)
    BY <1>8, FrontIsSeq DEF IntPutInFront, q, r
  <2>2. StartsWith(Reverse(int) \o q, Reverse(int))
    BY <1>1, <2>1, StartPut
  <2> QED
    BY <2>1, <2>2
<1>9. ASSUME NEW n \in Nat, Taken(n)
      PROVE  front' \in Ints \cup {<<>>} /\ StartsWith(r, Reverse(front'))
  <2>1. CASE n = 0 /\ front' = front
    <3>1. r = SubSeq(q, n + 1, Len(q)) /\ n + 1 = 1
      BY <1>9, <2>1 DEF Taken, q, r
    <3>2. SubSeq(q, 1, Len(q)) = q
      BY <1>1, SubSeqFull
    <3> QED
      BY <1>5, <2>1, <3>1, <3>2
  <2> QED
    BY <1>4, <1>9, <2>1 DEF Taken
<1>10. ASSUME NEW n \in Nat, TakenBack(n)
       PROVE  front' \in Ints \cup {<<>>} /\ StartsWith(r, Reverse(front'))
  <2>1. /\ r = SubSeq(q, 1, Len(q) - n) /\ n <= Len(q)
        /\ front' = IF Len(q) - n >= Len(front) THEN front ELSE <<>>
    BY <1>10 DEF TakenBack, q, r
  <2>2. CASE Len(q) - n >= Len(front)
    <3>1. StartsWith(SubSeq(q, 1, Len(q) - n), t)
      BY <1>1, <1>2, <2>1, <2>2, StartKept
    <3> QED
      BY <1>2, <2>1, <2>2, <3>1 DEF t
  <2> QED
    BY <1>4, <2>1, <2>2
<1>11. ASSUME NEW n \in Nat, RoomMade(n)
       PROVE  front' \in Ints \cup {<<>>} /\ StartsWith(r, Reverse(front'))
  BY <1>5, <1>11 DEF RoomMade, q, r
<1>12. CASE UNCHANGED <<m, front, op>>
  BY <1>5, <1>12 DEF q, r
<1> QED
  BY <1>6, <1>7, <1>8, <1>9, <1>10, <1>11, <1>12 DEF Effect

(* The integer that stands at the front, in network order, is what PeekInt *)
(* makes of the bytes there.                                               *)
LEMMA FrontIsPeeked == MemInv /\ FrontInv => FrontInt
<1> SUFFICES ASSUME MemInv, FrontInv PROVE FrontInt
  OBVIOUS
<1> DEFINE n == Len(front)  t == Reverse(front)
           s == [i \in 1 .. n |-> m.mem[m.head + i - 1]]
<1>1. /\ n \in Nat /\ t \in Seq(Byte) /\ Len(t) = n /\ Reverse(t) = front
      /\ StartsWith(Content(m), t)
  BY FrontIsSeq, LenProperties DEF FrontInv
<1>2. /\ Len(Content(m)) = ReadableBytes(m) /\ ReadableBytes(m) \in Nat
      /\ \A i \in 1 .. ReadableBytes(m) : Content(m)[i] = m.mem[m.head + i - 1]
  BY ContentProperties DEF MemInv
<1>3. ReadableBytes(m) >= n
  BY <1>1, <1>2 DEF StartsWith
<1> HIDE DEF n, t
<1>4. \A i \in 1 .. n : m.mem[m.head + i - 1] = t[i] /\ t[i] \in Byte
  BY <1>1, <1>2, <1>3, ElementOfSeq DEF StartsWith
<1>5. s \in [1 .. n -> Byte] /\ \A i \in 1 .. n : s[i] = t[i]
  BY <1>4
<1>6. s = t
  <2>1. s \in Seq(Byte) /\ Len(s) = n
    BY <1>1, <1>5, FunctionIsSeq
  <2> HIDE DEF s
  <2> QED
    BY <1>1, <1>5, <2>1, SeqEqual
<1>7. PeekInt(m, n) = Reverse(s)
  BY DEF PeekInt
<1> QED
  BY <1>1, <1>3, <1>6, <1>7 DEF FrontInt, n

----------------------------------------------------------------------------
(* The inductive invariant: the memory, the start and the histories.       *)
OpInv ==
    op \in [name : {"new", "append", "addInFront", "retrieve", "unwrite",
                   "ensureWritable"},
           bytes : Seq(Byte), count : Nat]

BufferIInv == MemInv /\ FrontInv /\ OpInv

(* Every operation of MsgBuffer leaves a buffer: the vector and its three  *)
(* indices, the integer in front and what was promised are consistent.     *)
THEOREM BufferInvariance == Spec => []BufferIInv
<1>1. Init => BufferIInv
  <2> SUFFICES ASSUME Init PROVE BufferIInv
    OBVIOUS
  <2>1. MemInv /\ Content(m) = <<>>
    BY MemInit
  <2>2. front = <<>> /\ op = Call("new", <<>>, 0)
    BY DEF Init
  <2>3. <<>> \in Seq(Byte)
    BY EmptySeq
  <2>4. FrontInv
    BY <2>1, <2>2, <2>3, NothingIsStart DEF FrontInv
  <2>5. OpInv
    BY <2>2, <2>3 DEF OpInv, Call
  <2> QED
    BY <2>1, <2>4, <2>5 DEF BufferIInv
<1>2. BufferIInv /\ [Next]_vars => BufferIInv'
  <2> SUFFICES ASSUME BufferIInv, [Next]_vars PROVE BufferIInv'
    OBVIOUS
  <2>1. MemInv' /\ Effect
    BY StepEffect DEF BufferIInv
  <2>2. FrontInv'
    BY <2>1, FrontStep DEF BufferIInv
  <2>3. OpInv'
    <3>1. <<>> \in Seq(Byte)
      BY EmptySeq
    <3>2. \A int \in Ints : Reverse(int) \in Seq(Byte)
      BY StringsAreSeqs
    <3>3. OpInv
      BY DEF BufferIInv
    <3>4. \/ \E s \in Seq(Byte) : op' \in {Call("append", s, 0),
                                           Call("addInFront", s, 0)}
          \/ \E n \in Nat : op' \in {Call("retrieve", <<>>, n),
                                     Call("unwrite", <<>>, n),
                                     Call("ensureWritable", <<>>, n)}
          \/ op' = op
      BY <2>1, <3>2
      DEF Effect, Appended, PutInFront, IntPutInFront, Taken, TakenBack, RoomMade
    <3> DEFINE Ops == [name : {"new", "append", "addInFront", "retrieve",
                               "unwrite", "ensureWritable"},
                       bytes : Seq(Byte), count : Nat]
    <3>5. \A s \in Seq(Byte) :
              Call("append", s, 0) \in Ops /\ Call("addInFront", s, 0) \in Ops
      BY DEF Call
    <3>6. \A n \in Nat :
              /\ Call("retrieve", <<>>, n) \in Ops
              /\ Call("unwrite", <<>>, n) \in Ops
              /\ Call("ensureWritable", <<>>, n) \in Ops
      BY <3>1 DEF Call
    <3>7. op \in Ops
      BY <3>3 DEF OpInv
    <3> HIDE DEF Ops
    <3>8. op' \in Ops
      BY <3>4, <3>5, <3>6, <3>7
    <3> QED
      BY <3>8 DEF OpInv, Ops
  <2> QED
    BY <2>1, <2>2, <2>3 DEF BufferIInv
<1> QED
  BY <1>1, <1>2, PTL DEF Spec

(* Appends, moves, reallocations, prepends and retrievals, in any mixture, *)
(* leave the three indices in order and inside the vector, and the vector  *)
(* as long as RetrieveAll expects it; and what EnsureWritableBytes         *)
(* promised to a caller is there until he has written it.                  *)
THEOREM BufferCorrect == Spec => []BufferInv
<1>1. BufferIInv => BufferInv
  BY DEF BufferIInv, MemInv, IsBuffer, FrontInv, OpInv, BufferInv, TypeOK,
         InBounds, SizeInv, ReservedWritable
<1> QED
  BY <1>1, BufferInvariance, PTL

(* An integer that AddInFrontIntN put in front is what PeekIntN reads.     *)
THEOREM FrontCorrect == Spec => []FrontInt
<1>1. BufferIInv => FrontInt
  BY FrontIsPeeked DEF BufferIInv
<1> QED
  BY <1>1, BufferInvariance, PTL

(* To its users the buffer is a queue of bytes: no operation of MsgBuffer  *)
(* loses, reorders or invents a byte.                                      *)
THEOREM ByteQueueCorrect == Spec => ImplementsByteQueue
<1>1. Init => BQ!Init
  BY MemInit DEF Init, BQ!Init, Call
<1>2. BufferIInv /\ [Next]_vars => [BQ!Next]_<<Content(m), op>>
  <2> SUFFICES ASSUME BufferIInv, [Next]_vars
               PROVE  [BQ!Next]_<<Content(m), op>>
    OBVIOUS
  <2>1. Effect
    BY StepEffect DEF BufferIInv
  <2>2. Content(m)' = Content(m')
    BY DEF Content, ReadableBytes
  <2>3. ASSUME NEW s \in Seq(Byte), Appended(s) PROVE BQ!AppendBytes
    BY <2>2, <2>3 DEF Appended, Call, BQ!AppendBytes
  <2>4. ASSUME NEW s \in Seq(Byte), PutInFront(s) PROVE BQ!AddInFront
    BY <2>2, <2>4 DEF PutInFront, Call, BQ!AddInFront
  <2>5. ASSUME NEW int \in Ints, IntPutInFront(int) PROVE BQ!AddInFront
    BY <2>2, <2>5 DEF IntPutInFront, Call, BQ!AddInFront
  <2>6. ASSUME NEW n \in Nat, Taken(n) PROVE BQ!Retrieve
    BY <2>2, <2>6 DEF Taken, Call, BQ!Retrieve
  <2>7. ASSUME NEW n \in Nat, TakenBack(n) PROVE BQ!Unwrite
    BY <2>2, <2>7 DEF TakenBack, Call, BQ!Unwrite
  <2>8. ASSUME NEW n \in Nat, RoomMade(n) PROVE BQ!EnsureWritable
    BY <2>2, <2>8 DEF RoomMade, Call, BQ!EnsureWritable
  <2>9. CASE UNCHANGED <<m, front, op>>
    BY <2>2, <2>9
  <2> QED
    BY <2>1, <2>3, <2>4, <2>5, <2>6, <2>7, <2>8, <2>9 DEF Effect, BQ!Next
<1> QED
  BY <1>1, <1>2, BufferInvariance, PTL DEF Spec, ImplementsByteQueue, BQ!Spec
=============================================================================
