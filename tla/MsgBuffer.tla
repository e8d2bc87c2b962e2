----------------------------- MODULE MsgBuffer -----------------------------
(***************************************************************************)
(* nest::net::MsgBuffer: the buffer a connection reads into.               *)
(*                                                                         *)
(* A vector with the readable bytes at [head, tail), free space behind     *)
(* them for appending and some before them for prepending.  Appending      *)
(* moves the bytes to the front or moves to a new, larger buffer when      *)
(* there is too little space behind them; every write is done with memcpy  *)
(* or readv at an index that these decisions have to have made valid.      *)
(*                                                                         *)
(* The state is one record m = [mem, size, head, tail, initCap].  An       *)
(* integer is the bytes of its memory on a little-endian host, the least   *)
(* significant first.                                                      *)
(***************************************************************************)
EXTENDS Integers, SequencesExt

CONSTANTS
    Base,           \* values of a byte (256)
    kBufferOffset,  \* free bytes in front of the data (8)
    InitCap,        \* the constructor's argument (2048)
    ExtBuffer,      \* size of ReadFd's buffer on the stack (8192)
    IntLens,        \* sizes of integers (1, 2, 4, 8)
    MaxLen,         \* bound: bytes per operation
    MaxSize         \* bound: size of the vector

Byte == 0 .. Base - 1

ASSUME BufferAssumption ==
    /\ Base \in Nat \ {0}
    /\ kBufferOffset \in Nat
    /\ InitCap \in Nat /\ InitCap >= kBufferOffset
    /\ ExtBuffer \in Nat
    /\ IntLens \subseteq Nat \ {0}
    /\ MaxLen \in Nat
    /\ MaxSize \in Nat

VARIABLES
    m,         \* the buffer
    reserved,  \* bytes a caller may still write after EnsureWritableBytes
    front,     \* history: the integer AddInFrontInt put at the front, or <<>>
    op         \* history: the operation that was called last

vars == <<m, reserved, front, op>>

Ints == UNION {[1 .. n -> Byte] : n \in IntLens}

TypeOK ==
    /\ m \in [mem : {m.mem}, size : Nat, head : Nat, tail : Nat, initCap : Nat]
    /\ m.mem \in [0 .. m.size - 1 -> Byte]
    /\ reserved \in Nat
    /\ front \in Ints \cup {<<>>}
    /\ op \in [name : {"new", "append", "addInFront", "retrieve", "unwrite",
                       "ensureWritable"},
               bytes : Seq(Byte), count : Nat]

----------------------------------------------------------------------------
(* Helpers on buffers.                                                     *)

ReadableBytes(b) == b.tail - b.head
WritableBytes(b) == b.size - b.tail

(* The constructor: a zeroed vector of len + kBufferOffset bytes. *)
NewBuffer(len) ==
    [mem |-> [i \in 0 .. len + kBufferOffset - 1 |-> 0],
     size |-> len + kBufferOffset,
     head |-> kBufferOffset, tail |-> kBufferOffset, initCap |-> len]

(* The readable bytes. *)
Content(b) == [i \in 1 .. ReadableBytes(b) |-> b.mem[b.head + i - 1]]

(* The bytes s are copied to index at, and head_ and tail_ are set. *)
Memcpy(b, at, s, head, tail) ==
    [b EXCEPT !.mem = [i \in 0 .. b.size - 1 |->
                  IF at <= i /\ i < at + Len(s) THEN s[i - at + 1]
                  ELSE b.mem[i]],
              !.head = head, !.tail = tail]

(* What Append does once there is room. *)
AppendInPlace(b, s) == Memcpy(b, b.tail, s, b.head, b.tail + Len(s))

(* The readable bytes are moved to kBufferOffset. *)
MoveToFront(b) ==
    Memcpy(b, kBufferOffset, Content(b),
           kBufferOffset, kBufferOffset + ReadableBytes(b))

Larger(x, y) == IF x > y THEN x ELSE y

(* A new buffer with the bytes of b, swapped with b; initCap_ is swapped   *)
(* as well.                                                                *)
Grow(b, len) ==
    AppendInPlace(
        NewBuffer(Larger(2 * b.size, kBufferOffset + ReadableBytes(b) + len)),
        Content(b))

(* Mutant: the offset is forgotten when the bytes can be moved. *)
EnsureWritableBytes_NoOffset(b, len) ==
    IF WritableBytes(b) >= len THEN b
    ELSE IF b.head + WritableBytes(b) >= len THEN MoveToFront(b)
    ELSE Grow(b, len)

(* EnsureWritableBytes: nothing to do, move to the front, or grow. *)
EnsureWritableBytes(b, len) ==
    IF WritableBytes(b) >= len THEN b
    ELSE IF b.head + WritableBytes(b) >= len + kBufferOffset THEN MoveToFront(b)
    ELSE Grow(b, len)

AppendTo(b, s) == AppendInPlace(EnsureWritableBytes(b, Len(s)), s)

(* Mutant: the data is not moved up. *)
Prepend_NoMove(b, s) ==
    IF b.head >= Len(s)
    THEN Memcpy(b, b.head - Len(s), s, b.head - Len(s), b.tail)
    ELSE IF Len(s) <= WritableBytes(b)
    THEN Memcpy(b, b.head, s, b.head, b.tail + Len(s))
    ELSE AppendInPlace(
            NewBuffer(Larger(b.initCap, Len(s) + ReadableBytes(b))),
            s \o Content(b))

(* AddInFront: into the space before the data; or by moving the data up;   *)
(* or in a new buffer.  The move is a std::copy between overlapping        *)
(* ranges, which for char pointers is a memmove.                           *)
Prepend(b, s) ==
    IF b.head >= Len(s)
    THEN Memcpy(b, b.head - Len(s), s, b.head - Len(s), b.tail)
    ELSE IF Len(s) <= WritableBytes(b)
    THEN Memcpy(b, b.head, s \o Content(b), b.head, b.tail + Len(s))
    ELSE AppendInPlace(
            NewBuffer(Larger(b.initCap, Len(s) + ReadableBytes(b))),
            s \o Content(b))

(* RetrieveAll shrinks a vector of more than twice initCap_ to initCap_. *)
Cleared(b) ==
    LET size == IF b.size > 2 * b.initCap THEN b.initCap ELSE b.size
    IN  [b EXCEPT !.size = size,
                  !.mem = [i \in 0 .. size - 1 |-> b.mem[i]],
                  !.head = kBufferOffset, !.tail = kBufferOffset]

Retrieved(b, len) ==
    IF len >= ReadableBytes(b) THEN Cleared(b) ELSE [b EXCEPT !.head = @ + len]

(* Mutant: no byte swap. *)
HostToNetwork_HostOrder(int) == int

(* htons, htonl and hton64, which reverse the integer's memory. *)
HostToNetwork(int) == Reverse(int)

(* PeekIntN: the first n bytes, through ntohs, ntohl or ntoh64. *)
PeekInt(b, n) == Reverse([i \in 1 .. n |-> b.mem[b.head + i - 1]])

----------------------------------------------------------------------------
(* Operations.                                                             *)

Strings == UNION {[1 .. n -> Byte] : n \in 0 .. MaxLen}

Call(name, bytes, count) ==
    [name |-> name, bytes |-> bytes, count |-> count]

Init ==
    /\ m = NewBuffer(InitCap)
    /\ reserved = 0
    /\ front = <<>>
    /\ op = Call("new", <<>>, 0)

(* A call changes the buffer to b, and the space a caller had reserved is  *)
(* no longer his.                                                          *)
Becomes(b) ==
    /\ b.size <= MaxSize
    /\ m' = b
    /\ reserved' = 0

(* Append, of a string or of another buffer. *)
AppendString(s) ==
    /\ Becomes(AppendTo(m, s))
    /\ op' = Call("append", s, 0)
    /\ UNCHANGED front

AppendInt(int) == AppendString(HostToNetwork(int))

AddInFront(s) ==
    /\ Becomes(Prepend(m, s))
    /\ op' = Call("addInFront", s, 0)
    /\ front' = IF s = <<>> THEN front ELSE <<>>

AddInFrontInt(int) ==
    /\ Becomes(Prepend(m, HostToNetwork(int)))
    /\ op' = Call("addInFront", HostToNetwork(int), 0)
    /\ front' = int

(* Retrieve, Read, RetrieveUntil. *)
Retrieve(len) ==
    /\ Becomes(Retrieved(m, len))
    /\ op' = Call("retrieve", <<>>, len)
    /\ front' = IF len = 0 THEN front ELSE <<>>

(* ReadIntN asserts that there are n bytes. *)
ReadInt(n) ==
    /\ ReadableBytes(m) >= n
    /\ Retrieve(n)

RetrieveAll ==
    /\ Becomes(Cleared(m))
    /\ op' = Call("retrieve", <<>>, ReadableBytes(m))
    /\ front' = <<>>

(* ReadFd: readv into the free space and, if there is less of it than in   *)
(* extBuffer, the rest into extBuffer, from where it is appended.          *)
ReadFd(s) ==
    LET writable == WritableBytes(m)
        room == IF writable < ExtBuffer THEN writable + ExtBuffer ELSE writable
    IN  /\ Len(s) <= room
        /\ IF Len(s) <= writable
           THEN Becomes(AppendInPlace(m, s))
           ELSE Becomes(AppendTo(AppendInPlace(m, SubSeq(s, 1, writable)),
                                 SubSeq(s, writable + 1, Len(s))))
        /\ op' = Call("append", s, 0)
        /\ UNCHANGED front

(* EnsureWritableBytes, called to write at BeginWrite() directly. *)
Reserve(len) ==
    /\ EnsureWritableBytes(m, len).size <= MaxSize
    /\ m' = EnsureWritableBytes(m, len)
    /\ reserved' = len
    /\ op' = Call("ensureWritable", <<>>, len)
    /\ UNCHANGED front

(* The caller has written s at BeginWrite() and calls HasWritten. *)
HasWritten(s) ==
    /\ s # <<>>
    /\ Len(s) <= reserved
    /\ m' = AppendInPlace(m, s)
    /\ reserved' = reserved - Len(s)
    /\ op' = Call("append", s, 0)
    /\ UNCHANGED front

(* Unwrite asserts that there are that many bytes. *)
Unwrite(offset) ==
    /\ ReadableBytes(m) >= offset
    /\ Becomes([m EXCEPT !.tail = @ - offset])
    /\ op' = Call("unwrite", <<>>, offset)
    /\ front' = IF ReadableBytes(m) - offset >= Len(front) THEN front ELSE <<>>

Next ==
    \/ \E s \in Strings :
          AppendString(s) \/ AddInFront(s) \/ ReadFd(s) \/ HasWritten(s)
    \/ \E int \in Ints : AppendInt(int) \/ AddInFrontInt(int)
    \/ \E n \in IntLens : ReadInt(n)
    \/ \E n \in 0 .. MaxLen : Retrieve(n) \/ Reserve(n) \/ Unwrite(n)
    \/ RetrieveAll

Spec == Init /\ [][Next]_vars

----------------------------------------------------------------------------
(* Properties.                                                             *)

(* The three indices stay in order and inside the vector, whatever mixture *)
(* of moves, reallocations and prepends led here: no memcpy or readv of an *)
(* operation leaves the vector, and WritableBytes does not wrap around.    *)
InBounds ==
    /\ m.head <= m.tail
    /\ m.tail <= m.size

(* The vector is always exactly initCap_ + kBufferOffset long, because     *)
(* growing swaps initCap_ too.  So RetrieveAll never shrinks it (its       *)
(* condition cannot hold), which is also what keeps tail_ inside: a vector *)
(* resized to initCap_ would have lost the offset.                         *)
SizeInv ==
    /\ m.size = m.initCap + kBufferOffset
    /\ m.initCap >= InitCap

(* After EnsureWritableBytes(len) the assertion of HasWritten holds for    *)
(* all of the len bytes, written in one or in several pieces.              *)
ReservedWritable == reserved <= WritableBytes(m)

(* What the buffer's callers and its own memcpy calls rely on. *)
BufferInv == TypeOK /\ InBounds /\ SizeInv /\ ReservedWritable

(* An integer put in front is what PeekInt reads, after any number of      *)
(* appends, moves and reallocations.                                       *)
FrontInt ==
    /\ ReadableBytes(m) >= Len(front)
    /\ PeekInt(m, Len(front)) = front

BQ == INSTANCE ByteQueue WITH q <- Content(m)

(* Moving, growing and prepending never lose, reorder or invent a byte:    *)
(* each operation does to the readable bytes what it does to a queue.      *)
ImplementsByteQueue == BQ!Spec
============================================================================
