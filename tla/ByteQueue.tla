----------------------------- MODULE ByteQueue -----------------------------
(***************************************************************************)
(* What a MsgBuffer is to its users: a sequence of bytes that grows at     *)
(* either end, loses bytes at the front when they are retrieved and at the *)
(* end when a write is taken back.  There are no positions, no capacity    *)
(* and no allocation.  op is the operation that was called last.           *)
(***************************************************************************)
EXTENDS Naturals, Sequences

VARIABLES q,  \* the bytes, oldest first
          op  \* [name, bytes, count]

Init == q = <<>> /\ op.name = "new"

AppendBytes == op'.name = "append" /\ q' = q \o op'.bytes

AddInFront == op'.name = "addInFront" /\ q' = op'.bytes \o q

(* More than there is may be retrieved. *)
Retrieve == op'.name = "retrieve" /\ q' = SubSeq(q, op'.count + 1, Len(q))

Unwrite == op'.name = "unwrite" /\ q' = SubSeq(q, 1, Len(q) - op'.count)

(* Making room changes nothing that can be read. *)
EnsureWritable == op'.name = "ensureWritable" /\ q' = q

Next == AppendBytes \/ AddInFront \/ Retrieve \/ Unwrite \/ EnsureWritable

Spec == Init /\ [][Next]_<<q, op>>
============================================================================
