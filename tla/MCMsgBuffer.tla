---------------------------- MODULE MCMsgBuffer ----------------------------
(* States that differ only in bytes outside [head, tail), which nothing    *)
(* reads, or in the history op count as one.                               *)
EXTENDS MsgBuffer

MCReadable ==
    [i \in DOMAIN m.mem |-> IF m.head <= i /\ i < m.tail THEN m.mem[i] ELSE 0]

MCView == <<MCReadable, m.head, m.tail, m.size, m.initCap, reserved, front>>
============================================================================
