------------------------ MODULE EventLoopThreadPool ------------------------
(***************************************************************************)
(* nest::net::EventLoopThreadPool.  Start calls Run of each thread in      *)
(* turn; GetNextLoop deals the loops out to its callers.                   *)
(*                                                                         *)
(* The threads of a pool share nothing, so one of them, at position Detail *)
(* of threads_, is the EventLoopThread this module extends, and the Run of *)
(* another one is a step that makes its loop available, which is what      *)
(* LoopAvailable and RunReturns say of the detailed one.                   *)
(***************************************************************************)
EXTENDS EventLoopThread, Integers, FiniteSetsExt

CONSTANTS
    ThreadNum,  \* argument of the constructor
    Detail,     \* the position of the thread modelled in detail
    IndexHalf,  \* values of loopIndex_ on either side of 0 (2^31)
    SizeRange,  \* values of size_t (2^64)
    MaxGets     \* bound: calls of GetNextLoop

(* The constructor makes one thread at least. *)
Size == IF ThreadNum <= 0 THEN 1 ELSE ThreadNum
Threads == 0 .. Size - 1

ASSUME PoolAssumption ==
    /\ ThreadNum \in Int /\ Detail \in Threads \ {0}
    /\ IndexHalf \in Nat \ {0}
    /\ SizeRange \in Nat /\ SizeRange >= 2 * IndexHalf
    /\ MaxGets \in Nat
    /\ IsFiniteSet(Callers)

VARIABLES
    pos,        \* how many Run calls each caller's Start has behind it
    available,  \* other threads whose Run has returned
    loopIndex_,
    index,      \* index of a GetNextLoop that has read loopIndex_
    \* histories
    load,       \* how often each loop was handed out
    overlaps,   \* calls that read loopIndex_ while another was between its
                \* read and its increment
    turns,      \* increments that changed the sign of loopIndex_
    null        \* a null loop was handed out

poolVars == <<vars, pos, available, loopIndex_, index, load, overlaps, turns, null>>
gets == <<loopIndex_, index, load, overlaps, turns, null>>

None == IndexHalf  \* no index is that large
Indices == -IndexHalf .. IndexHalf - 1

PoolTypeOK ==
    /\ pos \in [Callers -> 0 .. Size] /\ available \in SUBSET (Threads \ {Detail})
    /\ loopIndex_ \in Indices /\ index \in [Callers -> Indices \cup {None}]
    /\ load \in [Threads -> Nat] /\ overlaps \in Nat /\ turns \in Nat
    /\ null \in BOOLEAN

PoolInit ==
    /\ Init
    /\ pos = [c \in Callers |-> 0] /\ available = {}
    /\ loopIndex_ = 0 /\ index = [c \in Callers |-> None]
    /\ load = [t \in Threads |-> 0] /\ overlaps = 0 /\ turns = 0 /\ null = FALSE

----------------------------------------------------------------------------
(* Start: Run of a thread that is not modelled in detail. *)
RunOther(c) ==
    /\ Constructed /\ dpc = "none"
    /\ pos[c] \in Threads \ {Detail}
    /\ pos' = [pos EXCEPT ![c] = @ + 1]
    /\ available' = available \cup {pos[c]}
    /\ UNCHANGED <<vars, gets>>

(* Start: Run of the detailed thread, which returns in some later step. *)
RunDetail(c) ==
    /\ pos[c] = Detail
    /\ CallRun(c) \/ RunStep(c)
    /\ pos' = IF rpc'[c] = "done" THEN [pos EXCEPT ![c] = @ + 1] ELSE pos
    /\ UNCHANGED <<available, gets>>

Outside(c) == pos[c] \in {0, Size} /\ index[c] = None

(* ~EventLoopThreadPool: the members are destroyed when nobody uses it. *)
DestroyPool ==
    /\ Destroy /\ (\A c \in Callers : Outside(c))
    /\ UNCHANGED <<pos, available, gets>>

ThreadStep ==
    /\ Construct \/ WorkerStep \/ SpuriousWake \/ RunStep(Owner) \/ DestroyStep
    /\ UNCHANGED <<pos, available, gets>>

----------------------------------------------------------------------------
(* GetNextLoop, first half: loopIndex_ is read ... *)
ReadIndex(c) ==
    /\ dpc = "none" /\ pos[c] = Size /\ index[c] = None
    /\ LET calls == {d \in Callers : index[d] # None}
           served == MapThenSumSet(LAMBDA t : load[t], Threads)
       IN  /\ served + Cardinality(calls) < MaxGets
           /\ overlaps' = overlaps + Cardinality(calls)
    /\ index' = [index EXCEPT ![c] = loopIndex_]
    /\ UNCHANGED <<vars, pos, available, loopIndex_, load, turns, null>>

(* int32_t arithmetic of an atomic wraps around. *)
Next32(i) == IF i + 1 \in Indices THEN i + 1 ELSE -IndexHalf

(* Mutant: the remainder is taken of the signed index, as C++ does it. *)
Position_Signed(i) == IF i >= 0 THEN i % Size ELSE -((-i) % Size)

(* Mutant: off by one. *)
Position_Last(i) == (i % SizeRange) % (Size - 1)

(* index % threads_.size(): the index is converted to size_t before. *)
Position(i) == (i % SizeRange) % Size

Loop(t) == IF t = Detail THEN loop ELSE t \in available

(* ... and second half: it is incremented, in a step of its own, and the   *)
(* loop is taken by the index that was read.                               *)
GetNextLoop(c) ==
    /\ index[c] # None
    /\ loopIndex_' = Next32(loopIndex_)
    /\ turns' = IF (loopIndex_ < 0) # (loopIndex_' < 0) THEN turns + 1 ELSE turns
    /\ index' = [index EXCEPT ![c] = None]
    /\ LET t == Position(index[c])
       IN  /\ load' = [s \in Threads |-> IF s = t THEN load[s] + 1 ELSE load[s]]
           /\ null' = (null \/ t \notin Threads \/ ~Loop(t))
    /\ UNCHANGED <<vars, pos, available, overlaps>>

----------------------------------------------------------------------------
CallerStep(c) == RunOther(c) \/ RunDetail(c) \/ ReadIndex(c) \/ GetNextLoop(c)

PoolNext == ThreadStep \/ DestroyPool \/ \E c \in Callers : CallerStep(c)

(* A caller that has entered Start goes on until it returns. *)
PoolSpec ==
    /\ PoolInit /\ [][PoolNext]_poolVars
    /\ WF_poolVars(Construct /\ ThreadStep)
    /\ WF_poolVars(WorkerStep /\ ThreadStep)
    /\ WF_poolVars(DestroyStep /\ ThreadStep)
    /\ SF_poolVars(RunStep(Owner) /\ ThreadStep)
    /\ \A c \in Callers :
        /\ SF_poolVars(RunDetail(c))
        /\ WF_poolVars(pos[c] > 0 /\ RunOther(c))

----------------------------------------------------------------------------
(* Properties.                                                             *)

(* A caller whose Start has returned gets, by any number of overlapping    *)
(* GetNextLoop calls and beyond the overflow of loopIndex_, a loop of the  *)
(* pool that is there, until the destructor begins.                        *)
HandsOutLoops == TypeOK /\ PoolTypeOK /\ LoopAvailable /\ ~null

(* The loops are dealt out evenly but for two things: a call that reads    *)
(* the index before another one has incremented it gets the loop the other *)
(* gets and makes a later call skip one, and where the sign of the index   *)
(* changes its remainder jumps when the size is not a power of two.        *)
EvenLoad ==
    \A s, t \in Threads : load[s] - load[t] <= 1 + 2 * overlaps + turns

(* Start returns, each Run in it does, and the destructor joins: no        *)
(* notification is lost between the predicate and the wait, and mtx_,      *)
(* which the loop's thread keeps while it loops, is not needed again.      *)
CallsEnd ==
    /\ RunReturns /\ JoinReturns
    /\ \A c \in Callers : pos[c] > 0 ~> pos[c] = Size
============================================================================
