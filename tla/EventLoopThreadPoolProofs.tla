---------------------- MODULE EventLoopThreadPoolProofs ----------------------
(***************************************************************************)
(* Proofs about EventLoopThreadPool, for any number of threads and of      *)
(* callers and any width of loopIndex_: the loops that GetNextLoop hands   *)
(* out are there, and they are dealt out evenly.                           *)
(***************************************************************************)
EXTENDS EventLoopThreadPool, FiniteSetTheorems, TLAPS

----------------------------------------------------------------------------
(* The inductive invariants. *)

(* The promise is kept after loop_ is set, and the loop goes on until the  *)
(* destructor has asked it to quit.                                        *)
ThreadInv ==
    /\ promise => wpc \in {"enter", "loop", "exit"}
    /\ wpc \in {"fulfil", "enter", "loop"} => loop
    /\ wpc = "exit" => dpc \in {"join", "done"}
    /\ wpc = "loop" /\ dpc \in {"none", "run"} => isLooping
    /\ \A r \in Runners : rpc[r] = "done" => promise

(* A caller is past a thread when its Run has returned; GetNextLoop is     *)
(* called after Start and before the destructor.                           *)
StartInv ==
    /\ \A c \in Callers : pos[c] > Detail => rpc[c] = "done"
    /\ \A c \in Callers : \A t \in Threads \ {Detail} : pos[c] > t => t \in available
    /\ \A c \in Callers : index[c] # None => pos[c] = Size /\ dpc = "none"

IInv == TypeOK /\ PoolTypeOK /\ ThreadInv /\ StartInv /\ ~null

(* The calls between their two halves, and those of them that another one  *)
(* has overtaken since.                                                    *)
Calls == {c \in Callers : index[c] # None}
Overtaken == {c \in Calls : index[c] # loopIndex_}

(* The unevenness that overlapping calls have caused already, at most:     *)
(* each pair of calls counts for two when the later one of them is done,   *)
(* an overtaken call for two from now on.                                  *)
Slack ==
    2 * overlaps - 2 * Cardinality(Overtaken) - Cardinality(Calls) * (Cardinality(Calls) - 1)

(* The positions since the sign of loopIndex_ changed last begin with Base *)
(* and go round; in the round that is not complete the ones before the     *)
(* next position have had their turn.                                      *)
Base == IF loopIndex_ >= 0 THEN 0 ELSE Position(-IndexHalf)
Distance(t) == IF t >= Base THEN t - Base ELSE t - Base + Size
Turn(t) == IF Distance(t) < Distance(Position(loopIndex_)) THEN 1 ELSE 0

LoadInv ==
    \A s, t \in Threads : load[s] - load[t] <= turns + Turn(s) - Turn(t) + Slack

----------------------------------------------------------------------------
(* One thread: loop_ is available after Run. *)

LEMMA Booleans == \A b : b \in BOOLEAN <=> b = TRUE \/ b = FALSE
  OBVIOUS

LEMMA WorkerKeeps ==
    ASSUME TypeOK, ThreadInv, WorkerStep \/ SpuriousWake
    PROVE  TypeOK' /\ ThreadInv'
<1> USE DEF TypeOK, ThreadInv
<1>1. CASE LockWorker
  BY <1>1 DEF LockWorker, WorkerPc
<1>2. CASE WaitPredicate
  BY <1>2 DEF WaitPredicate, WorkerPc
<1>3. CASE EndWait /\ (UNCHANGED cond \/ cond' = "none")
  BY <1>3 DEF EndWait, WorkerPc
<1>4. CASE Publish
  BY <1>4, Booleans DEF Publish, WorkerPc
<1>5. CASE Fulfil
  BY <1>5, Booleans DEF Fulfil, WorkerPc
<1>6. CASE EnterLoop
  BY <1>6, Booleans DEF EnterLoop, WorkerPc
<1>7. CASE LeaveLoop
  BY <1>7, Booleans DEF LeaveLoop, WorkerPc, DestroyPc
<1> QED
  BY <1>1, <1>2, <1>3, <1>4, <1>5, <1>6, <1>7 DEF WorkerStep, WakeWorker, SpuriousWake

LEMMA RunKeeps ==
    ASSUME TypeOK, ThreadInv, NEW r \in Runners, CallRun(r) \/ RunStep(r)
    PROVE  TypeOK' /\ ThreadInv'
<1> USE DEF TypeOK, ThreadInv, MoveRun, RunPc
<1>1. CASE CallRun(r)
  BY <1>1 DEF CallRun
<1>2. CASE EnterOnce(r)
  BY <1>2 DEF EnterOnce
<1>3. CASE SkipOnce(r)
  BY <1>3 DEF SkipOnce
<1>4. CASE SetRunning(r)
  BY <1>4, Booleans DEF SetRunning
<1>5. CASE UnlockRun(r)
  BY <1>5 DEF UnlockRun
<1>6. CASE GetFuture(r)
  BY <1>6 DEF GetFuture
<1> QED
  BY <1>1, <1>2, <1>3, <1>4, <1>5, <1>6 DEF RunStep

LEMMA DestroyKeeps ==
    ASSUME TypeOK, ThreadInv, Destroy \/ DestroyStep
    PROVE  TypeOK' /\ ThreadInv'
<1> USE DEF TypeOK, ThreadInv, DestroyPc
<1>1. CASE Destroy
  BY <1>1 DEF Destroy
<1>2. CASE CallRun(Owner)
  BY <1>2, RunKeeps DEF Runners
<1>3. CASE QuitLoop
  <2>1. isLooping' \in BOOLEAN
    BY <1>3, Booleans DEF QuitLoop
  <2> QED
    BY <1>3, <2>1 DEF QuitLoop
<1>4. CASE Join
  BY <1>4 DEF Join
<1> QED
  BY <1>1, <1>2, <1>3, <1>4 DEF DestroyStep

(* The constructor touches neither loop_ nor what the promise holds. *)
LEMMA ConstructKeeps ==
    ASSUME TypeOK, ThreadInv, Construct
    PROVE  TypeOK' /\ ThreadInv'
<1>1. built' \in 0 .. Members /\ isRunning' \in BOOLEAN
      /\ cond' \in {"none", "waiting", "notified"}
      /\ mtx' \in Runners \cup {Worker, NoThread}
  BY Booleans DEF Construct, Constructed, TypeOK, Members
<1> QED
  BY <1>1 DEF Construct, TypeOK, ThreadInv

LEMMA ThreadNextKeeps ==
    ASSUME TypeOK, ThreadInv, [Next]_vars
    PROVE  TypeOK' /\ ThreadInv'
<1>1. CASE UNCHANGED vars
  BY <1>1 DEF vars, TypeOK, ThreadInv
<1> QED
  BY <1>1, WorkerKeeps, RunKeeps, DestroyKeeps, ConstructKeeps DEF Next, Runners

LEMMA ThreadInit == Init => TypeOK /\ ThreadInv
  BY Booleans
  DEF Init, TypeOK, ThreadInv, Members, WorkerPc, RunPc, DestroyPc

LEMMA AvailableAfterRun ==
    ASSUME TypeOK, ThreadInv
    PROVE  LoopAvailable
  BY DEF TypeOK, ThreadInv, LoopAvailable, DestroyPc

(* A Run that has returned leaves loop_ set until the destructor asks the  *)
(* loop to quit, whether or not the thread runs before the constructor is  *)
(* done (EventLoopThread::Run, StartEventLoop and the destructor).         *)
THEOREM LoopAvailableCorrect == SafetySpec => [](TypeOK /\ LoopAvailable)
<1>1. TypeOK /\ ThreadInv => TypeOK /\ LoopAvailable
  BY AvailableAfterRun
<1>2. (TypeOK /\ ThreadInv) /\ [Next]_vars => (TypeOK /\ ThreadInv)'
  BY ThreadNextKeeps
<1> QED
  BY <1>1, <1>2, ThreadInit, PTL DEF SafetySpec

----------------------------------------------------------------------------
(* The pool: what is handed out is there. *)

(* Each step of the pool is one of the detailed thread, or leaves it.      *)
LEMMA PoolStepIsThreadStep ==
    ASSUME [PoolNext]_poolVars
    PROVE  [Next]_vars
<1>1. CASE ThreadStep
  BY <1>1 DEF ThreadStep, Next, Runners
<1>2. CASE DestroyPool
  BY <1>2 DEF DestroyPool, Next
<1>3. ASSUME NEW c \in Callers, CallerStep(c) PROVE [Next]_vars
  BY <1>3 DEF CallerStep, RunOther, RunDetail, ReadIndex, GetNextLoop, Next, Runners
<1>4. CASE UNCHANGED poolVars
  BY <1>4 DEF poolVars
<1> QED
  BY <1>1, <1>2, <1>3, <1>4 DEF PoolNext

LEMMA SizeType == Size \in Nat \ {0} /\ Detail \in Threads \ {0} /\ Threads = 0 .. Size - 1
  BY PoolAssumption DEF Size, Threads

LEMMA PositionType == \A i \in Int : Position(i) \in Threads
<1> SUFFICES ASSUME NEW i \in Int PROVE Position(i) \in Threads
  OBVIOUS
<1>1. SizeRange \in Nat \ {0}
  BY PoolAssumption
<1>2. i % SizeRange \in Nat
  BY <1>1
<1> QED
  BY <1>2, SizeType DEF Position

LEMMA CallsFinite ==
    /\ IsFiniteSet(Calls) /\ IsFiniteSet(Overtaken)
    /\ Cardinality(Calls) \in Nat /\ Cardinality(Overtaken) \in Nat
<1>1. Calls \subseteq Callers /\ Overtaken \subseteq Calls
  BY DEF Calls, Overtaken
<1> QED
  BY <1>1, PoolAssumption, FS_Subset, FS_CardinalityType

LEMMA PoolInitial == PoolInit => IInv /\ LoadInv
<1> SUFFICES ASSUME PoolInit PROVE IInv /\ LoadInv
  OBVIOUS
<1> USE DEF PoolInit
<1>1. TypeOK /\ ThreadInv
  BY ThreadInit
<1>2. PoolTypeOK
  BY SizeType, PoolAssumption, Booleans DEF PoolTypeOK, Indices, None
<1>3. StartInv /\ ~null
  <2>1. \A c \in Callers : pos[c] = 0 /\ index[c] = None
    OBVIOUS
  <2> QED
    BY <2>1, SizeType DEF StartInv
<1>4. LoadInv
  <2>1. Calls = {} /\ Overtaken = {}
    BY DEF Calls, Overtaken
  <2>2. Slack = 0
    BY <2>1, FS_EmptySet DEF Slack
  <2>3. Base = 0
    BY DEF Base
  <2>4. Position(0) = 0
    BY PoolAssumption, SizeType DEF Position
  <2>5. \A t \in Threads : Turn(t) = 0
    BY <2>3, <2>4, SizeType DEF Turn, Distance
  <2> QED
    BY <2>2, <2>5 DEF LoadInv
<1> QED
  BY <1>1, <1>2, <1>3, <1>4 DEF IInv

(* Run calls: the calls of others, that of the detailed thread, and its    *)
(* own steps.                                                              *)
LEMMA StartKeeps ==
    ASSUME IInv, ThreadStep \/ DestroyPool \/ (\E c \in Callers : RunOther(c) \/ RunDetail(c))
    PROVE  PoolTypeOK' /\ StartInv' /\ ~null'
<1> USE DEF gets
<1>1. CASE ThreadStep
  <2>1. /\ UNCHANGED <<pos, available, gets>>
        /\ dpc' = "none" <=> dpc = "none"
        /\ \A c \in Callers : rpc[c] = "done" => rpc'[c] = "done"
    <3>1. CASE Construct \/ WorkerStep \/ SpuriousWake
      BY <3>1, <1>1
      DEF ThreadStep, Construct, WorkerStep, SpuriousWake, LockWorker, WaitPredicate,
          WakeWorker, EndWait, Publish, Fulfil, EnterLoop, LeaveLoop
    <3>2. CASE RunStep(Owner)
      BY <3>2, <1>1, ThreadAssumption
      DEF ThreadStep, RunStep, EnterOnce, SkipOnce, SetRunning, UnlockRun, GetFuture,
          MoveRun, IInv, TypeOK, Runners
    <3>3. CASE DestroyStep
      BY <3>3, <1>1, ThreadAssumption
      DEF ThreadStep, DestroyStep, CallRun, MoveRun, QuitLoop, Join, IInv, TypeOK,
          Runners
    <3> QED
      BY <1>1, <3>1, <3>2, <3>3 DEF ThreadStep
  <2> QED
    BY <2>1 DEF IInv, PoolTypeOK, StartInv
<1>2. CASE DestroyPool
  BY <1>2 DEF DestroyPool, Destroy, Outside, IInv, PoolTypeOK, StartInv
<1>3. ASSUME NEW c \in Callers, RunOther(c) PROVE PoolTypeOK' /\ StartInv' /\ ~null'
  <2>1. /\ pos[c] \in Threads \ {Detail}
        /\ pos' = [pos EXCEPT ![c] = @ + 1]
        /\ available' = available \cup {pos[c]}
        /\ UNCHANGED <<vars, gets>>
    BY <1>3 DEF RunOther
  <2>2. /\ pos \in [Callers -> 0 .. Size] /\ pos[c] \in Nat /\ pos[c] < Size
    BY <2>1, SizeType DEF IInv, PoolTypeOK
  <2>3. PoolTypeOK'
    <3>1. pos' \in [Callers -> 0 .. Size]
      BY <2>1, <2>2, SizeType
    <3>2. available' \in SUBSET (Threads \ {Detail})
      BY <2>1 DEF IInv, PoolTypeOK
    <3> QED
      BY <2>1, <3>1, <3>2 DEF IInv, PoolTypeOK
  <2>4. \A d \in Callers : \/ pos'[d] = pos[d]
                           \/ d = c /\ pos'[d] = pos[c] + 1
    BY <2>1, <2>2
  <2>5. \A d \in Callers : pos'[d] > Detail => rpc'[d] = "done"
    BY <2>1, <2>2, <2>4, SizeType DEF IInv, PoolTypeOK, StartInv, vars
  <2>6. \A d \in Callers : \A t \in Threads \ {Detail} : pos'[d] > t => t \in available'
    BY <2>1, <2>2, <2>4, SizeType DEF IInv, StartInv
  <2>7. \A d \in Callers : index'[d] # None => pos'[d] = Size /\ dpc' = "none"
    BY <2>1, <2>2, <2>4, SizeType DEF IInv, StartInv, vars
  <2> QED
    BY <2>1, <2>3, <2>5, <2>6, <2>7 DEF StartInv, IInv
<1>4. ASSUME NEW c \in Callers, RunDetail(c) PROVE PoolTypeOK' /\ StartInv' /\ ~null'
  <2>1. /\ pos[c] = Detail
        /\ pos' = IF rpc'[c] = "done" THEN [pos EXCEPT ![c] = @ + 1] ELSE pos
        /\ UNCHANGED <<available, gets>>
        /\ CallRun(c) \/ RunStep(c)
    BY <1>4 DEF RunDetail
  <2>2. /\ dpc' = dpc /\ rpc[c] # "done"
        /\ \A d \in Callers \ {c} : rpc'[d] = rpc[d]
    BY <2>1 DEF CallRun, RunStep, EnterOnce, SkipOnce, SetRunning, UnlockRun, GetFuture,
       MoveRun, IInv, TypeOK, Runners
  <2>3. pos \in [Callers -> 0 .. Size] /\ Detail \in Nat /\ Detail < Size
    BY SizeType DEF IInv, PoolTypeOK
  <2>4. PoolTypeOK'
    BY <2>1, <2>3, SizeType DEF IInv, PoolTypeOK
  <2>5. \A d \in Callers : \/ pos'[d] = pos[d]
                           \/ d = c /\ pos'[d] = Detail + 1 /\ rpc'[c] = "done"
    BY <2>1, <2>3
  <2>6. \A d \in Callers : pos'[d] > Detail => rpc'[d] = "done"
    BY <2>1, <2>2, <2>3, <2>5 DEF IInv, StartInv
  <2>7. \A d \in Callers : \A t \in Threads \ {Detail} : pos'[d] > t => t \in available'
    BY <2>1, <2>3, <2>5, SizeType DEF IInv, StartInv
  <2>8. \A d \in Callers : index'[d] # None => pos'[d] = Size /\ dpc' = "none"
    BY <2>1, <2>2, <2>3, <2>5 DEF IInv, StartInv
  <2> QED
    BY <2>1, <2>4, <2>6, <2>7, <2>8 DEF StartInv, IInv
<1> QED
  BY <1>1, <1>2, <1>3, <1>4

LEMMA GetKeeps ==
    ASSUME IInv, NEW c \in Callers, ReadIndex(c) \/ GetNextLoop(c)
    PROVE  PoolTypeOK' /\ StartInv' /\ ~null'
<1>1. CASE ReadIndex(c)
  <2>1. /\ dpc = "none" /\ pos[c] = Size
        /\ overlaps' = overlaps + Cardinality(Calls)
        /\ index' = [index EXCEPT ![c] = loopIndex_]
        /\ UNCHANGED <<vars, pos, available, loopIndex_, load, turns, null>>
    BY <1>1 DEF ReadIndex, Calls
  <2>2. overlaps' \in Nat
    BY <2>1, CallsFinite DEF IInv, PoolTypeOK
  <2>3. PoolTypeOK'
    BY <2>1, <2>2 DEF IInv, PoolTypeOK
  <2>4. StartInv'
    BY <2>1 DEF IInv, PoolTypeOK, StartInv, vars
  <2> QED
    BY <2>1, <2>3, <2>4 DEF IInv
<1>2. CASE GetNextLoop(c)
  <2> DEFINE t == Position(index[c])
  <2>1. /\ index[c] # None
        /\ loopIndex_' = Next32(loopIndex_)
        /\ turns' = IF (loopIndex_ < 0) # (loopIndex_' < 0) THEN turns + 1 ELSE turns
        /\ index' = [index EXCEPT ![c] = None]
        /\ load' = [s \in Threads |-> IF s = t THEN load[s] + 1 ELSE load[s]]
        /\ null' = (null \/ t \notin Threads \/ ~Loop(t))
        /\ UNCHANGED <<vars, pos, available, overlaps>>
    BY <1>2 DEF GetNextLoop
  <2>2. t \in Threads /\ index[c] \in Indices
    <3>1. index[c] \in Indices
      BY <2>1 DEF IInv, PoolTypeOK
    <3>2. index[c] \in Int
      BY <3>1, PoolAssumption DEF Indices
    <3> QED
      BY <3>1, <3>2, PositionType
  <2> HIDE DEF t
  <2>3. Loop(t)
    <3>1. pos[c] = Size /\ dpc = "none"
      BY <2>1 DEF IInv, StartInv
    <3>2. CASE t = Detail
      <4>1. rpc[c] = "done"
        BY <3>1, SizeType DEF IInv, StartInv
      <4>2. loop
        BY <3>1, <4>1, AvailableAfterRun DEF IInv, LoopAvailable, Runners
      <4> QED
        BY <3>2, <4>2 DEF Loop
    <3>3. CASE t # Detail
      <4>1. pos[c] > t
        BY <2>2, <3>1, SizeType
      <4> QED
        BY <2>2, <3>3, <4>1 DEF Loop, IInv, StartInv
    <3> QED
      BY <3>2, <3>3
  <2>4. ~null'
    BY <2>1, <2>2, <2>3 DEF IInv
  <2>5. loopIndex_' \in Indices
    BY <2>1, PoolAssumption DEF Next32, Indices
  <2>6. turns' \in Nat
    BY <2>1 DEF IInv, PoolTypeOK
  <2>7. load' \in [Threads -> Nat]
    BY <2>1 DEF IInv, PoolTypeOK
  <2>8. PoolTypeOK'
    BY <2>1, <2>4, <2>5, <2>6, <2>7, Booleans DEF IInv, PoolTypeOK
  <2>9. StartInv'
    BY <2>1 DEF IInv, PoolTypeOK, StartInv, vars
  <2> QED
    BY <2>4, <2>8, <2>9
<1> QED
  BY <1>1, <1>2

LEMMA PoolStep ==
    ASSUME IInv, [PoolNext]_poolVars
    PROVE  IInv'
<1>1. TypeOK' /\ ThreadInv'
  BY PoolStepIsThreadStep, ThreadNextKeeps DEF IInv
<1>2. CASE UNCHANGED poolVars
  BY <1>1, <1>2 DEF poolVars, vars, IInv, PoolTypeOK, StartInv
<1>3. CASE PoolNext
  <2>1. PoolTypeOK' /\ StartInv' /\ ~null'
    BY <1>3, StartKeeps, GetKeeps DEF PoolNext, CallerStep
  <2> QED
    BY <1>1, <2>1 DEF IInv
<1> QED
  BY <1>2, <1>3

(* Start, GetNextLoop and the life of the thread in detail keep the        *)
(* strengthened invariant, in any interleaving of the callers.             *)
THEOREM PoolInvariance == PoolInit /\ [][PoolNext]_poolVars => []IInv
<1>1. PoolInit => IInv
  BY PoolInitial
<1>2. IInv /\ [PoolNext]_poolVars => IInv'
  BY PoolStep
<1> QED
  BY <1>1, <1>2, PTL

(* GetNextLoop never hands out a null loop or reaches beyond threads_, for *)
(* any number of threads and callers, also after loopIndex_ has overflowed *)
(* (EventLoopThreadPool::GetNextLoop, Start and the destructor).           *)
THEOREM PoolCorrect == PoolSpec => []HandsOutLoops
<1>1. IInv => HandsOutLoops
  BY AvailableAfterRun DEF IInv, HandsOutLoops
<1>2. PoolSpec => PoolInit /\ [][PoolNext]_poolVars
  BY PTL DEF PoolSpec
<1> QED
  BY <1>1, <1>2, PoolInvariance, PTL

----------------------------------------------------------------------------
(* The pool: the loops are dealt out evenly. *)

LEMMA ModBelow == \A n \in Nat \ {0} : \A a \in 0 .. n - 1 : a % n = a
  OBVIOUS

LEMMA ModNegative == \A n \in Nat \ {0} : \A a \in -n .. -1 : a % n = a + n
  OBVIOUS

LEMMA QuotientUnique ==
    ASSUME NEW n \in Nat \ {0}, NEW q \in Int, NEW p \in Int,
           NEW r \in 0 .. n - 1, NEW s \in 0 .. n - 1, n * q + r = n * p + s
    PROVE  r = s
<1>1. q = p
  OBVIOUS
<1> QED
  BY <1>1

LEMMA ModNext ==
    ASSUME NEW n \in Nat \ {0}, NEW a \in Nat
    PROVE  (a + 1) % n = IF a % n = n - 1 THEN 0 ELSE (a % n) + 1
<1> DEFINE q == a \div n  r == a % n  p == (a + 1) \div n  s == (a + 1) % n
<1>1. q \in Int /\ r \in 0 .. n - 1 /\ a = n * q + r
  OBVIOUS
<1>2. p \in Int /\ s \in 0 .. n - 1 /\ a + 1 = n * p + s
  OBVIOUS
<1> HIDE DEF q, r, p, s
<1>3. CASE r = n - 1
  <2>1. n * (q + 1) = n * q + n
    BY <1>1
  <2>2. n * (q + 1) + 0 = n * p + s
    BY <1>1, <1>2, <1>3, <2>1
  <2>3. 0 = s
    BY <1>1, <1>2, <2>2, QuotientUnique
  <2> QED
    BY <1>3, <2>3 DEF r, s
<1>4. CASE r # n - 1
  <2>1. r + 1 \in 0 .. n - 1 /\ n * q + (r + 1) = n * p + s
    BY <1>1, <1>2, <1>4
  <2>2. r + 1 = s
    BY <1>1, <1>2, <2>1, QuotientUnique
  <2> QED
    BY <1>4, <2>2 DEF r, s
<1> QED
  BY <1>3, <1>4

(* Between two changes of the sign the positions go round.                 *)
LEMMA PositionNext ==
    ASSUME NEW i \in Indices, i + 1 \in Indices, (i < 0) <=> (i + 1 < 0)
    PROVE  Position(i + 1) = IF Position(i) = Size - 1 THEN 0 ELSE Position(i) + 1
<1>1. /\ i \in Int /\ -IndexHalf <= i /\ i + 1 < IndexHalf /\ SizeRange \in Nat \ {0}
      /\ IndexHalf \in Nat /\ SizeRange >= 2 * IndexHalf /\ Size \in Nat \ {0}
  BY PoolAssumption, SizeType DEF Indices
<1>2. PICK a \in Nat : i % SizeRange = a /\ (i + 1) % SizeRange = a + 1
  <2>1. CASE i >= 0
    <3>1. i \in 0 .. SizeRange - 1 /\ i + 1 \in 0 .. SizeRange - 1
      BY <1>1, <2>1
    <3> QED
      BY <1>1, <3>1, ModBelow
  <2>2. CASE i < 0
    <3>1. i \in -SizeRange .. -1 /\ i + 1 \in -SizeRange .. -1
      BY <1>1, <2>2
    <3>2. i % SizeRange = i + SizeRange /\ (i + 1) % SizeRange = (i + 1) + SizeRange
      BY <1>1, <3>1, ModNegative
    <3>3. i + SizeRange \in Nat /\ (i + 1) + SizeRange = (i + SizeRange) + 1
      BY <1>1, <3>1
    <3> QED
      BY <3>2, <3>3
  <2> QED
    BY <1>1, <2>1, <2>2
<1>3. (a + 1) % Size = IF a % Size = Size - 1 THEN 0 ELSE (a % Size) + 1
  BY <1>1, ModNext
<1> QED
  BY <1>2, <1>3 DEF Position

LEMMA BaseType ==
    ASSUME PoolTypeOK
    PROVE  /\ Base \in Threads /\ Position(loopIndex_) \in Threads
           /\ \A t \in Threads : Distance(t) \in 0 .. Size - 1
           /\ \A s, t \in Threads : Distance(s) = Distance(t) => s = t
<1>1. Base \in Threads /\ Position(loopIndex_) \in Threads
  <2>1. loopIndex_ \in Int /\ -IndexHalf \in Int
    BY PoolAssumption DEF PoolTypeOK, Indices
  <2> QED
    BY <2>1, PositionType, SizeType DEF Base
<1> QED
  BY <1>1, SizeType DEF Distance

(* The increment without a change of the sign: the position that was next  *)
(* has had its turn, and no other.                                         *)
LEMMA TurnNext ==
    ASSUME PoolTypeOK, PoolTypeOK', loopIndex_' = Next32(loopIndex_),
           (loopIndex_ < 0) <=> (loopIndex_' < 0),
           NEW s \in Threads, NEW t \in Threads,
           NEW p, p = Position(loopIndex_)
    PROVE  Turn(s)' - Turn(t)' = Turn(s) - Turn(t) + (IF s = p THEN 1 ELSE 0)
                                     - (IF t = p THEN 1 ELSE 0)
<1> DEFINE i == loopIndex_
           P == Position(loopIndex_')
<1>1. i \in Indices /\ IndexHalf \in Nat \ {0} /\ i \in Int
  BY PoolAssumption DEF PoolTypeOK, Indices
<1>2. i + 1 \in Indices /\ loopIndex_' = i + 1
  BY <1>1 DEF Next32, Indices
<1>3. P = IF p = Size - 1 THEN 0 ELSE p + 1
  BY <1>1, <1>2, PositionNext
<1>4. Base' = Base
  BY <1>1, <1>2 DEF Base
<1>5. \A x \in Threads : Distance(x)' = Distance(x)
  BY <1>4 DEF Distance
<1>6. p \in Threads /\ P \in Threads /\ Base \in Threads
  <2>1. loopIndex_' \in Int
    BY <1>1, <1>2
  <2> QED
    BY <2>1, BaseType, PositionType
<1>7. Turn(s)' = (IF Distance(s) < Distance(P) THEN 1 ELSE 0)
      /\ Turn(t)' = (IF Distance(t) < Distance(P) THEN 1 ELSE 0)
  BY <1>5, <1>6 DEF Turn
<1>8. Turn(s) = (IF Distance(s) < Distance(p) THEN 1 ELSE 0)
      /\ Turn(t) = (IF Distance(t) < Distance(p) THEN 1 ELSE 0)
  BY DEF Turn
<1> HIDE DEF P
<1>9. Distance(P) = IF Distance(p) = Size - 1 THEN 0 ELSE Distance(p) + 1
  BY <1>3, <1>6, SizeType DEF Distance
<1>10. /\ \A x \in Threads : Distance(x) \in 0 .. Size - 1
       /\ \A x, y \in Threads : Distance(x) = Distance(y) => x = y
  BY BaseType
<1>11. /\ Distance(s) \in 0 .. Size - 1 /\ Distance(t) \in 0 .. Size - 1
       /\ Distance(p) \in 0 .. Size - 1
       /\ Distance(s) = Distance(p) <=> s = p
       /\ Distance(t) = Distance(p) <=> t = p
  BY <1>6, <1>10
<1> QED
  BY <1>7, <1>8, <1>9, <1>11, SizeType

(* A new round begins where the sign changes.                              *)
LEMMA TurnRestarts ==
    ASSUME PoolTypeOK, loopIndex_' = Next32(loopIndex_),
           ~((loopIndex_ < 0) <=> (loopIndex_' < 0)), NEW t \in Threads
    PROVE  Turn(t)' = 0
<1>1. loopIndex_ \in Indices /\ IndexHalf \in Nat \ {0} /\ loopIndex_ \in Int
  BY PoolAssumption DEF PoolTypeOK, Indices
<1>2. loopIndex_' = 0 \/ loopIndex_' = -IndexHalf
  BY <1>1 DEF Next32, Indices
<1>3. Position(0) = 0
  BY PoolAssumption, SizeType DEF Position
<1>4. Position(loopIndex_')  = Base'
  BY <1>1, <1>2, <1>3 DEF Base
<1>5. Base' \in Threads
  <2>1. -IndexHalf \in Int
    BY <1>1
  <2> QED
    BY <2>1, PositionType, SizeType DEF Base
<1>6. PICK b \in 0 .. Size - 1 : b = Base'
  BY <1>5, SizeType
<1> DEFINE far == IF t >= b THEN t - b ELSE t - b + Size
           near == IF b >= b THEN b - b ELSE b - b + Size
<1>7. far \in Int /\ far >= 0 /\ near = 0
  <2>1. b \in Int /\ t \in Int /\ Size \in Int /\ 0 <= b /\ b < Size /\ 0 <= t
    BY <1>6, SizeType
  <2>2. near = 0
    BY <2>1
  <2>3. far \in Int /\ far >= 0
    BY <2>1
  <2> QED
    BY <2>2, <2>3
<1>8. Turn(t)' = IF far < near THEN 1 ELSE 0
  BY <1>4, <1>6 DEF Turn, Distance
<1> HIDE DEF far, near
<1> QED
  BY <1>7, <1>8

LEMMA TurnType == \A t : Turn(t) \in {0, 1} /\ Turn(t)' \in {0, 1}
  BY DEF Turn

(* The first half of GetNextLoop pays for the pairs it makes. *)
LEMMA ReadSlack ==
    ASSUME IInv, NEW c \in Callers, ReadIndex(c)
    PROVE  Slack' = Slack
<1>1. /\ index[c] = None
      /\ overlaps' = overlaps + Cardinality(Calls)
      /\ index' = [index EXCEPT ![c] = loopIndex_]
      /\ loopIndex_' = loopIndex_
  BY DEF ReadIndex, Calls
<1>2. loopIndex_ # None /\ overlaps \in Nat
  BY PoolAssumption DEF IInv, PoolTypeOK, Indices, None
<1>3. index \in [Callers -> Indices \cup {None}]
  BY DEF IInv, PoolTypeOK
<1>4. Calls' = Calls \cup {c} /\ c \notin Calls
  BY <1>1, <1>2, <1>3 DEF Calls
<1>5. Overtaken' = Overtaken
  BY <1>1, <1>2, <1>3, <1>4 DEF Overtaken, Calls
<1>6. Cardinality(Calls') = Cardinality(Calls) + 1
  BY <1>4, CallsFinite, FS_AddElement
<1> DEFINE n == Cardinality(Calls)
           k == Cardinality(Overtaken)
<1>7. n \in Nat /\ k \in Nat
  BY CallsFinite
<1>8. Slack = 2 * overlaps - 2 * k - n * (n - 1)
  BY DEF Slack
<1>9. Slack' = 2 * (overlaps + n) - 2 * k - (n + 1) * ((n + 1) - 1)
  BY <1>1, <1>5, <1>6 DEF Slack
<1> HIDE DEF n, k
<1> QED
  BY <1>2, <1>7, <1>8, <1>9

(* The second half uses up two if the call was overtaken, and none if not. *)
LEMMA GetSlack ==
    ASSUME IInv, NEW c \in Callers, GetNextLoop(c)
    PROVE  /\ Slack \in Int /\ Slack' \in Int
           /\ Slack' >= Slack + (IF c \in Overtaken THEN 2 ELSE 0)
<1>1. /\ index[c] # None
      /\ index' = [index EXCEPT ![c] = None] /\ overlaps' = overlaps
  BY DEF GetNextLoop
<1>2. Calls' = Calls \ {c} /\ c \in Calls /\ Overtaken' \subseteq Calls'
  BY <1>1 DEF Calls, Overtaken, IInv, PoolTypeOK
<1> DEFINE n == Cardinality(Calls)
           k == Cardinality(Overtaken)
           j == Cardinality(Overtaken')
<1>3. /\ Cardinality(Calls') = n - 1 /\ IsFiniteSet(Calls') /\ n \in Nat /\ k \in Nat
      /\ overlaps \in Nat
  BY <1>2, CallsFinite, FS_RemoveElement DEF IInv, PoolTypeOK
<1>4. j \in Nat /\ j <= n - 1
  BY <1>2, <1>3, FS_Subset, FS_CardinalityType
<1>5. c \in Overtaken => k >= 1
  <2>1. ASSUME c \in Overtaken PROVE k # 0
    BY <2>1, CallsFinite, FS_EmptySet
  <2> QED
    BY <1>3, <2>1
<1>6. Slack = 2 * overlaps - 2 * k - n * (n - 1)
  BY DEF Slack
<1>7. Slack' = 2 * overlaps - 2 * j - (n - 1) * ((n - 1) - 1)
  BY <1>1, <1>3 DEF Slack
<1> HIDE DEF n, k, j
<1>8. n * (n - 1) = (n - 1) * ((n - 1) - 1) + 2 * (n - 1)
  BY <1>3
<1>9. Slack' >= Slack + 2 * k /\ Slack \in Int /\ Slack' \in Int
  BY <1>3, <1>4, <1>6, <1>7, <1>8
<1> QED
  BY <1>3, <1>5, <1>9

LEMMA LoadStep ==
    ASSUME IInv, IInv', LoadInv, [PoolNext]_poolVars
    PROVE  LoadInv'
<1>1. CASE UNCHANGED gets
  BY <1>1 DEF gets, LoadInv, Turn, Distance, Base, Slack, Calls, Overtaken
<1>2. ASSUME NEW c \in Callers, ReadIndex(c) PROVE LoadInv'
  <2>1. UNCHANGED <<load, turns, loopIndex_>>
    BY <1>2 DEF ReadIndex
  <2>2. Slack' = Slack
    BY <1>2, ReadSlack
  <2> QED
    BY <2>1, <2>2 DEF LoadInv, Turn, Distance, Base
<1>3. ASSUME NEW c \in Callers, GetNextLoop(c) PROVE LoadInv'
  <2> DEFINE q == Position(index[c])
             p == Position(loopIndex_)
             turned == ~((loopIndex_ < 0) <=> (loopIndex_' < 0))
             One(x, y) == IF x = y THEN 1 ELSE 0
  <2>1. /\ loopIndex_' = Next32(loopIndex_)
        /\ turns' = IF turned THEN turns + 1 ELSE turns
        /\ load' = [s \in Threads |-> IF s = q THEN load[s] + 1 ELSE load[s]]
        /\ index[c] # None
    BY <1>3 DEF GetNextLoop
  <2>2. load \in [Threads -> Nat] /\ turns \in Nat /\ PoolTypeOK /\ PoolTypeOK'
    BY DEF IInv, PoolTypeOK
  <2>3. Slack \in Int /\ Slack' \in Int /\ (Slack' >= Slack + IF q = p THEN 0 ELSE 2)
    <3>1. c \notin Overtaken => q = p
      BY <2>1 DEF Overtaken, Calls
    <3> QED
      BY <1>3, <3>1, GetSlack
  <2> HIDE DEF q, p, turned
  <2>4. ASSUME NEW s \in Threads, NEW t \in Threads
        PROVE  load'[s] - load'[t] <= turns' + Turn(s)' - Turn(t)' + Slack'
    <3>1. load[s] - load[t] <= turns + Turn(s) - Turn(t) + Slack
      BY DEF LoadInv
    <3>2. load'[s] - load'[t] = load[s] - load[t] + One(s, q) - One(t, q)
      BY <2>1, <2>2
    <3>3. /\ Turn(s) \in {0, 1} /\ Turn(t) \in {0, 1}
          /\ Turn(s)' \in {0, 1} /\ Turn(t)' \in {0, 1}
      BY TurnType
    <3>4. load[s] \in Nat /\ load[t] \in Nat /\ load'[s] \in Nat /\ load'[t] \in Nat
          /\ turns' \in Nat
      BY <2>1, <2>2
    <3>5. One(s, p) - One(t, p) + Turn(s) - Turn(t) <= 1
      <4>1. Turn(p) = 0
        BY <2>2, BaseType DEF Turn, p
      <4> QED
        BY <3>3, <4>1
    <3>6. CASE ~turned
      <4>1. Turn(s)' - Turn(t)' = Turn(s) - Turn(t) + One(s, p) - One(t, p)
        BY <2>1, <2>2, <3>6, TurnNext DEF turned, p
      <4> QED
        BY <2>1, <2>2, <2>3, <3>1, <3>2, <3>3, <3>4, <3>6, <4>1
    <3>7. CASE turned
      <4>1. Turn(s)' = 0 /\ Turn(t)' = 0
        BY <2>1, <2>2, <3>7, TurnRestarts DEF turned
      <4>2. CASE q = p
        BY <2>1, <2>2, <2>3, <3>1, <3>2, <3>3, <3>4, <3>5, <3>7, <4>1, <4>2
      <4>3. CASE q # p
        BY <2>1, <2>2, <2>3, <3>1, <3>2, <3>3, <3>4, <3>7, <4>1, <4>3
      <4> QED
        BY <4>2, <4>3
    <3> QED
      BY <3>6, <3>7
  <2> QED
    BY <2>4 DEF LoadInv
<1> QED
  BY <1>1, <1>2, <1>3
  DEF PoolNext, ThreadStep, DestroyPool, CallerStep, RunOther, RunDetail, poolVars, gets

(* The loops are dealt out evenly up to the overlaps of GetNextLoop calls  *)
(* and the changes of loopIndex_'s sign, for any number of threads, of     *)
(* callers and of calls (EventLoopThreadPool::GetNextLoop).                *)
THEOREM EvenLoadCorrect == PoolSpec => []EvenLoad
<1>1. IInv /\ LoadInv => EvenLoad
  <2> SUFFICES ASSUME IInv, LoadInv, NEW s \in Threads, NEW t \in Threads
               PROVE  load[s] - load[t] <= 1 + 2 * overlaps + turns
    BY DEF EvenLoad
  <2> DEFINE n == Cardinality(Calls)
             k == Cardinality(Overtaken)
  <2>1. n \in Nat /\ k \in Nat /\ Slack = 2 * overlaps - 2 * k - n * (n - 1)
    BY CallsFinite DEF Slack
  <2> HIDE DEF n, k
  <2>2. n * (n - 1) \in Nat
    BY <2>1
  <2>3. overlaps \in Nat /\ turns \in Nat /\ load[s] \in Nat /\ load[t] \in Nat
    BY DEF IInv, PoolTypeOK
  <2>4. load[s] - load[t] <= turns + Turn(s) - Turn(t) + Slack
    BY DEF LoadInv
  <2>5. Turn(s) \in {0, 1} /\ Turn(t) \in {0, 1}
    BY TurnType
  <2> QED
    BY <2>1, <2>2, <2>3, <2>4, <2>5
<1>2. PoolInit => LoadInv
  BY PoolInitial
<1>3. IInv /\ IInv' /\ LoadInv /\ [PoolNext]_poolVars => LoadInv'
  BY LoadStep
<1>4. PoolSpec => PoolInit /\ [][PoolNext]_poolVars
  BY PTL DEF PoolSpec
<1> QED
  BY <1>1, <1>2, <1>3, <1>4, PoolInvariance, PTL

=============================================================================
