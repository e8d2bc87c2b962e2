-------------------------- MODULE EventLoopThread --------------------------
(***************************************************************************)
(* nest::net::EventLoopThread: a thread that owns an EventLoop.            *)
(*                                                                         *)
(* The constructor starts the thread from its initialiser list.  thread_   *)
(* is declared before condition_, mtx_, isRunning_, once_ and              *)
(* promiseLoop_, so these are constructed while the thread may already     *)
(* run.  The thread waits until Run has set isRunning_, publishes loop_,   *)
(* fulfils the promise and runs the loop WITH mtx_ HELD.  Run is           *)
(* idempotent (call_once) and returns after the promise.  The destructor   *)
(* calls Run, then Quit, then joins.                                       *)
(***************************************************************************)
EXTENDS Naturals, FiniteSets

CONSTANTS
    Callers,      \* threads that call Run
    Owner,        \* the thread that runs the destructor, and Run inside it
    Worker,       \* thread_
    NoThread,
    EarlyThread   \* TRUE: thread_ may be scheduled before the constructor is done

Runners == Callers \cup {Owner}

ASSUME ThreadAssumption ==
    /\ Owner \notin Callers
    /\ {Worker, NoThread} \cap Runners = {}
    /\ Worker # NoThread
    /\ EarlyThread \in BOOLEAN

VARIABLES
    built,      \* members constructed after thread_: condition_, mtx_,
                \* isRunning_, promiseLoop_ (and once_)
    mtx,        \* the holder of mtx_
    cond,       \* what condition_ knows of thread_
    isRunning,  \* isRunning_
    promise,    \* promiseLoop_ has its value
    loop,       \* loop_ is not null
    isLooping,  \* isLooping_ of the EventLoop
    wpc,        \* where thread_ is
    rpc,        \* rpc[r]: where the Run call of r is
    dpc         \* where the destructor is

vars == <<built, mtx, cond, isRunning, promise, loop, isLooping, wpc, rpc, dpc>>

Members == 4

WorkerPc == {"start", "test", "wait", "publish", "fulfil", "enter", "loop",
             "exit"}
RunPc == {"none", "once", "lock", "unlock", "future", "done"}
DestroyPc == {"none", "run", "quit", "join", "done"}

TypeOK ==
    /\ built \in 0..Members
    /\ mtx \in Runners \cup {Worker, NoThread}
    /\ cond \in {"none", "waiting", "notified"}
    /\ isRunning \in BOOLEAN
    /\ promise \in BOOLEAN
    /\ loop \in BOOLEAN
    /\ isLooping \in BOOLEAN
    /\ wpc \in WorkerPc
    /\ rpc \in [Runners -> RunPc]
    /\ dpc \in DestroyPc

(* The thread exists and no member declared after it does.  The memory of  *)
(* these members is taken to be zero, the best case of what it may hold.   *)
Init ==
    /\ built = 0
    /\ mtx = NoThread
    /\ cond = "none"
    /\ isRunning = FALSE
    /\ promise = FALSE
    /\ loop = FALSE
    /\ isLooping = FALSE
    /\ wpc = "start"
    /\ rpc = [r \in Runners |-> "none"]
    /\ dpc = "none"

Constructed == built = Members

----------------------------------------------------------------------------
(* The constructor: each member is initialised over what the thread may    *)
(* already have done to it.  A new condition_ knows no waiter, a new mtx_  *)
(* is free.                                                                *)
Construct ==
    /\ ~Constructed
    /\ built' = built + 1
    /\ cond' = IF built' = 1 THEN "none" ELSE cond
    /\ mtx' = IF built' = 2 THEN NoThread ELSE mtx
    /\ isRunning' = (isRunning /\ built' # 3)
    /\ UNCHANGED <<promise, loop, isLooping, wpc, rpc, dpc>>

----------------------------------------------------------------------------
(* StartEventLoop in thread_.                                              *)

LockWorker ==
    /\ wpc = "start"
    /\ EarlyThread \/ Constructed
    /\ mtx = NoThread
    /\ mtx' = Worker
    /\ wpc' = "test"
    /\ UNCHANGED <<built, cond, isRunning, promise, loop, isLooping, rpc, dpc>>

(* Mutant: wait(lk) without the predicate. *)
WaitPredicate_None ==
    /\ wpc = "test"
    /\ IF cond = "notified"
       THEN wpc' = "publish" /\ UNCHANGED <<cond, mtx>>
       ELSE wpc' = "wait" /\ cond' = "waiting" /\ mtx' = NoThread
    /\ UNCHANGED <<built, isRunning, promise, loop, isLooping, rpc, dpc>>

(* condition_.wait: the predicate is tested with mtx_ held; if it is false *)
(* the thread becomes a waiter and releases mtx_ in one step.              *)
WaitPredicate ==
    /\ wpc = "test"
    /\ IF isRunning
       THEN wpc' = "publish" /\ UNCHANGED <<cond, mtx>>
       ELSE wpc' = "wait" /\ cond' = "waiting" /\ mtx' = NoThread
    /\ UNCHANGED <<built, isRunning, promise, loop, isLooping, rpc, dpc>>

(* The wait ends, notified or spuriously, and has mtx_ again. *)
EndWait ==
    /\ wpc = "wait"
    /\ mtx = NoThread
    /\ mtx' = Worker
    /\ wpc' = "test"
    /\ UNCHANGED <<built, isRunning, promise, loop, isLooping, rpc, dpc>>

WakeWorker == EndWait /\ cond = "notified" /\ UNCHANGED cond

SpuriousWake == EndWait /\ cond = "waiting" /\ cond' = "none"

(* loop_ = &loop. *)
Publish ==
    /\ wpc = "publish"
    /\ loop' = TRUE
    /\ wpc' = "fulfil"
    /\ UNCHANGED <<built, mtx, cond, isRunning, promise, isLooping, rpc, dpc>>

(* promiseLoop_.set_value. *)
Fulfil ==
    /\ wpc = "fulfil"
    /\ promise' = TRUE
    /\ wpc' = "enter"
    /\ UNCHANGED <<built, mtx, cond, isRunning, loop, isLooping, rpc, dpc>>

(* loop.Loop() sets isLooping_, whatever Quit did before. *)
EnterLoop ==
    /\ wpc = "enter"
    /\ isLooping' = TRUE
    /\ wpc' = "loop"
    /\ UNCHANGED <<built, mtx, cond, isRunning, promise, loop, rpc, dpc>>

(* The loop sees isLooping_ false; loop_ = nullptr; mtx_ is unlocked. *)
LeaveLoop ==
    /\ wpc = "loop"
    /\ ~isLooping
    /\ loop' = FALSE
    /\ mtx' = NoThread
    /\ wpc' = "exit"
    /\ UNCHANGED <<built, cond, isRunning, promise, isLooping, rpc, dpc>>

----------------------------------------------------------------------------
(* Run.  At most one call is past "once"; the others wait in call_once.    *)

MoveRun(r, from, to) ==
    /\ rpc[r] = from
    /\ rpc' = [rpc EXCEPT ![r] = to]

CallRun(r) ==
    /\ Constructed
    /\ r = Owner => dpc = "run"
    /\ r # Owner => dpc = "none"
    /\ MoveRun(r, "none", "once")
    /\ UNCHANGED <<built, mtx, cond, isRunning, promise, loop, isLooping, wpc,
                   dpc>>

(* call_once: the first call executes the lambda. *)
EnterOnce(r) ==
    /\ \A q \in Runners : rpc[q] \in {"none", "once"}
    /\ MoveRun(r, "once", "lock")
    /\ UNCHANGED <<built, mtx, cond, isRunning, promise, loop, isLooping, wpc,
                   dpc>>

(* call_once: the lambda was executed, there is nothing to do. *)
SkipOnce(r) ==
    /\ \E q \in Runners : rpc[q] = "done"
    /\ MoveRun(r, "once", "done")
    /\ UNCHANGED <<built, mtx, cond, isRunning, promise, loop, isLooping, wpc,
                   dpc>>

(* isRunning_ = true and notify_all under mtx_. *)
SetRunning(r) ==
    /\ mtx = NoThread
    /\ MoveRun(r, "lock", "unlock")
    /\ mtx' = r
    /\ isRunning' = TRUE
    /\ cond' = IF cond = "waiting" THEN "notified" ELSE cond
    /\ UNCHANGED <<built, promise, loop, isLooping, wpc, dpc>>

UnlockRun(r) ==
    /\ MoveRun(r, "unlock", "future")
    /\ mtx' = NoThread
    /\ UNCHANGED <<built, cond, isRunning, promise, loop, isLooping, wpc, dpc>>

(* f.get() returns when the promise has its value. *)
GetFuture(r) ==
    /\ promise
    /\ MoveRun(r, "future", "done")
    /\ UNCHANGED <<built, mtx, cond, isRunning, promise, loop, isLooping, wpc,
                   dpc>>

----------------------------------------------------------------------------
(* The destructor; nobody is inside Run any more.                          *)

Destroy ==
    /\ dpc = "none"
    /\ Constructed
    /\ \A r \in Callers : rpc[r] \in {"none", "done"}
    /\ dpc' = "run"
    /\ UNCHANGED <<built, mtx, cond, isRunning, promise, loop, isLooping, wpc,
                   rpc>>

(* if (loop_) loop_->Quit(), after Run has returned. *)
QuitLoop ==
    /\ dpc = "run"
    /\ rpc[Owner] = "done"
    /\ isLooping' = (isLooping /\ ~loop)
    /\ dpc' = "join"
    /\ UNCHANGED <<built, mtx, cond, isRunning, promise, loop, wpc, rpc>>

Join ==
    /\ dpc = "join"
    /\ wpc = "exit"
    /\ dpc' = "done"
    /\ UNCHANGED <<built, mtx, cond, isRunning, promise, loop, isLooping, wpc,
                   rpc>>

----------------------------------------------------------------------------
WorkerStep ==
    \/ LockWorker \/ WaitPredicate \/ WakeWorker \/ Publish \/ Fulfil
    \/ EnterLoop \/ LeaveLoop

(* call_once and the lambda; a thread may leave Run uncalled. *)
RunStep(r) ==
    \/ EnterOnce(r) \/ SkipOnce(r) \/ SetRunning(r) \/ UnlockRun(r)
    \/ GetFuture(r)

DestroyStep == (dpc = "run" /\ CallRun(Owner)) \/ QuitLoop \/ Join

Next ==
    \/ Construct
    \/ WorkerStep \/ SpuriousWake
    \/ \E r \in Callers : CallRun(r)
    \/ \E r \in Runners : RunStep(r)
    \/ Destroy \/ DestroyStep

SafetySpec == Init /\ [][Next]_vars

(* Every thread that can go on does, also one that waits for a mutex that  *)
(* is released again and again; nobody has to call Run or to destroy the   *)
(* object, and no wakeup has to be spurious.                               *)
Fairness ==
    /\ WF_vars(Construct)
    /\ WF_vars(WorkerStep)
    /\ \A r \in Runners : SF_vars(RunStep(r))
    /\ WF_vars(DestroyStep)

Spec == SafetySpec /\ Fairness

----------------------------------------------------------------------------
(* Properties.                                                             *)

(* A Run that has returned leaves loop_ set until the destructor asks the  *)
(* loop to quit, although call_once lets later callers through without     *)
(* looking at the promise: what "Ensure that loop_ are securely available  *)
(* externally" asks for.                                                   *)
LoopAvailable ==
    (\E r \in Runners : rpc[r] = "done") /\ dpc \in {"none", "run"} => loop

(* A Run that was called returns: the notification is not lost between the *)
(* predicate and the wait, and mtx_, which the loop's thread keeps for as  *)
(* long as the loop runs, is not needed again.                             *)
RunReturns ==
    \A r \in Runners : rpc[r] = "once" ~> rpc[r] = "done"

(* Whoever calls Run finds loop_ set some time later: "Ensure that loop_   *)
(* are securely available externally".                                     *)
LoopGetsAvailable ==
    \A r \in Callers : rpc[r] = "once" ~> loop

(* A destructor whose Quit reaches the loop inside Loop() gets to the end  *)
(* of join.  (One whose Quit comes between the promise and Loop() does     *)
(* not: Loop() sets isLooping_ again.)                                     *)
JoinReturns ==
    (dpc = "run" /\ rpc[Owner] = "done" /\ wpc = "loop") ~> dpc = "done"
============================================================================
