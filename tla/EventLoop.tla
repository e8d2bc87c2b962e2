----------------------------- MODULE EventLoop -----------------------------
(***************************************************************************)
(* nest::net::EventLoop: how a function submitted by one thread reaches    *)
(* the thread of an event loop.                                            *)
(*                                                                         *)
(* A loop has a queue of functions (fns_), a mutex (mtx_) that guards it,  *)
(* and a non-blocking pipe (pipeEvent_), created by the first foreign      *)
(* RunInLoop, whose read end is in the loop's edge-triggered epoll set.    *)
(* RunInLoop pushes under the mutex and writes one word to the pipe while  *)
(* it still holds it; the loop waits in epoll_wait for at most 1000 ms,    *)
(* reads ONE word when the pipe was reported, and then runs the whole      *)
(* queue with the mutex held (RunFuctions).                                *)
(*                                                                         *)
(* Threads are the loops' own threads, named like their loop, and other    *)
(* threads (Callers).  Posts says which thread calls RunInLoop of which    *)
(* loop.                                                                   *)
(***************************************************************************)
EXTENDS Integers, Sequences, FiniteSets

CONSTANTS
    Loops,            \* event loops, each with a thread of the same name
    Callers,          \* threads that run no loop
    Fns,              \* functions that get submitted, each at most once
    Posts,            \* <<t, l>>: thread t submits functions to loop l
    NoThread,         \* owner of a free mutex
    Stoppable,        \* the loops that some thread may stop
    PipeCap,          \* words that fit into the pipe (64 KiB / 8 bytes)
    EdgeOnEveryWrite  \* loops on a kernel whose epoll reports each write to
                      \* the pipe; on the others (Linux 5.5 to 5.13) it
                      \* reports only one into an empty pipe

Threads == Loops \cup Callers

ASSUME ThreadsAssumption ==
    /\ Loops \cap Callers = {}
    /\ NoThread \notin Threads
    /\ Posts \subseteq Threads \X Loops
    /\ Stoppable \subseteq Loops

ASSUME PipeAssumption == PipeCap \in Nat \ {0}

ASSUME EdgeAssumption == EdgeOnEveryWrite \subseteq Loops

VARIABLES
    fns,        \* fns[l]: fns_, the queued functions
    mtx,        \* mtx[l]: the thread that holds mtx_
    pipeEvent,  \* pipeEvent[l]: the pipe exists and is registered
    pipeLen,    \* pipeLen[l]: words in the pipe
    edge,       \* edge[l]: epoll has an unreported event of the pipe
    isLooping,  \* isLooping[l]: isLooping_
    lpc,        \* lpc[l]: where the thread of loop l is
    calls,      \* RunInLoop calls of foreign threads in progress
    fresh,      \* functions not submitted yet
    posted,     \* posted[l]: history, what was pushed to fns_
    ran,        \* ran[l]: history, what RunFuctions called
    onSpot,     \* history, functions that RunInLoop called directly
    quit        \* quit[l]: history, Quit was called

vars == <<fns, mtx, pipeEvent, pipeLen, edge, isLooping, lpc, calls, fresh,
          posted, ran, onSpot, quit>>

(* lpc: before Loop(), the while condition, inside epoll_wait, handling    *)
(* events with the pipe's still to come, handling events after it (and     *)
(* then locking mtx_), between two functions, inside a function, inside    *)
(* wheel_.OnTimer, after Loop().                                           *)
LoopPc == {"init", "while", "poll", "handle", "events", "run", "exec",
           "timer", "exit"}

(* A call waits for the mutex, has pushed, or has woken the loop up. *)
CallPc == {"lock", "wakeup", "return"}

Calls == [by : Threads, to : Loops, fn : Fns, at : CallPc]

TypeOK ==
    /\ fns \in [Loops -> Seq(Fns)]
    /\ mtx \in [Loops -> Threads \cup {NoThread}]
    /\ pipeEvent \in [Loops -> BOOLEAN]
    /\ pipeLen \in [Loops -> 0..PipeCap]
    /\ edge \in [Loops -> BOOLEAN]
    /\ isLooping \in [Loops -> BOOLEAN]
    /\ lpc \in [Loops -> LoopPc]
    /\ calls \in SUBSET Calls
    /\ fresh \in SUBSET Fns
    /\ posted \in [Loops -> Seq(Fns)]
    /\ ran \in [Loops -> Seq(Fns)]
    /\ onSpot \in SUBSET Fns
    /\ quit \in [Loops -> BOOLEAN]

Init ==
    /\ fns = [l \in Loops |-> <<>>]
    /\ mtx = [l \in Loops |-> NoThread]
    /\ pipeEvent = [l \in Loops |-> FALSE]
    /\ pipeLen = [l \in Loops |-> 0]
    /\ edge = [l \in Loops |-> FALSE]
    /\ isLooping = [l \in Loops |-> FALSE]
    /\ lpc = [l \in Loops |-> "init"]
    /\ calls = {}
    /\ fresh = Fns
    /\ posted = [l \in Loops |-> <<>>]
    /\ ran = [l \in Loops |-> <<>>]
    /\ onSpot = {}
    /\ quit = [l \in Loops |-> FALSE]

----------------------------------------------------------------------------
(* Submitting a function.                                                  *)

(* Thread t is not inside a RunInLoop that waits or holds a mutex. *)
NotCalling(t) == \A c \in calls : c.by # t

(* Thread t executes code that may submit functions: any code of a foreign *)
(* thread; in a loop's thread a channel's callback, a queued function or a *)
(* timer callback.                                                         *)
InUserCode(t) ==
    /\ NotCalling(t)
    /\ t \in Loops => lpc[t] \in {"handle", "events", "exec", "timer"}

(* Mutant: RunInLoop does not ask whether this is the loop's own thread. *)
RunInLoop_Unchecked(t, l, f) ==
    /\ <<t, l>> \in Posts
    /\ InUserCode(t)
    /\ f \in fresh
    /\ fresh' = fresh \ {f}
    /\ calls' = calls \cup {[by |-> t, to |-> l, fn |-> f, at |-> "lock"]}
    /\ UNCHANGED <<fns, mtx, pipeEvent, pipeLen, edge, isLooping, lpc,
                   posted, ran, onSpot, quit>>

(* RunInLoop by another thread: it has to lock mtx_ first. *)
RunInLoop(t, l, f) ==
    /\ <<t, l>> \in Posts
    /\ t # l
    /\ InUserCode(t)
    /\ f \in fresh
    /\ fresh' = fresh \ {f}
    /\ calls' = calls \cup {[by |-> t, to |-> l, fn |-> f, at |-> "lock"]}
    /\ UNCHANGED <<fns, mtx, pipeEvent, pipeLen, edge, isLooping, lpc,
                   posted, ran, onSpot, quit>>

(* RunInLoop by the loop's own thread: IsInLoopThread, so it calls fn(). *)
RunInLoopHere(l, f) ==
    /\ <<l, l>> \in Posts
    /\ InUserCode(l)
    /\ f \in fresh
    /\ fresh' = fresh \ {f}
    /\ onSpot' = onSpot \cup {f}
    /\ UNCHANGED <<fns, mtx, pipeEvent, pipeLen, edge, isLooping, lpc,
                   calls, posted, ran, quit>>

MoveCall(c, pc) == calls' = (calls \ {c}) \cup {[c EXCEPT !.at = pc]}

(* The lock_guard gets mtx_, and the function is pushed to fns_. *)
Push(c) ==
    /\ c.at = "lock"
    /\ mtx[c.to] = NoThread
    /\ mtx' = [mtx EXCEPT ![c.to] = c.by]
    /\ fns' = [fns EXCEPT ![c.to] = Append(@, c.fn)]
    /\ posted' = [posted EXCEPT ![c.to] = Append(@, c.fn)]
    /\ MoveCall(c, "wakeup")
    /\ UNCHANGED <<pipeEvent, pipeLen, edge, isLooping, lpc, fresh, ran,
                   onSpot, quit>>

(* Mutant: only the call that creates the pipe writes to it. *)
WakeUp_FirstOnly(c) ==
    /\ c.at = "wakeup"
    /\ pipeEvent' = [pipeEvent EXCEPT ![c.to] = TRUE]
    /\ IF ~pipeEvent[c.to]
       THEN /\ pipeLen' = [pipeLen EXCEPT ![c.to] = @ + 1]
            /\ edge' = [edge EXCEPT ![c.to] = TRUE]
       ELSE UNCHANGED <<pipeLen, edge>>
    /\ MoveCall(c, "return")
    /\ UNCHANGED <<fns, mtx, isLooping, lpc, fresh, posted, ran, onSpot, quit>>

(* WakeUp: make the pipe if there is none, write a word to it.  write()    *)
(* fails, unnoticed, when the pipe is full.                                *)
WakeUp(c) ==
    /\ c.at = "wakeup"
    /\ pipeEvent' = [pipeEvent EXCEPT ![c.to] = TRUE]
    /\ IF pipeLen[c.to] < PipeCap
       THEN /\ pipeLen' = [pipeLen EXCEPT ![c.to] = @ + 1]
            /\ edge' = [edge EXCEPT ![c.to] =
                            @ \/ c.to \in EdgeOnEveryWrite \/ pipeLen[c.to] = 0]
       ELSE UNCHANGED <<pipeLen, edge>>
    /\ MoveCall(c, "return")
    /\ UNCHANGED <<fns, mtx, isLooping, lpc, fresh, posted, ran, onSpot, quit>>

(* Mutant: mtx_ stays locked. *)
Return_KeepsLock(c) ==
    /\ c.at = "return"
    /\ calls' = calls \ {c}
    /\ UNCHANGED <<fns, mtx, pipeEvent, pipeLen, edge, isLooping, lpc, fresh,
                   posted, ran, onSpot, quit>>

(* RunInLoop returns and its lock_guard unlocks mtx_. *)
Return(c) ==
    /\ c.at = "return"
    /\ mtx' = [mtx EXCEPT ![c.to] = NoThread]
    /\ calls' = calls \ {c}
    /\ UNCHANGED <<fns, pipeEvent, pipeLen, edge, isLooping, lpc, fresh,
                   posted, ran, onSpot, quit>>

----------------------------------------------------------------------------
(* The loop's thread.                                                      *)

Goto(l, from, to) ==
    /\ lpc[l] = from
    /\ lpc' = [lpc EXCEPT ![l] = to]

(* Loop() is entered. *)
StartLoop(l) ==
    /\ Goto(l, "init", "while")
    /\ isLooping' = [isLooping EXCEPT ![l] = TRUE]
    /\ UNCHANGED <<fns, mtx, pipeEvent, pipeLen, edge, calls, fresh, posted,
                   ran, onSpot, quit>>

(* The while condition. *)
TestLooping(l) ==
    /\ Goto(l, "while", IF isLooping[l] THEN "poll" ELSE "exit")
    /\ UNCHANGED <<fns, mtx, pipeEvent, pipeLen, edge, isLooping, calls,
                   fresh, posted, ran, onSpot, quit>>

(* epoll_wait reports the pipe, which takes it off the ready list. *)
PollEvent(l) ==
    /\ edge[l]
    /\ Goto(l, "poll", "handle")
    /\ edge' = [edge EXCEPT ![l] = FALSE]
    /\ UNCHANGED <<fns, mtx, pipeEvent, pipeLen, isLooping, calls, fresh,
                   posted, ran, onSpot, quit>>

(* Mutant: RunFuctions is called only after an event of the pipe. *)
PollTimeout_NoFunctions(l) ==
    /\ ~edge[l]
    /\ Goto(l, "poll", "timer")
    /\ UNCHANGED <<fns, mtx, pipeEvent, pipeLen, edge, isLooping, calls,
                   fresh, posted, ran, onSpot, quit>>

(* epoll_wait returns without the pipe: another channel is ready, or       *)
(* 1000 ms have passed.                                                    *)
PollTimeout(l) ==
    /\ ~edge[l]
    /\ Goto(l, "poll", "events")
    /\ UNCHANGED <<fns, mtx, pipeEvent, pipeLen, edge, isLooping, calls,
                   fresh, posted, ran, onSpot, quit>>

(* PipeEvent::OnRead reads one word; on an empty pipe read() fails. *)
OnPipeRead(l) ==
    /\ NotCalling(l)
    /\ Goto(l, "handle", "events")
    /\ pipeLen' = [pipeLen EXCEPT ![l] = IF @ > 0 THEN @ - 1 ELSE @]
    /\ UNCHANGED <<fns, mtx, pipeEvent, edge, isLooping, calls, fresh,
                   posted, ran, onSpot, quit>>

(* All events are handled, and RunFuctions gets mtx_. *)
RunFuctions(l) ==
    /\ NotCalling(l)
    /\ mtx[l] = NoThread
    /\ Goto(l, "events", "run")
    /\ mtx' = [mtx EXCEPT ![l] = l]
    /\ UNCHANGED <<fns, pipeEvent, pipeLen, edge, isLooping, calls, fresh,
                   posted, ran, onSpot, quit>>

(* Mutant: the function is popped before the call as well as after it. *)
CallFront_PopsToo(l) ==
    /\ fns[l] # <<>>
    /\ Goto(l, "run", "exec")
    /\ ran' = [ran EXCEPT ![l] = Append(@, Head(fns[l]))]
    /\ fns' = [fns EXCEPT ![l] = IF Len(@) > 1 THEN Tail(@) ELSE @]
    /\ UNCHANGED <<mtx, pipeEvent, pipeLen, edge, isLooping, calls,
                   fresh, posted, onSpot, quit>>

(* RunFuctions calls the front of fns_, which stays there meanwhile. *)
CallFront(l) ==
    /\ fns[l] # <<>>
    /\ Goto(l, "run", "exec")
    /\ ran' = [ran EXCEPT ![l] = Append(@, Head(fns[l]))]
    /\ UNCHANGED <<fns, mtx, pipeEvent, pipeLen, edge, isLooping, calls,
                   fresh, posted, onSpot, quit>>

(* The function returned; RunFuctions pops it. *)
PopFront(l) ==
    /\ NotCalling(l)
    /\ Goto(l, "exec", "run")
    /\ fns' = [fns EXCEPT ![l] = Tail(@)]
    /\ UNCHANGED <<mtx, pipeEvent, pipeLen, edge, isLooping, calls, fresh,
                   posted, ran, onSpot, quit>>

(* fns_ is empty: RunFuctions returns and unlocks mtx_. *)
FunctionsDone(l) ==
    /\ fns[l] = <<>>
    /\ Goto(l, "run", "timer")
    /\ mtx' = [mtx EXCEPT ![l] = NoThread]
    /\ UNCHANGED <<fns, pipeEvent, pipeLen, edge, isLooping, calls, fresh,
                   posted, ran, onSpot, quit>>

(* wheel_.OnTimer returns. *)
TimerDone(l) ==
    /\ NotCalling(l)
    /\ Goto(l, "timer", "while")
    /\ UNCHANGED <<fns, mtx, pipeEvent, pipeLen, edge, isLooping, calls,
                   fresh, posted, ran, onSpot, quit>>

(* Some thread calls Quit, which neither locks nor wakes the loop up. *)
Quit(l) ==
    /\ ~quit[l]
    /\ isLooping' = [isLooping EXCEPT ![l] = FALSE]
    /\ quit' = [quit EXCEPT ![l] = TRUE]
    /\ UNCHANGED <<fns, mtx, pipeEvent, pipeLen, edge, lpc, calls, fresh,
                   posted, ran, onSpot>>

----------------------------------------------------------------------------
CallStep(c) == Push(c) \/ WakeUp(c) \/ Return(c)

Poll(l) == PollEvent(l) \/ PollTimeout(l)

LoopStep(l) ==
    \/ StartLoop(l) \/ TestLooping(l) \/ Poll(l) \/ OnPipeRead(l)
    \/ RunFuctions(l) \/ CallFront(l) \/ PopFront(l) \/ FunctionsDone(l)
    \/ TimerDone(l)

Next ==
    \/ \E t \in Threads, l \in Loops, f \in Fns : RunInLoop(t, l, f)
    \/ \E l \in Loops, f \in Fns : RunInLoopHere(l, f)
    \/ \E c \in calls : CallStep(c)
    \/ \E l \in Loops : LoopStep(l)
    \/ \E l \in Stoppable : Quit(l)
    \/ (\A l \in Stoppable : lpc[l] = "exit") /\ UNCHANGED vars

SafetySpec == Init /\ [][Next]_vars

(* Threads that can go on do go on, and epoll_wait returns after 1000 ms.  *)
(* A thread waiting for mtx_ gets it if it is released again and again:    *)
(* between two rounds of RunFuctions the loop sleeps in epoll_wait without *)
(* the mutex.  Nothing obliges a thread to submit a function or to call    *)
(* Quit.                                                                   *)
Fairness ==
    /\ \A l \in Loops : WF_vars(LoopStep(l))
    /\ \A t \in Threads : SF_vars(\E c \in calls : c.by = t /\ CallStep(c))

Spec == SafetySpec /\ Fairness

----------------------------------------------------------------------------
(* Properties.                                                             *)

(* What of fns[l] has not been called yet. *)
Uncalled(l) == IF lpc[l] = "exec" THEN Tail(fns[l]) ELSE fns[l]

(* Types, and the mutex: it is held by exactly the thread that is inside   *)
(* its critical section, the loop while it runs functions or one foreign   *)
(* RunInLoop.                                                              *)
MutexInv ==
    /\ \A l \in Loops : mtx[l] = l <=> lpc[l] \in {"run", "exec"}
    /\ \A c \in calls : c.at # "lock" => mtx[c.to] = c.by
    /\ \A l \in Loops : mtx[l] \notin {l, NoThread} =>
          \E c \in calls : c.to = l /\ c.by = mtx[l] /\ c.at # "lock"
    /\ \A c \in calls : c.by # c.to
    /\ \A c, d \in calls : c.by = d.by => c = d

LoopInv == TypeOK /\ MutexInv

(* Thread t is in a RunInLoop that waits for a mutex which u holds. *)
WaitsFor(t, u) == \E c \in calls : c.by = t /\ c.at = "lock" /\ mtx[c.to] = u

(* Threads that wait for each other's mutex, so that none of them ever     *)
(* goes on, only exist where loops post to each other in a cycle: each     *)
(* waits for a loop of the set, to which it posts, and that loop is inside *)
(* a queued function, which RunFuctions calls with mtx_ held.  A thread    *)
(* that pushes or wakes a loop up is never part of such a deadlock, nor is *)
(* a callback of a channel or timer the one waited for, and no loop waits  *)
(* for itself.                                                             *)
DeadlockFollowsPosts ==
    \A W \in SUBSET Threads :
        (\A t \in W : \E u \in W : WaitsFor(t, u))
            => \A t \in W : \E l \in (W \cap Loops) \ {t} :
                   <<t, l>> \in Posts /\ lpc[l] = "exec"

(* Every function pushed to a loop is called in push order, none twice and *)
(* none left out, although the front stays in fns_ while it runs.          *)
FifoExactlyOnce == \A l \in Loops : posted[l] = ran[l] \o Uncalled(l)

(* A loop with functions in its queue that is not on its way to            *)
(* RunFuctions (it sleeps in epoll_wait, or soon will) has the pipe's      *)
(* event outstanding, or the thread that pushed is about to write: no      *)
(* function ever waits for the 1000 ms to pass, although OnRead reads one  *)
(* word of many and a write to the full pipe fails unnoticed.              *)
NoLostWakeup ==
    \A l \in EdgeOnEveryWrite :
        (/\ lpc[l] \notin {"handle", "events", "run", "exec"}
         /\ fns[l] # <<>>
         /\ ~edge[l])
            => \E c \in calls : c.to = l /\ c.at = "wakeup"

(* Every RunInLoop returns: no cycle of loops that run functions with      *)
(* their mutex held and wait for each other's, no self-deadlock.           *)
CallsReturn ==
    \A t \in Threads : (\E c \in calls : c.by = t) ~> NotCalling(t)

(* Refinement: the queue a client of RunInLoop can rely on. *)
TQ == INSTANCE TaskQueue WITH
        handed <- {c.fn : c \in {d \in calls : d.at = "lock"}},
        queue <- [l \in Loops |-> Uncalled(l)],
        done <- ran,
        open <- [l \in Loops |-> ~quit[l]]

(* The loop with its mutex, pipe and epoll implements the task queue, and  *)
(* every queued function of a loop nobody stopped does run: where epoll    *)
(* misses writes, because of the 1000 ms timeout.                          *)
ImplementsTaskQueue == TQ!Spec
============================================================================
