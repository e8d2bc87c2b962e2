----------------------------- MODULE TaskQueue -----------------------------
(***************************************************************************)
(* What EventLoop::RunInLoop promises to the rest of the program, without  *)
(* mutexes, pipes or epoll: every loop owns a FIFO queue of functions, any *)
(* other thread may add one, the loop runs them one after the other in the *)
(* order they were added and each of them once; a function submitted by    *)
(* the loop's own thread runs on the spot.                                 *)
(***************************************************************************)
EXTENDS Naturals, Sequences

CONSTANTS Loops, Fns

VARIABLES fresh,     \* functions nobody has submitted yet
          handed,    \* functions submitted and in no queue yet
          queue,     \* queue[l]: functions added to loop l and not yet run
          done,      \* done[l]: queued functions loop l has run, oldest first
          onSpot,    \* functions run by the thread that submitted them
          open       \* open[l]: nobody has asked loop l to quit

vars == <<fresh, handed, queue, done, onSpot, open>>

Init ==
    /\ fresh = Fns
    /\ handed = {}
    /\ queue = [l \in Loops |-> <<>>]
    /\ done = [l \in Loops |-> <<>>]
    /\ onSpot = {}
    /\ open = [l \in Loops |-> TRUE]

(* A thread hands in a function for some loop. *)
Submit(f) ==
    /\ f \in fresh
    /\ fresh' = fresh \ {f}
    /\ handed' = handed \cup {f}
    /\ UNCHANGED <<queue, done, onSpot, open>>

(* A loop's own thread submits a function: it runs at once. *)
RunNow(f) ==
    /\ f \in fresh
    /\ fresh' = fresh \ {f}
    /\ onSpot' = onSpot \cup {f}
    /\ UNCHANGED <<handed, queue, done, open>>

(* A function that was handed in enters the queue of loop l, once. *)
Enqueue(l, f) ==
    /\ f \in handed
    /\ handed' = handed \ {f}
    /\ queue' = [queue EXCEPT ![l] = Append(@, f)]
    /\ UNCHANGED <<fresh, done, onSpot, open>>

(* Loop l runs its oldest function. *)
Run(l) ==
    /\ queue[l] # <<>>
    /\ done' = [done EXCEPT ![l] = Append(@, Head(queue[l]))]
    /\ queue' = [queue EXCEPT ![l] = Tail(@)]
    /\ UNCHANGED <<fresh, handed, onSpot, open>>

Close(l) ==
    /\ open' = [open EXCEPT ![l] = FALSE]
    /\ UNCHANGED <<fresh, handed, queue, done, onSpot>>

Next ==
    \/ \E f \in Fns : Submit(f) \/ RunNow(f)
    \/ \E l \in Loops, f \in Fns : Enqueue(l, f)
    \/ \E l \in Loops : Run(l) \/ Close(l)

SafetySpec == Init /\ [][Next]_vars

(* A loop nobody stopped gets round to everything in its queue. *)
Spec == SafetySpec /\ \A l \in Loops : WF_vars(open[l] /\ Run(l))
============================================================================
