-------------------------- MODULE EventLoopProofs --------------------------
(***************************************************************************)
(* Proofs about EventLoop, for any number of loops, threads and functions, *)
(* any posting relation and any size of the pipe.                          *)
(***************************************************************************)
EXTENDS EventLoop, SequenceTheorems, TLAPS

(* What a queue contains after a push is not nothing. *)
LEMMA AppendNotEmpty ==
    ASSUME NEW S, NEW s \in Seq(S), NEW x \in S
    PROVE  Append(s, x) \in Seq(S) /\ Append(s, x) # <<>>
<1>1. Len(s) \in Nat /\ Len(Append(s, x)) = Len(s) + 1
  OBVIOUS
<1>2. Len(<<>>) = 0
  OBVIOUS
<1> QED
  BY <1>1, <1>2

(* Concatenation and Append under names the provers leave alone: a goal    *)
(* with nested ones is out of their reach when they expand them.           *)
Cat(s, t) == s \o t
AddLast(s, x) == Append(s, x)

(* A push behind what was run and what is queued is a push to the queue. *)
LEMMA CatAddLast ==
    ASSUME NEW S, NEW s \in Seq(S), NEW t \in Seq(S), NEW x \in S
    PROVE  AddLast(Cat(s, t), x) = Cat(s, AddLast(t, x))
  BY DEF Cat, AddLast

(* Calling the front moves it from the queue to what was run. *)
LEMMA ConcatHeadTail ==
    ASSUME NEW S, NEW s \in Seq(S), NEW t \in Seq(S), t # <<>>
    PROVE  Append(s, Head(t)) \o Tail(t) = s \o t
<1>1. Head(t) \in S /\ Tail(t) \in Seq(S) /\ Len(Tail(t)) = Len(t) - 1
      /\ \A i \in 1 .. Len(Tail(t)) : Tail(t)[i] = t[i + 1]
  BY HeadTailProperties
<1>2. Len(t) \in Nat \ {0} /\ Len(s) \in Nat /\ Head(t) = t[1]
  BY EmptySeq
<1> DEFINE a == Append(s, Head(t))
<1>3. a \in Seq(S) /\ Len(a) = Len(s) + 1 /\ a[Len(s) + 1] = t[1]
      /\ \A i \in 1 .. Len(s) : a[i] = s[i]
  BY <1>1, <1>2
<1> HIDE DEF a
<1>4. a \o Tail(t) \in Seq(S) /\ s \o t \in Seq(S)
  BY <1>1, <1>3, ConcatProperties
<1>5. Len(a \o Tail(t)) = Len(s) + Len(t) /\ Len(s \o t) = Len(s) + Len(t)
  <2>1. Len(a \o Tail(t)) = Len(a) + Len(Tail(t))
    BY <1>1, <1>3, ConcatProperties
  <2>2. Len(s \o t) = Len(s) + Len(t)
    BY ConcatProperties
  <2>3. Len(a) + Len(Tail(t)) = Len(s) + Len(t)
    BY <1>1, <1>2, <1>3
  <2> QED
    BY <2>1, <2>2, <2>3
<1>6. ASSUME NEW i \in 1 .. Len(s) + Len(t)
      PROVE  (a \o Tail(t))[i] = (s \o t)[i]
  <2>1. (s \o t)[i] = IF i <= Len(s) THEN s[i] ELSE t[i - Len(s)]
    BY ConcatProperties
  <2>2. i \in 1 .. Len(a) + Len(Tail(t))
    BY <1>1, <1>2, <1>3
  <2>3. (a \o Tail(t))[i] = IF i <= Len(a) THEN a[i] ELSE Tail(t)[i - Len(a)]
    BY <1>1, <1>3, <2>2, ConcatProperties
  <2>4. CASE i <= Len(s)
    BY <1>2, <1>3, <2>1, <2>3, <2>4
  <2>5. CASE i = Len(s) + 1
    BY <1>2, <1>3, <2>1, <2>3, <2>5
  <2>6. CASE i > Len(s) + 1
    <3>1. i - Len(a) \in 1 .. Len(Tail(t)) /\ i - Len(a) + 1 = i - Len(s)
      BY <1>1, <1>2, <1>3, <2>6
    <3>2. Tail(t)[i - Len(a)] = t[i - Len(s)]
      BY <1>1, <3>1
    <3> QED
      BY <1>2, <1>3, <2>1, <2>3, <2>6, <3>2
  <2>7. i <= Len(s) \/ i = Len(s) + 1 \/ i > Len(s) + 1
    BY <1>2
  <2> QED
    BY <2>4, <2>5, <2>6, <2>7
<1>7. a \o Tail(t) = s \o t
  BY <1>4, <1>5, <1>6, SeqEqual
<1> QED
  BY <1>7 DEF a

(* Every step is one of the actions: the case split all proofs below use.  *)
(* What it names is how Next is put together from the code's operations.   *)
LEMMA NextCases ==
    ASSUME Next
    PROVE  \/ \E t \in Threads, l \in Loops, f \in Fns : RunInLoop(t, l, f)
           \/ \E l \in Loops, f \in Fns : RunInLoopHere(l, f)
           \/ \E c \in calls : Push(c)
           \/ \E c \in calls : WakeUp(c)
           \/ \E c \in calls : Return(c)
           \/ \E l \in Loops : StartLoop(l) \/ TestLooping(l)
           \/ \E l \in Loops : PollEvent(l)
           \/ \E l \in Loops : PollTimeout(l) \/ TimerDone(l)
           \/ \E l \in Loops : OnPipeRead(l)
           \/ \E l \in Loops : RunFuctions(l)
           \/ \E l \in Loops : CallFront(l)
           \/ \E l \in Loops : PopFront(l)
           \/ \E l \in Loops : FunctionsDone(l)
           \/ \E l \in Loops : Quit(l)
           \/ UNCHANGED vars
  BY ThreadsAssumption DEF Next, CallStep, LoopStep, Poll

(* A call that moves on is still a call. *)
LEMMA MoveCallType ==
    ASSUME calls \in SUBSET Calls, NEW c \in calls, NEW pc \in CallPc,
           MoveCall(c, pc)
    PROVE  calls' \in SUBSET Calls
  BY DEF MoveCall, Calls

(* RunFuctions calls the front of fns_ and pops it when the call returns:  *)
(* it is still there.  Without this the pop need not keep the type.        *)
ExecInv == \A l \in Loops : lpc[l] = "exec" => fns[l] # <<>>

(* Nothing but PopFront takes a function out of fns_. *)
LEMMA ExecStep == TypeOK /\ ExecInv /\ [Next]_vars => ExecInv'
<1> SUFFICES ASSUME TypeOK, ExecInv, [Next]_vars PROVE ExecInv'
  OBVIOUS
<1> USE DEF ExecInv
<1>1. CASE UNCHANGED <<fns, lpc>>
  BY <1>1
<1>2. ASSUME NEW c \in calls, Push(c) PROVE ExecInv'
  <2>1. c.to \in Loops /\ c.fn \in Fns
    BY DEF TypeOK, Calls
  <2>2. Append(fns[c.to], c.fn) # <<>>
    BY <2>1, AppendNotEmpty DEF TypeOK
  <2> QED
    BY <1>2, <2>1, <2>2 DEF Push, TypeOK
<1>3. ASSUME NEW l \in Loops, StartLoop(l) \/ TestLooping(l) \/ PollEvent(l)
             \/ PollTimeout(l) \/ TimerDone(l) \/ OnPipeRead(l)
             \/ RunFuctions(l) \/ FunctionsDone(l)
      PROVE  ExecInv'
  BY <1>3 DEF StartLoop, TestLooping, PollEvent, PollTimeout, TimerDone,
              OnPipeRead, RunFuctions, FunctionsDone, Goto, TypeOK
<1>4. ASSUME NEW l \in Loops, CallFront(l) PROVE ExecInv'
  BY <1>4 DEF CallFront, Goto, TypeOK
<1>5. ASSUME NEW l \in Loops, PopFront(l) PROVE ExecInv'
  BY <1>5 DEF PopFront, Goto, TypeOK
<1> QED
  BY <1>1, <1>2, <1>3, <1>4, <1>5, NextCases
     DEF RunInLoop, RunInLoopHere, WakeUp, Return, Quit, vars

(* The type invariant is kept by every step. *)
LEMMA TypeStep == TypeOK /\ ExecInv /\ [Next]_vars => TypeOK'
<1> SUFFICES ASSUME TypeOK, ExecInv, [Next]_vars PROVE TypeOK'
  OBVIOUS
<1> USE DEF TypeOK
<1>1. ASSUME NEW t \in Threads, NEW l \in Loops, NEW f \in Fns,
             RunInLoop(t, l, f)
      PROVE  TypeOK'
  BY <1>1 DEF RunInLoop, Calls, CallPc
<1>2. ASSUME NEW l \in Loops, NEW f \in Fns, RunInLoopHere(l, f)
      PROVE  TypeOK'
  BY <1>2 DEF RunInLoopHere
<1>3. ASSUME NEW c \in calls, Push(c) PROVE TypeOK'
  <2>1. c \in Calls
    OBVIOUS
  <2>2. calls' \in SUBSET Calls
    BY <1>3, MoveCallType DEF Push, CallPc
  <2> QED
    BY <1>3, <2>1, <2>2 DEF Push, Calls
<1>4. ASSUME NEW c \in calls, WakeUp(c) PROVE TypeOK'
  <2>1. c \in Calls
    OBVIOUS
  <2>2. calls' \in SUBSET Calls
    BY <1>4, MoveCallType DEF WakeUp, CallPc
  <2>3. edge' \in [Loops -> BOOLEAN]
    BY <1>4, <2>1, EdgeAssumption DEF WakeUp, Calls
  <2>4. pipeLen' \in [Loops -> 0..PipeCap]
    <3>1. c.to \in Loops /\ PipeCap \in Nat
      BY <2>1, PipeAssumption DEF Calls
    <3>2. CASE pipeLen[c.to] < PipeCap
      <4>1. pipeLen[c.to] + 1 \in 0..PipeCap
        BY <3>1, <3>2
      <4> QED
        BY <1>4, <3>1, <3>2, <4>1, ZenonT(40) DEF WakeUp
    <3>3. CASE ~(pipeLen[c.to] < PipeCap)
      BY <1>4, <3>3 DEF WakeUp
    <3> QED
      BY <3>2, <3>3
  <2> QED
    BY <1>4, <2>1, <2>2, <2>3, <2>4 DEF WakeUp, Calls
<1>5. ASSUME NEW c \in calls, Return(c) PROVE TypeOK'
  BY <1>5 DEF Return, Calls
<1>6. ASSUME NEW l \in Loops, StartLoop(l) \/ TestLooping(l) PROVE TypeOK'
  BY <1>6 DEF StartLoop, TestLooping, Goto, LoopPc
<1>7. ASSUME NEW l \in Loops, PollEvent(l) PROVE TypeOK'
  BY <1>7 DEF PollEvent, Goto, LoopPc
<1>8. ASSUME NEW l \in Loops, PollTimeout(l) \/ TimerDone(l) PROVE TypeOK'
  BY <1>8 DEF PollTimeout, TimerDone, Goto, LoopPc
<1>9. ASSUME NEW l \in Loops, OnPipeRead(l) PROVE TypeOK'
  BY <1>9, PipeAssumption DEF OnPipeRead, Goto, LoopPc
<1>10. ASSUME NEW l \in Loops, RunFuctions(l) PROVE TypeOK'
  BY <1>10 DEF RunFuctions, Goto, LoopPc, Threads
<1>11. ASSUME NEW l \in Loops, CallFront(l) PROVE TypeOK'
  BY <1>11 DEF CallFront, Goto, LoopPc
<1>12. ASSUME NEW l \in Loops, PopFront(l) PROVE TypeOK'
  <2>1. fns[l] \in Seq(Fns) /\ fns[l] # <<>>
    BY <1>12 DEF PopFront, Goto, ExecInv
  <2>2. Tail(fns[l]) \in Seq(Fns)
    BY <2>1, HeadTailProperties
  <2> QED
    BY <1>12, <2>2 DEF PopFront, Goto, LoopPc
<1>13. ASSUME NEW l \in Loops, FunctionsDone(l) PROVE TypeOK'
  BY <1>13 DEF FunctionsDone, Goto, LoopPc
<1>14. ASSUME NEW l \in Loops, Quit(l) PROVE TypeOK'
  BY <1>14 DEF Quit
<1>15. CASE UNCHANGED vars
  BY <1>15 DEF vars
<1> QED
  BY <1>1, <1>2, <1>3, <1>4, <1>5, <1>6, <1>7, <1>8, <1>9, <1>10, <1>11,
     <1>12, <1>13, <1>14, <1>15, NextCases

----------------------------------------------------------------------------
(* The mutex.                                                              *)

(* What a call that moved on looks like. *)
LEMMA MoveCallFields ==
    ASSUME calls \in SUBSET Calls, NEW c \in calls, NEW pc \in CallPc,
           MoveCall(c, pc)
    PROVE  \E m \in calls' :
              /\ m.by = c.by /\ m.to = c.to /\ m.fn = c.fn /\ m.at = pc
              /\ \A d \in calls' : d = m \/ (d \in calls /\ d # c)
              /\ \A d \in calls : d # c => d \in calls'
<1> DEFINE m == [c EXCEPT !.at = pc]
<1>1. m.by = c.by /\ m.to = c.to /\ m.fn = c.fn /\ m.at = pc
  BY DEF Calls
<1>2. calls' = (calls \ {c}) \cup {m}
  BY DEF MoveCall
<1> HIDE DEF m
<1> QED
  BY <1>1, <1>2

(* mtx_ is a mutex: whoever is inside a critical section holds it, and is  *)
(* alone there.                                                            *)
LEMMA MutexStep == TypeOK /\ MutexInv /\ [Next]_vars => MutexInv'
<1> SUFFICES ASSUME TypeOK, MutexInv, [Next]_vars PROVE MutexInv'
  OBVIOUS
<1> USE DEF MutexInv
<1>0. /\ calls \in SUBSET Calls /\ mtx \in [Loops -> Threads \cup {NoThread}]
      /\ lpc \in [Loops -> LoopPc]
      /\ \A c \in calls : c.by \in Threads /\ c.to \in Loops
      /\ \A l \in Loops : l # NoThread
      /\ \A t \in Threads : t # NoThread
  BY ThreadsAssumption DEF TypeOK, Calls, Threads
<1>1. CASE UNCHANGED <<mtx, lpc, calls>>
  BY <1>1
<1>2. ASSUME NEW t \in Threads, NEW l \in Loops, NEW f \in Fns,
             RunInLoop(t, l, f)
      PROVE  MutexInv'
  <2> DEFINE new == [by |-> t, to |-> l, fn |-> f, at |-> "lock"]
  <2>1. /\ calls' = calls \cup {new} /\ mtx' = mtx /\ lpc' = lpc /\ t # l
        /\ \A c \in calls : c.by # t
    BY <1>2 DEF RunInLoop, InUserCode, NotCalling
  <2>2. new.by = t /\ new.to = l /\ new.at = "lock"
    OBVIOUS
  <2> HIDE DEF new
  <2> QED
    BY <2>1, <2>2
<1>3. ASSUME NEW c \in calls, Push(c) PROVE MutexInv'
  <2>1. /\ mtx[c.to] = NoThread /\ mtx' = [mtx EXCEPT ![c.to] = c.by]
        /\ lpc' = lpc /\ c.at = "lock" /\ MoveCall(c, "wakeup")
    BY <1>3 DEF Push
  <2>a. "wakeup" \in CallPc
    BY DEF CallPc
  <2>2. PICK moved \in calls' :
           /\ moved.by = c.by /\ moved.to = c.to /\ moved.at = "wakeup"
           /\ \A d \in calls' : d = moved \/ (d \in calls /\ d # c)
           /\ \A d \in calls : d # c => d \in calls'
    BY <1>0, <2>1, <2>a, MoveCallFields
  <2>3. \A d \in calls : d.at # "lock" => d.to # c.to
    BY <1>0, <2>1
  <2>4. \A l \in Loops : mtx'[l] = IF l = c.to THEN c.by ELSE mtx[l]
    BY <1>0, <2>1
  <2>5. \A l \in Loops : mtx'[l] = l <=> lpc'[l] \in {"run", "exec"}
    BY <1>0, <2>1, <2>4
  <2>6. \A d \in calls' : d.at # "lock" => mtx'[d.to] = d.by
    BY <1>0, <2>2, <2>3, <2>4
  <2>7. \A l \in Loops : mtx'[l] \notin {l, NoThread} =>
           \E d \in calls' : d.to = l /\ d.by = mtx'[l] /\ d.at # "lock"
    <3> SUFFICES ASSUME NEW l \in Loops, mtx'[l] \notin {l, NoThread}
                 PROVE  \E d \in calls' : d.to = l /\ d.by = mtx'[l]
                                           /\ d.at # "lock"
      OBVIOUS
    <3>1. CASE l = c.to
      BY <2>2, <2>4, <3>1
    <3>2. CASE l # c.to
      <4>1. PICK d \in calls : d.to = l /\ d.by = mtx[l] /\ d.at # "lock"
        BY <2>4, <3>2
      <4> QED
        BY <2>1, <2>2, <2>4, <3>2, <4>1
    <3> QED
      BY <3>1, <3>2
  <2>8. \A d \in calls' : d.by # d.to
    BY <2>2
  <2>9. \A d, e \in calls' : d.by = e.by => d = e
    BY <2>2
  <2> QED
    BY <2>5, <2>6, <2>7, <2>8, <2>9
<1>4. ASSUME NEW c \in calls, WakeUp(c) PROVE MutexInv'
  <2>1. /\ mtx' = mtx /\ lpc' = lpc /\ c.at = "wakeup" /\ MoveCall(c, "return")
    BY <1>4 DEF WakeUp
  <2>a. "return" \in CallPc
    BY DEF CallPc
  <2>2. PICK moved \in calls' :
           /\ moved.by = c.by /\ moved.to = c.to /\ moved.at = "return"
           /\ \A d \in calls' : d = moved \/ (d \in calls /\ d # c)
           /\ \A d \in calls : d # c => d \in calls'
    BY <1>0, <2>1, <2>a, MoveCallFields
  <2>3. \A l \in Loops : mtx'[l] \notin {l, NoThread} =>
           \E d \in calls' : d.to = l /\ d.by = mtx'[l] /\ d.at # "lock"
    <3> SUFFICES ASSUME NEW l \in Loops, mtx[l] \notin {l, NoThread}
                 PROVE  \E d \in calls' : d.to = l /\ d.by = mtx[l]
                                           /\ d.at # "lock"
      BY <2>1
    <3>1. PICK d \in calls : d.to = l /\ d.by = mtx[l] /\ d.at # "lock"
      OBVIOUS
    <3> QED
      BY <2>2, <3>1
  <2> QED
    BY <2>1, <2>2, <2>3
<1>5. ASSUME NEW c \in calls, Return(c) PROVE MutexInv'
  <2>1. /\ mtx' = [mtx EXCEPT ![c.to] = NoThread] /\ lpc' = lpc
        /\ c.at = "return" /\ calls' = calls \ {c}
    BY <1>5 DEF Return
  <2>2. \A l \in Loops : mtx'[l] = IF l = c.to THEN NoThread ELSE mtx[l]
    BY <1>0, <2>1
  <2>3. \A l \in Loops : mtx'[l] = l <=> lpc'[l] \in {"run", "exec"}
    BY <1>0, <2>1, <2>2
  <2>4. \A d \in calls' : d.at # "lock" => mtx'[d.to] = d.by
    BY <1>0, <2>1, <2>2
  <2>5. \A l \in Loops : mtx'[l] \notin {l, NoThread} =>
           \E d \in calls' : d.to = l /\ d.by = mtx'[l] /\ d.at # "lock"
    BY <1>0, <2>1, <2>2
  <2> QED
    BY <2>1, <2>3, <2>4, <2>5
<1>6. ASSUME NEW l \in Loops, StartLoop(l) \/ TestLooping(l) \/ PollEvent(l)
             \/ PollTimeout(l) \/ TimerDone(l) \/ OnPipeRead(l)
             \/ CallFront(l) \/ PopFront(l)
      PROVE  MutexInv'
  <2>1. /\ mtx' = mtx /\ calls' = calls
        /\ \A k \in Loops : lpc'[k] \in {"run", "exec"}
                                <=> lpc[k] \in {"run", "exec"}
    BY <1>0, <1>6 DEF StartLoop, TestLooping, PollEvent, PollTimeout, TimerDone,
                      OnPipeRead, CallFront, PopFront, Goto
  <2> QED
    BY <2>1
<1>7. ASSUME NEW l \in Loops, RunFuctions(l) PROVE MutexInv'
  <2>1. /\ mtx[l] = NoThread /\ mtx' = [mtx EXCEPT ![l] = l] /\ calls' = calls
        /\ lpc' = [lpc EXCEPT ![l] = "run"]
    BY <1>7 DEF RunFuctions, Goto
  <2> QED
    BY <1>0, <2>1
<1>8. ASSUME NEW l \in Loops, FunctionsDone(l) PROVE MutexInv'
  <2>1. /\ lpc[l] = "run" /\ mtx' = [mtx EXCEPT ![l] = NoThread]
        /\ calls' = calls /\ lpc' = [lpc EXCEPT ![l] = "timer"]
    BY <1>8 DEF FunctionsDone, Goto
  <2> QED
    BY <1>0, <2>1
<1> QED
  BY <1>1, <1>2, <1>3, <1>4, <1>5, <1>6, <1>7, <1>8, NextCases
     DEF RunInLoopHere, Quit, vars

----------------------------------------------------------------------------
(* The queue.                                                              *)

(* Push needs the mutex, so the front that is being called is not mixed up *)
(* with what is pushed meanwhile.                                          *)
LEMMA FifoStep ==
    TypeOK /\ ExecInv /\ MutexInv /\ FifoExactlyOnce /\ [Next]_vars
        => FifoExactlyOnce'
<1> SUFFICES ASSUME TypeOK, ExecInv, MutexInv, FifoExactlyOnce, [Next]_vars
             PROVE  FifoExactlyOnce'
  OBVIOUS
<1> USE DEF FifoExactlyOnce
<1>0. /\ fns \in [Loops -> Seq(Fns)] /\ posted \in [Loops -> Seq(Fns)]
      /\ ran \in [Loops -> Seq(Fns)] /\ lpc \in [Loops -> LoopPc]
      /\ \A c \in calls : c.by \in Threads /\ c.to \in Loops /\ c.fn \in Fns
      /\ \A l \in Loops : l # NoThread
  BY ThreadsAssumption DEF TypeOK, Calls, Threads
<1>1. CASE UNCHANGED <<fns, lpc, posted, ran>>
  BY <1>1 DEF Uncalled
<1>2. ASSUME NEW c \in calls, Push(c) PROVE FifoExactlyOnce'
  <2>1. /\ c.to \in Loops /\ c.fn \in Fns /\ lpc' = lpc /\ ran' = ran
        /\ fns' = [fns EXCEPT ![c.to] = Append(@, c.fn)]
        /\ posted' = [posted EXCEPT ![c.to] = Append(@, c.fn)]
        /\ lpc[c.to] # "exec"
    BY <1>0, <1>2 DEF Push, MutexInv
  <2> SUFFICES ASSUME NEW l \in Loops
               PROVE  posted'[l] = ran'[l] \o Uncalled(l)'
    OBVIOUS
  <2>2. CASE l = c.to
    <3>1. Uncalled(l) = fns[l] /\ Uncalled(l)' = Append(fns[l], c.fn)
      BY <1>0, <2>1, <2>2 DEF Uncalled
    <3>2. posted[l] = ran[l] \o fns[l] /\ posted'[l] = Append(posted[l], c.fn)
      BY <1>0, <2>1, <2>2, <3>1
    <3>3. ran[l] \in Seq(Fns) /\ fns[l] \in Seq(Fns) /\ c.fn \in Fns
      BY <1>0, <2>1
    <3>4. AddLast(Cat(ran[l], fns[l]), c.fn) = Cat(ran[l], AddLast(fns[l], c.fn))
      BY <3>3, CatAddLast
    <3>5. Append(ran[l] \o fns[l], c.fn) = ran[l] \o Append(fns[l], c.fn)
      BY <3>4 DEF Cat, AddLast
    <3>6. posted'[l] = ran[l] \o Append(fns[l], c.fn)
      BY <3>2, <3>5, Zenon
    <3> QED
      BY <2>1, <3>1, <3>6, Zenon
  <2>3. CASE l # c.to
    BY <1>0, <2>1, <2>3 DEF Uncalled
  <2> QED
    BY <2>2, <2>3
<1>3. ASSUME NEW k \in Loops, StartLoop(k) \/ TestLooping(k) \/ PollEvent(k)
             \/ PollTimeout(k) \/ TimerDone(k) \/ OnPipeRead(k)
             \/ RunFuctions(k) \/ FunctionsDone(k)
      PROVE  FifoExactlyOnce'
  BY <1>0, <1>3 DEF StartLoop, TestLooping, PollEvent, PollTimeout, TimerDone,
                    OnPipeRead, RunFuctions, FunctionsDone, Goto, Uncalled
<1>4. ASSUME NEW k \in Loops, CallFront(k) PROVE FifoExactlyOnce'
  <2>1. /\ fns[k] # <<>> /\ lpc[k] = "run" /\ lpc' = [lpc EXCEPT ![k] = "exec"]
        /\ ran' = [ran EXCEPT ![k] = Append(@, Head(fns[k]))]
        /\ fns' = fns /\ posted' = posted
    BY <1>4 DEF CallFront, Goto
  <2> SUFFICES ASSUME NEW l \in Loops
               PROVE  posted'[l] = ran'[l] \o Uncalled(l)'
    OBVIOUS
  <2>2. CASE l = k
    <3>1. Uncalled(l) = fns[l] /\ Uncalled(l)' = Tail(fns[l])
      BY <1>0, <2>1, <2>2 DEF Uncalled
    <3>2. Append(ran[l], Head(fns[l])) \o Tail(fns[l]) = ran[l] \o fns[l]
      BY <1>0, <2>1, <2>2, ConcatHeadTail
    <3> QED
      BY <1>0, <2>1, <2>2, <3>1, <3>2
  <2>3. CASE l # k
    BY <1>0, <2>1, <2>3 DEF Uncalled
  <2> QED
    BY <2>2, <2>3
<1>5. ASSUME NEW k \in Loops, PopFront(k) PROVE FifoExactlyOnce'
  BY <1>0, <1>5 DEF PopFront, Goto, Uncalled
<1> QED
  BY <1>1, <1>2, <1>3, <1>4, <1>5, NextCases
     DEF RunInLoop, RunInLoopHere, WakeUp, Return, Quit, vars

----------------------------------------------------------------------------
(* The pipe and the wake-up.                                               *)

(* The pipe fills up (OnRead takes one word of many), but never at a       *)
(* moment when the failed write would have been needed: with no event      *)
(* outstanding there is room for a word.                                   *)
PipeInv ==
    \A l \in Loops :
        /\ edge[l] \/ lpc[l] = "handle" => pipeLen[l] > 0
        /\ edge[l] /\ lpc[l] = "handle" => pipeLen[l] > 1
        /\ (l \in EdgeOnEveryWrite /\ ~edge[l] /\ lpc[l] # "handle")
               => pipeLen[l] < PipeCap

(* One word is read per reported event, and that is enough for PipeInv. *)
LEMMA PipeStep == TypeOK /\ PipeInv /\ [Next]_vars => PipeInv'
<1> SUFFICES ASSUME TypeOK, PipeInv, [Next]_vars PROVE PipeInv'
  OBVIOUS
<1> USE DEF PipeInv
<1>0. /\ pipeLen \in [Loops -> 0..PipeCap] /\ edge \in [Loops -> BOOLEAN]
      /\ lpc \in [Loops -> LoopPc] /\ PipeCap \in Nat \ {0}
      /\ \A c \in calls : c.to \in Loops
      /\ EdgeOnEveryWrite \subseteq Loops
  BY PipeAssumption, EdgeAssumption DEF TypeOK, Calls
<1>1. CASE UNCHANGED <<pipeLen, edge, lpc>>
  BY <1>1
<1>2. ASSUME NEW c \in calls, WakeUp(c) PROVE PipeInv'
  <2>1. lpc' = lpc /\ c.to \in Loops
    BY <1>0, <1>2 DEF WakeUp
  <2>2. CASE pipeLen[c.to] < PipeCap
    <3>1. /\ pipeLen' = [pipeLen EXCEPT ![c.to] = @ + 1]
          /\ edge' = [edge EXCEPT ![c.to] =
                          @ \/ c.to \in EdgeOnEveryWrite \/ pipeLen[c.to] = 0]
      BY <1>2, <2>2 DEF WakeUp
    <3>2. edge'[c.to] <=> edge[c.to] \/ c.to \in EdgeOnEveryWrite \/ pipeLen[c.to] = 0
      BY <1>0, <2>1, <3>1, Zenon
    <3>3. pipeLen'[c.to] = pipeLen[c.to] + 1 /\ pipeLen[c.to] \in Nat
      BY <1>0, <2>1, <3>1
    <3>4. \A l \in Loops : l # c.to => pipeLen'[l] = pipeLen[l]
                                        /\ edge'[l] = edge[l]
      BY <1>0, <3>1
    <3>5. ASSUME NEW l \in Loops, l = c.to
          PROVE  /\ edge'[l] \/ lpc'[l] = "handle" => pipeLen'[l] > 0
                 /\ edge'[l] /\ lpc'[l] = "handle" => pipeLen'[l] > 1
                 /\ (l \in EdgeOnEveryWrite /\ ~edge'[l] /\ lpc'[l] # "handle")
                        => pipeLen'[l] < PipeCap
      BY <1>0, <2>1, <3>2, <3>3, <3>5
    <3> QED
      BY <2>1, <3>4, <3>5
  <2>3. CASE ~(pipeLen[c.to] < PipeCap)
    BY <1>2, <2>1, <2>3 DEF WakeUp
  <2> QED
    BY <2>2, <2>3
<1>3. ASSUME NEW k \in Loops, PollEvent(k) PROVE PipeInv'
  <2>1. /\ edge[k] /\ edge' = [edge EXCEPT ![k] = FALSE] /\ pipeLen' = pipeLen
        /\ lpc' = [lpc EXCEPT ![k] = "handle"]
    BY <1>3 DEF PollEvent, Goto
  <2> QED
    BY <1>0, <2>1
<1>4. ASSUME NEW k \in Loops, OnPipeRead(k) PROVE PipeInv'
  <2>1. /\ lpc[k] = "handle" /\ lpc' = [lpc EXCEPT ![k] = "events"]
        /\ edge' = edge
        /\ pipeLen' = [pipeLen EXCEPT ![k] = IF @ > 0 THEN @ - 1 ELSE @]
    BY <1>4 DEF OnPipeRead, Goto
  <2>2. pipeLen[k] > 0 /\ pipeLen'[k] = pipeLen[k] - 1 /\ pipeLen[k] \in 0..PipeCap
    BY <1>0, <2>1
  <2>3. \A l \in Loops : l # k => pipeLen'[l] = pipeLen[l] /\ lpc'[l] = lpc[l]
    BY <1>0, <2>1
  <2>4. lpc'[k] = "events"
    BY <1>0, <2>1
  <2> QED
    BY <1>0, <2>1, <2>2, <2>3, <2>4
<1>5. ASSUME NEW k \in Loops, StartLoop(k) \/ TestLooping(k) \/ PollTimeout(k)
             \/ TimerDone(k) \/ RunFuctions(k) \/ CallFront(k) \/ PopFront(k)
             \/ FunctionsDone(k)
      PROVE  PipeInv'
  <2>1. /\ edge' = edge /\ pipeLen' = pipeLen
        /\ \A l \in Loops : lpc'[l] = "handle" <=> lpc[l] = "handle"
    BY <1>0, <1>5 DEF StartLoop, TestLooping, PollTimeout, TimerDone, RunFuctions,
                      CallFront, PopFront, FunctionsDone, Goto
  <2> QED
    BY <2>1
<1> QED
  BY <1>1, <1>2, <1>3, <1>4, <1>5, NextCases
     DEF RunInLoop, RunInLoopHere, Push, Return, Quit, vars

(* A push is followed by a write before the mutex is free again, and when  *)
(* the write fails the pipe's event is outstanding (PipeInv).              *)
LEMMA WakeupStep ==
    TypeOK /\ PipeInv /\ NoLostWakeup /\ [Next]_vars => NoLostWakeup'
<1> SUFFICES ASSUME TypeOK, PipeInv, NoLostWakeup, [Next]_vars,
                    NEW l \in EdgeOnEveryWrite,
                    lpc'[l] \notin {"handle", "events", "run", "exec"},
                    fns'[l] # <<>>, ~edge'[l]
             PROVE  \E d \in calls' : d.to = l /\ d.at = "wakeup"
  BY DEF NoLostWakeup
<1>0. /\ l \in Loops
      /\ fns \in [Loops -> Seq(Fns)] /\ edge \in [Loops -> BOOLEAN]
      /\ pipeLen \in [Loops -> 0..PipeCap] /\ lpc \in [Loops -> LoopPc]
      /\ calls \in SUBSET Calls
      /\ \A c \in calls : c.to \in Loops
  BY EdgeAssumption DEF TypeOK, Calls
<1>1. CASE /\ fns'[l] = fns[l] /\ edge'[l] = edge[l] /\ calls \subseteq calls'
           /\ lpc[l] \notin {"handle", "events", "run", "exec"}
  BY <1>1 DEF NoLostWakeup
<1>2. ASSUME NEW c \in calls, Push(c)
      PROVE  \E d \in calls' : d.to = l /\ d.at = "wakeup"
  <2>1. /\ MoveCall(c, "wakeup") /\ c.at = "lock" /\ lpc' = lpc /\ edge' = edge
        /\ fns' = [fns EXCEPT ![c.to] = Append(@, c.fn)]
        /\ "wakeup" \in CallPc
    BY <1>2 DEF Push, CallPc
  <2>2. PICK m \in calls' : /\ m.to = c.to /\ m.at = "wakeup"
                            /\ \A d \in calls : d # c => d \in calls'
    BY <1>0, <2>1, MoveCallFields
  <2>3. CASE l = c.to
    BY <2>2, <2>3
  <2>4. CASE l # c.to
    <3>1. fns'[l] = fns[l]
      BY <1>0, <2>1, <2>4
    <3>2. PICK d \in calls : d.to = l /\ d.at = "wakeup"
      BY <2>1, <3>1 DEF NoLostWakeup
    <3> QED
      BY <2>1, <2>2, <3>2
  <2> QED
    BY <2>3, <2>4
<1>3. ASSUME NEW c \in calls, WakeUp(c)
      PROVE  \E d \in calls' : d.to = l /\ d.at = "wakeup"
  <2>1. /\ MoveCall(c, "return") /\ lpc' = lpc /\ fns' = fns
        /\ "return" \in CallPc /\ c.to \in Loops
    BY <1>0, <1>3 DEF WakeUp, CallPc
  <2>2. \A d \in calls : d # c => d \in calls'
    BY <1>0, <2>1, MoveCallFields
  <2>3. CASE l = c.to
    <3>1. CASE pipeLen[c.to] < PipeCap
      <4>1. edge' = [edge EXCEPT ![c.to] =
                        @ \/ c.to \in EdgeOnEveryWrite \/ pipeLen[c.to] = 0]
        BY <1>3, <3>1 DEF WakeUp
      <4>2. edge'[l]
        BY <1>0, <2>3, <4>1, Zenon
      <4> QED
        BY <4>2
    <3>2. CASE ~(pipeLen[c.to] < PipeCap)
      <4>1. edge' = edge
        BY <1>3, <3>2 DEF WakeUp
      <4>2. edge[l]
        BY <2>1, <2>3, <3>2 DEF PipeInv
      <4> QED
        BY <4>1, <4>2
    <3> QED
      BY <3>1, <3>2
  <2>4. CASE l # c.to
    <3>1. edge'[l] = edge[l]
      BY <1>0, <1>3, <2>4 DEF WakeUp
    <3>2. PICK d \in calls : d.to = l /\ d.at = "wakeup"
      BY <2>1, <3>1 DEF NoLostWakeup
    <3> QED
      BY <2>2, <2>4, <3>2
  <2> QED
    BY <2>3, <2>4
<1>4. ASSUME NEW c \in calls, Return(c)
      PROVE  \E d \in calls' : d.to = l /\ d.at = "wakeup"
  <2>1. /\ calls' = calls \ {c} /\ c.at = "return" /\ lpc' = lpc /\ fns' = fns
        /\ edge' = edge
    BY <1>4 DEF Return
  <2>2. PICK d \in calls : d.to = l /\ d.at = "wakeup"
    BY <2>1 DEF NoLostWakeup
  <2> QED
    BY <2>1, <2>2
<1>5. ASSUME NEW k \in Loops, StartLoop(k) \/ TestLooping(k) \/ PollEvent(k)
             \/ PollTimeout(k) \/ TimerDone(k) \/ OnPipeRead(k)
             \/ RunFuctions(k) \/ CallFront(k) \/ PopFront(k)
      PROVE  \E d \in calls' : d.to = l /\ d.at = "wakeup"
  <2>1. /\ calls' = calls /\ fns'[l] = fns[l] /\ edge'[l] = edge[l]
        /\ lpc[l] \notin {"handle", "events", "run", "exec"}
    BY <1>0, <1>5 DEF StartLoop, TestLooping, PollEvent, PollTimeout, TimerDone,
                      OnPipeRead, RunFuctions, CallFront, PopFront, Goto
  <2> QED
    BY <1>1, <2>1
<1>6. ASSUME NEW k \in Loops, FunctionsDone(k)
      PROVE  \E d \in calls' : d.to = l /\ d.at = "wakeup"
  <2>1. /\ fns[k] = <<>> /\ fns' = fns /\ calls' = calls /\ edge' = edge
        /\ lpc' = [lpc EXCEPT ![k] = "timer"]
    BY <1>6 DEF FunctionsDone, Goto
  <2>2. l # k /\ lpc'[l] = lpc[l]
    BY <1>0, <2>1
  <2> QED
    BY <1>1, <2>1, <2>2
<1>7. ASSUME NEW t \in Threads, NEW k \in Loops, NEW f \in Fns,
             RunInLoop(t, k, f)
      PROVE  \E d \in calls' : d.to = l /\ d.at = "wakeup"
  BY <1>1, <1>7 DEF RunInLoop
<1>8. CASE UNCHANGED <<fns, edge, lpc, calls>>
  BY <1>1, <1>8
<1> QED
  BY <1>2, <1>3, <1>4, <1>5, <1>6, <1>7, <1>8, NextCases
     DEF RunInLoopHere, Quit, vars

----------------------------------------------------------------------------
(* The theorems.                                                           *)

IInv == TypeOK /\ ExecInv /\ MutexInv /\ FifoExactlyOnce /\ PipeInv
            /\ NoLostWakeup

(* The inductive invariant holds initially and is kept by every step. *)
LEMMA Invariance == SafetySpec => []IInv
<1>1. Init => IInv
  <2> SUFFICES ASSUME Init PROVE IInv
    OBVIOUS
  <2>1. TypeOK /\ ExecInv
    BY PipeAssumption DEF Init, TypeOK, ExecInv, LoopPc
  <2>2. MutexInv
    <3>1. \A l \in Loops : l # NoThread
      BY ThreadsAssumption DEF Threads
    <3> QED
      BY <3>1 DEF Init, MutexInv
  <2>3. FifoExactlyOnce
    BY DEF Init, FifoExactlyOnce, Uncalled
  <2>4. PipeInv
    BY PipeAssumption DEF Init, PipeInv
  <2>5. NoLostWakeup
    BY EdgeAssumption DEF Init, NoLostWakeup
  <2> QED
    BY <2>1, <2>2, <2>3, <2>4, <2>5 DEF IInv
<1>2. IInv /\ [Next]_vars => IInv'
  BY TypeStep, ExecStep, MutexStep, FifoStep, PipeStep, WakeupStep DEF IInv
<1> QED
  BY <1>1, <1>2, PTL DEF SafetySpec

(* The types, and the mutex: mtx_ is held exactly by the thread inside its *)
(* critical section, and a thread is in one foreign RunInLoop at most.     *)
THEOREM LoopCorrect == SafetySpec => []LoopInv
<1>1. IInv => LoopInv
  BY DEF IInv, LoopInv
<1> QED
  BY <1>1, Invariance, PTL

(* RunFuctions calls what RunInLoop pushed, in that order, each once. *)
THEOREM FifoCorrect == SafetySpec => []FifoExactlyOnce
<1>1. IInv => FifoExactlyOnce
  BY DEF IInv
<1> QED
  BY <1>1, Invariance, PTL

(* No function waits for epoll_wait's timeout, whatever the size of the    *)
(* pipe: RunInLoop's wake-up is never lost.                                *)
THEOREM WakeupCorrect == SafetySpec => []NoLostWakeup
<1>1. IInv => NoLostWakeup
  BY DEF IInv
<1> QED
  BY <1>1, Invariance, PTL

----------------------------------------------------------------------------
(* Deadlock.                                                               *)

(* A call was made in code that may submit, and that code goes on only     *)
(* when RunInLoop has returned.                                            *)
CallerInv ==
    \A c \in calls :
        /\ <<c.by, c.to>> \in Posts
        /\ c.by \in Loops => lpc[c.by] \in {"handle", "events", "exec", "timer"}

(* A loop whose thread is in a RunInLoop stays where it is. *)
LEMMA CallerStep == TypeOK /\ CallerInv /\ [Next]_vars => CallerInv'
<1> SUFFICES ASSUME TypeOK, CallerInv, [Next]_vars PROVE CallerInv'
  OBVIOUS
<1> USE DEF CallerInv
<1>0. /\ calls \in SUBSET Calls /\ lpc \in [Loops -> LoopPc]
      /\ {"wakeup", "return"} \subseteq CallPc
  BY DEF TypeOK, CallPc
<1>1. CASE calls' \subseteq calls /\ UNCHANGED lpc
  BY <1>1
<1>2. ASSUME NEW t \in Threads, NEW l \in Loops, NEW f \in Fns,
             RunInLoop(t, l, f)
      PROVE  CallerInv'
  <2> DEFINE new == [by |-> t, to |-> l, fn |-> f, at |-> "lock"]
  <2>1. /\ calls' = calls \cup {new} /\ lpc' = lpc /\ <<t, l>> \in Posts
        /\ t \in Loops => lpc[t] \in {"handle", "events", "exec", "timer"}
    BY <1>2 DEF RunInLoop, InUserCode
  <2>2. new.by = t /\ new.to = l
    OBVIOUS
  <2> HIDE DEF new
  <2> QED
    BY <2>1, <2>2
<1>3. ASSUME NEW c \in calls, Push(c) \/ WakeUp(c) PROVE CallerInv'
  <2>1. PICK pc \in CallPc : lpc' = lpc /\ MoveCall(c, pc)
    BY <1>0, <1>3 DEF Push, WakeUp
  <2>2. PICK m \in calls' : /\ m.by = c.by /\ m.to = c.to
                            /\ \A d \in calls' : d = m \/ (d \in calls /\ d # c)
    BY <1>0, <2>1, MoveCallFields
  <2> QED
    BY <2>1, <2>2
<1>4. ASSUME NEW k \in Loops, StartLoop(k) \/ TestLooping(k) \/ PollEvent(k)
             \/ PollTimeout(k) \/ OnPipeRead(k) \/ RunFuctions(k)
             \/ CallFront(k) \/ PopFront(k) \/ FunctionsDone(k) \/ TimerDone(k)
      PROVE  CallerInv'
  <2>1. /\ calls' = calls
        /\ \A l \in Loops : l # k => lpc'[l] = lpc[l]
        /\ \/ \A c \in calls : c.by # k
           \/ lpc[k] \notin {"handle", "events", "exec", "timer"}
    BY <1>0, <1>4 DEF StartLoop, TestLooping, PollEvent, PollTimeout, OnPipeRead,
                      RunFuctions, CallFront, PopFront, FunctionsDone,
                      TimerDone, Goto, NotCalling
  <2> QED
    BY <2>1
<1>5. ASSUME NEW c \in calls, Return(c) PROVE CallerInv'
  BY <1>1, <1>5 DEF Return
<1> QED
  BY <1>1, <1>2, <1>3, <1>4, <1>5, NextCases DEF RunInLoopHere, Quit, vars

(* The holder of a mutex for which a thread of the set waits is the loop   *)
(* of that mutex: any other holder has passed its own lock.                *)
LEMMA WaitedForIsLoop ==
    ASSUME TypeOK, MutexInv, CallerInv, NEW t \in Threads, NEW u \in Threads,
           WaitsFor(t, u), \E v \in Threads : WaitsFor(u, v)
    PROVE  u \in Loops \ {t} /\ <<t, u>> \in Posts /\ lpc[u] = "exec"
<1>1. PICK c \in calls : c.by = t /\ c.at = "lock" /\ mtx[c.to] = u
  BY DEF WaitsFor
<1>2. PICK d \in calls : d.by = u /\ d.at = "lock"
  BY DEF WaitsFor
<1>3. c.to \in Loops /\ u # NoThread
  BY ThreadsAssumption DEF TypeOK, Calls
<1>4. u = c.to
  BY <1>1, <1>2, <1>3 DEF MutexInv
<1>5. lpc[u] \in {"run", "exec"}
  BY <1>1, <1>3, <1>4 DEF MutexInv
<1>6. lpc[u] \in {"handle", "events", "exec", "timer"}
  BY <1>2, <1>3, <1>4 DEF CallerInv
<1>7. t # u /\ <<t, u>> \in Posts
  BY <1>1, <1>4 DEF MutexInv, CallerInv
<1> QED
  BY <1>3, <1>4, <1>5, <1>6, <1>7

(* Threads wait for each other's mutex only where loops post to each other *)
(* in a cycle, from functions that RunFuctions calls with mtx_ held.       *)
THEOREM DeadlockCorrect == SafetySpec => []DeadlockFollowsPosts
<1>1. Init => CallerInv
  BY DEF Init, CallerInv
<1>2. IInv /\ CallerInv /\ [Next]_vars => CallerInv'
  BY CallerStep DEF IInv
<1>3. IInv /\ CallerInv => DeadlockFollowsPosts
  <2> SUFFICES ASSUME TypeOK, MutexInv, CallerInv, NEW W \in SUBSET Threads,
                      \A t \in W : \E u \in W : WaitsFor(t, u),
                      NEW t \in W
               PROVE  \E l \in (W \cap Loops) \ {t} :
                          <<t, l>> \in Posts /\ lpc[l] = "exec"
    BY DEF IInv, DeadlockFollowsPosts
  <2>1. PICK u \in W : WaitsFor(t, u)
    OBVIOUS
  <2>2. t \in Threads /\ u \in Threads /\ \E v \in Threads : WaitsFor(u, v)
    OBVIOUS
  <2>3. u \in Loops \ {t} /\ <<t, u>> \in Posts /\ lpc[u] = "exec"
    BY <2>1, <2>2, WaitedForIsLoop
  <2> QED
    BY <2>3
<1> QED
  BY <1>1, <1>2, <1>3, Invariance, PTL DEF SafetySpec

----------------------------------------------------------------------------
(* Refinement: the loop implements TaskQueue (its safety part).            *)

(* A function is in one call at most, and then it is not fresh any more. *)
FreshInv ==
    /\ \A c \in calls : c.fn \notin fresh
    /\ \A c, d \in calls : c.fn = d.fn => c = d

(* A function is submitted at most once, by RunInLoop. *)
LEMMA FreshStep == TypeOK /\ FreshInv /\ [Next]_vars => FreshInv'
<1> SUFFICES ASSUME TypeOK, FreshInv, [Next]_vars PROVE FreshInv'
  OBVIOUS
<1> USE DEF FreshInv
<1>0. calls \in SUBSET Calls /\ \A pc \in {"wakeup", "return"} : pc \in CallPc
  BY DEF TypeOK, CallPc
<1>1. CASE calls' = calls /\ fresh' \subseteq fresh
  BY <1>1
<1>2. ASSUME NEW t \in Threads, NEW l \in Loops, NEW f \in Fns,
             RunInLoop(t, l, f)
      PROVE  FreshInv'
  <2> DEFINE new == [by |-> t, to |-> l, fn |-> f, at |-> "lock"]
  <2>1. calls' = calls \cup {new} /\ f \in fresh /\ fresh' = fresh \ {f}
    BY <1>2 DEF RunInLoop
  <2>2. new.fn = f
    OBVIOUS
  <2> HIDE DEF new
  <2> QED
    BY <2>1, <2>2
<1>3. ASSUME NEW c \in calls, Push(c) \/ WakeUp(c) PROVE FreshInv'
  <2>1. fresh' = fresh /\ \E pc \in {"wakeup", "return"} : MoveCall(c, pc)
    BY <1>3 DEF Push, WakeUp
  <2>2. PICK m \in calls' :
           /\ m.fn = c.fn
           /\ \A d \in calls' : d = m \/ (d \in calls /\ d # c)
    BY <1>0, <2>1, MoveCallFields
  <2> QED
    BY <2>1, <2>2
<1>4. ASSUME NEW c \in calls, Return(c) PROVE FreshInv'
  BY <1>4 DEF Return
<1>5. ASSUME NEW l \in Loops, NEW f \in Fns, RunInLoopHere(l, f) PROVE FreshInv'
  BY <1>1, <1>5 DEF RunInLoopHere
<1> QED
  BY <1>1, <1>2, <1>3, <1>4, <1>5, NextCases
     DEF StartLoop, TestLooping, PollEvent, PollTimeout, TimerDone, OnPipeRead,
         RunFuctions, CallFront, PopFront, FunctionsDone, Quit, vars

(* The values of the abstract variables. *)
Handed == {c.fn : c \in {d \in calls : d.at = "lock"}}
Queue == [l \in Loops |-> Uncalled(l)]
Open == [l \in Loops |-> ~quit[l]]

(* A step that is none of the abstract ones leaves the queues alone. *)
LEMMA QueueUnchanged ==
    ASSUME TypeOK, UNCHANGED fns,
           \A l \in Loops : lpc'[l] = "exec" <=> lpc[l] = "exec"
    PROVE  UNCHANGED Queue
  BY DEF Queue, Uncalled

(* Every step is a step of the abstract task queue or leaves it alone. *)
LEMMA QueueStep == IInv /\ FreshInv /\ [Next]_vars => [TQ!Next]_(TQ!vars)
<1> SUFFICES ASSUME IInv, FreshInv, [Next]_vars PROVE [TQ!Next]_(TQ!vars)
  OBVIOUS
<1>0. /\ TypeOK /\ ExecInv /\ MutexInv /\ calls \in SUBSET Calls
      /\ lpc \in [Loops -> LoopPc] /\ fns \in [Loops -> Seq(Fns)]
      /\ quit \in [Loops -> BOOLEAN] /\ ran \in [Loops -> Seq(Fns)]
      /\ \A c \in calls : c.to \in Loops /\ c.fn \in Fns
      /\ \A pc \in {"wakeup", "return"} : pc \in CallPc
      /\ \A l \in Loops : l # NoThread
  BY ThreadsAssumption DEF IInv, TypeOK, Calls, CallPc, Threads
<1>1. CASE UNCHANGED <<fresh, Handed, Queue, ran, onSpot, Open>>
  BY <1>1 DEF TQ!vars, Handed, Queue, Open
<1>2. ASSUME NEW t \in Threads, NEW l \in Loops, NEW f \in Fns,
             RunInLoop(t, l, f)
      PROVE  TQ!Submit(f)
  <2> DEFINE new == [by |-> t, to |-> l, fn |-> f, at |-> "lock"]
  <2>1. /\ calls' = calls \cup {new} /\ f \in fresh /\ fresh' = fresh \ {f}
        /\ UNCHANGED <<fns, lpc, ran, onSpot, quit>>
    BY <1>2 DEF RunInLoop
  <2>2. new.fn = f /\ new.at = "lock"
    OBVIOUS
  <2> HIDE DEF new
  <2>3. Handed' = Handed \cup {f}
    BY <2>1, <2>2 DEF Handed
  <2>4. UNCHANGED Queue /\ UNCHANGED Open
    BY <1>0, <2>1, QueueUnchanged DEF Open
  <2> QED
    BY <2>1, <2>3, <2>4 DEF TQ!Submit, Handed, Queue, Open
<1>3. ASSUME NEW l \in Loops, NEW f \in Fns, RunInLoopHere(l, f)
      PROVE  TQ!RunNow(f)
  <2>1. /\ f \in fresh /\ fresh' = fresh \ {f} /\ onSpot' = onSpot \cup {f}
        /\ UNCHANGED <<fns, lpc, ran, calls, quit>>
    BY <1>3 DEF RunInLoopHere
  <2>2. UNCHANGED <<Handed, Queue, Open>>
    BY <1>0, <2>1, QueueUnchanged DEF Handed, Open
  <2> QED
    BY <2>1, <2>2 DEF TQ!RunNow, Handed, Queue, Open
<1>4. ASSUME NEW c \in calls, Push(c) PROVE TQ!Enqueue(c.to, c.fn)
  <2>1. /\ c.at = "lock" /\ MoveCall(c, "wakeup") /\ c.to \in Loops
        /\ fns' = [fns EXCEPT ![c.to] = Append(@, c.fn)]
        /\ UNCHANGED <<fresh, lpc, ran, onSpot, quit>>
        /\ lpc[c.to] # "exec"
    BY <1>0, <1>4 DEF Push, MutexInv
  <2>a. MoveCall(c, "wakeup") /\ "wakeup" \in CallPc /\ calls \in SUBSET Calls
    BY <1>0, <2>1
  <2>2. PICK m \in calls' :
           /\ m.fn = c.fn /\ m.at = "wakeup"
           /\ \A d \in calls' : d = m \/ (d \in calls /\ d # c)
           /\ \A d \in calls : d # c => d \in calls'
    BY <2>a, MoveCallFields
  <2>3. c.fn \in Handed /\ Handed' = Handed \ {c.fn}
    BY <2>1, <2>2 DEF Handed, FreshInv
  <2>4. Queue' = [Queue EXCEPT ![c.to] = Append(@, c.fn)]
    <3>1. \A l \in Loops : l # c.to => Uncalled(l)' = Uncalled(l)
      BY <1>0, <2>1 DEF Uncalled
    <3>2. Uncalled(c.to)' = Append(Uncalled(c.to), c.fn)
      BY <1>0, <2>1 DEF Uncalled
    <3> QED
      BY <2>1, <3>1, <3>2 DEF Queue
  <2>5. UNCHANGED Open
    BY <2>1 DEF Open
  <2> QED
    BY <2>1, <2>3, <2>4, <2>5 DEF TQ!Enqueue, Handed, Queue, Open
<1>5. ASSUME NEW c \in calls, WakeUp(c)
      PROVE  UNCHANGED <<fresh, Handed, Queue, ran, onSpot, Open>>
  <2>1. /\ c.at = "wakeup" /\ MoveCall(c, "return")
        /\ UNCHANGED <<fresh, fns, lpc, ran, onSpot, quit>>
    BY <1>5 DEF WakeUp
  <2>2. PICK m \in calls' :
           /\ m.at = "return"
           /\ \A d \in calls' : d = m \/ (d \in calls /\ d # c)
           /\ \A d \in calls : d # c => d \in calls'
    BY <1>0, <2>1, MoveCallFields
  <2>3. UNCHANGED Handed
    BY <2>1, <2>2 DEF Handed
  <2> QED
    BY <1>0, <2>1, <2>3, QueueUnchanged DEF Open
<1>6. ASSUME NEW c \in calls, Return(c)
      PROVE  UNCHANGED <<fresh, Handed, Queue, ran, onSpot, Open>>
  <2>1. /\ c.at = "return" /\ calls' = calls \ {c}
        /\ UNCHANGED <<fresh, fns, lpc, ran, onSpot, quit>>
    BY <1>6 DEF Return
  <2>2. UNCHANGED Handed
    BY <2>1 DEF Handed
  <2> QED
    BY <1>0, <2>1, <2>2, QueueUnchanged DEF Open
<1>7. ASSUME NEW l \in Loops, StartLoop(l) \/ TestLooping(l) \/ PollEvent(l)
             \/ PollTimeout(l) \/ TimerDone(l) \/ OnPipeRead(l)
             \/ RunFuctions(l) \/ FunctionsDone(l)
      PROVE  UNCHANGED <<fresh, Handed, Queue, ran, onSpot, Open>>
  <2>1. /\ UNCHANGED <<fresh, fns, calls, ran, onSpot, quit>>
        /\ \A k \in Loops : lpc'[k] = "exec" <=> lpc[k] = "exec"
    BY <1>0, <1>7 DEF StartLoop, TestLooping, PollEvent, PollTimeout, TimerDone,
                      OnPipeRead, RunFuctions, FunctionsDone, Goto
  <2> QED
    BY <1>0, <2>1, QueueUnchanged DEF Handed, Open
<1>8. ASSUME NEW l \in Loops, CallFront(l) PROVE TQ!Run(l)
  <2>1. /\ fns[l] # <<>> /\ lpc[l] = "run" /\ lpc' = [lpc EXCEPT ![l] = "exec"]
        /\ ran' = [ran EXCEPT ![l] = Append(@, Head(fns[l]))]
        /\ UNCHANGED <<fresh, fns, calls, onSpot, quit>>
    BY <1>8 DEF CallFront, Goto
  <2>2. Queue[l] = fns[l] /\ Queue' = [Queue EXCEPT ![l] = Tail(@)]
    <3>1. Uncalled(l) = fns[l] /\ Uncalled(l)' = Tail(fns[l])
      BY <1>0, <2>1 DEF Uncalled
    <3>2. \A k \in Loops : k # l => Uncalled(k)' = Uncalled(k)
      BY <1>0, <2>1 DEF Uncalled
    <3> QED
      BY <3>1, <3>2 DEF Queue
  <2>3. UNCHANGED <<Handed, Open>>
    BY <2>1 DEF Handed, Open
  <2>4. ran' = [ran EXCEPT ![l] = Append(@, Head(Queue[l]))] /\ Queue[l] # <<>>
    BY <2>1, <2>2
  <2> QED
    BY <2>1, <2>2, <2>3, <2>4 DEF TQ!Run, Handed, Queue, Open
<1>9. ASSUME NEW l \in Loops, PopFront(l)
      PROVE  UNCHANGED <<fresh, Handed, Queue, ran, onSpot, Open>>
  <2>1. /\ lpc[l] = "exec" /\ lpc' = [lpc EXCEPT ![l] = "run"]
        /\ fns' = [fns EXCEPT ![l] = Tail(@)]
        /\ UNCHANGED <<fresh, calls, ran, onSpot, quit>>
    BY <1>9 DEF PopFront, Goto
  <2>2. \A k \in Loops : Uncalled(k)' = Uncalled(k)
    BY <1>0, <2>1 DEF Uncalled
  <2> QED
    BY <2>1, <2>2 DEF Handed, Queue, Open
<1>10. ASSUME NEW l \in Loops, Quit(l) PROVE TQ!Close(l)
  <2>1. /\ quit' = [quit EXCEPT ![l] = TRUE]
        /\ UNCHANGED <<fresh, fns, lpc, calls, ran, onSpot>>
    BY <1>10 DEF Quit
  <2>2. Open' = [Open EXCEPT ![l] = FALSE]
    BY <1>0, <2>1 DEF Open
  <2>3. UNCHANGED <<Handed, Queue>>
    BY <1>0, <2>1, QueueUnchanged DEF Handed
  <2> QED
    BY <2>1, <2>2, <2>3 DEF TQ!Close, Handed, Queue, Open
<1>11. CASE UNCHANGED vars
  <2>1. UNCHANGED <<fresh, fns, lpc, calls, ran, onSpot, quit>>
    BY <1>11 DEF vars
  <2> QED
    BY <1>0, <1>1, <2>1, QueueUnchanged DEF Handed, Open
<1> QED
  BY <1>0, <1>1, <1>2, <1>3, <1>4, <1>5, <1>6, <1>7, <1>8, <1>9, <1>10, <1>11,
     NextCases DEF TQ!Next

(* EventLoop implements TaskQueue: with the mutex, the pipe and epoll, for *)
(* any number of loops, threads and functions, RunInLoop and RunFuctions   *)
(* make only steps the abstract task queue allows.                         *)
THEOREM ImplementsSafety == SafetySpec => TQ!SafetySpec
<1>1. Init => TQ!Init
  BY DEF Init, TQ!Init, Uncalled
<1>2. Init => FreshInv
  BY DEF Init, FreshInv
<1>3. IInv => TypeOK
  BY DEF IInv
<1>4. SafetySpec => []FreshInv
  BY <1>2, <1>3, FreshStep, Invariance, PTL DEF SafetySpec
<1> QED
  BY <1>1, <1>4, QueueStep, Invariance, PTL DEF SafetySpec, TQ!SafetySpec
============================================================================
