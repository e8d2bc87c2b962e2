---------------------------- MODULE TimingWheel ----------------------------
(***************************************************************************)
(* nest::net::TimingWheel: the timers of an event loop.                    *)
(*                                                                         *)
(* Four wheels of slots (seconds, minutes, hours, days).  A slot is a set  *)
(* of shared pointers; a timer has no callback of its own, it FIRES when   *)
(* its last reference is dropped.  A delay of a minute or more is put as a *)
(* wrapper with the remaining seconds into a coarser wheel; the wrapper    *)
(* inserts the timer again when it is dropped.  The loop calls OnTimer     *)
(* after every epoll_wait; at most one tick is made per call.              *)
(*                                                                         *)
(* The sizes of a minute, an hour and a day are parameters (60, 3600 and   *)
(* 86400 in the code).  Slot i here is element i - 1 of the deque.         *)
(***************************************************************************)
EXTENDS Integers, FiniteSets

CONSTANTS
    Minute, Hour, Day,  \* kTimingMinute, kTimingHour, kTimingDay, in ticks
    MaxDays,            \* slots of the day wheel (30)
    Second,             \* clock units per second (1000)
    MaxClk,             \* bound: the longest time between two OnTimer calls
    Once,               \* timers of RunAfter
    Every,              \* timers of RunEvery
    Idle,               \* idle timeouts: inserted again by ExtendLife
    Delays              \* delays that are asked for

Entries == Once \cup Every \cup Idle

ASSUME WheelAssumption ==
    /\ Minute \in Nat \ {0, 1}
    /\ Hour \in Nat /\ Hour % Minute = 0 /\ Hour > Minute
    /\ Day \in Nat /\ Day % Hour = 0 /\ Day > Hour
    /\ MaxDays \in Nat \ {0}
    /\ Second \in Nat \ {0}
    /\ MaxClk \in Nat /\ MaxClk >= Second

ASSUME EntryAssumption ==
    /\ Once \cap Every = {} /\ Once \cap Idle = {} /\ Every \cap Idle = {}
    /\ Delays \subseteq Nat

VARIABLES
    w,        \* wheels_
    tick,     \* tick_, modulo a day
    started,  \* lastTs_ is not 0
    clk,      \* now - lastTs_
    delay,    \* delay[e]: the delay timer e is used with
    ticks,    \* ticks[e]: history, ticks since e was inserted last
    age,      \* age[e]: history, clock units since e was inserted last
    firedAt   \* firedAt[e]: history, ticks[e] when e fired last, or None

vars == <<w, tick, started, clk, delay, ticks, age, firedAt>>

None == -1

(* A wrapper: the seconds that remain, and the timer. *)
Wrappers == Nat \X Entries

Wheels == [sec : [1 .. Minute -> SUBSET Entries],
           min : [1 .. Hour \div Minute -> SUBSET Wrappers],
           hour : [1 .. Day \div Hour -> SUBSET Wrappers],
           day : [1 .. MaxDays -> SUBSET Wrappers]]

Empty == [sec |-> [i \in 1 .. Minute |-> {}],
          min |-> [i \in 1 .. Hour \div Minute |-> {}],
          hour |-> [i \in 1 .. Day \div Hour |-> {}],
          day |-> [i \in 1 .. MaxDays |-> {}]]

TypeOK ==
    /\ w \in Wheels
    /\ tick \in 0 .. Day - 1
    /\ started \in BOOLEAN
    /\ clk \in 0 .. MaxClk
    /\ delay \in [Entries -> Delays]
    /\ ticks \in [Entries -> Nat]
    /\ age \in [Entries -> Nat]
    /\ firedAt \in [Entries -> Nat \cup {None}]

Init ==
    /\ w = Empty
    /\ tick = 0
    /\ started = FALSE
    /\ clk = 0
    /\ delay \in [Entries -> Delays]
    /\ ticks = [e \in Entries |-> 0]
    /\ age = [e \in Entries |-> 0]
    /\ firedAt = [e \in Entries |-> None]

(* The histories stop counting when a timer is overdue. *)
Count(x, bound) == IF x < bound THEN x + 1 ELSE x
MaxTicks(e) == delay[e] + 1
MaxAge(e) == delay[e] * Second + MaxClk

----------------------------------------------------------------------------
(* The timers that wheels x hold a reference to. *)
Refs(x) ==
    LET Held(slots) == UNION {slots[i] : i \in DOMAIN slots}
    IN  Held(x.sec)
            \cup {p[2] : p \in Held(x.min) \cup Held(x.hour) \cup Held(x.day)}

Armed(e) == e \in Refs(w)

(* The wrappers of S, pairs <<delay, timer>>, that belong to slot i of a   *)
(* wheel for delays from unit up to limit.                                 *)
Wrap(S, unit, limit, i) ==
    {<<p[1] % unit, p[2]>> :
        p \in {q \in S : unit <= q[1] /\ q[1] < limit /\ q[1] \div unit = i}}

(* Mutant: the slot is delay instead of delay - 1. *)
InsertEntry_OffByOne(x, S) ==
    [x EXCEPT !.sec = [i \in DOMAIN x.sec |->
        x.sec[i] \cup {p[2] : p \in {q \in S : q[1] + 1 = i}}]]

(* InsertEntry for every pair <<delay, timer>> of S.  A delay of more than *)
(* MaxDays days is refused: the timer is dropped.  Delay 0 writes outside  *)
(* the deque, and is kept out by CanInsert.                                *)
InsertEntry(x, S) ==
    [sec |-> [i \in DOMAIN x.sec |->
                x.sec[i] \cup {p[2] : p \in {q \in S : q[1] = i /\ i < Minute}}],
     min |-> [i \in DOMAIN x.min |-> x.min[i] \cup Wrap(S, Minute, Hour, i)],
     hour |-> [i \in DOMAIN x.hour |-> x.hour[i] \cup Wrap(S, Hour, Day, i)],
     day |-> [i \in DOMAIN x.day |->
                x.day[i] \cup Wrap(S, Day, (MaxDays + 1) * Day, i)]]

(* PopUp: the first slot is taken out, the others move up. *)
PopUp(slots) ==
    [i \in DOMAIN slots |-> IF i + 1 \in DOMAIN slots THEN slots[i + 1] ELSE {}]

(* wheels_[kTimingTypeSecond][delay - 1] exists: no wrapper with 0 seconds *)
(* left is dropped, which a delay of whole minutes would lead to.          *)
CanInsert(d) == d > 0 /\ d % Minute # 0

(* Timer e is inserted, with delay[e], by RunAfter, RunEvery or            *)
(* EnableCheckIdleTimeout; an idle timeout that still exists is inserted   *)
(* again by ExtendLife.                                                    *)
Insert(e) ==
    /\ CanInsert(delay[e])
    /\ e \in Idle \/ ~Armed(e)
    /\ w' = InsertEntry(w, {<<delay[e], e>>})
    /\ ticks' = [ticks EXCEPT ![e] = 0]
    /\ age' = [age EXCEPT ![e] = 0]
    /\ UNCHANGED <<tick, started, clk, delay, firedAt>>

(* Time passes between two calls of OnTimer. *)
Advance ==
    /\ clk < MaxClk
    /\ clk' = clk + 1
    /\ age' = [e \in Entries |-> IF Armed(e) THEN Count(age[e], MaxAge(e)) ELSE 0]
    /\ UNCHANGED <<w, tick, started, delay, ticks, firedAt>>

(* Which of the coarser wheels OnTimer pops, if any.  The second and the   *)
(* third branch cannot be taken.                                           *)
CoarseWheel(t) ==
    IF t % Minute = 0 THEN "min"
    ELSE IF t % Hour = 0 THEN "hour"
    ELSE IF t % Day = 0 THEN "day"
    ELSE "none"

(* PopUp of a coarse wheel: the wrappers of its first slot are dropped and *)
(* insert their timers with the seconds that remain.                       *)
PopCoarse(x, t) ==
    LET c == CoarseWheel(t)
    IN  IF c = "none" THEN x
        ELSE InsertEntry([x EXCEPT ![c] = PopUp(@)], x[c][1])

(* Mutant: a reference in the first slot is enough to fire. *)
Firing_AnyReference(x) == x.sec[1]

(* The timers that fire when the second wheel is popped. *)
Firing(x) == x.sec[1] \ Refs([x EXCEPT !.sec = PopUp(@)])

(* PopUp of the second wheel.  A RunEvery timer that fires is inserted     *)
(* again from its own callback, after the wheel has moved.                 *)
PopSecond(x) ==
    InsertEntry([x EXCEPT !.sec = PopUp(@)],
                {<<delay[e], e>> : e \in Firing(x) \cap Every})

(* Mutant: lastTs_ is not updated. *)
Tick_SameLastTs ==
    /\ started
    /\ clk >= Second
    /\ tick' = (tick + 1) % Day
    /\ w' = PopCoarse(PopSecond(w), tick')
    /\ ticks' = [e \in Entries |->
                    IF Armed(e) THEN Count(ticks[e], MaxTicks(e)) ELSE 0]
    /\ UNCHANGED <<started, clk, delay, age, firedAt>>

(* OnTimer with a whole second passed. *)
Tick ==
    /\ started
    /\ clk >= Second
    /\ clk' = 0
    /\ tick' = (tick + 1) % Day
    /\ LET fired == Firing(w)
       IN  /\ w' = PopCoarse(PopSecond(w), tick')
           /\ firedAt' = [e \in Entries |->
                            IF e \in fired THEN ticks[e] + 1 ELSE firedAt[e]]
           /\ ticks' = [e \in Entries |->
                          IF Armed(e) /\ e \notin fired
                          THEN Count(ticks[e], MaxTicks(e)) ELSE 0]
           /\ age' = [e \in Entries |->
                        IF Armed(e) /\ e \notin fired THEN age[e] ELSE 0]
    /\ UNCHANGED <<started, delay>>

(* The first OnTimer only stores the time. *)
FirstOnTimer ==
    /\ ~started
    /\ started' = TRUE
    /\ clk' = 0
    /\ UNCHANGED <<w, tick, delay, ticks, age, firedAt>>

OnTimer == FirstOnTimer \/ Tick

Next ==
    \/ \E e \in Entries : Insert(e)
    \/ Advance
    \/ OnTimer

SafetySpec == Init /\ [][Next]_vars

(* The loop calls OnTimer at least once a second, and time passes. *)
Fairness == WF_vars(Advance) /\ WF_vars(OnTimer)

Spec == SafetySpec /\ Fairness

----------------------------------------------------------------------------
(* Properties.                                                             *)

(* A timer with a delay of less than a minute sits in the slot that is     *)
(* dropped exactly delay ticks after its last insertion, and in no later   *)
(* one: the references an extended idle timeout leaves in earlier slots do *)
(* not make it fire, and nothing keeps it alive for longer.                *)
LastReference ==
    \A e \in Entries : Armed(e) /\ delay[e] < Minute =>
        /\ e \in w.sec[delay[e] - ticks[e]]
        /\ \A i \in DOMAIN w.sec : i > delay[e] - ticks[e] => e \notin w.sec[i]

(* Nothing leaves the wheels and every short timer has its one last slot.  *)
WheelInv == TypeOK /\ LastReference

(* When a timer fires: delays under a minute after exactly that many       *)
(* ticks; longer ones up to a minute too early, never late.  And a timer   *)
(* of less than an hour that is still in the wheels is not overdue, so it  *)
(* does fire as the wheels go on turning.                                  *)
FireWindow ==
    \A e \in Entries :
        /\ firedAt[e] # None => /\ firedAt[e] <= delay[e]
                                /\ firedAt[e] >= delay[e] - Minute
                                /\ delay[e] < Minute => firedAt[e] = delay[e]
        /\ Armed(e) /\ delay[e] < Hour => ticks[e] < delay[e]

(* k ticks take at least k - 1 seconds of clock time, and what has passed  *)
(* since the last one: no timer runs ahead of the clock, although OnTimer  *)
(* is called after every epoll_wait.                                       *)
ClockBound ==
    \A e \in Entries : Armed(e) /\ ticks[e] > 0 =>
        age[e] >= (ticks[e] - 1) * Second + clk

(* Every delay of up to 30 days is supported ("It is not surpport > 30     *)
(* day!" is logged for longer ones only): such a timer fires.              *)
SupportedDelaysFire ==
    \A e \in Once : (Armed(e) /\ delay[e] <= MaxDays * Day) ~> ~Armed(e)
============================================================================
