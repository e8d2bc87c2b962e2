------------------------- MODULE TimingWheelProofs -------------------------
(***************************************************************************)
(* Proofs about TimingWheel, for wheels of any sizes, any timers and any   *)
(* delays that can be inserted: when a timer fires, and that no timer runs *)
(* ahead of the clock.                                                     *)
(***************************************************************************)
EXTENDS TimingWheel, TLAPS

----------------------------------------------------------------------------
(* The inductive invariant. *)

Minutes == 1 .. Hour \div Minute
Hours == 1 .. Day \div Hour

(* The ticks of i turns of the second wheel. *)
Turn(i) == i * Minute

(* Seconds since the minute wheel was popped. *)
Phase == tick % Minute

(* What the slots of x hold, h ticks after the minute wheel was popped: a  *)
(* reference is in the wheel for its delay or a finer one, and those of a  *)
(* delay of a minute or more are dropped before one that is inserted now.  *)
InSeconds(x, h) ==
    \A j \in 1 .. Minute : \A e \in Entries : e \in x.sec[j] =>
        /\ CanInsert(delay[e]) /\ delay[e] < Hour
        /\ Minute <= delay[e] => j + h <= delay[e]

InMinutes(x) ==
    \A i \in Minutes : \A s \in Nat : \A e \in Entries : <<s, e>> \in x.min[i] =>
        /\ CanInsert(delay[e]) /\ Minute <= delay[e] /\ delay[e] < Hour
        /\ s \in 1 .. Minute - 1 /\ Turn(i) + s <= delay[e]

InCoarse(x) ==
    /\ \A i \in Hours : \A s \in Nat : \A e \in Entries :
           <<s, e>> \in x.hour[i] => Hour <= delay[e]
    /\ \A i \in 1 .. MaxDays : \A s \in Nat : \A e \in Entries :
           <<s, e>> \in x.day[i] => Hour <= delay[e]

Slots(x, h) == InSeconds(x, h) /\ InMinutes(x) /\ InCoarse(x)

(* The references to e are dropped within r ticks, and the last of them in *)
(* exactly r: one in slot j of the second wheel in j ticks, a wrapper in   *)
(* slot i of the minute wheel in i minutes and the seconds that remain.    *)
InTime(x, e, h, r) ==
    /\ \A j \in 1 .. Minute : e \in x.sec[j] => j <= r
    /\ \A i \in Minutes : \A s \in Nat : <<s, e>> \in x.min[i] => Turn(i) + s - h <= r

LastSecond(x, e, r) == r \in 1 .. Minute /\ e \in x.sec[r]

LastMinute(x, e, h, r) ==
    \E i \in Minutes : \E s \in Nat : <<s, e>> \in x.min[i] /\ Turn(i) + s - h = r

Lasts(x, e, h, r) ==
    InTime(x, e, h, r) /\ (LastSecond(x, e, r) \/ LastMinute(x, e, h, r))

(* When a timer may fire, in ticks after it was inserted. *)
InWindow(e, t) ==
    /\ t <= delay[e] /\ t >= delay[e] - Minute
    /\ delay[e] < Minute => t = delay[e]

LastInv ==
    \A e \in Entries : Armed(e) /\ delay[e] < Hour =>
        \E r \in Nat \ {0} : Lasts(w, e, Phase, r) /\ InWindow(e, ticks[e] + r)

FiredInv == \A e \in Entries : firedAt[e] # None => InWindow(e, firedAt[e])

(* The histories stay below their bounds. *)
BoundsInv == \A e \in Entries : ticks[e] <= MaxTicks(e) /\ age[e] <= MaxAge(e)

IInv ==
    /\ TypeOK /\ Slots(w, Phase) /\ LastInv /\ FiredInv /\ BoundsInv /\ ClockBound

----------------------------------------------------------------------------
(* Quotients and remainders. *)

LEMMA Division ==
    ASSUME NEW n \in Nat \ {0}, NEW a \in Nat
    PROVE  /\ a \div n \in Nat /\ a % n \in 0 .. n - 1
           /\ a = (a \div n) * n + (a % n)
<1> DEFINE q == a \div n  r == a % n
<1>1. q \in Int /\ r \in 0 .. n - 1 /\ a = n * q + r
  OBVIOUS
<1> HIDE DEF q, r
<1>2. q >= 0 /\ n * q = q * n
  BY <1>1
<1> QED
  BY <1>1, <1>2 DEF q, r

LEMMA DivisionUnique ==
    ASSUME NEW n \in Nat \ {0}, NEW q \in Int, NEW r \in 0 .. n - 1, NEW a \in Nat, a = q * n + r
    PROVE  a \div n = q /\ a % n = r
<1> DEFINE p == a \div n  s == a % n
<1>1. p \in Int /\ s \in 0 .. n - 1 /\ a = n * p + s
  OBVIOUS
<1> HIDE DEF p, s
<1>2. n * p + s = n * q + r
  BY <1>1
<1>3. p = q
  BY <1>1, <1>2
<1> QED
  BY <1>1, <1>2, <1>3 DEF p, s

LEMMA ModNext ==
    ASSUME NEW n \in Nat \ {0}, NEW a \in Nat
    PROVE  (a + 1) % n = IF (a % n) + 1 = n THEN 0 ELSE (a % n) + 1
<1> DEFINE q == a \div n  r == a % n
<1>1. q \in Nat /\ r \in 0 .. n - 1 /\ a = q * n + r
  BY Division
<1> HIDE DEF q, r
<1>2. CASE r + 1 = n
  <2>1. a + 1 = (q + 1) * n + 0
    BY <1>1, <1>2
  <2>2. (a + 1) % n = 0
    BY <1>1, <2>1, DivisionUnique
  <2> QED
    BY <1>2, <2>2 DEF r
<1>3. CASE r + 1 # n
  <2>1. a + 1 = q * n + (r + 1) /\ r + 1 \in 0 .. n - 1
    BY <1>1, <1>3
  <2>2. (a + 1) % n = r + 1
    BY <1>1, <2>1, DivisionUnique
  <2> QED
    BY <1>3, <2>2 DEF r
<1> QED
  BY <1>2, <1>3

(* What divides a divisor divides. *)
LEMMA ModOfMod ==
    ASSUME NEW n \in Nat \ {0}, NEW m \in Nat \ {0}, m % n = 0, NEW a \in Nat, a % m = 0
    PROVE  a % n = 0
<1> DEFINE q == a \div m  p == m \div n
<1>1. q \in Nat /\ p \in Nat /\ a = q * m /\ m = p * n
  BY Division
<1> HIDE DEF q, p
<1> DEFINE k == q * p
<1>2. a = k * n + 0 /\ k \in Int /\ 0 \in 0 .. n - 1
  BY <1>1
<1> HIDE DEF k
<1> QED
  BY <1>2, DivisionUnique

----------------------------------------------------------------------------
(* The sizes of the wheels, and the ticks. *)

LEMMA Sizes ==
    /\ Minute \in Nat /\ Minute > 1 /\ Hour \in Nat /\ Hour > Minute /\ Day \in Nat /\ Day > Hour
    /\ MaxDays \in Nat /\ Second \in Nat /\ Second > 0 /\ MaxClk \in Nat
    /\ Hour \div Minute \in Nat /\ Day \div Hour \in Nat
    /\ Hour = (Hour \div Minute) * Minute
    /\ Hour % Minute = 0 /\ Day % Hour = 0 /\ Day % Minute = 0
<1>1. /\ Minute \in Nat \ {0} /\ Minute > 1 /\ Hour \in Nat \ {0} /\ Hour > Minute
      /\ Day \in Nat \ {0} /\ Day > Hour
      /\ MaxDays \in Nat /\ Second \in Nat /\ Second > 0 /\ MaxClk \in Nat
      /\ Hour % Minute = 0 /\ Day % Hour = 0
  BY WheelAssumption
<1>2. /\ Hour \div Minute \in Nat /\ Hour = (Hour \div Minute) * Minute + (Hour % Minute)
      /\ Day \div Hour \in Nat
  BY <1>1, Division
<1>3. Hour = (Hour \div Minute) * Minute
  BY <1>1, <1>2
<1>4. Day % Minute = 0
  BY <1>1, ModOfMod
<1> QED
  BY <1>1, <1>2, <1>3, <1>4

LEMMA Turns ==
    /\ Turn(1) = Minute /\ 1 \in Minutes
    /\ \A i \in Minutes : i \in Nat /\ i >= 1 /\ Turn(i) \in Nat /\ Turn(i) >= Minute
    /\ \A i \in Nat : Turn(i + 1) = Turn(i) + Minute
    /\ \A i \in Minutes : i # 1 => i - 1 \in Minutes /\ Turn(i) = Turn(i - 1) + Minute
<1> DEFINE m == Hour \div Minute
<1>1. Minute \in Nat /\ Minute > 1 /\ m \in Nat /\ Hour = m * Minute /\ Hour > Minute
  BY Sizes
<1> HIDE DEF m
<1>2. m >= 1
  BY <1>1
<1>3. Turn(1) = Minute /\ 1 \in 1 .. m
  BY <1>1, <1>2 DEF Turn
<1>4. \A i \in Nat : i >= 1 => Turn(i) \in Nat /\ Turn(i) >= Minute
  BY <1>1 DEF Turn
<1>5. \A i \in Nat : Turn(i + 1) = Turn(i) + Minute
  BY <1>1 DEF Turn
<1>6. \A i \in 1 .. m : i # 1 => i - 1 \in 1 .. m /\ Turn(i) = Turn(i - 1) + Minute
  BY <1>1 DEF Turn
<1> QED
  BY <1>1, <1>3, <1>4, <1>5, <1>6 DEF Minutes, m

(* A delay of less than an hour has a slot in the minute wheel. *)
LEMMA MinuteSlot ==
    ASSUME NEW d \in Nat, Minute <= d, d < Hour
    PROVE  /\ d \div Minute \in Minutes /\ d % Minute \in 0 .. Minute - 1
           /\ d = Turn(d \div Minute) + (d % Minute)
<1> DEFINE q == d \div Minute  r == d % Minute  m == Hour \div Minute
<1>0. Minute \in Nat \ {0} /\ m \in Nat /\ Hour = m * Minute
  BY Sizes
<1>1. q \in Nat /\ r \in 0 .. Minute - 1 /\ d = q * Minute + r
  BY <1>0, Division
<1> HIDE DEF q, r, m
<1>2. q >= 1
  BY <1>0, <1>1
<1>3. q <= m
  BY <1>0, <1>1
<1> QED
  BY <1>0, <1>1, <1>2, <1>3 DEF q, r, m, Minutes, Turn

(* The phase goes on with the ticks, although both wrap around. *)
LEMMA PhaseNext ==
    ASSUME tick \in 0 .. Day - 1, tick' = (tick + 1) % Day
    PROVE  /\ Phase \in 0 .. Minute - 1 /\ tick' \in 0 .. Day - 1
           /\ Phase' = IF Phase + 1 = Minute THEN 0 ELSE Phase + 1
<1>1. tick \in Nat /\ Minute \in Nat \ {0} /\ Day \in Nat \ {0}
  BY Sizes
<1>2. Phase \in 0 .. Minute - 1
  BY <1>1, Division DEF Phase
<1>3. (tick + 1) % Minute = IF Phase + 1 = Minute THEN 0 ELSE Phase + 1
  BY <1>1, ModNext DEF Phase
<1>4. CASE tick + 1 = Day
  <2>1. Day = 1 * Day + 0 /\ 0 \in 0 .. Day - 1
    BY <1>1
  <2>2. tick' = 0
    BY <1>1, <1>4, <2>1, DivisionUnique
  <2>3. 0 % Minute = 0
    <3>1. 0 = 0 * Minute + 0 /\ 0 \in 0 .. Minute - 1
      BY <1>1
    <3> QED
      BY <1>1, <3>1, DivisionUnique
  <2>4. (tick + 1) % Minute = 0
    BY <1>4, Sizes
  <2> QED
    BY <1>1, <1>2, <1>3, <2>2, <2>3, <2>4 DEF Phase
<1>5. CASE tick + 1 < Day
  <2>1. tick + 1 = 0 * Day + (tick + 1) /\ tick + 1 \in 0 .. Day - 1
    BY <1>1, <1>5
  <2>2. tick' = tick + 1
    BY <1>1, <2>1, DivisionUnique
  <2> QED
    BY <1>2, <1>3, <2>1, <2>2 DEF Phase
<1>6. tick + 1 = Day \/ tick + 1 < Day
  BY <1>1
<1> QED
  BY <1>4, <1>5, <1>6

----------------------------------------------------------------------------
(* What the slots hold after an insertion and after a pop. *)

LEMMA Pairs ==
    /\ \A s, e : <<s, e>>[1] = s /\ <<s, e>>[2] = e
    /\ \A s \in Nat : \A e \in Entries : <<s, e>> \in Wrappers
    /\ \A p \in Wrappers : p = <<p[1], p[2]>> /\ p[1] \in Nat /\ p[2] \in Entries
    /\ \A s, e, t, f : <<s, e>> = <<t, f>> <=> s = t /\ e = f
  BY DEF Wrappers

LEMMA WheelsType ==
    ASSUME NEW x \in Wheels
    PROVE  /\ x = [sec |-> x.sec, min |-> x.min, hour |-> x.hour, day |-> x.day]
           /\ x.sec \in [1 .. Minute -> SUBSET Entries] /\ x.min \in [Minutes -> SUBSET Wrappers]
           /\ x.hour \in [Hours -> SUBSET Wrappers] /\ x.day \in [1 .. MaxDays -> SUBSET Wrappers]
           /\ DOMAIN x.sec = 1 .. Minute /\ DOMAIN x.min = Minutes
           /\ DOMAIN x.hour = Hours /\ DOMAIN x.day = 1 .. MaxDays
  BY DEF Wheels, Minutes, Hours

(* S asks for a timer e to be wrapped, with s seconds left, in slot i. *)
Wrapped(S, unit, limit, i, s, e) ==
    \E d \in Nat :
        <<d, e>> \in S /\ unit <= d /\ d < limit /\ d \div unit = i /\ s = d % unit

LEMMA WrapFacts ==
    ASSUME NEW S \in SUBSET Wrappers, NEW unit \in Nat \ {0}, NEW limit, NEW i
    PROVE  /\ Wrap(S, unit, limit, i) \subseteq Wrappers
           /\ \A s \in Nat : \A e \in Entries :
                 <<s, e>> \in Wrap(S, unit, limit, i) <=> Wrapped(S, unit, limit, i, s, e)
<1>1. ASSUME NEW p \in S PROVE p = <<p[1], p[2]>> /\ p[1] \in Nat /\ p[2] \in Entries
  BY Pairs
<1>2. ASSUME NEW v \in Wrap(S, unit, limit, i) PROVE v \in Wrappers
  <2>1. PICK p \in S : v = <<p[1] % unit, p[2]>>
    BY DEF Wrap
  <2>2. p[1] % unit \in Nat
    BY <1>1, Division
  <2> QED
    BY <1>1, <2>1, <2>2, Pairs
<1>3. ASSUME NEW s \in Nat, NEW e \in Entries, <<s, e>> \in Wrap(S, unit, limit, i)
      PROVE  \E d \in Nat : /\ <<d, e>> \in S /\ unit <= d /\ d < limit
                            /\ d \div unit = i /\ s = d % unit
  <2>1. PICK p \in S : /\ <<s, e>> = <<p[1] % unit, p[2]>>
                       /\ unit <= p[1] /\ p[1] < limit /\ p[1] \div unit = i
    BY <1>3 DEF Wrap
  <2>2. s = p[1] % unit /\ e = p[2]
    BY <2>1, Pairs
  <2> QED
    BY <1>1, <2>1, <2>2
<1>4. ASSUME NEW s \in Nat, NEW e \in Entries, NEW d \in Nat, <<d, e>> \in S, unit <= d, d < limit,
             d \div unit = i, s = d % unit
      PROVE  <<s, e>> \in Wrap(S, unit, limit, i)
  <2> DEFINE p == <<d, e>>
  <2>1. p \in S /\ p[1] = d /\ p[2] = e
    BY <1>4, Pairs
  <2>2. <<s, e>> = <<p[1] % unit, p[2]>>
    BY <1>4, <2>1
  <2> HIDE DEF p
  <2>3. p \in {q \in S : unit <= q[1] /\ q[1] < limit /\ q[1] \div unit = i}
    BY <1>4, <2>1
  <2> QED
    BY <2>2, <2>3 DEF Wrap
<1> QED
  BY <1>2, <1>3, <1>4 DEF Wrapped

(* InsertEntry of the pairs in S puts each of them in one slot, unless its *)
(* delay is 0 or too long. *)
LEMMA InsertFacts ==
    ASSUME NEW x \in Wheels, NEW S \in SUBSET Wrappers, NEW y, y = InsertEntry(x, S)
    PROVE  /\ y \in Wheels
           /\ \A j \in 1 .. Minute : \A e \in Entries :
                 e \in y.sec[j] <=> e \in x.sec[j] \/ (j < Minute /\ <<j, e>> \in S)
           /\ \A i \in Minutes : \A s \in Nat : \A e \in Entries :
                 <<s, e>> \in y.min[i] <=>
                    <<s, e>> \in x.min[i] \/ Wrapped(S, Minute, Hour, i, s, e)
           /\ \A i \in Hours : \A s \in Nat : \A e \in Entries :
                 <<s, e>> \in y.hour[i] <=>
                    <<s, e>> \in x.hour[i] \/ Wrapped(S, Hour, Day, i, s, e)
           /\ \A i \in 1 .. MaxDays : \A s \in Nat : \A e \in Entries :
                 <<s, e>> \in y.day[i] <=>
                    <<s, e>> \in x.day[i] \/ Wrapped(S, Day, (MaxDays + 1) * Day, i, s, e)
<1> DEFINE secs(j) == {p[2] : p \in {q \in S : q[1] = j /\ j < Minute}}
           limit == (MaxDays + 1) * Day
<1>1. /\ y.sec = [j \in DOMAIN x.sec |-> x.sec[j] \cup secs(j)]
      /\ y.min = [i \in DOMAIN x.min |-> x.min[i] \cup Wrap(S, Minute, Hour, i)]
      /\ y.hour = [i \in DOMAIN x.hour |-> x.hour[i] \cup Wrap(S, Hour, Day, i)]
      /\ y.day = [i \in DOMAIN x.day |-> x.day[i] \cup Wrap(S, Day, limit, i)]
      /\ y = [sec |-> y.sec, min |-> y.min, hour |-> y.hour, day |-> y.day]
  BY DEF InsertEntry
<1>2. \A j : secs(j) \subseteq Entries
  BY Pairs
<1>3. \A j : \A e \in Entries : e \in secs(j) <=> (j < Minute /\ <<j, e>> \in S)
  <2>1. ASSUME NEW j, NEW e \in Entries, e \in secs(j) PROVE j < Minute /\ <<j, e>> \in S
    <3>1. PICK p \in S : p[1] = j /\ j < Minute /\ e = p[2]
      BY <2>1
    <3>2. p = <<p[1], p[2]>>
      BY Pairs
    <3> QED
      BY <3>1, <3>2
  <2>2. ASSUME NEW j, NEW e \in Entries, j < Minute, <<j, e>> \in S PROVE e \in secs(j)
    <3> DEFINE p == <<j, e>>
    <3>1. p \in S /\ p[1] = j /\ p[2] = e
      BY <2>2, Pairs
    <3> HIDE DEF p
    <3> QED
      BY <2>2, <3>1
  <2> QED
    BY <2>1, <2>2
<1>4. Minute \in Nat \ {0} /\ Hour \in Nat \ {0} /\ Day \in Nat \ {0}
  BY Sizes
<1> HIDE DEF secs, limit
<1>5. \A i : /\ Wrap(S, Minute, Hour, i) \subseteq Wrappers
             /\ Wrap(S, Hour, Day, i) \subseteq Wrappers
             /\ Wrap(S, Day, limit, i) \subseteq Wrappers
  BY <1>4, WrapFacts
<1>6. y \in Wheels
  <2>1. /\ y.sec \in [1 .. Minute -> SUBSET Entries] /\ y.min \in [Minutes -> SUBSET Wrappers]
        /\ y.hour \in [Hours -> SUBSET Wrappers] /\ y.day \in [1 .. MaxDays -> SUBSET Wrappers]
    <3> DEFINE Seconds == 1 .. Minute  Days == 1 .. MaxDays
    <3>0. /\ DOMAIN x.sec = Seconds /\ x.sec \in [Seconds -> SUBSET Entries]
          /\ DOMAIN x.day = Days /\ x.day \in [Days -> SUBSET Wrappers]
      BY WheelsType
    <3> HIDE DEF Seconds, Days
    <3>1. y.sec \in [Seconds -> SUBSET Entries]
      BY <1>1, <1>2, <3>0
    <3>2. y.min \in [Minutes -> SUBSET Wrappers]
      BY <1>1, <1>5, WheelsType
    <3>3. y.hour \in [Hours -> SUBSET Wrappers]
      BY <1>1, <1>5, WheelsType
    <3>4. y.day \in [Days -> SUBSET Wrappers]
      BY <1>1, <1>5, <3>0
    <3> QED
      BY <3>1, <3>2, <3>3, <3>4 DEF Seconds, Days
  <2> QED
    BY <1>1, <2>1 DEF Wheels, Minutes, Hours
<1>7. \A j \in 1 .. Minute : \A e \in Entries :
          e \in y.sec[j] <=> e \in x.sec[j] \/ (j < Minute /\ <<j, e>> \in S)
  <2>1. \A j \in 1 .. Minute : y.sec[j] = x.sec[j] \cup secs(j)
    BY <1>1, WheelsType
  <2> QED
    BY <1>3, <2>1
<1>8. \A i \in Minutes : \A s \in Nat : \A e \in Entries :
          <<s, e>> \in y.min[i] <=> <<s, e>> \in x.min[i] \/ <<s, e>> \in Wrap(S, Minute, Hour, i)
  <2>1. \A i \in Minutes : y.min[i] = x.min[i] \cup Wrap(S, Minute, Hour, i)
    BY <1>1, WheelsType
  <2> QED
    BY <2>1
<1>9. \A i \in Hours : \A s \in Nat : \A e \in Entries :
          <<s, e>> \in y.hour[i] <=> <<s, e>> \in x.hour[i] \/ <<s, e>> \in Wrap(S, Hour, Day, i)
  <2>1. \A i \in Hours : y.hour[i] = x.hour[i] \cup Wrap(S, Hour, Day, i)
    BY <1>1, WheelsType
  <2> QED
    BY <2>1
<1>10. \A i \in 1 .. MaxDays : \A s \in Nat : \A e \in Entries :
          <<s, e>> \in y.day[i] <=> <<s, e>> \in x.day[i] \/ <<s, e>> \in Wrap(S, Day, limit, i)
  <2>1. \A i \in 1 .. MaxDays : y.day[i] = x.day[i] \cup Wrap(S, Day, limit, i)
    BY <1>1, WheelsType
  <2> QED
    BY <2>1
<1>11. ASSUME NEW i, NEW s \in Nat, NEW e \in Entries
       PROVE  /\ <<s, e>> \in Wrap(S, Minute, Hour, i) <=> Wrapped(S, Minute, Hour, i, s, e)
              /\ <<s, e>> \in Wrap(S, Hour, Day, i) <=> Wrapped(S, Hour, Day, i, s, e)
              /\ <<s, e>> \in Wrap(S, Day, limit, i) <=> Wrapped(S, Day, limit, i, s, e)
  BY <1>4, WrapFacts
<1> QED
  BY <1>6, <1>7, <1>8, <1>9, <1>10, <1>11, Zenon DEF limit

(* A pop moves the slots up. *)
SecondPopped(x) == [x EXCEPT !.sec = PopUp(@)]
MinutePopped(x) == [x EXCEPT !.min = PopUp(@)]

LEMMA PopUpFacts ==
    ASSUME NEW x \in Wheels
    PROVE  /\ PopUp(x.sec) \in [1 .. Minute -> SUBSET Entries]
           /\ PopUp(x.min) \in [Minutes -> SUBSET Wrappers]
           /\ \A j \in 1 .. Minute :
                 PopUp(x.sec)[j] = IF j < Minute THEN x.sec[j + 1] ELSE {}
           /\ \A i \in Minutes :
                 PopUp(x.min)[i] = IF i + 1 \in Minutes THEN x.min[i + 1] ELSE {}
<1>1. /\ DOMAIN x.sec = 1 .. Minute /\ DOMAIN x.min = Minutes
      /\ x.sec \in [1 .. Minute -> SUBSET Entries] /\ x.min \in [Minutes -> SUBSET Wrappers]
  BY WheelsType
<1>2. \A j \in 1 .. Minute : /\ j + 1 \in 1 .. Minute <=> j < Minute
                             /\ PopUp(x.sec)[j] = IF j < Minute THEN x.sec[j + 1] ELSE {}
  BY <1>1, Sizes DEF PopUp
<1>3. \A i \in Minutes : PopUp(x.min)[i] = IF i + 1 \in Minutes THEN x.min[i + 1] ELSE {}
  BY <1>1 DEF PopUp
<1>4. PopUp(x.sec) \in [1 .. Minute -> SUBSET Entries]
  BY <1>1 DEF PopUp
<1>5. PopUp(x.min) \in [Minutes -> SUBSET Wrappers]
  BY <1>1 DEF PopUp
<1> QED
  BY <1>2, <1>3, <1>4, <1>5

LEMMA PopSecondFacts ==
    ASSUME NEW x \in Wheels, NEW y, y = SecondPopped(x)
    PROVE  /\ y \in Wheels /\ y.min = x.min /\ y.hour = x.hour /\ y.day = x.day
           /\ \A j \in 1 .. Minute : y.sec[j] = IF j < Minute THEN x.sec[j + 1] ELSE {}
<1>1. y.sec = PopUp(x.sec) /\ y.min = x.min /\ y.hour = x.hour /\ y.day = x.day
  BY WheelsType DEF SecondPopped, MinutePopped
<1>2. y \in Wheels
  BY PopUpFacts DEF Wheels, Minutes, SecondPopped, MinutePopped
<1> QED
  BY <1>1, <1>2, PopUpFacts

LEMMA PopMinuteFacts ==
    ASSUME NEW x \in Wheels, NEW y, y = MinutePopped(x)
    PROVE  /\ y \in Wheels /\ y.sec = x.sec /\ y.hour = x.hour /\ y.day = x.day
           /\ \A i \in Minutes :
                 y.min[i] = IF i + 1 \in Minutes THEN x.min[i + 1] ELSE {}
<1>1. y.min = PopUp(x.min) /\ y.sec = x.sec /\ y.hour = x.hour /\ y.day = x.day
  BY WheelsType DEF SecondPopped, MinutePopped
<1>2. y \in Wheels
  BY PopUpFacts DEF Wheels, Minutes, SecondPopped, MinutePopped
<1> QED
  BY <1>1, <1>2, PopUpFacts

LEMMA RefsFacts ==
    ASSUME NEW x \in Wheels
    PROVE  /\ Refs(x) \subseteq Entries
           /\ \A e \in Entries : e \in Refs(x) <=>
                 \/ \E j \in 1 .. Minute : e \in x.sec[j]
                 \/ \E i \in Minutes : \E s \in Nat : <<s, e>> \in x.min[i]
                 \/ \E i \in Hours : \E s \in Nat : <<s, e>> \in x.hour[i]
                 \/ \E i \in 1 .. MaxDays : \E s \in Nat : <<s, e>> \in x.day[i]
<1> DEFINE A == UNION {x.sec[i] : i \in DOMAIN x.sec}
           B == UNION {x.min[i] : i \in DOMAIN x.min}
           C == UNION {x.hour[i] : i \in DOMAIN x.hour}
           D == UNION {x.day[i] : i \in DOMAIN x.day}
<1>1. Refs(x) = A \cup {p[2] : p \in B \cup C \cup D}
  BY Zenon DEF Refs
<1>2. /\ A \subseteq Entries /\ \A e : e \in A <=> \E j \in 1 .. Minute : e \in x.sec[j]
  <2>1. DOMAIN x.sec = 1 .. Minute /\ \A j \in DOMAIN x.sec : x.sec[j] \subseteq Entries
    BY WheelsType
  <2> QED
    BY <2>1, Zenon
<1>3. /\ B \subseteq Wrappers /\ \A p : p \in B <=> \E i \in Minutes : p \in x.min[i]
  BY WheelsType
<1>4. /\ C \subseteq Wrappers /\ \A p : p \in C <=> \E i \in Hours : p \in x.hour[i]
  BY WheelsType
<1>5. /\ D \subseteq Wrappers /\ \A p : p \in D <=> \E i \in 1 .. MaxDays : p \in x.day[i]
  BY WheelsType, ZenonT(40)
<1> HIDE DEF A, B, C, D
<1>6. \A P \in SUBSET Wrappers : \A e \in Entries :
          (\E p \in P : p[2] = e) <=> (\E s \in Nat : <<s, e>> \in P)
  <2> SUFFICES ASSUME NEW P \in SUBSET Wrappers, NEW e \in Entries
               PROVE  (\E p \in P : p[2] = e) <=> (\E s \in Nat : <<s, e>> \in P)
    OBVIOUS
  <2>1. ASSUME NEW p \in P, p[2] = e PROVE \E s \in Nat : <<s, e>> \in P
    <3>1. p = <<p[1], p[2]>> /\ p[1] \in Nat
      BY Pairs
    <3> QED
      BY <2>1, <3>1
  <2>2. ASSUME NEW s \in Nat, <<s, e>> \in P PROVE \E p \in P : p[2] = e
    BY <2>2, Pairs
  <2> QED
    BY <2>1, <2>2
<1>7. \A e : e \in Refs(x) <=>
          e \in A \/ (\E p \in B : p[2] = e) \/ (\E p \in C : p[2] = e) \/ (\E p \in D : p[2] = e)
  BY <1>1
<1>8. \A p \in Wrappers : p[2] \in Entries
  BY Pairs
<1>9. Refs(x) \subseteq Entries
  BY <1>2, <1>3, <1>4, <1>5, <1>7, <1>8
<1>10. ASSUME NEW e \in Entries
       PROVE  e \in Refs(x) <=>
                 \/ \E j \in 1 .. Minute : e \in x.sec[j]
                 \/ \E i \in Minutes : \E s \in Nat : <<s, e>> \in x.min[i]
                 \/ \E i \in Hours : \E s \in Nat : <<s, e>> \in x.hour[i]
                 \/ \E i \in 1 .. MaxDays : \E s \in Nat : <<s, e>> \in x.day[i]
  <2>1. (\E p \in B : p[2] = e) <=> \E i \in Minutes : \E s \in Nat : <<s, e>> \in x.min[i]
    <3>1. (\E p \in B : p[2] = e) <=> (\E s \in Nat : <<s, e>> \in B)
      BY <1>3, <1>6
    <3> QED
      BY <1>3, <3>1, Zenon
  <2>2. (\E p \in C : p[2] = e) <=> \E i \in Hours : \E s \in Nat : <<s, e>> \in x.hour[i]
    <3>1. (\E p \in C : p[2] = e) <=> (\E s \in Nat : <<s, e>> \in C)
      BY <1>4, <1>6
    <3> QED
      BY <1>4, <3>1, Zenon
  <2>3. (\E p \in D : p[2] = e) <=> \E i \in 1 .. MaxDays : \E s \in Nat : <<s, e>> \in x.day[i]
    <3>1. (\E p \in D : p[2] = e) <=> (\E s \in Nat : <<s, e>> \in D)
      BY <1>5, <1>6
    <3> QED
      BY <1>5, <3>1, Zenon
  <2> QED
    BY <1>2, <1>7, <2>1, <2>2, <2>3, Zenon
<1> QED
  BY <1>9, <1>10

----------------------------------------------------------------------------
(* The second wheel is popped: every reference is a tick nearer, and the   *)
(* timers that lose their last one fire.                                   *)

LEMMA PopSlots ==
    ASSUME NEW x \in Wheels, NEW h \in 0 .. Minute - 1, Slots(x, h),
           NEW y, y = SecondPopped(x)
    PROVE  y \in Wheels /\ Slots(y, h + 1)
<1>1. /\ y \in Wheels /\ y.min = x.min /\ y.hour = x.hour /\ y.day = x.day
      /\ \A j \in 1 .. Minute : y.sec[j] = IF j < Minute THEN x.sec[j + 1] ELSE {}
  BY PopSecondFacts
<1>2. ASSUME NEW j \in 1 .. Minute, NEW e \in Entries, e \in y.sec[j]
      PROVE  /\ CanInsert(delay[e]) /\ delay[e] < Hour
             /\ Minute <= delay[e] => j + (h + 1) <= delay[e]
  <2>1. j + 1 \in 1 .. Minute /\ e \in x.sec[j + 1]
    BY <1>1, <1>2, Sizes
  <2>2. /\ CanInsert(delay[e]) /\ delay[e] < Hour
        /\ Minute <= delay[e] => (j + 1) + h <= delay[e]
    BY <2>1 DEF Slots, InSeconds
  <2> QED
    BY <2>2
<1>3. InSeconds(y, h + 1)
  BY <1>2 DEF InSeconds
<1> QED
  BY <1>1, <1>3 DEF Slots, InMinutes, InCoarse

LEMMA PopLasts ==
    ASSUME NEW x \in Wheels, NEW h \in 0 .. Minute - 1, Slots(x, h),
           NEW e \in Entries, delay[e] \in Nat, delay[e] < Hour,
           NEW r \in Nat \ {0}, Lasts(x, e, h, r),
           NEW y, y = SecondPopped(x)
    PROVE  /\ e \in Refs(y) => r - 1 \in Nat \ {0} /\ Lasts(y, e, h + 1, r - 1)
           /\ e \notin Refs(y) => r = 1 /\ e \in x.sec[1]
<1>1. /\ y \in Wheels /\ y.min = x.min /\ y.hour = x.hour /\ y.day = x.day
      /\ \A j \in 1 .. Minute : y.sec[j] = IF j < Minute THEN x.sec[j + 1] ELSE {}
  BY PopSecondFacts
<1>2. \A j \in 1 .. Minute : e \in x.sec[j] => j <= r
  BY DEF Lasts, InTime
<1>3. \A i \in Minutes : \A s \in Nat : <<s, e>> \in x.min[i] =>
          i \in Nat /\ Turn(i) \in Nat /\ Turn(i) >= Minute /\ s >= 1 /\ Turn(i) + s - h <= r
  BY Turns DEF Lasts, InTime, Slots, InMinutes
<1>4. LastSecond(x, e, r) \/ LastMinute(x, e, h, r)
  BY DEF Lasts
<1>5. ASSUME e \notin Refs(y) PROVE r = 1 /\ e \in x.sec[1]
  <2>1. \A i \in Minutes : \A s \in Nat : <<s, e>> \notin x.min[i]
    BY <1>1, <1>5, RefsFacts
  <2>2. LastSecond(x, e, r)
    BY <1>4, <2>1 DEF LastMinute
  <2>3. r \in 1 .. Minute /\ e \in x.sec[r]
    BY <2>2 DEF LastSecond
  <2>4. CASE r # 1
    <3>1. r - 1 \in 1 .. Minute /\ r - 1 < Minute /\ (r - 1) + 1 = r
      BY <2>3, <2>4, Sizes
    <3>2. e \in y.sec[r - 1]
      BY <1>1, <2>3, <3>1
    <3> QED
      BY <1>1, <1>5, <3>1, <3>2, RefsFacts
  <2> QED
    BY <2>3, <2>4
<1>6. ASSUME e \in Refs(y) PROVE r - 1 \in Nat \ {0} /\ Lasts(y, e, h + 1, r - 1)
  <2>1. \A j \in 1 .. Minute : e \in y.sec[j] =>
            j + 1 \in 1 .. Minute /\ e \in x.sec[j + 1] /\ j + 1 <= r
    BY <1>1, <1>2, Sizes
  <2>2. \/ \E j \in 1 .. Minute : e \in y.sec[j]
        \/ \E i \in Minutes : \E s \in Nat : <<s, e>> \in x.min[i]
    <3>1. /\ \A i \in Hours : \A s \in Nat : <<s, e>> \notin x.hour[i]
          /\ \A i \in 1 .. MaxDays : \A s \in Nat : <<s, e>> \notin x.day[i]
      BY Sizes DEF Slots, InCoarse
    <3> QED
      BY <1>1, <1>6, <3>1, RefsFacts
  <2>3. r - 1 \in Nat \ {0}
    <3>1. CASE \E j \in 1 .. Minute : e \in y.sec[j]
      BY <2>1, <3>1
    <3>2. CASE \E i \in Minutes : \E s \in Nat : <<s, e>> \in x.min[i]
      BY <1>3, <3>2, Sizes
    <3> QED
      BY <2>2, <3>1, <3>2
  <2>4. InTime(y, e, h + 1, r - 1)
    <3>1. \A j \in 1 .. Minute : e \in y.sec[j] => j <= r - 1
      BY <2>1
    <3>2. \A i \in Minutes : \A s \in Nat : <<s, e>> \in y.min[i] => Turn(i) + s - (h + 1) <= r - 1
      BY <1>1, <1>3
    <3> QED
      BY <3>1, <3>2 DEF InTime
  <2>5. CASE LastSecond(x, e, r)
    <3>1. r - 1 \in 1 .. Minute /\ r - 1 < Minute /\ (r - 1) + 1 = r /\ e \in x.sec[r]
      BY <2>3, <2>5, Sizes DEF LastSecond
    <3>2. LastSecond(y, e, r - 1)
      BY <1>1, <3>1 DEF LastSecond
    <3> QED
      BY <2>3, <2>4, <3>2 DEF Lasts
  <2>6. CASE LastMinute(x, e, h, r)
    <3>1. PICK i \in Minutes, s \in Nat : <<s, e>> \in x.min[i] /\ Turn(i) + s - h = r
      BY <2>6 DEF LastMinute
    <3>2. Turn(i) + s - (h + 1) = r - 1
      BY <1>3, <3>1
    <3>3. LastMinute(y, e, h + 1, r - 1)
      BY <1>1, <3>1, <3>2 DEF LastMinute
    <3> QED
      BY <2>3, <2>4, <3>3 DEF Lasts
  <2> QED
    BY <1>4, <2>5, <2>6
<1> QED
  BY <1>5, <1>6

----------------------------------------------------------------------------
(* The minute wheel is popped: its wrappers are a turn nearer, and those   *)
(* that are dropped put their timer into the slot of the seconds left.     *)

Turned(x) == InsertEntry(MinutePopped(x), x.min[1])

LEMMA TurnedFacts ==
    ASSUME NEW x \in Wheels, Slots(x, Minute), NEW y, y = Turned(x)
    PROVE  /\ y \in Wheels
           /\ \A j \in 1 .. Minute : \A e \in Entries :
                 e \in y.sec[j] <=> e \in x.sec[j] \/ <<j, e>> \in x.min[1]
           /\ \A i \in Minutes : \A s \in Nat : \A e \in Entries :
                 <<s, e>> \in y.min[i] <=> i + 1 \in Minutes /\ <<s, e>> \in x.min[i + 1]
           /\ \A i \in Hours : \A s \in Nat : \A e \in Entries :
                 <<s, e>> \in y.hour[i] => <<s, e>> \in x.hour[i]
           /\ \A i \in 1 .. MaxDays : \A s \in Nat : \A e \in Entries :
                 <<s, e>> \in y.day[i] => <<s, e>> \in x.day[i]
<1> DEFINE z == MinutePopped(x)  S == x.min[1]
<1>1. /\ z \in Wheels /\ z.sec = x.sec /\ z.hour = x.hour /\ z.day = x.day
      /\ \A i \in Minutes : z.min[i] = IF i + 1 \in Minutes THEN x.min[i + 1] ELSE {}
  BY PopMinuteFacts
<1>2. S \in SUBSET Wrappers
  BY Turns, WheelsType
<1>3. \A d \in Nat : \A e \in Entries : <<d, e>> \in S => d \in 1 .. Minute - 1
  BY Turns DEF Slots, InMinutes
<1>4. y = InsertEntry(z, S)
  BY DEF Turned
<1> HIDE DEF z, S
<1>5. ASSUME NEW e \in Entries, NEW unit \in Nat, unit >= Minute, NEW limit, NEW i, NEW s
      PROVE  ~Wrapped(S, unit, limit, i, s, e)
  <2>1. \A d \in Nat : unit <= d => d \notin 1 .. Minute - 1
    BY <1>5, Sizes
  <2>2. \A d \in Nat : <<d, e>> \in S => ~(unit <= d)
    BY <1>3, <2>1
  <2> QED
    BY <2>2, Zenon DEF Wrapped
<1>6. y \in Wheels
  BY <1>1, <1>2, <1>4, InsertFacts
<1>7. \A j \in 1 .. Minute : \A e \in Entries : e \in y.sec[j] <=> e \in x.sec[j] \/ <<j, e>> \in S
  <2>1. \A j \in 1 .. Minute : \A e \in Entries :
            e \in y.sec[j] <=> e \in z.sec[j] \/ (j < Minute /\ <<j, e>> \in S)
    BY <1>1, <1>2, <1>4, InsertFacts
  <2>2. \A j \in 1 .. Minute : \A e \in Entries : <<j, e>> \in S => j < Minute
    BY <1>3, Sizes
  <2> QED
    BY <1>1, <2>1, <2>2
<1>8. \A i \in Minutes : \A s \in Nat : \A e \in Entries :
          <<s, e>> \in y.min[i] <=> <<s, e>> \in z.min[i] \/ Wrapped(S, Minute, Hour, i, s, e)
  BY <1>1, <1>2, <1>4, InsertFacts
<1>9. \A i \in Hours : \A s \in Nat : \A e \in Entries :
          <<s, e>> \in y.hour[i] <=> <<s, e>> \in z.hour[i] \/ Wrapped(S, Hour, Day, i, s, e)
  BY <1>1, <1>2, <1>4, InsertFacts
<1>10. \A i \in 1 .. MaxDays : \A s \in Nat : \A e \in Entries :
          <<s, e>> \in y.day[i] <=>
              <<s, e>> \in z.day[i] \/ Wrapped(S, Day, (MaxDays + 1) * Day, i, s, e)
  BY <1>1, <1>2, <1>4, InsertFacts
<1>11. \A i \in Minutes : \A s \in Nat : \A e \in Entries :
          <<s, e>> \in y.min[i] <=> i + 1 \in Minutes /\ <<s, e>> \in x.min[i + 1]
  <2>1. \A i, s : \A e \in Entries : ~Wrapped(S, Minute, Hour, i, s, e)
    BY <1>5, Sizes
  <2> QED
    BY <1>1, <1>8, <2>1
<1>12. \A i \in Hours : \A s \in Nat : \A e \in Entries :
          <<s, e>> \in y.hour[i] => <<s, e>> \in x.hour[i]
  BY <1>1, <1>5, <1>9, Sizes
<1>13. \A i \in 1 .. MaxDays : \A s \in Nat : \A e \in Entries :
          <<s, e>> \in y.day[i] => <<s, e>> \in x.day[i]
  BY <1>1, <1>5, <1>10, Sizes
<1> QED
  BY <1>6, <1>7, <1>11, <1>12, <1>13 DEF S

LEMMA TurnedSlots ==
    ASSUME NEW x \in Wheels, Slots(x, Minute), \A e \in Entries : delay[e] \in Nat,
           NEW y, y = Turned(x)
    PROVE  y \in Wheels /\ Slots(y, 0)
<1>1. InSeconds(y, 0)
  <2> SUFFICES ASSUME NEW j \in 1 .. Minute, NEW e \in Entries, e \in y.sec[j]
               PROVE  /\ CanInsert(delay[e]) /\ delay[e] < Hour
                      /\ Minute <= delay[e] => j + 0 <= delay[e]
    BY DEF InSeconds
  <2>1. e \in x.sec[j] \/ <<j, e>> \in x.min[1]
    BY TurnedFacts
  <2>2. CASE e \in x.sec[j]
    <3>1. /\ CanInsert(delay[e]) /\ delay[e] < Hour
          /\ Minute <= delay[e] => j + Minute <= delay[e]
      BY <2>2 DEF Slots, InSeconds
    <3> QED
      BY <3>1, Sizes
  <2>3. CASE <<j, e>> \in x.min[1]
    <3>1. /\ CanInsert(delay[e]) /\ delay[e] < Hour /\ Turn(1) + j <= delay[e]
      BY <2>3, Turns DEF Slots, InMinutes
    <3> QED
      BY <3>1, Turns, Sizes
  <2> QED
    BY <2>1, <2>2, <2>3
<1>2. InMinutes(y)
  <2> SUFFICES ASSUME NEW i \in Minutes, NEW s \in Nat, NEW e \in Entries, <<s, e>> \in y.min[i]
               PROVE  /\ CanInsert(delay[e]) /\ Minute <= delay[e] /\ delay[e] < Hour
                      /\ s \in 1 .. Minute - 1 /\ Turn(i) + s <= delay[e]
    BY DEF InMinutes
  <2>1. i + 1 \in Minutes /\ <<s, e>> \in x.min[i + 1]
    BY TurnedFacts
  <2>2. /\ CanInsert(delay[e]) /\ Minute <= delay[e] /\ delay[e] < Hour
        /\ s \in 1 .. Minute - 1 /\ Turn(i + 1) + s <= delay[e]
    BY <2>1 DEF Slots, InMinutes
  <2>3. Turn(i + 1) = Turn(i) + Minute /\ Turn(i) \in Nat
    BY Turns
  <2> QED
    BY <2>2, <2>3, Sizes
<1>3. InCoarse(y)
  BY TurnedFacts DEF Slots, InCoarse
<1> QED
  BY <1>1, <1>2, <1>3, TurnedFacts DEF Slots

LEMMA TurnedLasts ==
    ASSUME NEW x \in Wheels, Slots(x, Minute), NEW e \in Entries, NEW r \in Nat \ {0},
           NEW y, y = Turned(x), Lasts(x, e, Minute, r)
    PROVE  Lasts(y, e, 0, r)
<1>1. /\ \A j \in 1 .. Minute : e \in x.sec[j] => j <= r
      /\ \A i \in Minutes : \A s \in Nat : <<s, e>> \in x.min[i] => Turn(i) + s - Minute <= r
  BY DEF Lasts, InTime
<1>2. \A s \in Nat : <<s, e>> \in x.min[1] => s \in 1 .. Minute - 1
  BY Turns DEF Slots, InMinutes
<1>3. \A j \in 1 .. Minute : e \in y.sec[j] => j <= r
  <2> SUFFICES ASSUME NEW j \in 1 .. Minute, e \in y.sec[j] PROVE j <= r
    OBVIOUS
  <2>1. e \in x.sec[j] \/ <<j, e>> \in x.min[1]
    BY TurnedFacts
  <2>2. CASE <<j, e>> \in x.min[1]
    BY <1>1, <2>2, Turns, Sizes
  <2> QED
    BY <1>1, <2>1, <2>2
<1>4. \A i \in Minutes : \A s \in Nat : <<s, e>> \in y.min[i] => Turn(i) + s - 0 <= r
  <2> SUFFICES ASSUME NEW i \in Minutes, NEW s \in Nat, <<s, e>> \in y.min[i]
               PROVE  Turn(i) + s - 0 <= r
    OBVIOUS
  <2>1. i + 1 \in Minutes /\ <<s, e>> \in x.min[i + 1]
    BY TurnedFacts
  <2>2. Turn(i + 1) + s - Minute <= r
    BY <1>1, <2>1
  <2>3. Turn(i + 1) = Turn(i) + Minute /\ Turn(i) \in Nat
    BY Turns
  <2> QED
    BY <2>2, <2>3, Sizes
<1>5. CASE LastSecond(x, e, r)
  BY <1>3, <1>4, <1>5, TurnedFacts DEF Lasts, InTime, LastSecond
<1>6. CASE LastMinute(x, e, Minute, r)
  <2>1. PICK i \in Minutes, s \in Nat : <<s, e>> \in x.min[i] /\ Turn(i) + s - Minute = r
    BY <1>6 DEF LastMinute
  <2>2. CASE i = 1
    <3>1. s = r /\ s \in 1 .. Minute - 1 /\ <<s, e>> \in x.min[1]
      BY <1>2, <2>1, <2>2, Turns, Sizes
    <3>2. r \in 1 .. Minute /\ e \in y.sec[r]
      BY <3>1, TurnedFacts, Sizes
    <3> QED
      BY <1>3, <1>4, <3>2 DEF Lasts, InTime, LastSecond
  <2>3. CASE i # 1
    <3> DEFINE k == i - 1
    <3>1. k \in Minutes /\ Turn(i) = Turn(k) + Minute /\ k + 1 = i /\ Turn(k) \in Nat
      BY <2>3, Turns
    <3> HIDE DEF k
    <3>2. <<s, e>> \in y.min[k] /\ Turn(k) + s - 0 = r
      BY <2>1, <3>1, TurnedFacts, Sizes
    <3>3. LastMinute(y, e, 0, r)
      BY <3>1, <3>2 DEF LastMinute
    <3> QED
      BY <1>3, <1>4, <3>3 DEF Lasts, InTime
  <2> QED
    BY <2>2, <2>3
<1> QED
  BY <1>5, <1>6 DEF Lasts

(* Only a timer that the wheels hold is in them after a turn. *)
LEMMA TurnedRefs ==
    ASSUME NEW x \in Wheels, Slots(x, Minute), NEW e \in Entries, NEW y, y = Turned(x),
           e \in Refs(y)
    PROVE  e \in Refs(x)
<1>1. y \in Wheels
  BY TurnedFacts
<1>2. CASE \E j \in 1 .. Minute : e \in y.sec[j]
  <2>1. PICK j \in 1 .. Minute : e \in y.sec[j]
    BY <1>2
  <2>2. e \in x.sec[j] \/ <<j, e>> \in x.min[1]
    BY <2>1, TurnedFacts
  <2>3. j \in Nat /\ 1 \in Minutes
    BY Turns
  <2> QED
    BY <2>2, <2>3, RefsFacts
<1>3. CASE \E i \in Minutes : \E s \in Nat : <<s, e>> \in y.min[i]
  <2>1. PICK i \in Minutes, s \in Nat : <<s, e>> \in y.min[i]
    BY <1>3
  <2>2. i + 1 \in Minutes /\ <<s, e>> \in x.min[i + 1]
    BY <2>1, TurnedFacts
  <2> QED
    BY <2>2, RefsFacts
<1>4. CASE \E i \in Hours : \E s \in Nat : <<s, e>> \in y.hour[i]
  BY <1>4, TurnedFacts, RefsFacts
<1>5. CASE \E i \in 1 .. MaxDays : \E s \in Nat : <<s, e>> \in y.day[i]
  BY <1>5, TurnedFacts, RefsFacts
<1> QED
  BY <1>1, <1>2, <1>3, <1>4, <1>5, RefsFacts

----------------------------------------------------------------------------
(* Timers are inserted, S of them, with the delays they are used with.     *)

LEMMA InsertSlots ==
    ASSUME NEW x \in Wheels, NEW h \in 0 .. Minute, Slots(x, h), NEW S \in SUBSET Wrappers,
           \A d \in Nat : \A e \in Entries : <<d, e>> \in S => d = delay[e] /\ CanInsert(d),
           NEW y, y = InsertEntry(x, S)
    PROVE  y \in Wheels /\ Slots(y, h)
<1>1. InSeconds(y, h)
  <2> SUFFICES ASSUME NEW j \in 1 .. Minute, NEW e \in Entries, e \in y.sec[j]
               PROVE  /\ CanInsert(delay[e]) /\ delay[e] < Hour
                      /\ Minute <= delay[e] => j + h <= delay[e]
    BY DEF InSeconds
  <2>1. e \in x.sec[j] \/ (j < Minute /\ <<j, e>> \in S)
    BY InsertFacts
  <2>2. CASE e \in x.sec[j]
    BY <2>2 DEF Slots, InSeconds
  <2>3. CASE j < Minute /\ <<j, e>> \in S
    <3>1. j \in Nat /\ j = delay[e] /\ CanInsert(delay[e])
      BY <2>3
    <3>2. delay[e] < Hour /\ ~(Minute <= delay[e])
      BY <2>3, <3>1, Sizes
    <3> QED
      BY <3>1, <3>2
  <2> QED
    BY <2>1, <2>2, <2>3
<1>2. InMinutes(y)
  <2> SUFFICES ASSUME NEW i \in Minutes, NEW s \in Nat, NEW e \in Entries, <<s, e>> \in y.min[i]
               PROVE  /\ CanInsert(delay[e]) /\ Minute <= delay[e] /\ delay[e] < Hour
                      /\ s \in 1 .. Minute - 1 /\ Turn(i) + s <= delay[e]
    BY DEF InMinutes
  <2>1. <<s, e>> \in x.min[i] \/ Wrapped(S, Minute, Hour, i, s, e)
    BY InsertFacts
  <2>2. CASE <<s, e>> \in x.min[i]
    BY <2>2 DEF Slots, InMinutes
  <2>3. CASE Wrapped(S, Minute, Hour, i, s, e)
    <3>1. PICK d \in Nat : <<d, e>> \in S /\ Minute <= d /\ d < Hour /\ d \div Minute = i
                           /\ s = d % Minute
      BY <2>3 DEF Wrapped
    <3>2. d = delay[e] /\ CanInsert(delay[e]) /\ s # 0
      BY <3>1 DEF CanInsert
    <3>3. s \in 0 .. Minute - 1 /\ d = Turn(i) + s
      BY <3>1, MinuteSlot
    <3>4. Turn(i) \in Nat /\ Minute \in Nat
      BY Turns, Sizes
    <3>5. s \in 1 .. Minute - 1 /\ Turn(i) + s <= d
      BY <3>2, <3>3, <3>4
    <3> QED
      BY <3>1, <3>2, <3>5
  <2> QED
    BY <2>1, <2>2, <2>3
<1>3. InCoarse(y)
  <2>1. ASSUME NEW i \in Hours, NEW s \in Nat, NEW e \in Entries, <<s, e>> \in y.hour[i]
        PROVE  Hour <= delay[e]
    <3>1. <<s, e>> \in x.hour[i] \/ Wrapped(S, Hour, Day, i, s, e)
      BY <2>1, InsertFacts
    <3>2. CASE Wrapped(S, Hour, Day, i, s, e)
      BY <3>2 DEF Wrapped
    <3> QED
      BY <3>1, <3>2 DEF Slots, InCoarse
  <2>2. ASSUME NEW i \in 1 .. MaxDays, NEW s \in Nat, NEW e \in Entries, <<s, e>> \in y.day[i]
        PROVE  Hour <= delay[e]
    <3> DEFINE limit == (MaxDays + 1) * Day
    <3>1. <<s, e>> \in x.day[i] \/ Wrapped(S, Day, limit, i, s, e)
      BY <2>2, InsertFacts
    <3> HIDE DEF limit
    <3>2. CASE Wrapped(S, Day, limit, i, s, e)
      <4>1. PICK d \in Nat : <<d, e>> \in S /\ Day <= d
        BY <3>2 DEF Wrapped
      <4>2. d = delay[e]
        BY <4>1
      <4> QED
        BY <4>1, <4>2, Sizes
    <3> QED
      BY <3>1, <3>2 DEF Slots, InCoarse
  <2> QED
    BY <2>1, <2>2 DEF InCoarse
<1> QED
  BY <1>1, <1>2, <1>3, InsertFacts DEF Slots

(* Of the references to e, the one inserted now is dropped last: delay[e]  *)
(* ticks from now, or as many less as the minute wheel has been popped     *)
(* before.                                                                 *)
LEMMA InsertedLasts ==
    ASSUME NEW x \in Wheels, NEW h \in 0 .. Minute, Slots(x, h), NEW S \in SUBSET Wrappers,
           NEW e \in Entries, delay[e] \in Nat, delay[e] < Hour, CanInsert(delay[e]),
           \A d \in Nat : <<d, e>> \in S <=> d = delay[e],
           delay[e] < Minute => \A j \in 1 .. Minute : e \in x.sec[j] => j <= delay[e],
           NEW y, y = InsertEntry(x, S)
    PROVE  \E r \in Nat \ {0} : /\ Lasts(y, e, h, r)
                                /\ r = IF delay[e] < Minute THEN delay[e] ELSE delay[e] - h
<1> DEFINE d == delay[e]
<1>1. /\ \A j \in 1 .. Minute : e \in y.sec[j] <=> e \in x.sec[j] \/ (j < Minute /\ <<j, e>> \in S)
      /\ \A i \in Minutes : \A s \in Nat : <<s, e>> \in y.min[i] <=>
            <<s, e>> \in x.min[i] \/ Wrapped(S, Minute, Hour, i, s, e)
  BY InsertFacts
<1>2. d \in Nat /\ d > 0 /\ d % Minute # 0 /\ Minute \in Nat /\ Minute > 1
  BY Sizes DEF CanInsert
<1>3. CASE d < Minute
  <2>1. d \in 1 .. Minute /\ e \in y.sec[d]
    <3>1. d \in 1 .. Minute /\ <<d, e>> \in S
      BY <1>2, <1>3
    <3> QED
      BY <1>1, <1>3, <3>1
  <2>2. \A j \in 1 .. Minute : e \in y.sec[j] => j <= d
    <3> SUFFICES ASSUME NEW j \in 1 .. Minute, e \in y.sec[j] PROVE j <= d
      OBVIOUS
    <3>1. CASE e \in x.sec[j]
      BY <1>3, <3>1
    <3>2. CASE <<j, e>> \in S
      <4>1. j \in Nat
        OBVIOUS
      <4>2. j = d
        BY <3>2, <4>1
      <4> QED
        BY <1>2, <4>2
    <3> QED
      BY <1>1, <3>1, <3>2
  <2>3. \A i \in Minutes : \A s \in Nat : <<s, e>> \notin y.min[i]
    <3> SUFFICES ASSUME NEW i \in Minutes, NEW s \in Nat, <<s, e>> \in y.min[i] PROVE FALSE
      OBVIOUS
    <3>1. CASE <<s, e>> \in x.min[i]
      BY <1>2, <1>3, <3>1 DEF Slots, InMinutes
    <3>2. CASE Wrapped(S, Minute, Hour, i, s, e)
      <4>1. PICK k \in Nat : <<k, e>> \in S /\ Minute <= k
        BY <3>2 DEF Wrapped
      <4> QED
        BY <1>2, <1>3, <4>1
    <3> QED
      BY <1>1, <3>1, <3>2
  <2>4. Lasts(y, e, h, d)
    BY <2>1, <2>2, <2>3 DEF Lasts, InTime, LastSecond
  <2> QED
    BY <1>2, <1>3, <2>4
<1>4. CASE ~(d < Minute)
  <2> DEFINE q == d \div Minute  s0 == d % Minute
  <2>1. Minute <= d
    BY <1>2, <1>4
  <2>2. q \in Minutes /\ s0 \in 0 .. Minute - 1 /\ d = Turn(q) + s0 /\ s0 # 0
    BY <1>2, <2>1, MinuteSlot
  <2>3. Wrapped(S, Minute, Hour, q, s0, e)
    BY <2>1 DEF Wrapped
  <2>4. s0 \in Nat /\ Turn(q) \in Nat /\ Turn(q) >= Minute
    BY <2>2, Turns
  <2> HIDE DEF q, s0
  <2>5. d - h \in Nat \ {0} /\ Turn(q) + s0 - h = d - h
    BY <1>2, <2>2, <2>4
  <2>6. LastMinute(y, e, h, d - h)
    BY <1>1, <2>2, <2>3, <2>4, <2>5 DEF LastMinute
  <2>7. \A j \in 1 .. Minute : e \in y.sec[j] => j <= d - h
    <3> SUFFICES ASSUME NEW j \in 1 .. Minute, e \in y.sec[j] PROVE j <= d - h
      OBVIOUS
    <3>1. CASE e \in x.sec[j]
      <4>1. j + h <= d
        BY <2>1, <3>1 DEF Slots, InSeconds
      <4> QED
        BY <1>2, <4>1
    <3>2. CASE j < Minute /\ <<j, e>> \in S
      BY <1>2, <1>4, <3>2
    <3> QED
      BY <1>1, <3>1, <3>2
  <2>8. \A i \in Minutes : \A s \in Nat : <<s, e>> \in y.min[i] => Turn(i) + s - h <= d - h
    <3> SUFFICES ASSUME NEW i \in Minutes, NEW s \in Nat, <<s, e>> \in y.min[i]
                 PROVE  Turn(i) + s - h <= d - h
      OBVIOUS
    <3>1. Turn(i) \in Nat
      BY Turns
    <3>2. CASE <<s, e>> \in x.min[i]
      <4>1. Turn(i) + s <= d
        BY <3>2 DEF Slots, InMinutes
      <4> QED
        BY <1>2, <3>1, <4>1
    <3>3. CASE Wrapped(S, Minute, Hour, i, s, e)
      <4>1. PICK k \in Nat : <<k, e>> \in S /\ k \div Minute = i /\ s = k % Minute
        BY <3>3 DEF Wrapped
      <4>2. k = d
        BY <1>2, <4>1
      <4>3. i = q /\ s = s0
        BY <4>1, <4>2 DEF q, s0
      <4> QED
        BY <1>2, <2>2, <2>4, <4>3
    <3> QED
      BY <1>1, <3>2, <3>3
  <2>9. Lasts(y, e, h, d - h)
    BY <2>6, <2>7, <2>8 DEF Lasts, InTime
  <2> QED
    BY <1>4, <2>5, <2>9
<1> QED
  BY <1>3, <1>4

(* The other timers stay where they are. *)
LEMMA OthersLast ==
    ASSUME NEW x \in Wheels, NEW S \in SUBSET Wrappers, NEW e \in Entries,
           \A d \in Nat : <<d, e>> \notin S,
           NEW y, y = InsertEntry(x, S)
    PROVE  /\ e \in Refs(y) <=> e \in Refs(x)
           /\ \A h, r : Lasts(x, e, h, r) => Lasts(y, e, h, r)
<1>1. \A unit, limit, i, s : ~Wrapped(S, unit, limit, i, s, e)
  BY DEF Wrapped
<1>2. y \in Wheels
  BY InsertFacts
<1>3. \A j \in 1 .. Minute : e \in y.sec[j] <=> e \in x.sec[j]
  <2>1. \A j \in 1 .. Minute : e \in y.sec[j] <=> e \in x.sec[j] \/ (j < Minute /\ <<j, e>> \in S)
    BY InsertFacts
  <2>2. \A j \in 1 .. Minute : <<j, e>> \notin S
    OBVIOUS
  <2> QED
    BY <2>1, <2>2
<1>4. \A i \in Minutes : \A s \in Nat : <<s, e>> \in y.min[i] <=> <<s, e>> \in x.min[i]
  BY <1>1, InsertFacts
<1>5. \A i \in Hours : \A s \in Nat : <<s, e>> \in y.hour[i] <=> <<s, e>> \in x.hour[i]
  BY <1>1, InsertFacts
<1>6. \A i \in 1 .. MaxDays : \A s \in Nat : <<s, e>> \in y.day[i] <=> <<s, e>> \in x.day[i]
  BY <1>1, InsertFacts
<1>7. e \in Refs(y) <=> e \in Refs(x)
  BY <1>2, <1>3, <1>4, <1>5, <1>6, RefsFacts
<1>8. ASSUME NEW h, NEW r, Lasts(x, e, h, r) PROVE Lasts(y, e, h, r)
  BY <1>3, <1>4, <1>8 DEF Lasts, InTime, LastSecond, LastMinute
<1> QED
  BY <1>7, <1>8

----------------------------------------------------------------------------
(* The steps. *)

LEMMA TypeFacts ==
    ASSUME IInv
    PROVE  /\ w \in Wheels /\ tick \in 0 .. Day - 1 /\ Phase \in 0 .. Minute - 1
           /\ clk \in 0 .. MaxClk
           /\ \A e \in Entries : /\ delay[e] \in Nat /\ ticks[e] \in Nat /\ age[e] \in Nat
                                 /\ firedAt[e] \in Nat \cup {None}
           /\ \A e \in Entries : e \in Refs(w) <=> Armed(e)
<1>1. tick \in Nat /\ Minute \in Nat \ {0}
  BY Sizes DEF IInv, TypeOK
<1>2. Phase \in 0 .. Minute - 1
  BY <1>1, Division DEF Phase
<1> QED
  BY <1>2, EntryAssumption DEF IInv, TypeOK, Armed

LEMMA InitIInv == Init => IInv
<1> SUFFICES ASSUME Init PROVE IInv
  OBVIOUS
<1>1. Empty \in Wheels
  BY DEF Empty, Wheels
<1>2. w = Empty /\ tick = 0 /\ clk = 0
  BY DEF Init
<1>3. TypeOK
  <2>1. 0 \in 0 .. Day - 1 /\ 0 \in 0 .. MaxClk
    BY Sizes
  <2> QED
    BY <1>1, <1>2, <2>1 DEF Init, TypeOK
<1>4. /\ \A j \in 1 .. Minute : w.sec[j] = {}
      /\ \A i \in Minutes : w.min[i] = {}
      /\ \A i \in Hours : w.hour[i] = {}
      /\ \A i \in 1 .. MaxDays : w.day[i] = {}
  BY <1>2 DEF Empty, Minutes, Hours
<1>5. Slots(w, Phase)
  BY <1>4 DEF Slots, InSeconds, InMinutes, InCoarse
<1>6. \A e \in Entries : ~Armed(e)
  BY <1>1, <1>2, <1>4, RefsFacts DEF Armed
<1>7. BoundsInv
  <2> SUFFICES ASSUME NEW e \in Entries PROVE ticks[e] <= MaxTicks(e) /\ age[e] <= MaxAge(e)
    BY DEF BoundsInv
  <2>1. delay[e] \in Nat /\ ticks[e] = 0 /\ age[e] = 0
    BY EntryAssumption DEF Init
  <2>2. delay[e] * Second \in Nat
    BY <2>1, Sizes
  <2> QED
    BY <2>1, <2>2, Sizes DEF MaxTicks, MaxAge
<1> QED
  BY <1>3, <1>5, <1>6, <1>7 DEF Init, IInv, LastInv, FiredInv, ClockBound

(* What Slots says does not change with the time. *)
LEMMA SameSlots ==
    ASSUME delay' = delay, NEW x, NEW h, Slots(x, h), w' = x, Phase' = h
    PROVE  Slots(w, Phase)'
  BY DEF Slots, InSeconds, InMinutes, InCoarse

LEMMA SameLasts ==
    ASSUME NEW x, NEW e, NEW h, NEW r, Lasts(x, e, h, r), w' = x, Phase' = h
    PROVE  Lasts(w, e, Phase, r)'
  BY DEF Lasts, InTime, LastSecond, LastMinute

LEMMA InsertKeeps ==
    ASSUME IInv, NEW e \in Entries, Insert(e)
    PROVE  TypeOK' /\ Slots(w, Phase)' /\ LastInv' /\ FiredInv'
<1> DEFINE d == delay[e]  S == {<<d, e>>}
<1>1. /\ CanInsert(d) /\ w' = InsertEntry(w, S) /\ ticks' = [ticks EXCEPT ![e] = 0]
      /\ age' = [age EXCEPT ![e] = 0]
      /\ tick' = tick /\ started' = started /\ clk' = clk /\ delay' = delay /\ firedAt' = firedAt
  BY DEF Insert
<1>2. /\ d \in Nat /\ S \in SUBSET Wrappers
      /\ \A k, f : <<k, f>> \in S <=> k = d /\ f = e
  <2>1. d \in Nat
    BY TypeFacts
  <2> QED
    BY <2>1, Pairs
<1> HIDE DEF S, d
<1>3. PICK y : y = w'
  OBVIOUS
<1>4. y = InsertEntry(w, S) /\ w \in Wheels /\ Phase \in 0 .. Minute - 1 /\ Phase' = Phase
      /\ Phase \in 0 .. Minute
  BY <1>1, <1>3, TypeFacts, Sizes DEF Phase
<1>5. y \in Wheels /\ Slots(y, Phase)
  <2>1. \A k \in Nat : \A f \in Entries : <<k, f>> \in S => k = delay[f] /\ CanInsert(k)
    BY <1>1, <1>2 DEF d
  <2>2. Slots(w, Phase)
    BY DEF IInv
  <2> QED
    BY <1>2, <1>4, <2>1, <2>2, InsertSlots
<1>6. TypeOK'
  BY <1>1, <1>3, <1>5 DEF IInv, TypeOK
<1>7. Slots(w, Phase)'
  BY <1>1, <1>3, <1>4, <1>5, SameSlots
<1>8. LastInv'
  <2> SUFFICES ASSUME NEW f \in Entries, f \in Refs(y), delay[f] < Hour
               PROVE  \E r \in Nat \ {0} : Lasts(w, f, Phase, r)' /\ InWindow(f, ticks'[f] + r)
    BY <1>1, <1>3 DEF LastInv, Armed, InWindow
  <2>1. CASE f = e
    <3>1. d < Minute => \A j \in 1 .. Minute : e \in w.sec[j] => j <= d
      <4> SUFFICES ASSUME d < Minute, NEW j \in 1 .. Minute, e \in w.sec[j] PROVE j <= d
        OBVIOUS
      <4>1. Armed(e) /\ d < Hour
        BY <1>2, <1>4, TypeFacts, RefsFacts, Sizes
      <4>2. PICK r \in Nat \ {0} : Lasts(w, e, Phase, r) /\ InWindow(e, ticks[e] + r)
        BY <4>1 DEF IInv, LastInv, d
      <4>3. j <= r /\ ticks[e] + r <= d
        BY <4>2 DEF Lasts, InTime, InWindow, d
      <4> QED
        BY <1>2, <4>3, TypeFacts
    <3>2. \A k \in Nat : <<k, e>> \in S <=> k = d
      BY <1>2
    <3>3. Slots(w, Phase)
      BY DEF IInv
    <3>4. PICK r \in Nat \ {0} : /\ Lasts(y, e, Phase, r)
                                 /\ r = IF d < Minute THEN d ELSE d - Phase
      BY <1>1, <1>2, <1>4, <2>1, <3>1, <3>2, <3>3, InsertedLasts DEF d
    <3>5. ticks'[e] = 0
      BY <1>1 DEF IInv, TypeOK
    <3>6. InWindow(e, 0 + r)
      BY <1>2, <1>4, <3>4, Sizes DEF InWindow, d
    <3> QED
      BY <1>3, <1>4, <2>1, <3>4, <3>5, <3>6, SameLasts
  <2>2. CASE f # e
    <3>1. \A k \in Nat : <<k, f>> \notin S
      BY <1>2, <2>2
    <3>2. /\ f \in Refs(y) <=> f \in Refs(w)
          /\ \A h, r : Lasts(w, f, h, r) => Lasts(y, f, h, r)
      BY <1>2, <1>4, <3>1, OthersLast
    <3>3. PICK r \in Nat \ {0} : Lasts(w, f, Phase, r) /\ InWindow(f, ticks[f] + r)
      BY <3>2 DEF IInv, LastInv, Armed
    <3>4. ticks'[f] = ticks[f]
      BY <1>1, <2>2 DEF IInv, TypeOK
    <3>5. Lasts(w, f, Phase, r)'
      BY <1>3, <1>4, <3>2, <3>3, SameLasts
    <3> QED
      BY <3>3, <3>4, <3>5
  <2> QED
    BY <2>1, <2>2
<1>9. FiredInv'
  BY <1>1 DEF IInv, FiredInv, InWindow
<1> QED
  BY <1>6, <1>7, <1>8, <1>9

(* OnTimer pops the minute wheel once a minute, and no other coarse wheel. *)
LEMMA PopCoarseFacts ==
    ASSUME NEW x \in Wheels, NEW t \in Nat
    PROVE  PopCoarse(x, t) = IF t % Minute = 0 THEN Turned(x) ELSE x
<1>1. /\ Minute \in Nat \ {0} /\ Hour \in Nat \ {0} /\ Day \in Nat \ {0}
      /\ Hour % Minute = 0 /\ Day % Minute = 0
  BY Sizes
<1>2. CASE t % Minute = 0
  <2>1. CoarseWheel(t) = "min"
    BY <1>2 DEF CoarseWheel
  <2>2. [x EXCEPT !["min"] = PopUp(@)] = MinutePopped(x) /\ x["min"] = x.min
    BY DEF MinutePopped
  <2>3. PopCoarse(x, t) = InsertEntry(MinutePopped(x), x.min[1])
    BY <2>1, <2>2 DEF PopCoarse
  <2> QED
    BY <1>2, <2>3 DEF Turned
<1>3. CASE t % Minute # 0
  <2>1. t % Hour # 0 /\ t % Day # 0
    BY <1>1, <1>3, ModOfMod
  <2>2. CoarseWheel(t) = "none"
    BY <1>3, <2>1 DEF CoarseWheel
  <2> QED
    BY <1>3, <2>2 DEF PopCoarse
<1> QED
  BY <1>2, <1>3

LEMMA PopRefs ==
    ASSUME NEW x \in Wheels, NEW y, y = SecondPopped(x)
    PROVE  Refs(y) \subseteq Refs(x)
<1>1. /\ y \in Wheels /\ y.min = x.min /\ y.hour = x.hour /\ y.day = x.day
      /\ \A j \in 1 .. Minute : y.sec[j] = IF j < Minute THEN x.sec[j + 1] ELSE {}
  BY PopSecondFacts
<1> SUFFICES ASSUME NEW e \in Entries, e \in Refs(y) PROVE e \in Refs(x)
  BY <1>1, RefsFacts
<1>2. ASSUME NEW j \in 1 .. Minute, e \in y.sec[j] PROVE e \in Refs(x)
  <2>1. j + 1 \in 1 .. Minute /\ e \in x.sec[j + 1]
    BY <1>1, <1>2, Sizes
  <2> QED
    BY <2>1, RefsFacts
<1>3. \/ \E j \in 1 .. Minute : e \in y.sec[j]
      \/ \E i \in Minutes : \E s \in Nat : <<s, e>> \in x.min[i]
      \/ \E i \in Hours : \E s \in Nat : <<s, e>> \in x.hour[i]
      \/ \E i \in 1 .. MaxDays : \E s \in Nat : <<s, e>> \in x.day[i]
  BY <1>1, RefsFacts
<1> QED
  BY <1>2, <1>3, RefsFacts

LEMMA TickKeeps ==
    ASSUME IInv, Tick
    PROVE  TypeOK' /\ Slots(w, Phase)' /\ LastInv' /\ FiredInv'
<1> DEFINE F == Firing(w)
           S == {<<delay[e], e>> : e \in F \cap Every}
           h == Phase + 1
<1>1. /\ clk' = 0 /\ tick' = (tick + 1) % Day /\ started' = started /\ delay' = delay
      /\ w' = PopCoarse(PopSecond(w), tick')
      /\ firedAt' = [e \in Entries |-> IF e \in F THEN ticks[e] + 1 ELSE firedAt[e]]
      /\ ticks' = [e \in Entries |-> IF Armed(e) /\ e \notin F
                                     THEN Count(ticks[e], MaxTicks(e)) ELSE 0]
      /\ age' = [e \in Entries |-> IF Armed(e) /\ e \notin F THEN age[e] ELSE 0]
  BY DEF Tick
<1>2. PICK x : x = SecondPopped(w)
  OBVIOUS
<1>3. PICK z : z = InsertEntry(x, S)
  OBVIOUS
<1>4. PICK y : y = w'
  OBVIOUS
<1>5. /\ F = w.sec[1] \ Refs(x) /\ PopSecond(w) = z
  BY <1>2, <1>3 DEF Firing, PopSecond, SecondPopped
<1>6. /\ w \in Wheels /\ Phase \in 0 .. Minute - 1 /\ Slots(w, Phase)
      /\ \A e \in Entries : delay[e] \in Nat /\ ticks[e] \in Nat
  BY TypeFacts DEF IInv
<1>7. x \in Wheels /\ Slots(x, h) /\ h \in 0 .. Minute /\ Refs(x) \subseteq Refs(w)
  BY <1>2, <1>6, PopSlots, PopRefs, Sizes
<1>8. F \subseteq Entries /\ \A e \in F : e \in w.sec[1] /\ e \notin Refs(x)
                             /\ CanInsert(delay[e]) /\ delay[e] < Hour /\ Armed(e)
  <2>0. 1 \in 1 .. Minute
    BY Sizes
  <2>1. w.sec[1] \in SUBSET Entries
    BY <1>6, <2>0, WheelsType
  <2>2. \A e \in F : e \in Entries /\ e \in w.sec[1] /\ e \notin Refs(x)
    BY <1>5, <2>1
  <2>3. \A e \in F : CanInsert(delay[e]) /\ delay[e] < Hour
    BY <1>6, <2>0, <2>2 DEF Slots, InSeconds
  <2>4. \A e \in F : Armed(e)
    BY <1>6, <2>0, <2>2, RefsFacts DEF Armed
  <2> QED
    BY <2>2, <2>3, <2>4
<1>9. /\ S \in SUBSET Wrappers
      /\ \A k, e : <<k, e>> \in S <=> e \in F \cap Every /\ k = delay[e]
  <2>1. \A e \in F : delay[e] \in Nat /\ e \in Entries
    BY <1>6, <1>8
  <2>2. S \subseteq Wrappers
    BY <2>1, Pairs
  <2>3. \A k, e : <<k, e>> \in S <=> e \in F \cap Every /\ k = delay[e]
    BY Pairs
  <2> QED
    BY <2>2, <2>3
<1> HIDE DEF F, S, h
<1>10. z \in Wheels /\ Slots(z, h)
  <2>1. \A k \in Nat : \A e \in Entries : <<k, e>> \in S => k = delay[e] /\ CanInsert(k)
    BY <1>8, <1>9
  <2> QED
    BY <1>3, <1>7, <1>9, <2>1, InsertSlots
<1>11. /\ tick' \in 0 .. Day - 1 /\ Phase' \in 0 .. Minute - 1
       /\ Phase' = IF h = Minute THEN 0 ELSE h
       /\ y = IF h = Minute THEN Turned(z) ELSE z
  <2>1. /\ tick' \in 0 .. Day - 1 /\ Phase' = IF h = Minute THEN 0 ELSE h
    BY <1>1, PhaseNext DEF IInv, TypeOK, h
  <2>2. tick' \in Nat /\ tick' % Minute = Phase'
    BY <2>1, Sizes DEF Phase
  <2>3. y = IF Phase' = 0 THEN Turned(z) ELSE z
    BY <1>1, <1>4, <1>5, <1>10, <2>2, PopCoarseFacts
  <2>4. h \in Nat /\ h > 0 /\ Minute > 0
    BY <1>6, Sizes DEF h
  <2>5. h = Minute <=> Phase' = 0
    BY <2>1, <2>4
  <2> QED
    BY <1>7, <2>1, <2>3, <2>4, <2>5, Sizes
<1>12. y \in Wheels /\ Slots(y, Phase')
  BY <1>6, <1>10, <1>11, TurnedSlots
<1>13. /\ \A e \in Entries : e \in Refs(y) => e \in Refs(z)
       /\ \A e \in Entries : \A r \in Nat \ {0} : Lasts(z, e, h, r) => Lasts(y, e, Phase', r)
  BY <1>10, <1>11, TurnedRefs, TurnedLasts
<1>14. TypeOK'
  <2>1. firedAt' \in [Entries -> Nat \cup {None}]
    BY <1>1, <1>6, TypeFacts
  <2>2. ticks' \in [Entries -> Nat]
    BY <1>1, <1>6 DEF Count
  <2>3. age' \in [Entries -> Nat]
    BY <1>1, TypeFacts
  <2>4. clk' \in 0 .. MaxClk
    BY <1>1, Sizes
  <2> QED
    BY <1>1, <1>4, <1>11, <1>12, <2>1, <2>2, <2>3, <2>4 DEF IInv, TypeOK
<1>15. Slots(w, Phase)'
  BY <1>1, <1>4, <1>12, SameSlots
<1>16. LastInv'
  <2> SUFFICES ASSUME NEW e \in Entries, e \in Refs(y), delay[e] < Hour
               PROVE  \E r \in Nat \ {0} : Lasts(w, e, Phase, r)' /\ InWindow(e, ticks'[e] + r)
    BY <1>1, <1>4 DEF LastInv, Armed, InWindow
  <2>1. e \in Refs(z)
    BY <1>13
  <2>2. CASE e \in F
    <3>1. e \in Every
      <4> SUFFICES ASSUME e \notin Every PROVE FALSE
        OBVIOUS
      <4>1. \A k \in Nat : <<k, e>> \notin S
        BY <1>9
      <4>2. e \in Refs(x)
        BY <1>3, <1>7, <1>9, <2>1, <4>1, OthersLast
      <4> QED
        BY <1>8, <2>2, <4>2
    <3>2. \A k \in Nat : <<k, e>> \in S <=> k = delay[e]
      BY <1>9, <2>2, <3>1
    <3>3. \A j \in 1 .. Minute : e \notin x.sec[j]
      BY <1>7, <1>8, <2>2, RefsFacts
    <3>4. delay[e] \in Nat /\ CanInsert(delay[e])
      BY <1>6, <1>8, <2>2
    <3>5. PICK r \in Nat \ {0} : /\ Lasts(z, e, h, r)
                                 /\ r = IF delay[e] < Minute THEN delay[e] ELSE delay[e] - h
      BY <1>3, <1>7, <1>9, <3>2, <3>3, <3>4, InsertedLasts
    <3>6. ticks'[e] = 0
      BY <1>1, <2>2
    <3>7. InWindow(e, 0 + r)
      BY <1>7, <3>4, <3>5, Sizes DEF InWindow
    <3>8. Lasts(y, e, Phase', r)
      BY <1>13, <3>5
    <3> QED
      BY <1>4, <3>6, <3>7, <3>8, SameLasts
  <2>3. CASE e \notin F
    <3>1. \A k \in Nat : <<k, e>> \notin S
      BY <1>9, <2>3
    <3>2. e \in Refs(x) /\ \A g, r : Lasts(x, e, g, r) => Lasts(z, e, g, r)
      BY <1>3, <1>7, <1>9, <2>1, <3>1, OthersLast
    <3>3. Armed(e)
      BY <1>7, <3>2 DEF Armed
    <3>4. PICK r \in Nat \ {0} : Lasts(w, e, Phase, r) /\ InWindow(e, ticks[e] + r)
      BY <3>3 DEF IInv, LastInv
    <3>5. r - 1 \in Nat \ {0} /\ Lasts(x, e, h, r - 1)
      BY <1>2, <1>6, <3>2, <3>4, PopLasts DEF h
    <3>6. ticks'[e] = ticks[e] + 1
      <4>1. ticks[e] + r <= delay[e] /\ ticks[e] \in Nat /\ delay[e] \in Nat
        BY <1>6, <3>4 DEF InWindow
      <4>2. ticks[e] < MaxTicks(e)
        BY <4>1 DEF MaxTicks
      <4> QED
        BY <1>1, <2>3, <3>3, <4>2 DEF Count
    <3>7. ticks'[e] + (r - 1) = ticks[e] + r
      BY <1>6, <3>6
    <3>8. Lasts(y, e, Phase', r - 1)
      BY <1>13, <3>2, <3>5
    <3> QED
      BY <1>4, <3>4, <3>5, <3>7, <3>8, SameLasts
  <2> QED
    BY <2>2, <2>3
<1>17. FiredInv'
  <2> SUFFICES ASSUME NEW e \in Entries, firedAt'[e] # None
               PROVE  InWindow(e, firedAt'[e])
    BY <1>1 DEF FiredInv, InWindow
  <2>1. CASE e \in F
    <3>1. PICK r \in Nat \ {0} : Lasts(w, e, Phase, r) /\ InWindow(e, ticks[e] + r)
      BY <1>8, <2>1 DEF IInv, LastInv
    <3>2. r = 1
      BY <1>2, <1>6, <1>8, <2>1, <3>1, PopLasts
    <3> QED
      BY <1>1, <2>1, <3>1, <3>2
  <2>2. CASE e \notin F
    BY <1>1, <2>2 DEF IInv, FiredInv
  <2> QED
    BY <2>1, <2>2
<1> QED
  BY <1>14, <1>15, <1>16, <1>17

----------------------------------------------------------------------------
(* The histories and the clock. *)

LEMMA Seconds ==
    /\ \A a, b \in Int : a <= b => a * Second <= b * Second
    /\ \A a \in Int : a * Second \in Int /\ (a - 1) * Second + Second = a * Second
    /\ \A a \in Nat : a * Second \in Nat
<1>1. Second \in Nat
  BY Sizes
<1>2. \A a \in Int : a * Second \in Int /\ (a - 1) * Second + Second = a * Second
  BY <1>1
<1>3. \A a \in Nat : a * Second \in Nat
  BY <1>1
<1>4. ASSUME NEW a \in Int, NEW b \in Int, a <= b PROVE a * Second <= b * Second
  <2>1. b - a \in Nat
    BY <1>4
  <2>2. (b - a) * Second \in Nat
    BY <1>3, <2>1
  <2>3. b * Second = a * Second + (b - a) * Second
    BY <1>1
  <2> QED
    BY <1>2, <2>2, <2>3
<1> QED
  BY <1>2, <1>3, <1>4

LEMMA CountFacts ==
    ASSUME NEW x \in Nat, NEW b \in Int, x <= b
    PROVE  /\ Count(x, b) \in Nat /\ Count(x, b) <= b
           /\ Count(x, b) = x \/ Count(x, b) = x + 1
           /\ x < b => Count(x, b) = x + 1
           /\ ~(x < b) => Count(x, b) = x /\ x = b
  BY DEF Count

LEMMA BoundFacts ==
    ASSUME IInv, NEW e \in Entries
    PROVE  /\ delay[e] \in Nat /\ ticks[e] \in Nat /\ age[e] \in Nat /\ clk \in 0 .. MaxClk
           /\ MaxTicks(e) = delay[e] + 1 /\ MaxAge(e) = delay[e] * Second + MaxClk
           /\ MaxAge(e) \in Nat /\ delay[e] * Second \in Nat
           /\ ticks[e] <= MaxTicks(e) /\ age[e] <= MaxAge(e)
           /\ Armed(e) /\ ticks[e] > 0 => age[e] >= (ticks[e] - 1) * Second + clk
<1>1. delay[e] \in Nat /\ ticks[e] \in Nat /\ age[e] \in Nat /\ clk \in 0 .. MaxClk
  BY TypeFacts
<1>2. delay[e] * Second \in Nat /\ MaxClk \in Nat
  BY <1>1, Seconds, Sizes
<1>3. /\ MaxTicks(e) = delay[e] + 1 /\ MaxAge(e) = delay[e] * Second + MaxClk
      /\ MaxAge(e) \in Nat
  BY <1>2 DEF MaxTicks, MaxAge
<1>4. ticks[e] <= MaxTicks(e) /\ age[e] <= MaxAge(e)
  BY DEF IInv, BoundsInv
<1>5. Armed(e) /\ ticks[e] > 0 => age[e] >= (ticks[e] - 1) * Second + clk
  BY DEF IInv, ClockBound
<1> QED
  BY <1>1, <1>2, <1>3, <1>4, <1>5

(* What BoundsInv and ClockBound say of one timer. *)
Timely(e) ==
    /\ ticks[e] <= MaxTicks(e) /\ age[e] <= MaxAge(e)
    /\ Armed(e) /\ ticks[e] > 0 => age[e] >= (ticks[e] - 1) * Second + clk

LEMMA TimelyEach ==
    ASSUME \A e \in Entries : Timely(e)'
    PROVE  BoundsInv' /\ ClockBound'
  BY DEF Timely, BoundsInv, ClockBound

LEMMA InsertTimely ==
    ASSUME IInv, NEW f \in Entries, Insert(f), NEW e \in Entries
    PROVE  Timely(e)'
<1>1. /\ ticks' = [ticks EXCEPT ![f] = 0] /\ age' = [age EXCEPT ![f] = 0]
      /\ clk' = clk /\ delay' = delay /\ w' = InsertEntry(w, {<<delay[f], f>>})
  BY DEF Insert
<1>2. MaxTicks(e)' = MaxTicks(e) /\ MaxAge(e)' = MaxAge(e)
  BY <1>1 DEF MaxTicks, MaxAge
<1>3. CASE e = f
  <2>1. ticks'[e] = 0 /\ age'[e] = 0
    BY <1>1, <1>3 DEF IInv, TypeOK
  <2>2. MaxTicks(e) >= 0 /\ MaxAge(e) >= 0
    BY BoundFacts
  <2> QED
    BY <1>2, <2>1, <2>2 DEF Timely
<1>4. CASE e # f
  <2>1. ticks'[e] = ticks[e] /\ age'[e] = age[e]
    BY <1>1, <1>4 DEF IInv, TypeOK
  <2>2. Armed(e)' => Armed(e)
    <3> DEFINE S == {<<delay[f], f>>}
    <3>1. PICK y : y = w'
      OBVIOUS
    <3>2. w \in Wheels /\ delay[f] \in Nat
      BY TypeFacts
    <3>3. S \in SUBSET Wrappers /\ \A d \in Nat : <<d, e>> \notin S
      BY <1>4, <3>2, Pairs
    <3>4. y = InsertEntry(w, S)
      BY <1>1, <3>1
    <3> HIDE DEF S
    <3>5. e \in Refs(y) <=> e \in Refs(w)
      BY <3>2, <3>3, <3>4, OthersLast
    <3> QED
      BY <3>1, <3>5 DEF Armed
  <2> QED
    BY <1>1, <1>2, <2>1, <2>2, BoundFacts DEF Timely
<1> QED
  BY <1>3, <1>4

LEMMA AdvanceTimely ==
    ASSUME IInv, Advance, NEW e \in Entries
    PROVE  Timely(e)'
<1>1. /\ clk < MaxClk /\ clk' = clk + 1 /\ w' = w /\ delay' = delay /\ ticks' = ticks
      /\ age'[e] = IF Armed(e) THEN Count(age[e], MaxAge(e)) ELSE 0
  BY DEF Advance
<1>2. MaxTicks(e)' = MaxTicks(e) /\ MaxAge(e)' = MaxAge(e) /\ (Armed(e)' <=> Armed(e))
  BY <1>1 DEF MaxTicks, MaxAge, Armed
<1>3. ticks'[e] <= MaxTicks(e) /\ age'[e] <= MaxAge(e)
  <2>1. Count(age[e], MaxAge(e)) <= MaxAge(e)
    BY BoundFacts, CountFacts
  <2> QED
    BY <1>1, <2>1, BoundFacts
<1>4. ASSUME Armed(e), ticks[e] > 0
      PROVE  age'[e] >= (ticks[e] - 1) * Second + (clk + 1)
  <2>1. ticks[e] - 1 \in Int /\ delay[e] \in Int /\ ticks[e] - 1 <= delay[e]
    BY <1>4, BoundFacts
  <2>2. (ticks[e] - 1) * Second <= delay[e] * Second /\ (ticks[e] - 1) * Second \in Int
    BY <2>1, Seconds
  <2>3. age'[e] = Count(age[e], MaxAge(e))
    BY <1>1, <1>4
  <2>4. CASE age[e] < MaxAge(e)
    <3>1. age'[e] = age[e] + 1
      BY <2>3, <2>4, BoundFacts, CountFacts
    <3> QED
      BY <1>4, <2>2, <3>1, BoundFacts
  <2>5. CASE ~(age[e] < MaxAge(e))
    <3>1. age'[e] = delay[e] * Second + MaxClk
      BY <2>3, <2>5, BoundFacts, CountFacts
    <3> QED
      BY <1>1, <2>2, <3>1, BoundFacts, Sizes
  <2> QED
    BY <2>4, <2>5
<1> QED
  BY <1>1, <1>2, <1>3, <1>4 DEF Timely

LEMMA TickTimely ==
    ASSUME IInv, Tick, NEW e \in Entries
    PROVE  Timely(e)'
<1> DEFINE kept == Armed(e) /\ e \notin Firing(w)
<1>1. /\ clk >= Second /\ clk' = 0 /\ delay' = delay
      /\ ticks'[e] = IF kept THEN Count(ticks[e], MaxTicks(e)) ELSE 0
      /\ age'[e] = IF kept THEN age[e] ELSE 0
  BY DEF Tick
<1>2. kept => Armed(e)
  OBVIOUS
<1> HIDE DEF kept
<1>3. MaxTicks(e)' = MaxTicks(e) /\ MaxAge(e)' = MaxAge(e)
  BY <1>1 DEF MaxTicks, MaxAge
<1>4. CASE ~kept
  <2>1. ticks'[e] = 0 /\ age'[e] = 0 /\ MaxTicks(e) >= 0 /\ MaxAge(e) >= 0
    BY <1>1, <1>4, BoundFacts
  <2> QED
    BY <1>3, <2>1 DEF Timely
<1>5. CASE kept
  <2> DEFINE t == Count(ticks[e], MaxTicks(e))
  <2>1. ticks'[e] = t /\ age'[e] = age[e]
    BY <1>1, <1>5
  <2>2. t \in Nat /\ t <= MaxTicks(e) /\ t <= ticks[e] + 1 /\ t >= ticks[e]
    BY BoundFacts, CountFacts
  <2> HIDE DEF t
  <2>3. ASSUME t > 0 PROVE age[e] >= (t - 1) * Second + 0
    <3>1. t - 1 \in Int /\ ticks[e] \in Int /\ t - 1 <= ticks[e]
      BY <2>2, BoundFacts
    <3>2. /\ (t - 1) * Second \in Int /\ (t - 1) * Second <= ticks[e] * Second
          /\ ticks[e] * Second = (ticks[e] - 1) * Second + Second
          /\ (ticks[e] - 1) * Second \in Int
      BY <3>1, Seconds
    <3>3. CASE ticks[e] > 0
      <4>1. age[e] >= (ticks[e] - 1) * Second + clk
        BY <1>2, <1>5, <3>3, BoundFacts
      <4> QED
        BY <1>1, <3>2, <4>1, BoundFacts, Sizes
    <3>4. CASE ~(ticks[e] > 0)
      <4>1. t - 1 = 0
        BY <2>2, <2>3, <3>4, BoundFacts
      <4> QED
        BY <4>1, BoundFacts, Sizes
    <3> QED
      BY <3>3, <3>4
  <2>4. age[e] <= MaxAge(e)
    BY BoundFacts
  <2> QED
    BY <1>1, <1>3, <2>1, <2>2, <2>3, <2>4 DEF Timely
<1> QED
  BY <1>4, <1>5

(* Advance and the first OnTimer leave the wheels alone. *)
LEMMA SameWheels ==
    ASSUME IInv, w' = w, tick' = tick, delay' = delay, ticks' = ticks, firedAt' = firedAt,
           started' \in BOOLEAN, clk' \in 0 .. MaxClk, age' \in [Entries -> Nat]
    PROVE  TypeOK' /\ Slots(w, Phase)' /\ LastInv' /\ FiredInv'
<1>1. TypeOK'
  BY DEF IInv, TypeOK
<1>2. Phase' = Phase
  BY DEF Phase
<1>3. Slots(w, Phase)'
  BY <1>2, SameSlots DEF IInv
<1>4. LastInv'
  BY <1>2 DEF IInv, LastInv, Armed, Lasts, InTime, LastSecond, LastMinute, InWindow
<1>5. FiredInv'
  BY DEF IInv, FiredInv, InWindow
<1> QED
  BY <1>1, <1>3, <1>4, <1>5

LEMMA AdvanceKeeps ==
    ASSUME IInv, Advance
    PROVE  TypeOK' /\ Slots(w, Phase)' /\ LastInv' /\ FiredInv'
<1>1. /\ clk' = clk + 1 /\ clk < MaxClk /\ w' = w /\ tick' = tick /\ started' = started
      /\ delay' = delay /\ ticks' = ticks /\ firedAt' = firedAt
      /\ age' = [e \in Entries |-> IF Armed(e) THEN Count(age[e], MaxAge(e)) ELSE 0]
  BY DEF Advance
<1>2. clk' \in 0 .. MaxClk
  BY <1>1, TypeFacts, Sizes
<1>3. \A e \in Entries : Count(age[e], MaxAge(e)) \in Nat
  BY BoundFacts, CountFacts
<1>4. age' \in [Entries -> Nat]
  BY <1>1, <1>3
<1>5. started' \in BOOLEAN
  BY <1>1 DEF IInv, TypeOK
<1> QED
  BY <1>1, <1>2, <1>4, <1>5, SameWheels

LEMMA FirstKeeps ==
    ASSUME IInv, FirstOnTimer
    PROVE  TypeOK' /\ Slots(w, Phase)' /\ LastInv' /\ FiredInv' /\ BoundsInv' /\ ClockBound'
<1>1. /\ clk' = 0 /\ w' = w /\ tick' = tick /\ started' = TRUE /\ delay' = delay
      /\ ticks' = ticks /\ age' = age /\ firedAt' = firedAt
  BY DEF FirstOnTimer
<1>2. clk' \in 0 .. MaxClk /\ age' \in [Entries -> Nat] /\ started' \in BOOLEAN
  BY <1>1, Sizes DEF IInv, TypeOK
<1>3. ASSUME NEW e \in Entries PROVE Timely(e)'
  <2>1. (ticks[e] - 1) * Second \in Int
    BY BoundFacts, Seconds
  <2>2. (Armed(e)' <=> Armed(e)) /\ MaxTicks(e)' = MaxTicks(e) /\ MaxAge(e)' = MaxAge(e)
    BY <1>1 DEF Armed, MaxTicks, MaxAge
  <2> QED
    BY <1>1, <2>1, <2>2, BoundFacts DEF Timely
<1> QED
  BY <1>1, <1>2, <1>3, SameWheels, TimelyEach

(* Every step keeps the invariant. *)
LEMMA NextIInv == IInv /\ [Next]_vars => IInv'
<1> SUFFICES ASSUME IInv, [Next]_vars PROVE IInv'
  OBVIOUS
<1>1. ASSUME NEW e \in Entries, Insert(e) PROVE IInv'
  BY <1>1, InsertKeeps, InsertTimely, TimelyEach DEF IInv
<1>2. CASE Advance
  BY <1>2, AdvanceKeeps, AdvanceTimely, TimelyEach DEF IInv
<1>3. CASE FirstOnTimer
  BY <1>3, FirstKeeps DEF IInv
<1>4. CASE Tick
  BY <1>4, TickKeeps, TickTimely, TimelyEach DEF IInv
<1>5. CASE UNCHANGED vars
  <2>1. /\ clk' = clk /\ w' = w /\ tick' = tick /\ started' = started /\ delay' = delay
        /\ ticks' = ticks /\ age' = age /\ firedAt' = firedAt
    BY <1>5 DEF vars
  <2>2. clk' \in 0 .. MaxClk /\ age' \in [Entries -> Nat] /\ started' \in BOOLEAN
    BY <2>1 DEF IInv, TypeOK
  <2>3. BoundsInv' /\ ClockBound'
    BY <2>1 DEF IInv, BoundsInv, ClockBound, Armed, MaxTicks, MaxAge
  <2> QED
    BY <2>1, <2>2, <2>3, SameWheels DEF IInv
<1> QED
  BY <1>1, <1>2, <1>3, <1>4, <1>5 DEF Next, OnTimer

----------------------------------------------------------------------------
(* The theorems. *)

(* The invariant above holds of every state the timers can reach. *)
THEOREM WheelInvariance == SafetySpec => []IInv
<1>1. Init => IInv
  BY InitIInv
<1>2. IInv /\ [Next]_vars => IInv'
  BY NextIInv
<1> QED
  BY <1>1, <1>2, PTL DEF SafetySpec

(* ClockBound: k ticks take at least k - 1 seconds, however often the loop *)
(* calls OnTimer and however late.                                         *)
THEOREM ClockCorrect == SafetySpec => []ClockBound
<1>1. IInv => ClockBound
  BY DEF IInv
<1> QED
  BY <1>1, WheelInvariance, PTL

(* WheelInv: a timer of less than a minute has its last reference in the   *)
(* slot that is dropped delay ticks after its last insertion.              *)
THEOREM WheelCorrect == SafetySpec => []WheelInv
<1>1. IInv => WheelInv
  <2> SUFFICES ASSUME IInv, NEW e \in Entries, Armed(e), delay[e] < Minute
               PROVE  /\ e \in w.sec[delay[e] - ticks[e]]
                      /\ \A i \in DOMAIN w.sec : i > delay[e] - ticks[e] => e \notin w.sec[i]
    BY DEF WheelInv, LastReference, IInv
  <2>1. /\ w \in Wheels /\ delay[e] \in Nat /\ ticks[e] \in Nat
        /\ Minute \in Nat /\ Hour \in Nat /\ Minute < Hour
    BY TypeFacts, Sizes
  <2>2. DOMAIN w.sec = 1 .. Minute
    BY <2>1, WheelsType
  <2>3. delay[e] < Hour
    BY <2>1
  <2>4. PICK r \in Nat \ {0} : Lasts(w, e, Phase, r) /\ InWindow(e, ticks[e] + r)
    BY <2>3 DEF IInv, LastInv
  <2>5. r = delay[e] - ticks[e]
    BY <2>1, <2>4 DEF InWindow
  <2>6. InMinutes(w)
    BY DEF IInv, Slots
  <2>7. \A i \in Minutes : \A s \in Nat : <<s, e>> \notin w.min[i]
    BY <2>1, <2>6 DEF InMinutes
  <2>8. e \in w.sec[r] /\ \A j \in 1 .. Minute : e \in w.sec[j] => j <= r
    BY <2>4, <2>7 DEF Lasts, LastSecond, LastMinute, InTime
  <2> QED
    BY <2>1, <2>2, <2>5, <2>8
<1> QED
  BY <1>1, WheelInvariance, PTL

(* FireWindow: no timer fires late or more than a minute early, one of     *)
(* less than a minute fires on time, and none of less than an hour is      *)
(* overdue.                                                                *)
THEOREM FireCorrect == SafetySpec => []FireWindow
<1>1. IInv => FireWindow
  <2> SUFFICES ASSUME IInv, NEW e \in Entries
               PROVE  /\ firedAt[e] # None => InWindow(e, firedAt[e])
                      /\ Armed(e) /\ delay[e] < Hour => ticks[e] < delay[e]
    BY DEF FireWindow, InWindow
  <2>1. firedAt[e] # None => InWindow(e, firedAt[e])
    BY DEF IInv, FiredInv
  <2>2. ASSUME Armed(e), delay[e] < Hour PROVE ticks[e] < delay[e]
    <3>1. PICK r \in Nat \ {0} : InWindow(e, ticks[e] + r)
      BY <2>2 DEF IInv, LastInv
    <3>2. delay[e] \in Nat /\ ticks[e] \in Nat
      BY TypeFacts
    <3> QED
      BY <3>1, <3>2 DEF InWindow
  <2> QED
    BY <2>1, <2>2
<1> QED
  BY <1>1, WheelInvariance, PTL

============================================================================
