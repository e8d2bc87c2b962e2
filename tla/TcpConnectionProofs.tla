------------------------ MODULE TcpConnectionProofs ------------------------
(***************************************************************************)
(* Proofs about TcpConnection, for every size of the send buffer, every    *)
(* number of units, messages and ticks: the stream arrives intact, no edge *)
(* of epoll is lost, and the close callback runs once.                     *)
(*                                                                         *)
(* What iovecList_ holds (Flat) and what a partial write leaves of it      *)
(* (Consume) are recursive over the list.  Facts about them are proved by  *)
(* induction in the form of NatSetInduction, whose parameter is a set.     *)
(***************************************************************************)
EXTENDS TcpConnection, SequenceTheorems, WellFoundedInduction, TLAPS

(* The truth values.  SMT needs to be told when an assignment stores one.   *)
LEMMA Booleans == \A b : b \in BOOLEAN <=> b = TRUE \/ b = FALSE
  OBVIOUS

(* A set of numbers that is not empty has a least one. *)
LEMMA LeastExists ==
    ASSUME NEW T, T \subseteq Nat, T # {}
    PROVE  \E x \in T : \A y \in T : x <= y
<1> DEFINE R == {p \in Nat \X Nat : p[1] < p[2]}
<1>1. IsWellFoundedOn(R, Nat)
  BY NatLessThanWellFounded, Zenon DEF OpToRel
<1>2. \A x, y \in Nat : <<y, x>> \in R <=> y < x
  OBVIOUS
<1> HIDE DEF R
<1>3. PICK x \in T : \A y \in T : ~ (<<y, x>> \in R)
  BY <1>1, WFMin
<1>4. ASSUME NEW y \in T PROVE x <= y
  <2>1. x \in Nat /\ y \in Nat
    OBVIOUS
  <2>2. ~ (y < x)
    BY <2>1, <1>2, <1>3
  <2> QED
    BY <2>1, <2>2
<1> QED
  BY <1>4

(* Induction, by the least number that is not in the set. *)
LEMMA NatSetInduction ==
    ASSUME NEW S, 0 \in S, \A n \in Nat : n \in S => n + 1 \in S
    PROVE  \A n \in Nat : n \in S
<1> DEFINE T == {n \in Nat : n \notin S}
<1>1. SUFFICES ASSUME T # {} PROVE FALSE
  OBVIOUS
<1>2. PICK x \in T : \A y \in T : x <= y
  BY <1>1, LeastExists
<1>3. x \in Nat /\ x # 0 /\ x \notin S
  OBVIOUS
<1>4. x - 1 \in Nat /\ ~ (x <= x - 1) /\ (x - 1) + 1 = x
  BY <1>3
<1>5. x - 1 \in S
  BY <1>2, <1>4
<1> QED
  BY <1>3, <1>4, <1>5

(* The functions that start with a and go from i - 1 to i by g[i]. *)
RecursiveFcns(S, a, g, k) ==
    {f \in [0 .. k -> S] : f[0] = a /\ \A i \in 1 .. k : f[i] = g[i][f[i - 1]]}

(* A function can be defined by recursion on a number. *)
LEMMA RecursionExists ==
    ASSUME NEW S, NEW a \in S, NEW g \in [Nat -> [S -> S]], NEW k \in Nat
    PROVE  RecursiveFcns(S, a, g, k) # {}
<1> DEFINE D(n) == RecursiveFcns(S, a, g, n)
           N == {n \in Nat : D(n) # {}}
<1>1. 0 \in N
  <2>1. [i \in 0 .. 0 |-> a] \in D(0)
    BY DEF RecursiveFcns
  <2> QED
    BY <2>1
<1>2. ASSUME NEW n \in Nat, n \in N PROVE n + 1 \in N
  <2>1. PICK f \in [0 .. n -> S] :
             f[0] = a /\ \A i \in 1 .. n : f[i] = g[i][f[i - 1]]
    BY <1>2 DEF RecursiveFcns
  <2> DEFINE h == [i \in 0 .. (n + 1) |-> IF i = n + 1 THEN g[n + 1][f[n]] ELSE f[i]]
  <2>2. g[n + 1][f[n]] \in S
    OBVIOUS
  <2>3. h \in [0 .. (n + 1) -> S]
    BY <2>2
  <2>4. h[0] = a
    BY <2>1
  <2>5. ASSUME NEW i \in 1 .. (n + 1) PROVE h[i] = g[i][h[i - 1]]
    BY <2>1, <2>5
  <2>6. h \in D(n + 1)
    BY <2>3, <2>4, <2>5 DEF RecursiveFcns
  <2>7. D(n + 1) # {}
    BY <2>6
  <2> HIDE DEF D
  <2> QED
    BY <2>7
<1> HIDE DEF N
<1>3. \A n \in Nat : n \in N
  BY <1>1, <1>2, NatSetInduction
<1> QED
  BY <1>3 DEF N

----------------------------------------------------------------------------
(* Lists of iovecs. *)

(* Any iovecs of numbers. *)
Vecs == [base : Nat, len : Nat]

(* The functions that Flat and Consume define by recursion: the units and  *)
(* the number of units of the first iovecs of a list.                      *)
FlatUpTo(list) ==
    CHOOSE flat : flat = [i \in 0 .. Len(list) |->
                             IF i = 0 THEN <<>> ELSE flat[i - 1] \o UnitsOf(list[i])]

TotalUpTo(list) ==
    CHOOSE total : total = [i \in 0 .. Len(list) |->
                               IF i = 0 THEN 0 ELSE total[i - 1] + list[i].len]

LEMMA FlatIs ==
    ASSUME NEW list
    PROVE  Flat(list) = FlatUpTo(list)[Len(list)]
  BY DEF Flat, FlatUpTo

LEMMA ConsumeIs ==
    ASSUME NEW list, NEW n, NEW total, total = TotalUpTo(list),
           NEW k, k = CHOOSE i \in 0 .. Len(list) :
                          total[i] >= n /\ \A j \in 0 .. i - 1 : total[j] < n
    PROVE  Consume(list, n) =
               IF total[k] - n = 0 THEN SubSeq(list, k + 1, Len(list))
               ELSE <<[base |-> list[k].base + list[k].len - (total[k] - n),
                       len |-> total[k] - n]>> \o SubSeq(list, k + 1, Len(list))
  BY DEF Consume, TotalUpTo

LEMMA UnitsAssociative ==
    ASSUME NEW x \in Seq(Nat), NEW y \in Seq(Nat), NEW z \in Seq(Nat)
    PROVE  (x \o y) \o z = x \o (y \o z)
  BY ConcatAssociative, SMTT(20)

LEMMA UnitsConcat ==
    ASSUME NEW x \in Seq(Nat), NEW y \in Seq(Nat)
    PROVE  x \o y \in Seq(Nat) /\ Len(x \o y) = Len(x) + Len(y)
  BY ConcatProperties

LEMMA UnitsConcatAt ==
    ASSUME NEW x \in Seq(Nat), NEW y \in Seq(Nat), NEW i \in 1 .. Len(x) + Len(y)
    PROVE  (x \o y)[i] = IF i <= Len(x) THEN x[i] ELSE y[i - Len(x)]
  BY ConcatProperties

LEMMA UnitsOfSeq ==
    ASSUME NEW v \in Vecs
    PROVE  UnitsOf(v) \in Seq(Nat) /\ Len(UnitsOf(v)) = v.len
  BY DEF UnitsOf, Vecs

(* The recursion of Flat is well defined. *)
LEMMA FlatRecursion ==
    ASSUME NEW list \in Seq(Vecs)
    PROVE  /\ FlatUpTo(list) \in [0 .. Len(list) -> Seq(Nat)]
           /\ FlatUpTo(list)[0] = <<>>
           /\ \A i \in 1 .. Len(list) :
                 FlatUpTo(list)[i] = FlatUpTo(list)[i - 1] \o UnitsOf(list[i])
<1> DEFINE n == Len(list)
           S == Seq(Nat)
           e == <<>>
           U == [i \in 1 .. n |-> UnitsOf(list[i])]
           g == [i \in Nat |-> [s \in S |-> IF i \in 1 .. n THEN s \o U[i] ELSE s]]
           F == FlatUpTo(list)
           N == {i \in Nat : i \in 0 .. n => F[i] \in S}
<1>1. n \in Nat /\ e \in S
  OBVIOUS
<1>2. \A i \in 1 .. n : U[i] = UnitsOf(list[i]) /\ U[i] \in S
  <2>1. \A i \in 1 .. n : list[i] \in Vecs
    OBVIOUS
  <2> QED
    BY <2>1, UnitsOfSeq
<1> HIDE DEF n, U
<1>3. g \in [Nat -> [S -> S]]
  BY <1>2
<1>4. \A i \in 1 .. n : \A s \in S : g[i][s] = s \o U[i]
  BY <1>1
<1> HIDE DEF g, S, e
<1>5. PICK f \in [0 .. n -> S] :
           f[0] = e /\ \A i \in 1 .. n : f[i] = g[i][f[i - 1]]
  <2>1. RecursiveFcns(S, e, g, n) # {}
    BY <1>1, <1>3, RecursionExists
  <2> QED
    BY <2>1 DEF RecursiveFcns
<1>6. \A i \in 1 .. n : f[i] = f[i - 1] \o U[i]
  <2>1. \A i \in 1 .. n : f[i - 1] \in S
    BY <1>1
  <2> QED
    BY <1>4, <1>5, <2>1
<1>7. f = [i \in 0 .. n |-> IF i = 0 THEN <<>> ELSE f[i - 1] \o UnitsOf(list[i])]
  <2>1. \A i \in 0 .. n : f[i] = IF i = 0 THEN <<>> ELSE f[i - 1] \o UnitsOf(list[i])
    <3>1. f[0] = <<>> /\ \A i \in 1 .. n : f[i] = f[i - 1] \o UnitsOf(list[i])
      BY <1>2, <1>5, <1>6 DEF e
    <3> QED
      BY <1>1, <3>1
  <2> QED
    BY <2>1
<1>8. F = [i \in 0 .. n |-> IF i = 0 THEN <<>> ELSE F[i - 1] \o UnitsOf(list[i])]
  BY <1>7, Zenon DEF FlatUpTo, n
<1> HIDE DEF F
<1>9. F[0] = <<>> /\ \A i \in 1 .. n : F[i] = F[i - 1] \o UnitsOf(list[i])
  BY <1>1, <1>8
<1>10. 0 \in N
  BY <1>1, <1>9 DEF e
<1>11. ASSUME NEW i \in Nat, i \in N PROVE i + 1 \in N
  <2> SUFFICES ASSUME i + 1 \in 0 .. n PROVE F[i + 1] \in S
    OBVIOUS
  <2>1. F[i] \in S /\ i + 1 \in 1 .. n /\ (i + 1) - 1 = i
    BY <1>1, <1>11
  <2>2. F[i + 1] = F[i] \o U[i + 1] /\ U[i + 1] \in S
    BY <1>2, <1>9, <2>1
  <2> QED
    BY <2>1, <2>2 DEF S
<1> HIDE DEF N
<1>12. \A i \in Nat : i \in N
  BY <1>10, <1>11, NatSetInduction
<1>13. \A i \in 0 .. n : F[i] \in S
  BY <1>1, <1>12 DEF N
<1>14. F \in [0 .. n -> S]
  BY <1>8, <1>13
<1> QED
  BY <1>9, <1>14 DEF F, S, n

LEMMA TotalRecursion ==
    ASSUME NEW list \in Seq(Vecs)
    PROVE  /\ TotalUpTo(list) \in [0 .. Len(list) -> Nat]
           /\ TotalUpTo(list)[0] = 0
           /\ \A i \in 1 .. Len(list) :
                 TotalUpTo(list)[i] = TotalUpTo(list)[i - 1] + list[i].len
<1> DEFINE n == Len(list)
           U == [i \in 1 .. n |-> list[i].len]
           g == [i \in Nat |-> [s \in Nat |-> IF i \in 1 .. n THEN s + U[i] ELSE s]]
           F == TotalUpTo(list)
           N == {i \in Nat : i \in 0 .. n => F[i] \in Nat}
<1>1. n \in Nat /\ 0 \in Nat
  OBVIOUS
<1>2. \A i \in 1 .. n : U[i] = list[i].len /\ U[i] \in Nat
  <2>1. \A i \in 1 .. n : list[i] \in Vecs
    OBVIOUS
  <2> QED
    BY <2>1 DEF Vecs
<1> HIDE DEF n, U
<1>3. g \in [Nat -> [Nat -> Nat]]
  BY <1>2
<1>4. \A i \in 1 .. n : \A s \in Nat : g[i][s] = s + U[i]
  BY <1>1
<1> HIDE DEF g
<1>5. PICK f \in [0 .. n -> Nat] :
           f[0] = 0 /\ \A i \in 1 .. n : f[i] = g[i][f[i - 1]]
  <2>1. RecursiveFcns(Nat, 0, g, n) # {}
    BY <1>1, <1>3, RecursionExists
  <2> QED
    BY <2>1 DEF RecursiveFcns
<1>6. \A i \in 1 .. n : f[i] = f[i - 1] + U[i]
  <2>1. \A i \in 1 .. n : f[i - 1] \in Nat
    BY <1>1
  <2> QED
    BY <1>4, <1>5, <2>1
<1>7. f = [i \in 0 .. n |-> IF i = 0 THEN 0 ELSE f[i - 1] + list[i].len]
  BY <1>1, <1>2, <1>5, <1>6
<1>8. F = [i \in 0 .. n |-> IF i = 0 THEN 0 ELSE F[i - 1] + list[i].len]
  BY <1>7, Zenon DEF TotalUpTo, n
<1> HIDE DEF F
<1>9. F[0] = 0 /\ \A i \in 1 .. n : F[i] = F[i - 1] + list[i].len
  BY <1>1, <1>8
<1>10. 0 \in N
  BY <1>1, <1>9
<1>11. ASSUME NEW i \in Nat, i \in N PROVE i + 1 \in N
  <2> SUFFICES ASSUME i + 1 \in 0 .. n PROVE F[i + 1] \in Nat
    OBVIOUS
  <2>1. F[i] \in Nat /\ i + 1 \in 1 .. n /\ (i + 1) - 1 = i
    BY <1>1, <1>11
  <2>2. F[i + 1] = F[i] + U[i + 1] /\ U[i + 1] \in Nat
    BY <1>2, <1>9, <2>1
  <2> QED
    BY <2>1, <2>2
<1> HIDE DEF N
<1>12. \A i \in Nat : i \in N
  BY <1>10, <1>11, NatSetInduction
<1>13. \A i \in 0 .. n : F[i] \in Nat
  BY <1>1, <1>12 DEF N
<1>14. F \in [0 .. n -> Nat]
  BY <1>8, <1>13
<1> QED
  BY <1>9, <1>14 DEF F, n

(* The total counts the units. *)
LEMMA FlatLength ==
    ASSUME NEW list \in Seq(Vecs)
    PROVE  \A i \in 0 .. Len(list) : Len(FlatUpTo(list)[i]) = TotalUpTo(list)[i]
<1> DEFINE n == Len(list)
           F == FlatUpTo(list)
           t == TotalUpTo(list)
           N == {i \in Nat : i \in 0 .. n => Len(F[i]) = t[i]}
<1>1. /\ F \in [0 .. n -> Seq(Nat)] /\ F[0] = <<>>
      /\ \A i \in 1 .. n : F[i] = F[i - 1] \o UnitsOf(list[i])
  BY FlatRecursion
<1>2. t[0] = 0 /\ \A i \in 1 .. n : t[i] = t[i - 1] + list[i].len
  BY TotalRecursion
<1>3. n \in Nat /\ \A i \in 1 .. n : list[i] \in Vecs
  OBVIOUS
<1> HIDE DEF n, F, t
<1>4. 0 \in N
  BY <1>1, <1>2
<1>5. ASSUME NEW i \in Nat, i \in N PROVE i + 1 \in N
  <2> SUFFICES ASSUME i + 1 \in 0 .. n PROVE Len(F[i + 1]) = t[i + 1]
    OBVIOUS
  <2>1. i \in 0 .. n /\ Len(F[i]) = t[i] /\ i + 1 \in 1 .. n /\ (i + 1) - 1 = i
    BY <1>3, <1>5
  <2>2. F[i + 1] = F[i] \o UnitsOf(list[i + 1]) /\ t[i + 1] = t[i] + list[i + 1].len
    BY <1>1, <1>2, <2>1
  <2>3. UnitsOf(list[i + 1]) \in Seq(Nat) /\ Len(UnitsOf(list[i + 1])) = list[i + 1].len
    BY <1>3, <2>1, UnitsOfSeq
  <2>4. F[i] \in Seq(Nat)
    BY <1>1, <2>1
  <2>5. Len(F[i] \o UnitsOf(list[i + 1])) = Len(F[i]) + Len(UnitsOf(list[i + 1]))
    BY <2>3, <2>4, ConcatProperties
  <2> QED
    BY <2>1, <2>2, <2>3, <2>5
<1> HIDE DEF N
<1>6. \A i \in Nat : i \in N
  BY <1>4, <1>5, NatSetInduction
<1>7. \A i \in 0 .. n : Len(F[i]) = t[i]
  BY <1>3, <1>6 DEF N
<1> QED
  BY <1>7 DEF n, F, t

(* Lists that begin with the same iovecs have the same units there. *)
LEMMA FlatAgree ==
    ASSUME NEW list \in Seq(Vecs), NEW other \in Seq(Vecs),
           NEW m \in Nat, m <= Len(list), m <= Len(other),
           \A i \in 1 .. m : list[i] = other[i]
    PROVE  FlatUpTo(list)[m] = FlatUpTo(other)[m]
<1> DEFINE F == FlatUpTo(list)
           G == FlatUpTo(other)
           N == {i \in Nat : i \in 0 .. m => F[i] = G[i]}
<1>1. F[0] = <<>> /\ \A i \in 1 .. Len(list) : F[i] = F[i - 1] \o UnitsOf(list[i])
  BY FlatRecursion
<1>2. G[0] = <<>> /\ \A i \in 1 .. Len(other) : G[i] = G[i - 1] \o UnitsOf(other[i])
  BY FlatRecursion
<1> HIDE DEF F, G
<1>3. 0 \in N
  BY <1>1, <1>2
<1>4. ASSUME NEW i \in Nat, i \in N PROVE i + 1 \in N
  <2> SUFFICES ASSUME i + 1 \in 0 .. m PROVE F[i + 1] = G[i + 1]
    OBVIOUS
  <2>1. /\ F[i] = G[i] /\ (i + 1) - 1 = i /\ i + 1 \in 1 .. m
        /\ i + 1 \in 1 .. Len(list) /\ i + 1 \in 1 .. Len(other)
    BY <1>4
  <2> QED
    BY <1>1, <1>2, <2>1
<1> HIDE DEF N
<1>5. \A i \in Nat : i \in N
  BY <1>3, <1>4, NatSetInduction
<1>6. F[m] = G[m]
  BY <1>5 DEF N
<1> QED
  BY <1>6 DEF F, G

(* The units of a list are those of its first k iovecs and those of the    *)
(* others.                                                                 *)
LEMMA FlatSplit ==
    ASSUME NEW list \in Seq(Vecs), NEW k \in 0 .. Len(list),
           NEW rest \in Seq(Vecs), Len(rest) = Len(list) - k,
           \A i \in 1 .. Len(rest) : rest[i] = list[k + i]
    PROVE  Flat(list) = FlatUpTo(list)[k] \o Flat(rest)
<1> DEFINE F == FlatUpTo(list)
           G == FlatUpTo(rest)
           m == Len(rest)
           N == {i \in Nat : i \in 0 .. m => F[k + i] = F[k] \o G[i]}
<1>1. /\ F \in [0 .. Len(list) -> Seq(Nat)]
      /\ \A i \in 1 .. Len(list) : F[i] = F[i - 1] \o UnitsOf(list[i])
  BY FlatRecursion
<1>2. /\ G \in [0 .. m -> Seq(Nat)] /\ G[0] = <<>>
      /\ \A i \in 1 .. m : G[i] = G[i - 1] \o UnitsOf(rest[i])
  BY FlatRecursion
<1>3. m \in Nat /\ k \in Nat /\ k + m = Len(list)
      /\ \A i \in 1 .. m : rest[i] = list[k + i]
  OBVIOUS
<1>4. F[k] \in Seq(Nat)
  BY <1>1
<1>5. \A i \in 1 .. m : rest[i] \in Vecs
  OBVIOUS
<1> HIDE DEF F, G, m
<1>6. 0 \in N
  BY <1>2, <1>3, <1>4, SMTT(20)
<1>7. ASSUME NEW i \in Nat, i \in N PROVE i + 1 \in N
  <2>1. ASSUME i + 1 \in 0 .. m PROVE F[k + (i + 1)] = F[k] \o G[i + 1]
    <3>1. /\ (i + 1) - 1 = i /\ i + 1 \in 1 .. m
          /\ i \in 0 .. m /\ k + (i + 1) \in 1 .. Len(list)
          /\ (k + (i + 1)) - 1 = k + i
      BY <1>3, <2>1
    <3> DEFINE u == UnitsOf(rest[i + 1])
    <3>2. F[k + (i + 1)] = F[k + i] \o u
      BY <1>1, <1>3, <3>1
    <3>3. G[i + 1] = G[i] \o u
      BY <1>2, <3>1
    <3>4. u \in Seq(Nat)
      BY <1>5, <3>1, UnitsOfSeq
    <3>5. G[i] \in Seq(Nat)
      BY <1>2, <3>1
    <3> HIDE DEF u
    <3>6. (F[k] \o G[i]) \o u = F[k] \o (G[i] \o u)
      BY <1>4, <3>4, <3>5, UnitsAssociative
    <3>7. F[k + i] = F[k] \o G[i]
      BY <1>7, <3>1
    <3> QED
      BY <3>2, <3>3, <3>6, <3>7
  <2>2. i + 1 \in Nat
    OBVIOUS
  <2> QED
    BY <2>1, <2>2, Zenon
<1> HIDE DEF N
<1>8. \A i \in Nat : i \in N
  BY <1>6, <1>7, NatSetInduction
<1>9. F[k + m] = F[k] \o G[m]
  <2>1. m \in N /\ m \in 0 .. m
    BY <1>3, <1>8
  <2> QED
    BY <2>1 DEF N
<1> QED
  BY <1>3, <1>9, FlatIs DEF F, G, m

LEMMA FlatSeq ==
    ASSUME NEW list \in Seq(Vecs)
    PROVE  Flat(list) \in Seq(Nat) /\ Len(Flat(list)) = TotalUpTo(list)[Len(list)]
<1>1. Len(list) \in 0 .. Len(list)
  OBVIOUS
<1>2. FlatUpTo(list)[Len(list)] \in Seq(Nat)
  BY <1>1, FlatRecursion
<1> QED
  BY <1>1, <1>2, FlatIs, FlatLength

LEMMA FlatEmpty == Flat(<<>>) = <<>>
<1>1. <<>> \in Seq(Vecs) /\ Len(<<>>) = 0
  OBVIOUS
<1> QED
  BY <1>1, FlatIs, FlatRecursion

(* An iovec at the end, or at the front. *)
LEMMA FlatAppend ==
    ASSUME NEW list \in Seq(Vecs), NEW v \in Vecs
    PROVE  Flat(Append(list, v)) = Flat(list) \o UnitsOf(v)
<1> DEFINE all == Append(list, v)
           n == Len(list)
<1>1. /\ all \in Seq(Vecs) /\ n \in Nat /\ Len(all) = n + 1
      /\ \A i \in 1 .. n : list[i] = all[i]
      /\ all[n + 1] = v
  OBVIOUS
<1>2. FlatUpTo(list)[n] = FlatUpTo(all)[n]
  <2> HIDE DEF all
  <2> QED
    BY <1>1, FlatAgree
<1>3. FlatUpTo(all)[n + 1] = FlatUpTo(all)[n] \o UnitsOf(v)
  <2> HIDE DEF all
  <2>1. n + 1 \in 1 .. Len(all) /\ (n + 1) - 1 = n
    BY <1>1
  <2> QED
    BY <1>1, <2>1, FlatRecursion
<1> QED
  BY <1>1, <1>2, <1>3, FlatIs

LEMMA FlatCons ==
    ASSUME NEW rest \in Seq(Vecs), NEW v \in Vecs
    PROVE  Flat(<<v>> \o rest) = UnitsOf(v) \o Flat(rest)
<1> DEFINE all == <<v>> \o rest
<1>1. /\ all \in Seq(Vecs) /\ Len(all) = Len(rest) + 1 /\ Len(rest) \in Nat
      /\ \A i \in 1 .. Len(rest) : rest[i] = all[1 + i]
      /\ all[1] = v
  OBVIOUS
<1> HIDE DEF all
<1>2. Flat(all) = FlatUpTo(all)[1] \o Flat(rest)
  <2>1. 1 \in 0 .. Len(all) /\ Len(rest) = Len(all) - 1
    BY <1>1
  <2> QED
    BY <1>1, <2>1, FlatSplit
<1>3. FlatUpTo(all)[1] = UnitsOf(v)
  <2>1. 1 \in 1 .. Len(all) /\ 1 - 1 = 0
    BY <1>1
  <2>2. FlatUpTo(all)[1] = <<>> \o UnitsOf(v)
    <3>1. FlatUpTo(all)[1] = FlatUpTo(all)[1 - 1] \o UnitsOf(all[1])
      BY <1>1, <2>1, FlatRecursion
    <3> QED
      BY <1>1, <2>1, <3>1, FlatRecursion
  <2>3. UnitsOf(v) \in Seq(Nat)
    BY UnitsOfSeq
  <2> QED
    BY <2>2, <2>3
<1> QED
  BY <1>2, <1>3 DEF all

(* The iovecs of at least one and at most l units, all below b. *)
Queued(b, l) == {v \in Vecs : v.len >= 1 /\ v.len <= l /\ v.base + v.len <= b}

(* What is left of a list behind its first k entries. *)
LEMMA SuffixProperties ==
    ASSUME NEW V, NEW list \in Seq(V), NEW k \in 0 .. Len(list),
           NEW rest, rest = SubSeq(list, k + 1, Len(list))
    PROVE  /\ rest \in Seq(V) /\ Len(rest) = Len(list) - k
           /\ \A i \in 1 .. Len(rest) : rest[i] = list[k + i]
<1>1. /\ k \in Nat /\ Len(list) \in Nat /\ k <= Len(list)
      /\ \A i \in k + 1 .. Len(list) : list[i] \in V
  OBVIOUS
<1>2. rest \in Seq(V)
  BY <1>1, SubSeqProperties
<1>3. Len(rest) = IF k + 1 <= Len(list) THEN Len(list) - (k + 1) + 1 ELSE 0
  BY <1>1, SubSeqProperties
<1>4. Len(rest) = Len(list) - k
  BY <1>1, <1>3
<1>5. ASSUME NEW i \in 1 .. Len(rest) PROVE rest[i] = list[k + i]
  <2>1. i \in 1 .. Len(list) - (k + 1) + 1 /\ (k + 1) + i - 1 = k + i
    BY <1>1, <1>4
  <2>2. rest[i] = list[(k + 1) + i - 1]
    BY <1>1, <2>1, SubSeqProperties
  <2> QED
    BY <2>1, <2>2
<1> QED
  BY <1>2, <1>4, <1>5

(* A list of such iovecs is empty if and only if it has no units. *)
LEMMA FlatNonempty ==
    ASSUME NEW b, NEW l, NEW list \in Seq(Queued(b, l)), list # <<>>
    PROVE  Len(Flat(list)) >= 1
<1> DEFINE rest == SubSeq(list, 2, Len(list))
<1>1. list \in Seq(Vecs)
  BY SeqMonotonic DEF Queued
<1>2. Len(list) \in Nat \ {0} /\ list[1] \in Queued(b, l)
  OBVIOUS
<1>3. rest \in Seq(Vecs) /\ Len(rest) = Len(list) - 1
      /\ \A i \in 1 .. Len(rest) : rest[i] = list[1 + i]
  <2> DEFINE k == 1
  <2>1. k \in 0 .. Len(list) /\ rest = SubSeq(list, k + 1, Len(list))
    BY <1>2
  <2> HIDE DEF rest, k
  <2>2. rest \in Seq(Vecs) /\ Len(rest) = Len(list) - k
        /\ \A i \in 1 .. Len(rest) : rest[i] = list[k + i]
    BY <1>1, <2>1, SuffixProperties
  <2> QED
    BY <2>2 DEF k
<1> HIDE DEF rest
<1>4. Flat(list) = FlatUpTo(list)[1] \o Flat(rest)
  <2>1. 1 \in 0 .. Len(list)
    BY <1>2
  <2> QED
    BY <1>1, <1>3, <2>1, FlatSplit
<1>5. FlatUpTo(list)[1] \in Seq(Nat) /\ Len(FlatUpTo(list)[1]) = list[1].len
  <2>1. 1 \in 1 .. Len(list) /\ 1 \in 0 .. Len(list) /\ 1 - 1 = 0
    BY <1>2
  <2>2. TotalUpTo(list)[1] = TotalUpTo(list)[1 - 1] + list[1].len
    BY <1>1, <2>1, TotalRecursion
  <2>3. TotalUpTo(list)[1] = list[1].len
    BY <1>1, <1>2, <2>1, <2>2, TotalRecursion DEF Queued, Vecs
  <2> QED
    BY <1>1, <2>1, <2>3, FlatRecursion, FlatLength
<1>6. Flat(rest) \in Seq(Nat)
  BY <1>3, FlatSeq
<1>7. Len(Flat(list)) = list[1].len + Len(Flat(rest)) /\ Len(Flat(rest)) \in Nat
  BY <1>4, <1>5, <1>6, ConcatProperties, LenProperties
<1> QED
  BY <1>2, <1>7 DEF Queued, Vecs

(* The units of an iovec are those of its first part and of the rest.      *)
LEMMA UnitsSplit ==
    ASSUME NEW v \in Vecs, NEW x \in Vecs, NEW y \in Vecs,
           x.base = v.base, y.base = v.base + x.len, x.len + y.len = v.len
    PROVE  UnitsOf(v) = UnitsOf(x) \o UnitsOf(y)
<1> DEFINE ux == UnitsOf(x)
           uy == UnitsOf(y)
           uv == UnitsOf(v)
<1>1. x \in Vecs /\ y \in Vecs
  OBVIOUS
<1>2. x.len + y.len = v.len /\ x.base = v.base /\ y.base = v.base + x.len
      /\ x.len \in Nat /\ y.len \in Nat /\ v.len \in Nat /\ v.base \in Nat
  BY DEF Vecs
<1>3. /\ ux \in Seq(Nat) /\ Len(ux) = x.len
      /\ uy \in Seq(Nat) /\ Len(uy) = y.len
      /\ uv \in Seq(Nat) /\ Len(uv) = v.len
  BY <1>1, UnitsOfSeq
<1>4. /\ \A i \in 1 .. x.len : ux[i] = x.base + i - 1
      /\ \A i \in 1 .. y.len : uy[i] = y.base + i - 1
      /\ \A i \in 1 .. v.len : uv[i] = v.base + i - 1
  BY DEF UnitsOf
<1> HIDE DEF ux, uy, uv
<1>5. ux \o uy \in Seq(Nat) /\ Len(ux \o uy) = v.len
  <2>1. Len(ux \o uy) = Len(ux) + Len(uy) /\ ux \o uy \in Seq(Nat)
    BY <1>3, UnitsConcat
  <2> QED
    BY <1>2, <1>3, <2>1
<1>6. ASSUME NEW i \in 1 .. v.len PROVE (ux \o uy)[i] = uv[i]
  <2>1. (ux \o uy)[i] = IF i <= x.len THEN ux[i] ELSE uy[i - x.len]
    <3>1. i \in 1 .. Len(ux) + Len(uy)
      BY <1>2, <1>3
    <3>2. (ux \o uy)[i] = IF i <= Len(ux) THEN ux[i] ELSE uy[i - Len(ux)]
      BY <1>3, <3>1, UnitsConcatAt
    <3> QED
      BY <1>3, <3>2
  <2>2. CASE i <= x.len
    BY <1>2, <1>4, <2>1, <2>2
  <2>3. CASE ~(i <= x.len)
    <3>1. i - x.len \in 1 .. y.len
      BY <1>2, <2>3
    <3>2. uy[i - x.len] = v.base + x.len + (i - x.len) - 1
      BY <1>2, <1>4, <3>1
    <3>3. uy[i - x.len] = v.base + i - 1
      BY <1>2, <3>2
    <3> QED
      BY <1>2, <1>4, <2>1, <2>3, <3>3
  <2> QED
    BY <2>2, <2>3
<1>7. uv = ux \o uy
  BY <1>3, <1>5, <1>6, SeqEqual
<1> QED
  BY <1>1, <1>7 DEF ux, uy, uv

(* The first n of x \o y are x. *)
LEMMA FirstPart ==
    ASSUME NEW x \in Seq(Nat), NEW y \in Seq(Nat)
    PROVE  SubSeq(x \o y, 1, Len(x)) = x
<1> DEFINE n == Len(x)
           z == x \o y
           s == SubSeq(z, 1, n)
<1>1. n \in Nat /\ z \in Seq(Nat) /\ Len(z) = n + Len(y) /\ Len(y) \in Nat
  BY UnitsConcat
<1>2. \A i \in 1 .. n : z[i] = x[i]
  BY <1>1, ConcatProperties
<1> HIDE DEF z
<1>3. \A i \in 1 .. n : z[i] \in Nat
  BY <1>1
<1>4. s \in Seq(Nat) /\ Len(s) = (IF 1 <= n THEN n - 1 + 1 ELSE 0)
  BY <1>1, <1>3, SubSeqProperties
<1>5. \A i \in 1 .. n - 1 + 1 : s[i] = z[1 + i - 1]
  BY <1>1, <1>3, SubSeqProperties
<1> HIDE DEF s
<1>6. Len(s) = n /\ \A i \in 1 .. n : s[i] = x[i]
  BY <1>1, <1>2, <1>4, <1>5
<1>7. s = x
  BY <1>4, <1>6, SeqEqual
<1> QED
  BY <1>7 DEF s, z

(* How Consume finds the iovec in which writev has stopped. *)
LEMMA ConsumeFinds ==
    ASSUME NEW list \in Seq(Vecs), NEW n \in 0 .. Len(Flat(list)),
           NEW k, k = CHOOSE i \in 0 .. Len(list) :
                          /\ TotalUpTo(list)[i] >= n
                          /\ \A j \in 0 .. i - 1 : TotalUpTo(list)[j] < n
    PROVE  /\ k \in 0 .. Len(list)
           /\ TotalUpTo(list)[k] >= n
           /\ \A j \in 0 .. k - 1 : TotalUpTo(list)[j] < n
<1> DEFINE t == TotalUpTo(list)
           m == Len(list)
           T == {i \in 0 .. m : t[i] >= n}
<1>1. /\ m \in Nat /\ n \in Nat
      /\ \A i \in 0 .. m : t[i] \in Nat
      /\ t[m] >= n
  BY FlatSeq, TotalRecursion
<1> HIDE DEF t, m
<1>2. m \in T /\ T \subseteq Nat
  BY <1>1
<1>3. PICK i \in T : \A j \in T : i <= j
  BY <1>2, LeastExists
<1>4. i \in 0 .. m /\ t[i] >= n /\ \A j \in 0 .. i - 1 : t[j] < n
  <2>1. ASSUME NEW j \in 0 .. i - 1 PROVE t[j] < n
    <3>1. j \in 0 .. m /\ ~(i <= j)
      BY <1>1
    <3>2. ~(t[j] >= n)
      BY <1>3, <3>1
    <3> QED
      BY <1>1, <3>1, <3>2
  <2> QED
    BY <2>1
<1>5. k = CHOOSE x \in 0 .. m : t[x] >= n /\ \A j \in 0 .. x - 1 : t[j] < n
  BY Zenon DEF t, m
<1>6. k \in 0 .. m /\ t[k] >= n /\ \A j \in 0 .. k - 1 : t[j] < n
  BY <1>4, <1>5, Zenon
<1> QED
  BY <1>6 DEF t, m

(* x is what remains of all without its first n units. *)
IsRest(all, n, x) == all = SubSeq(all, 1, n) \o x

(* A partial write of n units leaves the others, in order, once each; and  *)
(* it leaves nothing if and only if everything was written.                *)
LEMMA ConsumeProperties ==
    ASSUME NEW b \in Nat, NEW l \in Nat, NEW list \in Seq(Queued(b, l)),
           NEW n \in 0 .. Len(Flat(list)), NEW c, c = Consume(list, n)
    PROVE  /\ c \in Seq(Queued(b, l))
           /\ IsRest(Flat(list), n, Flat(c))
           /\ c = <<>> <=> n = Len(Flat(list))
<1> DEFINE Q == Queued(b, l)
           t == TotalUpTo(list)
           F == FlatUpTo(list)
           m == Len(list)
           k == CHOOSE i \in 0 .. m : t[i] >= n /\ \A j \in 0 .. i - 1 : t[j] < n
           rest == SubSeq(list, k + 1, m)
           left == t[k] - n
           y == [base |-> list[k].base + list[k].len - left, len |-> left]
<1>1. list \in Seq(Vecs) /\ m \in Nat /\ n \in Nat
      /\ \A i \in 1 .. m : list[i] \in Q /\ list[i] \in Vecs
  <2>1. list \in Seq(Vecs)
    BY SeqMonotonic DEF Queued
  <2>2. Len(Flat(list)) \in Nat
    BY <2>1, FlatSeq, LenProperties
  <2> QED
    BY <2>1, <2>2
<1>2. k \in 0 .. m /\ t[k] >= n /\ \A j \in 0 .. k - 1 : t[j] < n
  BY <1>1, ConsumeFinds
<1>3. /\ t \in [0 .. m -> Nat] /\ t[0] = 0
      /\ \A i \in 1 .. m : t[i] = t[i - 1] + list[i].len
  BY <1>1, TotalRecursion
<1>4. /\ F \in [0 .. m -> Seq(Nat)] /\ F[0] = <<>>
      /\ \A i \in 1 .. m : F[i] = F[i - 1] \o UnitsOf(list[i])
      /\ \A i \in 0 .. m : Len(F[i]) = t[i]
  BY <1>1, FlatRecursion, FlatLength
<1>5. c = IF left = 0 THEN rest ELSE <<y>> \o rest
  BY ConsumeIs
<1> HIDE DEF k
<1>6. rest \in Seq(Q) /\ Len(rest) = m - k
      /\ \A i \in 1 .. Len(rest) : rest[i] = list[k + i]
  BY <1>2, SuffixProperties, SMTT(20)
<1> HIDE DEF rest
<1>7. rest \in Seq(Vecs)
  BY <1>6, SeqMonotonic DEF Queued
<1>8. Flat(list) = F[k] \o Flat(rest)
  BY <1>1, <1>2, <1>6, <1>7, FlatSplit
<1> HIDE DEF F, t, m, y, left
<1>9. F[k] \in Seq(Nat) /\ Flat(rest) \in Seq(Nat) /\ left \in Nat
  <2>1. t[k] \in Nat
    BY <1>2, <1>3
  <2> QED
    BY <1>1, <1>2, <1>4, <1>7, <2>1, FlatSeq DEF left
<1>10. \E x \in Seq(Nat) : Len(x) = n /\ Flat(list) = x \o Flat(c) /\ c \in Seq(Q)
  <2>1. CASE left = 0
    <3>1. Len(F[k]) = n
      BY <1>1, <1>2, <1>3, <1>4, <2>1 DEF left
    <3> QED
      BY <1>5, <1>6, <1>8, <1>9, <2>1, <3>1
  <2>2. CASE left # 0
    <3> DEFINE v == list[k]
               x == [base |-> v.base, len |-> v.len - left]
    <3>1. k \in 1 .. m /\ k - 1 \in 0 .. m /\ k - 1 \in 0 .. k - 1 /\ k \in Nat
      <4>1. k # 0
        BY <1>1, <1>2, <1>3, <2>2 DEF left
      <4> QED
        BY <1>1, <1>2, <4>1
    <3>2. v \in Vecs /\ v \in Q /\ v.len \in Nat /\ v.base \in Nat
      BY <1>1, <3>1 DEF Vecs
    <3>3. t[k - 1] < n /\ t[k] = t[k - 1] + v.len /\ t[k - 1] \in Nat /\ t[k] \in Nat
      BY <1>2, <1>3, <3>1
    <3>4. x = [base |-> v.base, len |-> v.len - left]
          /\ y = [base |-> v.base + v.len - left, len |-> left]
      BY DEF y
    <3> HIDE DEF v, x
    <3>5. left \in 0 .. v.len /\ left >= 1 /\ v.len - left = n - t[k - 1]
      <4>1. left = t[k] - n /\ t[k] >= n
        BY <1>2 DEF left
      <4> QED
        BY <1>1, <2>2, <3>2, <3>3, <4>1, SMTT(20)
    <3>6. x \in Vecs /\ y \in Vecs /\ UnitsOf(v) = UnitsOf(x) \o UnitsOf(y)
      <4>1. x \in Vecs /\ x.base = v.base /\ x.len = v.len - left /\ x.len \in Nat
        BY <3>2, <3>4, <3>5 DEF Vecs
      <4>2. y \in Vecs /\ y.base = v.base + v.len - left /\ y.len = left
        BY <1>9, <3>2, <3>4, <3>5 DEF Vecs
      <4>3. y.base = v.base + x.len /\ x.len + y.len = v.len
        BY <1>9, <3>2, <4>1, <4>2
      <4> QED
        BY <3>2, <4>1, <4>2, <4>3, UnitsSplit
    <3>7. y \in Q
      <4>1. y.base + y.len = v.base + v.len /\ y.len = left
        BY <3>2, <3>4, <3>5
      <4> QED
        BY <3>2, <3>5, <3>6, <4>1 DEF Queued
    <3>8. c = <<y>> \o rest /\ c \in Seq(Q)
      BY <1>5, <1>6, <2>2, <3>7
    <3>9. Flat(c) = UnitsOf(y) \o Flat(rest)
      BY <1>7, <3>6, <3>8, FlatCons
    <3>10. F[k] = F[k - 1] \o (UnitsOf(x) \o UnitsOf(y))
      BY <1>4, <3>1, <3>6 DEF v
    <3> DEFINE f == F[k - 1]
               ux == UnitsOf(x)
               uy == UnitsOf(y)
               r == Flat(rest)
    <3>11. /\ f \in Seq(Nat) /\ Len(f) = t[k - 1]
           /\ ux \in Seq(Nat) /\ Len(ux) = x.len
           /\ uy \in Seq(Nat) /\ r \in Seq(Nat)
      BY <1>4, <1>9, <3>1, <3>6, UnitsOfSeq
    <3>12. x.len = v.len - left
      BY <3>4
    <3> HIDE DEF f, ux, uy, r
    <3>13. f \o ux \in Seq(Nat) /\ Len(f \o ux) = n
      <4>1. Len(f \o ux) = Len(f) + Len(ux) /\ f \o ux \in Seq(Nat)
        BY <3>11, UnitsConcat
      <4> QED
        BY <1>1, <3>3, <3>5, <3>11, <3>12, <4>1
    <3>14. (f \o (ux \o uy)) \o r = (f \o ux) \o (uy \o r)
      <4>1. f \o (ux \o uy) = (f \o ux) \o uy
        BY <3>11, UnitsAssociative
      <4>2. ((f \o ux) \o uy) \o r = (f \o ux) \o (uy \o r)
        BY <3>11, <3>13, UnitsAssociative
      <4> QED
        BY <4>1, <4>2
    <3>15. Flat(list) = (f \o ux) \o Flat(c)
      BY <1>8, <3>9, <3>10, <3>14 DEF f, ux, uy, r
    <3> QED
      BY <3>8, <3>13, <3>15
  <2> QED
    BY <2>1, <2>2
<1>11. PICK x \in Seq(Nat) : Len(x) = n /\ Flat(list) = x \o Flat(c) /\ c \in Seq(Q)
  BY <1>10
<1>12. c \in Seq(Vecs) /\ Flat(c) \in Seq(Nat)
  BY <1>11, SeqMonotonic, FlatSeq DEF Queued
<1>13. Flat(list) = SubSeq(Flat(list), 1, n) \o Flat(c)
  BY <1>11, <1>12, FirstPart
<1>14. Len(Flat(list)) = n + Len(Flat(c)) /\ Len(Flat(c)) \in Nat
  BY <1>11, <1>12, UnitsConcat, LenProperties
<1>15. c = <<>> <=> Len(Flat(c)) = 0
  <2>1. c = <<>> => Len(Flat(c)) = 0
    BY FlatEmpty
  <2>2. c # <<>> => Len(Flat(c)) >= 1
    BY <1>11, FlatNonempty
  <2> QED
    BY <1>14, <2>1, <2>2
<1>16. c = <<>> <=> n = Len(Flat(list))
  BY <1>1, <1>14, <1>15, SMTT(20)
<1>17. IsRest(Flat(list), n, Flat(c))
  BY <1>13 DEF IsRest
<1> QED
  BY <1>11, <1>16, <1>17

(* What is in the list lies below b. *)
LEMMA FlatRange ==
    ASSUME NEW b \in Nat, NEW l \in Nat, NEW list \in Seq(Queued(b, l))
    PROVE  Flat(list) \in Seq(0 .. b - 1)
<1> DEFINE S == Seq(0 .. b - 1)
           n == Len(list)
           F == FlatUpTo(list)
           N == {i \in Nat : i \in 0 .. n => F[i] \in S}
<1>1. list \in Seq(Vecs)
  BY SeqMonotonic DEF Queued
<1>2. n \in Nat /\ \A i \in 1 .. n : list[i] \in Queued(b, l)
  OBVIOUS
<1>3. F[0] = <<>> /\ \A i \in 1 .. n : F[i] = F[i - 1] \o UnitsOf(list[i])
  BY <1>1, FlatRecursion
<1>4. \A v \in Queued(b, l) : UnitsOf(v) \in S
  BY DEF Queued, Vecs, UnitsOf
<1> HIDE DEF F, n
<1>5. 0 \in N
  <2>1. <<>> \in S
    OBVIOUS
  <2> HIDE DEF S
  <2> QED
    BY <1>3, <2>1
<1>6. ASSUME NEW i \in Nat, i \in N PROVE i + 1 \in N
  <2>1. ASSUME i + 1 \in 0 .. n PROVE F[i + 1] \in S
    <3>1. F[i] \in S /\ i + 1 \in 1 .. n /\ (i + 1) - 1 = i
      BY <1>2, <1>6, <2>1
    <3>2. F[i + 1] = F[i] \o UnitsOf(list[i + 1]) /\ UnitsOf(list[i + 1]) \in S
      BY <1>2, <1>3, <1>4, <3>1
    <3> QED
      BY <3>1, <3>2, ConcatProperties
  <2> QED
    BY <2>1
<1> HIDE DEF N
<1>7. \A i \in Nat : i \in N
  BY <1>5, <1>6, NatSetInduction
<1>8. F[n] \in S
  BY <1>2, <1>7 DEF N
<1> QED
  BY <1>8, FlatIs DEF F, n

----------------------------------------------------------------------------
(* The inductive invariant. *)

(* What is in the receive buffer has arrived before. *)
BufferBound == inMsgs <= arrived

(* The iovecs that wait are not empty and end before the next unit.        *)
ListInv == iovs \in Seq(Queued(sent + 1, MaxSend + 1))

(* Input that was not read is announced, reported, or being read.          *)
ReadEdgeInv ==
    (~closed /\ (inMsgs > 0 \/ eof \/ rst)) =>
        ready \/ phase = "read" \/ (phase = "handle" /\ "in" \in revents)

(* Output that could be written is announced or reported, unless its event *)
(* was dropped; output that cannot be written will be announced.           *)
WriteEdgeInv ==
    /\ (~closed /\ iovs # <<>> /\ Room > 0 /\ ~missed) =>
          ready \/ (phase = "handle" /\ "out" \in revents)
    /\ (~closed /\ iovs # <<>> /\ Room = 0) => nospace

(* Writing is of interest exactly while there is something to write, and   *)
(* not only when the loop waits.                                           *)
InterestInv == ~closed => (want <=> iovs # <<>>)

IInv ==
    /\ TypeOK /\ CloseOnce /\ BufferBound /\ ListInv
    /\ ReadEdgeInv /\ WriteEdgeInv /\ InterestInv

LEMMA QueuedAreIovecs ==
    ASSUME NEW s \in Units, NEW list \in Seq(Queued(s + 1, MaxSend + 1))
    PROVE  list \in Seq(Iovecs) /\ list \in Seq(Vecs)
<1>1. Queued(s + 1, MaxSend + 1) \subseteq Iovecs
  BY ConnectionAssumption DEF Queued, Vecs, Iovecs, Units
<1>2. Queued(s + 1, MaxSend + 1) \subseteq Vecs
  BY DEF Queued
<1> QED
  BY <1>1, <1>2, SeqMonotonic

LEMMA ConnectionInit == Init => IInv
<1> SUFFICES ASSUME Init PROVE IInv
  OBVIOUS
<1>1. TypeOK
  BY ConnectionAssumption, Booleans DEF Init, TypeOK, Units, Phases
<1>2. CloseOnce /\ BufferBound /\ ListInv
  BY DEF Init, CloseOnce, BufferBound, ListInv
<1>3. ReadEdgeInv /\ WriteEdgeInv /\ InterestInv
  BY DEF Init, ReadEdgeInv, WriteEdgeInv, InterestInv
<1> QED
  BY <1>1, <1>2, <1>3 DEF IInv

(* Arrivals and resets put the descriptor on the ready list. *)
LEMMA ArrivalKeeps ==
    ASSUME IInv, Arrive \/ PeerShutdown \/ Reset
    PROVE  IInv'
<1>1. /\ ready' = TRUE
      /\ UNCHANGED <<sndbuf, received, nospace, want, registered, revents, conn,
                     phase>>
  BY DEF Arrive, PeerShutdown, Reset
<1>2. /\ inMsgs' \in 0 .. MaxIn /\ arrived' \in 0 .. MaxIn /\ BufferBound'
      /\ eof' \in BOOLEAN /\ rst' \in BOOLEAN
  BY ConnectionAssumption, Booleans
  DEF IInv, TypeOK, BufferBound, Arrive, PeerShutdown, Reset
<1>3. TypeOK'
  BY <1>1, <1>2, Booleans DEF IInv, TypeOK, conn
<1>4. CloseOnce' /\ ListInv' /\ ReadEdgeInv' /\ WriteEdgeInv' /\ InterestInv'
  BY <1>1
  DEF IInv, CloseOnce, ListInv, ReadEdgeInv, WriteEdgeInv, InterestInv, conn, Room
<1> QED
  BY <1>2, <1>3, <1>4 DEF IInv

(* Room comes back: if it was short and the connection waits for it, it is *)
(* announced.                                                              *)
LEMMA DrainKeeps ==
    ASSUME IInv, Drain
    PROVE  IInv'
<1>1. sndbuf \in Seq(Units) /\ sndbuf # <<>> /\ received \in Seq(Units)
  BY DEF IInv, TypeOK, Drain
<1>2. /\ Tail(sndbuf) \in Seq(Units) /\ Len(Tail(sndbuf)) = Len(sndbuf) - 1
      /\ Append(received, Head(sndbuf)) \in Seq(Units)
      /\ Len(sndbuf) \in Nat
  BY <1>1, HeadTailProperties, AppendProperties
<1>3. /\ received' = Append(received, Head(sndbuf)) /\ sndbuf' = Tail(sndbuf)
      /\ nospace' = FALSE
      /\ ready' = (ready \/ (nospace /\ want /\ registered))
      /\ ~rst
      /\ UNCHANGED <<inMsgs, arrived, eof, rst, want, registered, revents, conn,
                     phase>>
  BY DEF Drain
<1>4. ready' \in BOOLEAN
  BY <1>3, Booleans DEF IInv, TypeOK
<1>5. TypeOK'
  <2>1. /\ sndbuf' \in Seq(Units) /\ received' \in Seq(Units) /\ nospace' \in BOOLEAN
        /\ Len(sndbuf') <= Cap
    BY <1>2, <1>3, ConnectionAssumption, Booleans DEF IInv, TypeOK
  <2> QED
    BY <1>3, <1>4, <2>1 DEF IInv, TypeOK, conn
<1>6. CloseOnce' /\ BufferBound' /\ ListInv' /\ InterestInv'
  BY <1>3 DEF IInv, CloseOnce, BufferBound, ListInv, InterestInv, conn
<1>7. ReadEdgeInv'
  BY <1>3 DEF IInv, ReadEdgeInv, conn
<1>8. WriteEdgeInv'
  <2>1. Room' = Room + 1 /\ Room \in Nat
    BY <1>2, <1>3, ConnectionAssumption DEF Room, IInv, TypeOK
  <2>2. SUFFICES ASSUME ~closed, iovs # <<>>, ~missed
                 PROVE  ready' \/ (phase = "handle" /\ "out" \in revents)
    BY <1>3, <2>1 DEF WriteEdgeInv, conn
  <2>3. CASE Room = 0
    BY <1>3, <2>2, <2>3 DEF IInv, WriteEdgeInv, InterestInv, CloseOnce
  <2>4. CASE Room > 0
    BY <1>3, <2>2, <2>4 DEF IInv, WriteEdgeInv
  <2> QED
    BY <2>1, <2>3, <2>4
<1> QED
  BY <1>5, <1>6, <1>7, <1>8 DEF IInv

(* A step that closes the connection, or leaves its registration alone     *)
(* with nothing unread: all that an edge could be lost of is gone.         *)
LEMMA ClosingKeeps ==
    ASSUME IInv, CloseIfOpen, phase' \in Phases, idle' \in 0 .. MaxIdle,
           UNCHANGED <<sock, want, revents, iovs, sent, garbled, missed>>
    PROVE  IInv' /\ closed' = TRUE
<1> USE DEF CloseIfOpen, OnClose, sock
<1>1. closed' = TRUE
  BY Booleans DEF IInv, TypeOK
<1>2. CloseOnce'
  BY DEF IInv, CloseOnce, TypeOK
<1>3. TypeOK'
  BY Booleans DEF IInv, TypeOK
<1>4. BufferBound' /\ ListInv'
  BY DEF IInv, BufferBound, ListInv
<1>5. ReadEdgeInv' /\ WriteEdgeInv' /\ InterestInv'
  BY <1>1 DEF ReadEdgeInv, WriteEdgeInv, InterestInv
<1> QED
  BY <1>1, <1>2, <1>3, <1>4, <1>5 DEF IInv

LEMMA ForceCloseKeeps ==
    ASSUME IInv, ForceClose
    PROVE  IInv'
<1>1. CloseIfOpen /\ phase' = phase /\ idle' = idle
      /\ UNCHANGED <<sock, want, revents, iovs, sent, garbled, missed>>
  BY DEF ForceClose, CloseIfOpen
<1>2. phase' \in Phases /\ idle' \in 0 .. MaxIdle
  BY <1>1 DEF IInv, TypeOK
<1> QED
  BY <1>1, <1>2, ClosingKeeps

(* epoll_wait reports what the descriptor is ready for. *)
LEMMA PollKeeps ==
    ASSUME IInv, Poll \/ PollOther
    PROVE  IInv'
<1>1. CASE Poll
  <2>1. /\ phase = "poll" /\ ready' = FALSE /\ revents' = Readiness(want)
        /\ nospace' = (nospace \/ (want /\ Room = 0))
        /\ phase' = IF revents' = {} THEN "user" ELSE "handle"
        /\ UNCHANGED <<inMsgs, arrived, eof, rst, sndbuf, received, want,
                       registered, conn>>
    BY <1>1 DEF Poll
  <2>2. revents' \in SUBSET Events
    BY <2>1 DEF Readiness, Events
  <2>3. TypeOK'
    BY <2>1, <2>2, Booleans DEF IInv, TypeOK, conn, Phases
  <2>4. CloseOnce' /\ BufferBound' /\ ListInv' /\ InterestInv'
    BY <2>1 DEF IInv, CloseOnce, BufferBound, ListInv, InterestInv, conn
  <2>5. ReadEdgeInv'
    BY <2>1 DEF ReadEdgeInv, Readiness, conn
  <2>6. WriteEdgeInv'
    <3>1. (~closed /\ iovs # <<>> /\ Room > 0) => "out" \in revents'
      BY <2>1 DEF IInv, InterestInv, Readiness
    <3>2. (~closed /\ iovs # <<>> /\ Room = 0) => nospace'
      BY <2>1 DEF IInv, InterestInv
    <3> QED
      BY <2>1, <3>1, <3>2 DEF WriteEdgeInv, Room, conn
  <2> QED
    BY <2>3, <2>4, <2>5, <2>6 DEF IInv
<1>2. CASE PollOther
  <2> USE <1>2 DEF PollOther, sock, epoll, conn
  <2>1. TypeOK'
    BY DEF IInv, TypeOK, Phases
  <2>2. CloseOnce' /\ BufferBound' /\ ListInv' /\ InterestInv'
    BY DEF IInv, CloseOnce, BufferBound, ListInv, InterestInv
  <2>3. ReadEdgeInv' /\ WriteEdgeInv'
    BY DEF IInv, ReadEdgeInv, WriteEdgeInv, Room
  <2> QED
    BY <2>1, <2>2, <2>3 DEF IInv
<1> QED
  BY <1>1, <1>2

LEMMA HandleErrorKeeps ==
    ASSUME IInv, HandleError
    PROVE  IInv'
<1>1. CloseIfOpen /\ phase' = "user" /\ idle' = idle
      /\ UNCHANGED <<sock, want, revents, iovs, sent, garbled, missed>>
  BY DEF HandleError
<1>2. phase' \in Phases /\ idle' \in 0 .. MaxIdle
  BY <1>1 DEF IInv, TypeOK, Phases
<1> QED
  BY <1>1, <1>2, ClosingKeeps

(* A write event that is reported together with input is dropped, and      *)
(* recorded as missed.                                                     *)
LEMMA HandleReadKeeps ==
    ASSUME IInv, HandleRead
    PROVE  IInv'
<1> USE DEF HandleRead, sock, epoll
<1>1. idle' \in 0 .. MaxIdle /\ missed' \in BOOLEAN
  BY ConnectionAssumption, Booleans DEF IInv, TypeOK, Extended
<1>2. TypeOK'
  BY <1>1 DEF IInv, TypeOK, Phases
<1>3. CloseOnce' /\ BufferBound' /\ ListInv' /\ InterestInv'
  BY DEF IInv, CloseOnce, BufferBound, ListInv, InterestInv
<1>4. ReadEdgeInv'
  BY DEF IInv, ReadEdgeInv
<1>5. WriteEdgeInv'
  BY DEF IInv, WriteEdgeInv, Room
<1> QED
  BY <1>2, <1>3, <1>4, <1>5 DEF IInv

LEMMA ReadKeeps ==
    ASSUME IInv, ReadMore \/ ReadEnd
    PROVE  IInv'
<1>1. CASE ReadMore
  <2> USE <1>1 DEF ReadMore, epoll, conn
  <2>1. inMsgs' \in 0 .. MaxIn /\ BufferBound'
    <3>1. PICK n \in 1 .. inMsgs : inMsgs' = inMsgs - n
      BY DEF ReadMore
    <3>2. inMsgs \in Nat /\ arrived \in Nat /\ arrived' = arrived /\ inMsgs <= MaxIn
      BY ConnectionAssumption DEF IInv, TypeOK
    <3> QED
      BY <3>1, <3>2, ConnectionAssumption DEF IInv, BufferBound
  <2>2. TypeOK'
    BY <2>1 DEF IInv, TypeOK
  <2>3. CloseOnce' /\ ListInv' /\ InterestInv'
    BY DEF IInv, CloseOnce, ListInv, InterestInv
  <2>4. ReadEdgeInv' /\ WriteEdgeInv'
    BY DEF IInv, ReadEdgeInv, WriteEdgeInv, Room
  <2> QED
    BY <2>1, <2>2, <2>3, <2>4 DEF IInv
<1>2. CASE ReadEnd /\ (eof \/ rst)
  <2>1. CloseIfOpen /\ phase' = "user" /\ idle' = idle
        /\ UNCHANGED <<sock, want, revents, iovs, sent, garbled, missed>>
    BY <1>2 DEF ReadEnd
  <2>2. phase' \in Phases /\ idle' \in 0 .. MaxIdle
    BY <2>1 DEF IInv, TypeOK, Phases
  <2> QED
    BY <2>1, <2>2, ClosingKeeps
<1>3. CASE ReadEnd /\ ~(eof \/ rst)
  <2>1. /\ phase = "read" /\ phase' = "user" /\ (closed \/ inMsgs = 0)
        /\ UNCHANGED <<sock, epoll, conn>>
    BY <1>3 DEF ReadEnd, epoll, conn
  <2> USE <2>1 DEF sock, epoll, conn
  <2>2. TypeOK'
    BY DEF IInv, TypeOK, Phases
  <2>3. CloseOnce' /\ BufferBound' /\ ListInv' /\ InterestInv'
    BY DEF IInv, CloseOnce, BufferBound, ListInv, InterestInv
  <2>4. ReadEdgeInv'
    BY <1>3 DEF IInv, TypeOK, ReadEdgeInv
  <2>5. WriteEdgeInv'
    BY DEF IInv, WriteEdgeInv, Room
  <2> QED
    BY <2>2, <2>3, <2>4, <2>5 DEF IInv
<1> QED
  BY <1>1, <1>2, <1>3

LEMMA TickKeeps ==
    ASSUME IInv, Tick \/ NoTick
    PROVE  IInv'
<1>1. CASE Tick /\ idle' = 0
  <2>1. CloseIfOpen /\ phase' = "poll"
        /\ UNCHANGED <<sock, want, revents, iovs, sent, garbled, missed>>
    BY <1>1 DEF Tick
  <2>2. phase' \in Phases /\ idle' \in 0 .. MaxIdle
    BY <1>1, <2>1, ConnectionAssumption DEF Phases
  <2> QED
    BY <2>1, <2>2, ClosingKeeps
<1>2. CASE NoTick \/ (Tick /\ idle' # 0)
  <2>1. /\ phase = "user" /\ phase' = "poll"
        /\ idle' = idle \/ (idle > 0 /\ idle' = idle - 1)
        /\ UNCHANGED <<sock, epoll, closed, iovs, sent, closes, garbled, missed>>
    BY <1>2 DEF NoTick, Tick, epoll, conn
  <2> USE <2>1 DEF sock, epoll
  <2>2. TypeOK'
    <3>1. idle' \in 0 .. MaxIdle
      BY ConnectionAssumption DEF IInv, TypeOK
    <3> QED
      BY <3>1 DEF IInv, TypeOK, Phases
  <2>3. CloseOnce' /\ BufferBound' /\ ListInv' /\ InterestInv'
    BY DEF IInv, CloseOnce, BufferBound, ListInv, InterestInv
  <2>4. ReadEdgeInv' /\ WriteEdgeInv'
    BY DEF IInv, ReadEdgeInv, WriteEdgeInv, Room
  <2> QED
    BY <2>2, <2>3, <2>4 DEF IInv
<1> QED
  BY <1>1, <1>2

(* A Send that leaves something in the list has asked epoll for room. *)
LEMMA WaitingKeeps ==
    ASSUME IInv, ~closed, NEW short \in BOOLEAN, EnableWriting(TRUE, sndbuf', short),
           missed' = FALSE, iovs' # <<>>, ListInv', sent' \in Units,
           sndbuf' \in Seq(Units), Len(sndbuf') <= Cap, garbled' \in BOOLEAN,
           UNCHANGED <<inMsgs, arrived, eof, rst, received, registered, revents,
                       closed, idle, closes, phase>>
    PROVE  IInv'
<1>1. /\ want' = TRUE
      /\ nospace' = (nospace \/ short \/ Len(sndbuf') = Cap)
      /\ ready' = (ready \/ inMsgs > 0 \/ eof \/ rst \/ Len(sndbuf') < Cap)
  BY DEF EnableWriting
<1>2. nospace' \in BOOLEAN /\ ready' \in BOOLEAN /\ want' \in BOOLEAN
      /\ missed' \in BOOLEAN
  BY <1>1, Booleans DEF IInv, TypeOK
<1>3. TypeOK'
  <2>1. iovs' \in Seq(Iovecs)
    BY QueuedAreIovecs DEF ListInv
  <2> QED
    BY <1>2, <2>1 DEF IInv, TypeOK
<1>4. CloseOnce' /\ BufferBound' /\ InterestInv'
  BY <1>1 DEF IInv, CloseOnce, BufferBound, InterestInv
<1>5. ReadEdgeInv'
  BY <1>1 DEF ReadEdgeInv
<1>6. WriteEdgeInv'
  <2>1. Len(sndbuf') \in Nat /\ Room' = Cap - Len(sndbuf')
    BY LenProperties DEF Room
  <2>2. /\ Room' > 0 => Len(sndbuf') < Cap
        /\ Room' = 0 => Len(sndbuf') = Cap
    BY <2>1, ConnectionAssumption
  <2>3. (Room' > 0 => ready') /\ (Room' = 0 => nospace')
    BY <1>1, <2>2, Zenon
  <2> QED
    BY <2>3 DEF WriteEdgeInv
<1> QED
  BY <1>3, <1>4, <1>5, <1>6 DEF IInv

(* Units that are given to Send now follow those that were given before.   *)
LEMMA NextUnits ==
    ASSUME sent \in Units, NEW n \in 1 .. MaxSend, sent + n <= MaxUnits
    PROVE  /\ sent \in Nat /\ n \in Nat /\ sent + n \in Units
           /\ \A w \in 0 .. n : /\ [base |-> sent + 1, len |-> w] \in Vecs
                               /\ UnitsOf([base |-> sent + 1, len |-> w]) \in Seq(Units)
<1>1. sent \in Nat /\ n \in Nat /\ sent + n \in Units /\ MaxUnits \in Nat
  BY ConnectionAssumption DEF Units
<1>2. ASSUME NEW w \in 0 .. n
      PROVE  /\ [base |-> sent + 1, len |-> w] \in Vecs
             /\ UnitsOf([base |-> sent + 1, len |-> w]) \in Seq(Units)
  <2>1. w \in Nat /\ \A i \in 1 .. w : (sent + 1) + i - 1 \in Units
    BY <1>1, ConnectionAssumption DEF Units
  <2>2. UnitsOf([base |-> sent + 1, len |-> w]) = [i \in 1 .. w |-> (sent + 1) + i - 1]
    BY DEF UnitsOf
  <2>3. UnitsOf([base |-> sent + 1, len |-> w]) \in Seq(Units)
    BY <2>1, <2>2
  <2>4. [base |-> sent + 1, len |-> w] \in Vecs
    BY <1>1, <2>1 DEF Vecs
  <2> QED
    BY <2>3, <2>4
<1> QED
  BY <1>1, <1>2

(* SendInLoop with an empty list: everything, something or nothing fits.   *)
LEMMA SendDirectKeeps ==
    ASSUME IInv, NEW n \in 1 .. MaxSend, Send(n), SendDirect(n)
    PROVE  IInv'
<1> DEFINE w == Smaller(n, Room)
           full == Room = 0 \/ rst
           u == UnitsOf([base |-> sent + 1, len |-> w])
<1>1. /\ ~closed /\ sent + n <= MaxUnits /\ sent' = sent + n
      /\ UNCHANGED <<inMsgs, arrived, eof, rst, received, registered, revents,
                     closed, idle, closes, phase>>
  BY DEF Send
<1>2. /\ iovs = <<>>
      /\ sndbuf' = IF full THEN sndbuf ELSE sndbuf \o u
      /\ iovs' = IF full THEN <<[base |-> sent, len |-> n + 1]>>
                 ELSE IF w = n THEN <<>>
                 ELSE <<[base |-> sent + 1 + w, len |-> n - w]>>
      /\ garbled' = (garbled \/ full)
      /\ IF full \/ w < n
         THEN EnableWriting(TRUE, sndbuf', TRUE) /\ missed' = FALSE
         ELSE UNCHANGED <<want, ready, nospace, missed>>
  BY DEF SendDirect
<1>3. /\ sndbuf \in Seq(Units) /\ Len(sndbuf) \in Nat /\ Len(sndbuf) <= Cap
      /\ Room \in Nat /\ Room = Cap - Len(sndbuf)
  BY ConnectionAssumption DEF IInv, TypeOK, Room
<1>4. sent \in Nat /\ n \in Nat /\ sent' \in Units /\ sent \in Units /\ n <= MaxSend
  BY <1>1, NextUnits, ConnectionAssumption DEF IInv, TypeOK
<1>5. w \in 0 .. n /\ w <= Room
  BY <1>3, <1>4 DEF Smaller
<1>6. u \in Seq(Units) /\ Len(u) = w
  <2>1. /\ [base |-> sent + 1, len |-> w] \in Vecs
        /\ u \in Seq(Units)
    BY <1>1, <1>4, <1>5, NextUnits
  <2> QED
    BY <2>1, UnitsOfSeq
<1>7. garbled' \in BOOLEAN
  BY <1>2, Booleans DEF IInv, TypeOK
<1> HIDE DEF w, u
<1>8. sndbuf' \in Seq(Units) /\ Len(sndbuf') <= Cap
  <2>1. sndbuf \o u \in Seq(Units) /\ Len(sndbuf \o u) = Len(sndbuf) + w
    BY <1>3, <1>6, ConcatProperties
  <2> QED
    BY <1>2, <1>3, <1>5, <2>1, ConnectionAssumption
<1>9. CASE full \/ w < n
  <2>1. ListInv' /\ iovs' # <<>>
    <3> DEFINE x == [base |-> sent, len |-> n + 1]
               y == [base |-> sent + 1 + w, len |-> n - w]
    <3>1. CASE full
      <4>1. x \in Queued(sent' + 1, MaxSend + 1)
        BY <1>1, <1>4, ConnectionAssumption DEF Queued, Vecs
      <4>2. iovs' = <<x>>
        BY <1>2, <3>1
      <4> HIDE DEF x
      <4> QED
        BY <4>1, <4>2 DEF ListInv
    <3>2. CASE ~full
      <4>1. w < n
        BY <1>9, <3>2
      <4>2. y \in Queued(sent' + 1, MaxSend + 1)
        BY <1>1, <1>4, <1>5, <4>1, ConnectionAssumption DEF Queued, Vecs
      <4>3. iovs' = <<y>>
        BY <1>2, <1>4, <1>5, <3>2, <4>1
      <4> HIDE DEF y
      <4> QED
        BY <4>2, <4>3 DEF ListInv
    <3> QED
      BY <3>1, <3>2
  <2>2. EnableWriting(TRUE, sndbuf', TRUE) /\ missed' = FALSE
    BY <1>2, <1>9
  <2>3. TRUE \in BOOLEAN
    OBVIOUS
  <2> QED
    BY <1>1, <1>4, <1>7, <1>8, <2>1, <2>2, <2>3, WaitingKeeps
<1>10. CASE ~(full \/ w < n)
  <2>1. w = n /\ iovs' = <<>> /\ UNCHANGED <<want, ready, nospace, missed>>
    BY <1>2, <1>4, <1>5, <1>10
  <2>2. TypeOK'
    BY <1>1, <1>4, <1>7, <1>8, <2>1 DEF IInv, TypeOK
  <2>3. CloseOnce' /\ BufferBound' /\ InterestInv'
    BY <1>1, <1>2, <2>1 DEF IInv, CloseOnce, BufferBound, InterestInv
  <2>4. ListInv'
    BY <2>1 DEF ListInv
  <2>5. ReadEdgeInv' /\ WriteEdgeInv'
    BY <1>1, <2>1 DEF IInv, ReadEdgeInv, WriteEdgeInv
  <2> QED
    BY <2>2, <2>3, <2>4, <2>5 DEF IInv
<1> QED
  BY <1>9, <1>10

(* What is queued behind other data, or as a list. *)
LEMMA QueuedKeeps ==
    ASSUME IInv, NEW nodes \in Seq(Queued(sent' + 1, MaxSend + 1)), nodes # <<>>,
           SendQueued(nodes), ~closed, sent' \in Units, sent <= sent',
           UNCHANGED <<inMsgs, arrived, eof, rst, received, registered, revents,
                       closed, idle, closes, phase>>
    PROVE  IInv'
<1> DEFINE Q == Queued(sent' + 1, MaxSend + 1)
<1>1. /\ iovs' = iovs \o nodes /\ EnableWriting(TRUE, sndbuf, FALSE)
      /\ missed' = FALSE /\ sndbuf' = sndbuf /\ garbled' = garbled
  BY DEF SendQueued
<1>2. iovs \in Seq(Q)
  <2>1. sent \in Nat /\ sent' \in Nat
    BY ConnectionAssumption DEF IInv, TypeOK, Units
  <2>2. Queued(sent + 1, MaxSend + 1) \subseteq Q
    BY <2>1, ConnectionAssumption DEF Queued, Vecs
  <2> QED
    BY <2>2, SeqMonotonic DEF IInv, ListInv
<1> HIDE DEF Q
<1>3. iovs' \in Seq(Q) /\ iovs' # <<>>
  <2>1. nodes \in Seq(Q)
    BY DEF Q
  <2> QED
    BY <1>1, <1>2, <2>1, ConcatProperties, ConcatEqualIffEmpty
<1>4. ListInv'
  BY <1>3 DEF ListInv, Q
<1>5. EnableWriting(TRUE, sndbuf', FALSE)
  BY <1>1
<1>6. sndbuf' \in Seq(Units) /\ Len(sndbuf') <= Cap /\ garbled' \in BOOLEAN
      /\ FALSE \in BOOLEAN
  BY <1>1 DEF IInv, TypeOK
<1> QED
  BY <1>1, <1>3, <1>4, <1>5, <1>6, WaitingKeeps

LEMMA SendKeeps ==
    ASSUME IInv, NEW n \in 1 .. MaxSend, Send(n)
    PROVE  IInv'
<1>1. CASE SendDirect(n)
  BY <1>1, SendDirectKeeps
<1>2. CASE SendQueued(<<[base |-> sent + 1, len |-> n]>>)
  <2> DEFINE v == [base |-> sent + 1, len |-> n]
  <2>1. /\ ~closed /\ sent + n <= MaxUnits /\ sent' = sent + n
        /\ UNCHANGED <<inMsgs, arrived, eof, rst, received, registered, revents,
                       closed, idle, closes, phase>>
    BY DEF Send
  <2>2. sent \in Nat /\ n \in Nat /\ sent' \in Units /\ sent \in Units /\ n <= MaxSend
        /\ n >= 1 /\ sent <= sent'
    BY <2>1, NextUnits, ConnectionAssumption DEF IInv, TypeOK
  <2>3. v \in Queued(sent' + 1, MaxSend + 1)
    BY <2>1, <2>2, ConnectionAssumption DEF Queued, Vecs
  <2>4. <<v>> \in Seq(Queued(sent' + 1, MaxSend + 1)) /\ <<v>> # <<>>
    BY <2>3
  <2>5. SendQueued(<<v>>)
    BY <1>2
  <2> HIDE DEF v
  <2> QED
    BY <2>1, <2>2, <2>4, <2>5, QueuedKeeps
<1> QED
  BY <1>1, <1>2 DEF Send

LEMMA SendListKeeps ==
    ASSUME IInv, NEW n \in 1 .. MaxSend, NEW k \in 1 .. MaxSend, SendList(n, k)
    PROVE  IInv'
<1> DEFINE v == [base |-> sent + 1, len |-> n]
           x == [base |-> sent + n + 1, len |-> k]
<1>1. /\ ~closed /\ sent + n + k <= MaxUnits /\ sent' = sent + n + k
      /\ SendQueued(<<v, x>>)
      /\ UNCHANGED <<inMsgs, arrived, eof, rst, received, registered, revents,
                     closed, idle, closes, phase>>
  BY DEF SendList
<1>2. sent \in Nat /\ n \in Nat /\ k \in Nat /\ n >= 1 /\ k >= 1 /\ n <= MaxSend
      /\ k <= MaxSend /\ sent' \in Units /\ sent <= sent' /\ MaxSend \in Nat
  BY <1>1, ConnectionAssumption DEF IInv, TypeOK, Units
<1>3. v \in Queued(sent' + 1, MaxSend + 1) /\ x \in Queued(sent' + 1, MaxSend + 1)
  BY <1>1, <1>2 DEF Queued, Vecs
<1> HIDE DEF v, x
<1>4. <<v, x>> \in Seq(Queued(sent' + 1, MaxSend + 1)) /\ <<v, x>> # <<>>
  BY <1>3
<1> QED
  BY <1>1, <1>2, <1>4, QueuedKeeps

(* What writev takes of the list fits into the socket, and either nothing  *)
(* is left in the list or no room in the socket.                           *)
LEMMA WriteTakes ==
    ASSUME IInv, NEW all, all = Flat(iovs), NEW w, w = Smaller(Len(all), Room),
           sndbuf' = sndbuf \o SubSeq(all, 1, w), iovs' = Consume(iovs, w)
    PROVE  /\ iovs' \in Seq(Queued(sent + 1, MaxSend + 1))
           /\ sndbuf' \in Seq(Units) /\ Len(sndbuf') \in Nat /\ Len(sndbuf') <= Cap
           /\ all = SubSeq(all, 1, w) \o Flat(iovs')
           /\ SubSeq(all, 1, w) \in Seq(Units)
           /\ w = Len(all) => iovs' = <<>>
           /\ w # Len(all) => iovs' # <<>> /\ iovs # <<>> /\ Len(sndbuf') = Cap
<1> DEFINE b == sent + 1
           l == MaxSend + 1
<1>1. b \in Nat /\ l \in Nat /\ sent \in Units /\ sent \in Nat /\ sent <= MaxUnits
      /\ MaxUnits \in Nat
  BY ConnectionAssumption DEF IInv, TypeOK, Units
<1>2. iovs \in Seq(Queued(b, l))
  BY DEF IInv, ListInv
<1>3. 0 .. b - 1 \subseteq Units
  BY <1>1 DEF Units
<1> HIDE DEF b, l
<1>4. all \in Seq(Units)
  <2>1. all \in Seq(0 .. b - 1)
    BY <1>1, <1>2, FlatRange
  <2> QED
    BY <1>3, <2>1, SeqMonotonic
<1>5. /\ Len(all) \in Nat /\ sndbuf \in Seq(Units) /\ Len(sndbuf) \in Nat
      /\ Room \in Nat /\ Room = Cap - Len(sndbuf)
  BY <1>4, ConnectionAssumption DEF IInv, TypeOK, Room
<1>6. w \in 0 .. Len(all) /\ w <= Room /\ (w # Len(all) => w = Room)
  BY <1>5 DEF Smaller
<1>7. SubSeq(all, 1, w) \in Seq(Units) /\ Len(SubSeq(all, 1, w)) = w
  <2>1. \A i \in 1 .. w : all[i] \in Units
    BY <1>4, <1>5, <1>6
  <2> QED
    BY <1>4, <1>5, <1>6, <2>1
<1>8. /\ iovs' \in Seq(Queued(b, l))
      /\ all = SubSeq(all, 1, w) \o Flat(iovs')
      /\ iovs' = <<>> <=> w = Len(all)
  <2>1. w \in 0 .. Len(Flat(iovs)) /\ iovs' = Consume(iovs, w)
    BY <1>6
  <2>2. /\ iovs' \in Seq(Queued(b, l))
        /\ IsRest(Flat(iovs), w, Flat(iovs'))
        /\ iovs' = <<>> <=> w = Len(Flat(iovs))
    BY <1>1, <1>2, <2>1, ConsumeProperties
  <2> QED
    BY <2>2 DEF IsRest
<1>9. sndbuf' \in Seq(Units) /\ Len(sndbuf') = Len(sndbuf) + w
  BY <1>5, <1>7, ConcatProperties
<1>10. w # Len(all) => iovs # <<>>
  <2>1. iovs = <<>> => Len(all) = 0
    BY FlatEmpty
  <2> QED
    BY <1>6, <2>1
<1>11. Len(sndbuf') \in Nat /\ Len(sndbuf') <= Cap /\ (w # Len(all) => Len(sndbuf') = Cap)
  BY <1>5, <1>6, <1>9, ConnectionAssumption
<1> QED
  BY <1>7, <1>8, <1>9, <1>10, <1>11 DEF b, l

LEMMA HandleWriteKeeps ==
    ASSUME IInv, HandleWrite
    PROVE  IInv'
<1> DEFINE all == Flat(iovs)
           w == Smaller(Len(all), Room)
<1>1. phase = "handle" /\ revents = {"out"} /\ phase' = "user"
  BY DEF HandleWrite
<1>2. phase' \in Phases /\ Extended \in 0 .. MaxIdle
  BY <1>1, ConnectionAssumption DEF Phases, Extended
<1>3. CASE closed
  <2>1. UNCHANGED <<sock, epoll, conn>>
    BY <1>3 DEF HandleWrite
  <2> USE <2>1 DEF sock, epoll, conn
  <2>2. TypeOK'
    BY <1>2 DEF IInv, TypeOK
  <2>3. CloseOnce' /\ BufferBound' /\ ListInv'
    BY DEF IInv, CloseOnce, BufferBound, ListInv
  <2>4. ReadEdgeInv' /\ WriteEdgeInv' /\ InterestInv'
    BY <1>3 DEF ReadEdgeInv, WriteEdgeInv, InterestInv
  <2> QED
    BY <2>2, <2>3, <2>4 DEF IInv
<1>4. CASE ~closed /\ rst /\ iovs # <<>>
  <2>1. /\ CloseIfOpen /\ idle' = Extended
        /\ UNCHANGED <<sock, want, revents, iovs, sent, garbled, missed>>
    BY <1>4 DEF HandleWrite, CloseIfOpen
  <2> QED
    BY <1>2, <2>1, ClosingKeeps
<1>5. CASE ~closed /\ ~(rst /\ iovs # <<>>)
  <2>1. /\ idle' = Extended /\ missed' = FALSE
        /\ sndbuf' = sndbuf \o SubSeq(all, 1, w) /\ iovs' = Consume(iovs, w)
        /\ IF w = Len(all) THEN EnableWriting(FALSE, sndbuf', FALSE)
           ELSE nospace' = TRUE /\ UNCHANGED <<want, ready>>
        /\ UNCHANGED <<inMsgs, arrived, eof, rst, received, registered,
                       revents, closed, sent, closes, garbled>>
    BY <1>5 DEF HandleWrite
  <2> HIDE DEF w
  <2>2. /\ iovs' \in Seq(Queued(sent + 1, MaxSend + 1))
        /\ sndbuf' \in Seq(Units) /\ Len(sndbuf') \in Nat /\ Len(sndbuf') <= Cap
        /\ w = Len(all) => iovs' = <<>>
        /\ w # Len(all) => iovs' # <<>> /\ iovs # <<>> /\ Len(sndbuf') = Cap
    BY <2>1, WriteTakes DEF w
  <2> HIDE DEF all
  <2>3. ListInv'
    BY <2>1, <2>2 DEF ListInv
  <2>4. CASE w = Len(all)
    <3>1. /\ want' = FALSE /\ nospace' = (nospace \/ FALSE \/ FALSE)
          /\ ready' = (ready \/ inMsgs > 0 \/ eof \/ rst \/ FALSE)
      BY <2>1, <2>4 DEF EnableWriting
    <3>2. want' \in BOOLEAN /\ nospace' \in BOOLEAN /\ ready' \in BOOLEAN
          /\ missed' \in BOOLEAN
      BY <2>1, <3>1, Booleans DEF IInv, TypeOK
    <3>3. iovs' = <<>>
      BY <2>2, <2>4
    <3>4. TypeOK'
      <4>1. iovs' \in Seq(Iovecs)
        BY <3>3
      <4> QED
        BY <1>2, <2>1, <2>2, <3>2, <4>1 DEF IInv, TypeOK
    <3>5. CloseOnce' /\ BufferBound'
      BY <2>1 DEF IInv, CloseOnce, BufferBound
    <3>6. ReadEdgeInv' /\ WriteEdgeInv' /\ InterestInv'
      BY <2>1, <3>1, <3>3 DEF ReadEdgeInv, WriteEdgeInv, InterestInv
    <3> QED
      BY <2>3, <3>4, <3>5, <3>6 DEF IInv
  <2>5. CASE w # Len(all)
    <3>1. nospace' = TRUE /\ want' = want /\ ready' = ready
      BY <2>1, <2>5
    <3>2. nospace' \in BOOLEAN /\ missed' \in BOOLEAN
      BY <2>1, <3>1, Booleans
    <3>3. iovs # <<>> /\ iovs' # <<>> /\ Len(sndbuf') = Cap
      BY <2>2, <2>5
    <3>4. TypeOK'
      <4>1. sent' \in Units
        BY <2>1 DEF IInv, TypeOK
      <4>2. iovs' \in Seq(Iovecs)
        BY <2>1, <2>3, <4>1, QueuedAreIovecs DEF ListInv
      <4> QED
        BY <1>2, <2>1, <2>2, <3>1, <3>2, <4>2 DEF IInv, TypeOK
    <3>5. CloseOnce' /\ BufferBound' /\ InterestInv'
      BY <2>1, <3>1, <3>3 DEF IInv, CloseOnce, BufferBound, InterestInv
    <3>6. ReadEdgeInv'
      BY <1>1, <2>1, <3>1 DEF IInv, ReadEdgeInv
    <3>7. WriteEdgeInv'
      <4>1. Room' = 0
        BY <3>3, ConnectionAssumption DEF Room
      <4> QED
        BY <3>1, <4>1 DEF WriteEdgeInv
    <3> QED
      BY <2>3, <3>4, <3>5, <3>6, <3>7 DEF IInv
  <2> QED
    BY <2>4, <2>5
<1> QED
  BY <1>3, <1>4, <1>5

LEMMA StutterKeeps ==
    ASSUME IInv, UNCHANGED vars
    PROVE  IInv'
<1> USE DEF vars, sock, epoll, conn
<1>1. TypeOK'
  BY DEF IInv, TypeOK
<1>2. CloseOnce' /\ BufferBound' /\ ListInv' /\ InterestInv'
  BY DEF IInv, CloseOnce, BufferBound, ListInv, InterestInv
<1>3. ReadEdgeInv' /\ WriteEdgeInv'
  BY DEF IInv, ReadEdgeInv, WriteEdgeInv, Room
<1> QED
  BY <1>1, <1>2, <1>3 DEF IInv

LEMMA ConnectionStep ==
    ASSUME IInv, [Next]_vars
    PROVE  IInv'
<1>1. CASE Peer
  BY <1>1, ArrivalKeeps, DrainKeeps DEF Peer
<1>2. CASE User
  BY <1>2, ForceCloseKeeps, SendKeeps, SendListKeeps DEF User
<1>3. CASE LoopStep
  BY <1>3, PollKeeps, HandleErrorKeeps, HandleReadKeeps, ReadKeeps,
     HandleWriteKeeps, TickKeeps
  DEF LoopStep
<1>4. CASE UNCHANGED vars
  BY <1>4, StutterKeeps
<1> QED
  BY <1>1, <1>2, <1>3, <1>4 DEF Next

(* The connection, its list and its registration with epoll are consistent *)
(* in every reachable state, whatever the sizes of the buffer, the sends   *)
(* and the timeout are.                                                    *)
THEOREM ConnectionInvariance == SafetySpec => []IInv
<1>1. Init => IInv
  BY ConnectionInit
<1>2. IInv /\ [Next]_vars => IInv'
  BY ConnectionStep
<1> QED
  BY <1>1, <1>2, PTL DEF SafetySpec

(* The close callback runs at most once, and the channel is registered     *)
(* with epoll exactly until then (TcpConnection::OnClose).                 *)
THEOREM ConnectionCorrect == SafetySpec => []ConnectionInv
<1>1. IInv => ConnectionInv
  BY DEF IInv, ConnectionInv
<1> QED
  BY <1>1, ConnectionInvariance, PTL

(* Edge triggering loses nothing: when the loop waits, what was not read,  *)
(* and what could be written and was not dropped by HandleEvent, is on the *)
(* ready list; and EPOLLOUT is asked for exactly while iovecList_ is not   *)
(* empty.                                                                  *)
THEOREM EdgeCorrect == SafetySpec => []EdgeInv
<1>1. IInv => EdgeInv
  <2> SUFFICES ASSUME IInv PROVE EdgeInv
    OBVIOUS
  <2>1. NoLostReadEdge
    BY DEF IInv, ReadEdgeInv, NoLostReadEdge
  <2>2. NoLostWriteEdge
    BY DEF IInv, WriteEdgeInv, NoLostWriteEdge
  <2>3. WriteInterest
    BY DEF IInv, InterestInv, WriteInterest
  <2> QED
    BY <2>1, <2>2, <2>3 DEF EdgeInv
<1> QED
  BY <1>1, ConnectionInvariance, PTL

----------------------------------------------------------------------------
(* The stream. *)

(* The units 1 .. n, in order. *)
First(n) == [i \in 1 .. n |-> i]

(* What the peer got, what the kernel holds and what waits in the list. *)
Stream == (received \o sndbuf) \o Flat(iovs)

LEMMA StreamIs == StreamIntact <=> (~garbled => Stream = First(sent))
  BY DEF StreamIntact, Stream, First

LEMMA StreamTypes ==
    ASSUME IInv
    PROVE  /\ received \in Seq(Nat) /\ sndbuf \in Seq(Nat) /\ Flat(iovs) \in Seq(Nat)
           /\ received \o sndbuf \in Seq(Nat)
           /\ iovs \in Seq(Vecs) /\ sent \in Nat /\ sent \in Units
<1>1. sent \in Units /\ Units \subseteq Nat
  BY ConnectionAssumption DEF IInv, TypeOK, Units
<1>2. iovs \in Seq(Vecs)
  BY <1>1, QueuedAreIovecs DEF IInv, ListInv
<1>3. received \in Seq(Nat) /\ sndbuf \in Seq(Nat)
  BY <1>1, SeqMonotonic DEF IInv, TypeOK
<1> QED
  BY <1>1, <1>2, <1>3, FlatSeq, UnitsConcat

(* The next m units continue the first n. *)
LEMMA FirstGrows ==
    ASSUME NEW n \in Nat, NEW m \in Nat
    PROVE  First(n) \o UnitsOf([base |-> n + 1, len |-> m]) = First(n + m)
<1> DEFINE v == [base |-> 1, len |-> n + m]
           x == [base |-> 1, len |-> n]
           y == [base |-> n + 1, len |-> m]
<1>1. v \in Vecs /\ x \in Vecs /\ y \in Vecs
  BY DEF Vecs
<1>2. x.base = v.base /\ y.base = v.base + x.len /\ x.len + y.len = v.len
  OBVIOUS
<1>3. UnitsOf(v) = First(n + m) /\ UnitsOf(x) = First(n)
  <2>1. \A k \in Nat : UnitsOf([base |-> 1, len |-> k]) = First(k)
    <3> SUFFICES ASSUME NEW k \in Nat
                 PROVE  UnitsOf([base |-> 1, len |-> k]) = First(k)
      OBVIOUS
    <3>1. UnitsOf([base |-> 1, len |-> k]) = [i \in 1 .. k |-> 1 + i - 1]
      BY DEF UnitsOf
    <3>2. \A i \in 1 .. k : 1 + i - 1 = i
      OBVIOUS
    <3> QED
      BY <3>1, <3>2 DEF First
  <2> QED
    BY <2>1
<1> HIDE DEF v, x, y
<1>4. UnitsOf(v) = UnitsOf(x) \o UnitsOf(y)
  BY <1>1, <1>2, UnitsSplit
<1> QED
  BY <1>3, <1>4 DEF y

(* A Send appends its units to the stream. *)
LEMMA StreamGrows ==
    ASSUME IInv, StreamIntact, ~garbled' => ~garbled, NEW m \in Nat, sent' = sent + m,
           ~garbled' => Stream' = Stream \o UnitsOf([base |-> sent + 1, len |-> m])
    PROVE  StreamIntact'
<1>1. SUFFICES ASSUME ~garbled' PROVE Stream' = First(sent')
  BY StreamIs DEF StreamIntact, Stream, First
<1>2. Stream = First(sent)
  BY <1>1, StreamIs
<1>3. sent \in Nat
  BY StreamTypes
<1> QED
  BY <1>1, <1>2, <1>3, FirstGrows

(* The stream stays while nothing is sent. *)
LEMMA StreamStays ==
    ASSUME StreamIntact, Stream' = Stream, sent' = sent, garbled' = garbled
    PROVE  StreamIntact'
  BY DEF StreamIntact, Stream

(* A unit moves from the kernel to the peer. *)
LEMMA UnitMoves ==
    ASSUME NEW r \in Seq(Nat), NEW s \in Seq(Nat), s # <<>>
    PROVE  Append(r, Head(s)) \o Tail(s) = r \o s
<1>1. Head(s) \in Nat /\ Tail(s) \in Seq(Nat) /\ Len(Tail(s)) = Len(s) - 1
      /\ Len(s) \in Nat /\ Len(r) \in Nat
      /\ \A i \in 1 .. Len(s) - 1 : Tail(s)[i] = s[i + 1]
      /\ Head(s) = s[1]
  BY HeadTailProperties
<1>2. <<Head(s)>> \in Seq(Nat) /\ Append(r, Head(s)) = r \o <<Head(s)>>
  BY <1>1, AppendIsConcat
<1>3. s = <<Head(s)>> \o Tail(s)
  BY HeadTailProperties, <1>1
<1> DEFINE h == <<Head(s)>>
           t == Tail(s)
<1> HIDE DEF h, t
<1>4. h \in Seq(Nat) /\ t \in Seq(Nat) /\ s = h \o t
  BY <1>1, <1>2, <1>3 DEF h, t
<1>5. (r \o h) \o t = r \o (h \o t)
  BY <1>4, UnitsAssociative
<1> QED
  BY <1>2, <1>4, <1>5 DEF h, t

Regrouped(r, s, p, q) == (r \o (s \o p)) \o q = (r \o s) \o (p \o q)

LEMMA FourParts ==
    ASSUME NEW r \in Seq(Nat), NEW s \in Seq(Nat), NEW p \in Seq(Nat), NEW q \in Seq(Nat)
    PROVE  Regrouped(r, s, p, q)
<1>1. r \o s \in Seq(Nat)
  BY UnitsConcat
<1>2. r \o (s \o p) = (r \o s) \o p
  BY UnitsAssociative
<1>3. ((r \o s) \o p) \o q = (r \o s) \o (p \o q)
  BY <1>1, UnitsAssociative
<1> QED
  BY <1>2, <1>3 DEF Regrouped

LEMMA DrainStream ==
    ASSUME IInv, StreamIntact, Drain
    PROVE  StreamIntact'
<1>1. /\ received' = Append(received, Head(sndbuf)) /\ sndbuf' = Tail(sndbuf)
      /\ sndbuf # <<>> /\ iovs' = iovs /\ sent' = sent /\ garbled' = garbled
  BY DEF Drain, conn
<1>2. received' \o sndbuf' = received \o sndbuf
  BY <1>1, StreamTypes, UnitMoves
<1>3. Stream' = Stream
  BY <1>1, <1>2 DEF Stream
<1> QED
  BY <1>1, <1>3, StreamStays

(* A direct write puts a prefix of the new units into the kernel and the   *)
(* others into the list; a refused one garbles the stream.                 *)
LEMMA SendDirectStream ==
    ASSUME IInv, StreamIntact, NEW n \in 1 .. MaxSend, Send(n), SendDirect(n)
    PROVE  StreamIntact'
<1> DEFINE w == Smaller(n, Room)
           full == Room = 0 \/ rst
           v == [base |-> sent + 1, len |-> n]
           x == [base |-> sent + 1, len |-> w]
           y == [base |-> sent + 1 + w, len |-> n - w]
<1>1. /\ iovs = <<>> /\ sent' = sent + n /\ received' = received
      /\ garbled' = (garbled \/ full)
      /\ sndbuf' = IF full THEN sndbuf ELSE sndbuf \o UnitsOf(x)
      /\ iovs' = IF full THEN <<[base |-> sent, len |-> n + 1]>>
                 ELSE IF w = n THEN <<>> ELSE <<y>>
  BY DEF Send, SendDirect
<1>2. n \in Nat /\ (~garbled' => ~garbled)
  <2>1. ~garbled' => ~garbled
    BY <1>1, Zenon
  <2> QED
    BY <2>1
<1>3. SUFFICES ASSUME ~garbled' PROVE Stream' = Stream \o UnitsOf(v)
  BY <1>1, <1>2, StreamGrows
<1>4. ~full
  BY <1>1, <1>3
<1>5. sent \in Nat /\ Room \in Nat /\ w \in Nat /\ w <= n
  BY <1>2, StreamTypes, ConnectionAssumption DEF IInv, TypeOK, Room, Smaller
<1> HIDE DEF w
<1>6. v \in Vecs /\ x \in Vecs /\ y \in Vecs
      /\ x.base = v.base /\ y.base = v.base + x.len /\ x.len + y.len = v.len
  BY <1>2, <1>5 DEF Vecs
<1>7. w = n => y.len = 0 /\ UnitsOf(y) = <<>>
  <2>1. w = n => y.len = 0
    BY <1>2
  <2>2. y.len = 0 => UnitsOf(y) = <<>>
    <3> HIDE DEF y
    <3>1. UnitsOf(y) \in Seq(Nat) /\ Len(UnitsOf(y)) = y.len
      BY <1>6, UnitsOfSeq
    <3> QED
      BY <3>1
  <2> QED
    BY <2>1, <2>2
<1>8. /\ sndbuf' = sndbuf \o UnitsOf(x)
      /\ iovs' = IF w = n THEN <<>> ELSE <<y>>
  BY <1>1, <1>4
<1> HIDE DEF v, x, y, full
<1>9. UnitsOf(v) = UnitsOf(x) \o UnitsOf(y)
  BY <1>6, UnitsSplit
<1>10. UnitsOf(x) \in Seq(Nat) /\ UnitsOf(y) \in Seq(Nat) /\ UnitsOf(v) \in Seq(Nat)
  BY <1>6, UnitsOfSeq
<1>11. Flat(iovs') = UnitsOf(y)
  <2>1. CASE w = n
    BY <1>7, <1>8, <2>1, FlatEmpty
  <2>2. CASE w # n
    <3>1. <<>> \in Seq(Vecs) /\ <<y>> = Append(<<>>, y)
      OBVIOUS
    <3>2. Flat(<<y>>) = Flat(<<>>) \o UnitsOf(y)
      BY <1>6, <3>1, FlatAppend
    <3>3. <<>> \o UnitsOf(y) = UnitsOf(y)
      BY <1>10, ConcatEmptySeq
    <3> QED
      BY <1>8, <2>2, <3>2, <3>3, FlatEmpty
  <2> QED
    BY <2>1, <2>2
<1>12. Stream' = (received \o (sndbuf \o UnitsOf(x))) \o UnitsOf(y)
  BY <1>1, <1>8, <1>11 DEF Stream
<1>13. Stream = received \o sndbuf
  <2>1. Flat(iovs) = <<>>
    BY <1>1, FlatEmpty
  <2>2. (received \o sndbuf) \o <<>> = received \o sndbuf
    BY StreamTypes, ConcatEmptySeq
  <2> QED
    BY <2>1, <2>2 DEF Stream
<1>14. received \in Seq(Nat) /\ sndbuf \in Seq(Nat)
  BY StreamTypes
<1>15. Regrouped(received, sndbuf, UnitsOf(x), UnitsOf(y))
  BY <1>10, <1>14, FourParts
<1> QED
  BY <1>9, <1>12, <1>13, <1>15 DEF Regrouped

(* What is put into the list goes to the end of the stream. *)
LEMMA QueuedStream ==
    ASSUME IInv, NEW v \in Vecs, Flat(iovs') = Flat(iovs) \o UnitsOf(v),
           received' = received, sndbuf' = sndbuf
    PROVE  Stream' = Stream \o UnitsOf(v)
<1>1. Stream' = (received \o sndbuf) \o (Flat(iovs) \o UnitsOf(v))
  BY DEF Stream
<1>2. UnitsOf(v) \in Seq(Nat)
  BY UnitsOfSeq
<1>3. ((received \o sndbuf) \o Flat(iovs)) \o UnitsOf(v)
      = (received \o sndbuf) \o (Flat(iovs) \o UnitsOf(v))
  BY <1>2, StreamTypes, UnitsAssociative
<1> QED
  BY <1>1, <1>3 DEF Stream

LEMMA SendQueuedStream ==
    ASSUME IInv, StreamIntact, NEW n \in 1 .. MaxSend, Send(n),
           SendQueued(<<[base |-> sent + 1, len |-> n]>>)
    PROVE  StreamIntact'
<1> DEFINE v == [base |-> sent + 1, len |-> n]
<1>1. /\ iovs' = iovs \o <<v>> /\ sent' = sent + n /\ received' = received
      /\ sndbuf' = sndbuf /\ garbled' = garbled
  BY DEF Send, SendQueued
<1>2. n \in Nat /\ iovs \in Seq(Vecs) /\ v \in Vecs
  BY StreamTypes DEF Vecs
<1> HIDE DEF v
<1>3. iovs' = Append(iovs, v)
  BY <1>1, <1>2, AppendIsConcat
<1>4. Flat(iovs') = Flat(iovs) \o UnitsOf(v)
  BY <1>2, <1>3, FlatAppend
<1>5. Stream' = Stream \o UnitsOf(v)
  BY <1>1, <1>2, <1>4, QueuedStream
<1> QED
  BY <1>1, <1>2, <1>5, StreamGrows DEF v

LEMMA SendListStream ==
    ASSUME IInv, StreamIntact, NEW n \in 1 .. MaxSend, NEW k \in 1 .. MaxSend,
           SendList(n, k)
    PROVE  StreamIntact'
<1> DEFINE v == [base |-> sent + 1, len |-> n + k]
           x == [base |-> sent + 1, len |-> n]
           y == [base |-> sent + n + 1, len |-> k]
<1>1. /\ iovs' = iovs \o <<x, y>> /\ sent' = sent + n + k /\ received' = received
      /\ sndbuf' = sndbuf /\ garbled' = garbled
  BY DEF SendList, SendQueued
<1>2. n \in Nat /\ k \in Nat /\ sent \in Nat /\ iovs \in Seq(Vecs)
  BY StreamTypes
<1>3. v \in Vecs /\ x \in Vecs /\ y \in Vecs
      /\ x.base = v.base /\ y.base = v.base + x.len /\ x.len + y.len = v.len
  BY <1>2 DEF Vecs
<1>4. sent' = sent + (n + k) /\ n + k \in Nat
  BY <1>1, <1>2
<1> HIDE DEF v, x, y
<1>5. iovs' = Append(Append(iovs, x), y) /\ Append(iovs, x) \in Seq(Vecs)
  BY <1>1, <1>2, <1>3
<1>6. Flat(iovs') = (Flat(iovs) \o UnitsOf(x)) \o UnitsOf(y)
  BY <1>2, <1>3, <1>5, FlatAppend
<1>7. UnitsOf(v) = UnitsOf(x) \o UnitsOf(y)
  BY <1>3, UnitsSplit
<1>8. (Flat(iovs) \o UnitsOf(x)) \o UnitsOf(y) = Flat(iovs) \o (UnitsOf(x) \o UnitsOf(y))
  BY <1>3, StreamTypes, UnitsOfSeq, UnitsAssociative
<1>9. Stream' = Stream \o UnitsOf(v)
  BY <1>1, <1>3, <1>6, <1>7, <1>8, QueuedStream
<1> QED
  BY <1>1, <1>4, <1>9, StreamGrows DEF v

(* OnWrite moves units from the front of the list to the kernel. *)
LEMMA HandleWriteStream ==
    ASSUME IInv, StreamIntact, HandleWrite
    PROVE  StreamIntact'
<1> DEFINE all == Flat(iovs)
           w == Smaller(Len(all), Room)
<1>1. CASE closed \/ (rst /\ iovs # <<>>)
  <2>1. UNCHANGED <<received, sndbuf, iovs, sent, garbled>>
    BY <1>1 DEF HandleWrite, sock, conn
  <2> QED
    BY <2>1, StreamStays DEF Stream
<1>2. CASE ~closed /\ ~(rst /\ iovs # <<>>)
  <2>1. /\ sndbuf' = sndbuf \o SubSeq(all, 1, w) /\ iovs' = Consume(iovs, w)
        /\ received' = received /\ sent' = sent /\ garbled' = garbled
    BY <1>2 DEF HandleWrite
  <2> HIDE DEF w
  <2>2. /\ iovs' \in Seq(Queued(sent + 1, MaxSend + 1))
        /\ all = SubSeq(all, 1, w) \o Flat(iovs')
        /\ SubSeq(all, 1, w) \in Seq(Units)
    BY <2>1, WriteTakes DEF w
  <2> DEFINE p == SubSeq(all, 1, w)
             q == Flat(iovs')
  <2>3. p \in Seq(Nat) /\ q \in Seq(Nat)
    <3>1. Units \subseteq Nat
      BY DEF Units
    <3>2. iovs' \in Seq(Vecs)
      BY <2>2, StreamTypes, QueuedAreIovecs
    <3> QED
      BY <2>2, <3>1, <3>2, SeqMonotonic, FlatSeq
  <2>4. all = p \o q /\ sndbuf' = sndbuf \o p
    BY <2>1, <2>2
  <2>5. Stream = (received \o sndbuf) \o all /\ Stream' = (received' \o sndbuf') \o q
    BY DEF Stream
  <2> HIDE DEF p, q, all
  <2>6. Regrouped(received, sndbuf, p, q)
    <3>1. received \in Seq(Nat) /\ sndbuf \in Seq(Nat)
      BY StreamTypes
    <3> QED
      BY <2>3, <3>1, FourParts
  <2>7. Stream' = Stream
    BY <2>1, <2>4, <2>5, <2>6 DEF Regrouped
  <2> QED
    BY <2>1, <2>7, StreamStays
<1> QED
  BY <1>1, <1>2

LEMMA StreamStep ==
    ASSUME IInv, StreamIntact, [Next]_vars
    PROVE  StreamIntact'
<1>1. CASE Drain
  BY <1>1, DrainStream
<1>2. ASSUME NEW n \in 1 .. MaxSend, Send(n) PROVE StreamIntact'
  <2>1. CASE SendDirect(n)
    BY <1>2, <2>1, SendDirectStream
  <2>2. CASE SendQueued(<<[base |-> sent + 1, len |-> n]>>)
    BY <1>2, <2>2, SendQueuedStream
  <2> QED
    BY <1>2, <2>1, <2>2 DEF Send
<1>3. ASSUME NEW n \in 1 .. MaxSend, NEW k \in 1 .. MaxSend, SendList(n, k)
      PROVE  StreamIntact'
  BY <1>3, SendListStream
<1>4. CASE HandleWrite
  BY <1>4, HandleWriteStream
<1>5. CASE \/ Arrive \/ PeerShutdown \/ Reset \/ ForceClose \/ Poll \/ PollOther
           \/ HandleError \/ HandleRead \/ ReadMore \/ ReadEnd \/ NoTick \/ Tick
           \/ UNCHANGED vars
  <2>1. UNCHANGED <<received, sndbuf, iovs, sent, garbled>>
    BY <1>5
    DEF Arrive, PeerShutdown, Reset, ForceClose, Poll, PollOther, HandleError,
        HandleRead, ReadMore, ReadEnd, NoTick, Tick, vars, sock, conn
  <2> QED
    BY <2>1, StreamStays DEF Stream
<1> QED
  BY <1>1, <1>2, <1>3, <1>4, <1>5 DEF Next, Peer, User, LoopStep

(* Whatever the sizes of the socket's buffer and of the sends, and however *)
(* writes are cut: no unit is lost, repeated or moved, until a direct      *)
(* write is refused (TcpConnection::SendInLoop and OnWrite).               *)
THEOREM StreamCorrect == SafetySpec => []StreamIntact
<1>1. Init => StreamIntact
  <2> SUFFICES ASSUME Init PROVE StreamIntact
    OBVIOUS
  <2>1. received = <<>> /\ sndbuf = <<>> /\ iovs = <<>> /\ sent = 0
    BY DEF Init
  <2>2. Stream = <<>>
    BY <2>1, FlatEmpty DEF Stream
  <2>3. First(sent) = <<>>
    BY <2>1 DEF First
  <2> QED
    BY <2>2, <2>3, StreamIs
<1>2. IInv /\ StreamIntact /\ [Next]_vars => StreamIntact'
  BY StreamStep
<1> QED
  BY <1>1, <1>2, ConnectionInvariance, PTL DEF SafetySpec

=============================================================================
