-------------------------- MODULE MembershipProofs --------------------------
(***************************************************************************)
(* Proofs about Membership, for any nodes, sample size, intervals and      *)
(* silences: the failure detector's windows, members and tombstones.       *)
(***************************************************************************)
EXTENDS Membership, SequenceTheorems, WellFoundedInduction, TLAPS

(***************************************************************************)
(* Sums of sequences.                                                      *)
(***************************************************************************)
LEMMA LeastNumber ==
    ASSUME NEW T, T \in SUBSET Nat, T # {}
    PROVE  \E m \in T : \A k \in T : m <= k
<1> DEFINE R == OpToRel(<, Nat)
<1>1. IsWellFoundedOn(R, Nat)
  BY Zenon, NatLessThanWellFounded
<1>2. \A x, y \in Nat : <<y, x>> \in R <=> y < x
  BY Zenon DEF OpToRel
<1> HIDE DEF R
<1>3. PICK m \in T : \A k \in T : ~(<<k, m>> \in R)
  BY Zenon, <1>1, WFMin
<1>4. \A k \in T : ~(k < m)
  BY Zenon, <1>2, <1>3
<1>5. \A k \in T : m <= k
  BY <1>4
<1> QED  BY Zenon, <1>5

LEMMA NumberInduction ==
    ASSUME NEW T, T \in SUBSET Nat, 0 \in T, \A n \in T : n + 1 \in T
    PROVE  T = Nat
<1> DEFINE U == Nat \ T
<1> SUFFICES ASSUME U # {} PROVE FALSE
  BY Zenon
<1>1. U \in SUBSET Nat
  BY Zenon
<1> HIDE DEF U
<1>2. PICK m \in U : \A k \in U : m <= k
  BY Zenon, <1>1, LeastNumber
<1>3. m # 0 /\ m - 1 \in Nat /\ m - 1 \notin U
  BY <1>1, <1>2 DEF U
<1> QED  BY <1>2, <1>3 DEF U

\* The sums of the first i elements of s.
Partial(s) == LET f[i \in 0..Len(s)] == IF i = 0 THEN 0 ELSE f[i - 1] + s[i] IN f

LEMMA PartialSums ==
    ASSUME NEW s \in Seq(Nat)
    PROVE  /\ Sum(s) = Partial(s)[Len(s)]
           /\ Partial(s)[0] = 0
           /\ \A n \in Nat : n < Len(s) => Partial(s)[n + 1] = Partial(s)[n] + s[n + 1]
<1> DEFINE Solves(g, n) == g = [i \in 0..n |-> IF i = 0 THEN 0 ELSE g[i - 1] + s[i]]
           T == {n \in Nat : \E g : Solves(g, n)}
<1>1. 0 \in T
  <2> DEFINE g == [i \in 0..0 |-> 0]
  <2>1. Solves(g, 0)
    OBVIOUS
  <2> QED  BY Zenon, <2>1
<1>2. ASSUME NEW n \in T PROVE n + 1 \in T
  <2>1. PICK g : Solves(g, n)
    BY Zenon
  <2> DEFINE h == [i \in 0..n + 1 |-> IF i = n + 1 THEN g[n] + s[n + 1] ELSE g[i]]
  <2>2. Solves(h, n + 1)
    BY <2>1
  <2> HIDE DEF Solves
  <2> QED  BY <2>2
<1>3. T = Nat
  <2>1. T \in SUBSET Nat
    BY Zenon
  <2> HIDE DEF T
  <2> QED  BY Zenon, <1>1, <1>2, <2>1, NumberInduction
<1>4. Len(s) \in Nat
  BY Zenon, LenProperties
<1>5. \E g : Solves(g, Len(s))
  BY Zenon, <1>3, <1>4
<1>6. Partial(s) = CHOOSE g : Solves(g, Len(s))
  BY Zenon DEF Partial
<1>7. Solves(Partial(s), Len(s))
  BY <1>5, <1>6, Zenon DEF Solves
<1>8. Sum(s) = Partial(s)[Len(s)]
  BY Zenon DEF Sum, Partial
<1>9. \A i \in 0..Len(s) : Partial(s)[i] = IF i = 0 THEN 0 ELSE Partial(s)[i - 1] + s[i]
  BY Zenon, <1>7
<1>10. Partial(s)[0] = 0
  BY <1>4, <1>9
<1>11. ASSUME NEW n \in Nat, n < Len(s)
       PROVE  Partial(s)[n + 1] = Partial(s)[n] + s[n + 1]
  <2>1. n + 1 \in 0..Len(s) /\ n + 1 # 0 /\ (n + 1) - 1 = n
    BY <1>4, <1>11
  <2>2. Partial(s)[n + 1] = Partial(s)[(n + 1) - 1] + s[n + 1]
    BY Zenon, <1>9, <2>1
  <2> QED  BY Zenon, <2>1, <2>2
<1> QED  BY Zenon, <1>8, <1>10, <1>11

LEMMA PartialBounds ==
    ASSUME NEW s \in Seq(Nat), NEW i \in 0..Len(s)
    PROVE  Partial(s)[i] \in Nat /\ \A k \in 1..i : Partial(s)[i] >= s[k]
<1> DEFINE P(j) == Partial(s)[j] \in Nat /\ \A k \in 1..j : Partial(s)[j] >= s[k]
           T == {n \in Nat : n <= Len(s) => P(n)}
<1>1. Len(s) \in Nat /\ \A k \in 1..Len(s) : s[k] \in Nat
  BY Zenon, LenProperties, ElementOfSeq
<1>2. 0 \in T
  BY PartialSums
<1>3. ASSUME NEW n \in T PROVE n + 1 \in T
  <2> SUFFICES ASSUME n + 1 <= Len(s) PROVE P(n + 1)
    OBVIOUS
  <2>1. n \in Nat /\ n < Len(s) /\ P(n) /\ n + 1 \in 1..Len(s)
    BY <1>1
  <2>2. Partial(s)[n + 1] = Partial(s)[n] + s[n + 1]
    BY Zenon, <2>1, PartialSums
  <2> QED  BY SMTT(30), <1>1, <2>1, <2>2
<1>4. T = Nat
  <2>1. T \in SUBSET Nat
    BY Zenon
  <2> HIDE DEF T
  <2> QED  BY Zenon, <1>2, <1>3, <2>1, NumberInduction
<1>5. i \in T /\ i <= Len(s)
  BY <1>1, <1>4
<1> QED  BY Zenon, <1>5

LEMMA SumBounds ==
    ASSUME NEW s \in Seq(Nat)
    PROVE  Sum(s) \in Nat /\ \A k \in 1..Len(s) : Sum(s) >= s[k]
<1>1. Len(s) \in 0..Len(s)
  BY LenProperties
<1> QED  BY Zenon, <1>1, PartialSums, PartialBounds

\* Putting a number in front adds it, and dropping the last takes it away.
LEMMA SumOfCons ==
    ASSUME NEW s \in Seq(Nat), NEW x \in Nat, NEW t \in Seq(Nat),
           Len(t) = Len(s) + 1, t[1] = x, \A k \in 1..Len(s) : t[k + 1] = s[k]
    PROVE  Sum(t) = x + Sum(s)
<1> DEFINE T == {n \in Nat : n <= Len(s) => Partial(t)[n + 1] = x + Partial(s)[n]}
<1>1. Len(s) \in Nat
  BY Zenon, LenProperties
<1>2. 0 \in T
  <2>1. 0 < Len(t) /\ 0 + 1 = 1
    BY <1>1
  <2>2. Partial(t)[1] = Partial(t)[0] + t[1]
    BY <2>1, PartialSums
  <2> QED  BY <2>2, PartialSums
<1>3. ASSUME NEW n \in T PROVE n + 1 \in T
  <2> SUFFICES ASSUME n + 1 <= Len(s)
               PROVE  Partial(t)[(n + 1) + 1] = x + Partial(s)[n + 1]
    OBVIOUS
  <2>1. /\ n \in Nat /\ n < Len(s) /\ n \in 0..Len(s) /\ n + 1 \in 1..Len(s)
        /\ n + 1 \in Nat /\ n + 1 < Len(t)
        /\ Partial(t)[n + 1] = x + Partial(s)[n]
    BY SMTT(30), <1>1
  <2>2. Partial(t)[(n + 1) + 1] = Partial(t)[n + 1] + t[(n + 1) + 1]
    BY Zenon, <2>1, PartialSums
  <2>3. Partial(s)[n + 1] = Partial(s)[n] + s[n + 1]
    BY Zenon, <2>1, PartialSums
  <2>4. t[(n + 1) + 1] = s[n + 1]
    BY Zenon, <2>1
  <2>5. s[n + 1] \in Nat /\ Partial(s)[n] \in Nat
    BY Zenon, <2>1, ElementOfSeq, PartialBounds
  <2> QED  BY SMTT(30), <2>1, <2>2, <2>3, <2>4, <2>5
<1>4. T = Nat
  <2>1. T \in SUBSET Nat
    BY Zenon
  <2> HIDE DEF T
  <2> QED  BY Zenon, <1>2, <1>3, <2>1, NumberInduction
<1>5. Len(s) \in T
  BY Zenon, <1>1, <1>4
<1>6. Partial(t)[Len(s) + 1] = x + Partial(s)[Len(s)]
  BY <1>1, <1>5
<1> QED  BY Zenon, <1>6, PartialSums

LEMMA SumOfFront ==
    ASSUME NEW t \in Seq(Nat), NEW f \in Seq(Nat), Len(t) = Len(f) + 1,
           \A k \in 1..Len(f) : f[k] = t[k]
    PROVE  Sum(f) = Sum(t) - t[Len(t)]
<1> DEFINE T == {n \in Nat : n <= Len(f) => Partial(f)[n] = Partial(t)[n]}
<1>1. Len(f) \in Nat
  BY Zenon, LenProperties
<1>2. 0 \in T
  BY Zenon, PartialSums
<1>3. ASSUME NEW n \in T PROVE n + 1 \in T
  <2> SUFFICES ASSUME n + 1 <= Len(f) PROVE Partial(f)[n + 1] = Partial(t)[n + 1]
    OBVIOUS
  <2>1. /\ n \in Nat /\ n < Len(f) /\ n < Len(t) /\ n + 1 \in 1..Len(f)
        /\ Partial(f)[n] = Partial(t)[n]
    BY <1>1
  <2>2. Partial(f)[n + 1] = Partial(f)[n] + f[n + 1]
    BY Zenon, <2>1, PartialSums
  <2>3. Partial(t)[n + 1] = Partial(t)[n] + t[n + 1]
    BY Zenon, <2>1, PartialSums
  <2> QED  BY Zenon, <2>1, <2>2, <2>3
<1>4. T = Nat
  <2>1. T \in SUBSET Nat
    BY Zenon
  <2> HIDE DEF T
  <2> QED  BY Zenon, <1>2, <1>3, <2>1, NumberInduction
<1>5. Len(f) \in T
  BY Zenon, <1>1, <1>4
<1>6. Partial(f)[Len(f)] = Partial(t)[Len(f)]
  BY <1>1, <1>5
<1>7. Partial(t)[Len(t)] = Partial(t)[Len(f)] + t[Len(t)]
  <2>1. Len(f) < Len(t) /\ Len(t) = Len(f) + 1
    BY <1>1
  <2> QED  BY Zenon, <1>1, <2>1, PartialSums
<1>8. Partial(t)[Len(f)] \in Nat /\ t[Len(t)] \in Nat
  <2>1. Len(f) \in 0..Len(t) /\ Len(t) \in 1..Len(t)
    BY <1>1
  <2> QED  BY Zenon, <2>1, PartialBounds, ElementOfSeq
<1> QED  BY <1>6, <1>7, <1>8, PartialSums

-----------------------------------------------------------------------------
(***************************************************************************)
(* A window and the intervals it was given: the k-th latest of them is k   *)
(* places before index, going round, and the one that may be zero, the     *)
(* second of all, is never the only one.                                   *)
(***************************************************************************)
Window == [age: Nat, intervals: [0..(sampleSize - 1) -> Nat], index: 1..sampleSize,
           isFull: BOOLEAN, sum: Nat]

Before(index, k) == IF k <= index THEN index - k ELSE index - k + sampleSize

Holds(v, a) ==
    /\ v \in Window
    /\ a \in Seq(Nat)
    /\ Len(a) = Size(v)
    /\ \A k \in 1..Len(a) : a[k] = v.intervals[Before(v.index, k)]
    /\ v.sum = Sum(a)
    /\ Len(a) = 1 => a[1] > 0
    /\ \A j, k \in 1..Len(a) : a[j] = 0 /\ a[k] = 0 => j = k

LEMMA SizeIsPositive ==
    ASSUME NEW v \in Window
    PROVE  Size(v) \in 1..sampleSize /\ sampleSize \in Nat
BY MembershipAssumption DEF Window, Size

LEMMA WindowsAreWindows ==
    ASSUME NEW v \in Window
    PROVE  v # NoWindow
<1>1. NoWindow.age = -1
  BY Zenon DEF NoWindow
<1>2. v.age \in Nat
  BY Zenon DEF Window
<1> QED  BY <1>1, <1>2

\* What is kept of a and one more.
Latest(x, a) == SubSeq(<<x>> \o a, 1, IF Len(a) < sampleSize THEN Len(a) + 1 ELSE sampleSize)

LEMMA LatestElements ==
    ASSUME NEW x \in Nat, NEW a \in Seq(Nat), Len(a) <= sampleSize
    PROVE  /\ Latest(x, a) \in Seq(Nat)
           /\ Len(Latest(x, a)) = IF Len(a) < sampleSize THEN Len(a) + 1 ELSE sampleSize
           /\ Latest(x, a)[1] = x
           /\ \A k \in Nat \ {0} : k < Len(Latest(x, a)) => Latest(x, a)[k + 1] = a[k]
           /\ Sum(Latest(x, a)) = Sum(a) + x - IF Len(a) < sampleSize THEN 0 ELSE a[sampleSize]
<1> DEFINE t == <<x>> \o a
           n == IF Len(a) < sampleSize THEN Len(a) + 1 ELSE sampleSize
           b == SubSeq(t, 1, n)
<1>1. Len(a) \in Nat /\ sampleSize \in Nat /\ sampleSize > 1
  BY Zenon, LenProperties, MembershipAssumption
<1>2. /\ t \in Seq(Nat) /\ Len(t) = Len(a) + 1 /\ t[1] = x
      /\ \A k \in 1..Len(a) : t[k + 1] = a[k]
  <2>1. <<x>> \in Seq(Nat) /\ Len(<<x>>) = 1 /\ <<x>>[1] = x
    OBVIOUS
  <2>2. /\ t \in Seq(Nat) /\ Len(t) = Len(<<x>>) + Len(a)
        /\ \A i \in 1..(Len(<<x>>) + Len(a)) :
              t[i] = IF i <= Len(<<x>>) THEN <<x>>[i] ELSE a[i - Len(<<x>>)]
    BY Zenon, <2>1, ConcatProperties
  <2> HIDE DEF t
  <2>3. ASSUME NEW k \in 1..Len(a) PROVE t[k + 1] = a[k]
    <3>1. k + 1 \in 1..(1 + Len(a)) /\ ~(k + 1 <= 1) /\ (k + 1) - 1 = k
      BY <1>1
    <3> QED  BY Zenon, <2>1, <2>2, <3>1
  <2> QED  BY <1>1, <2>1, <2>2, <2>3
<1> HIDE DEF t
<1>3. n \in 1..Len(t)
  BY <1>1, <1>2
<1>4. b \in Seq(Nat) /\ Len(b) = n /\ \A k \in 1..n : b[k] = t[k]
  BY SMTT(30), <1>2, <1>3
<1>5. Latest(x, a) = b
  BY Zenon DEF Latest, t
<1>6. Sum(t) = x + Sum(a) /\ Sum(a) \in Nat
  BY Zenon, <1>2, SumOfCons, SumBounds
<1>7. Sum(b) = Sum(a) + x - IF Len(a) < sampleSize THEN 0 ELSE a[sampleSize]
  <2>1. CASE Len(a) < sampleSize
    <3>1. b = t
      BY Zenon, <1>2, <1>4, <2>1, SeqEqual
    <3> HIDE DEF b
    <3>2. Sum(b) = Sum(a) + x
      BY <1>6, <3>1
    <3> QED  BY <1>6, <2>1, <3>2
  <2>2. CASE ~(Len(a) < sampleSize)
    <3>1. n = sampleSize /\ Len(a) = sampleSize /\ Len(t) = n + 1
      BY <1>1, <1>2, <2>2
    <3> HIDE DEF n, b
    <3>2. Sum(b) = Sum(t) - t[Len(t)]
      BY Zenon, <1>1, <1>2, <1>4, <3>1, SumOfFront
    <3>3. t[Len(t)] = a[sampleSize] /\ a[sampleSize] \in Nat
      BY <1>1, <1>2, <3>1, ElementOfSeq
    <3> QED  BY <1>6, <2>2, <3>2, <3>3
  <2> QED  BY Zenon, <2>1, <2>2
<1>8. \A k \in Nat \ {0} : k < n => b[k + 1] = a[k]
  <2> SUFFICES ASSUME NEW k \in Nat \ {0}, k < n PROVE b[k + 1] = a[k]
    BY Zenon
  <2>1. k + 1 \in 1..n /\ k \in 1..Len(a)
    BY <1>1
  <2> QED  BY Zenon, <1>2, <1>4, <2>1
<1>9. b[1] = x
  BY <1>2, <1>3, <1>4
<1> HIDE DEF b
<1> QED  BY Zenon, <1>4, <1>5, <1>7, <1>8, <1>9

WindowFields == {"age", "intervals", "index", "isFull", "sum"}

LEMMA SetFields ==
    ASSUME NEW v, DOMAIN v = WindowFields, NEW at, NEW x, NEW i, NEW f, NEW q
    PROVE  /\ LET c == [v EXCEPT !.intervals[at] = x, !.index = i, !.isFull = f, !.sum = q]
              IN  /\ c.age = v.age
                  /\ c.intervals = [v.intervals EXCEPT ![at] = x]
                  /\ c.index = i /\ c.isFull = f /\ c.sum = q
           /\ LET c == [v EXCEPT !.age = x]
              IN  /\ c.age = x /\ c.intervals = v.intervals
                  /\ c.index = v.index /\ c.isFull = v.isFull /\ c.sum = v.sum
BY Zenon DEF WindowFields

\* A window, or one that has no interval yet.
Buffer == [age: Nat, intervals: [0..(sampleSize - 1) -> Nat], index: 0..sampleSize,
           isFull: BOOLEAN, sum: Nat]

LEMMA SetWindow ==
    ASSUME NEW v \in Buffer, NEW x \in Nat, NEW at \in 0..(sampleSize - 1),
           NEW i \in 1..sampleSize, NEW f \in BOOLEAN, NEW q \in Nat
    PROVE  /\ DOMAIN v = WindowFields
           /\ LET c == [v EXCEPT !.intervals[at] = x, !.index = i, !.isFull = f, !.sum = q]
              IN  c \in Window /\ DOMAIN c = WindowFields
<1>1. DOMAIN v = WindowFields
  BY Zenon DEF Buffer, WindowFields
<1>2. [v EXCEPT !.intervals[at] = x, !.index = i, !.isFull = f, !.sum = q] \in Window
  BY Zenon DEF Buffer, Window
<1> QED  BY Zenon, <1>1, <1>2 DEF Window, WindowFields

\* Add keeps the buffer and the sum in step with the intervals.
LEMMA AddHolds ==
    ASSUME NEW v, NEW a, Holds(v, a), NEW x \in Nat, x = 0 => Size(v) = 1
    PROVE  Holds(Add(v, x), Latest(x, a)) /\ DOMAIN Add(v, x) = WindowFields
<1> DEFINE S == sampleSize
           wraps == v.index = S
           full == v.isFull \/ wraps
           at == IF wraps THEN 0 ELSE v.index
           old == IF full THEN v.intervals[at] ELSE 0
           c == [v EXCEPT !.intervals[at] = x, !.index = at + 1, !.isFull = full,
                          !.sum = v.sum + x - old]
           b == Latest(x, a)
<1>1. Add(v, x) = c
  BY Zenon DEF Add
<1>2. /\ v \in Window /\ v.index \in 1..S /\ v.isFull \in BOOLEAN /\ v.sum \in Nat
      /\ v.intervals \in [0..(S - 1) -> Nat] /\ S \in Nat /\ S > 1
  BY Zenon, MembershipAssumption DEF Holds, Window
<1>3. /\ a \in Seq(Nat) /\ Len(a) = Size(v) /\ v.sum = Sum(a)
      /\ \A k \in 1..Len(a) : a[k] = v.intervals[Before(v.index, k)]
  BY Zenon DEF Holds
<1>4. full \in BOOLEAN /\ at \in 0..(S - 1) /\ at + 1 \in 1..S
  BY <1>2
<1>5. Len(a) \in 1..S /\ (full <=> Len(a) = S) /\ (~full => Len(a) = v.index)
  BY <1>2, <1>3 DEF Size
<1>6. /\ b \in Seq(Nat) /\ Len(b) = (IF Len(a) < S THEN Len(a) + 1 ELSE S) /\ b[1] = x
      /\ \A k \in Nat \ {0} : k < Len(b) => b[k + 1] = a[k]
      /\ Sum(b) = Sum(a) + x - IF Len(a) < S THEN 0 ELSE a[S]
  <2>1. a \in Seq(Nat) /\ Len(a) <= S
    BY <1>2, <1>3, <1>5
  <2> QED  BY Zenon, <2>1, LatestElements
<1> HIDE DEF b
<1>7. full => Before(v.index, S) = at
  BY <1>2 DEF Before
<1>8. old = IF Len(a) < S THEN 0 ELSE a[S]
  <2>1. CASE full
    <3>1. S \in 1..Len(a)
      BY Zenon, <1>2, <1>5, <2>1
    <3> QED  BY <1>3, <1>5, <1>7, <2>1, <3>1
  <2>2. CASE ~full
    BY <1>2, <1>5, <2>2
  <2> QED  BY Zenon, <2>1, <2>2
<1> HIDE DEF old, full, at
<1>9. Sum(b) = v.sum + x - old
  BY Zenon, <1>3, <1>6, <1>8
<1>10. v.sum + x - old \in Nat
  BY Zenon, <1>6, <1>9, SumBounds
<1>11. c \in Window /\ DOMAIN c = WindowFields /\ DOMAIN v = WindowFields
  <2>1. v \in Buffer
    BY <1>2 DEF Window, Buffer
  <2> QED  BY Zenon, <1>4, <1>10, <2>1, SetWindow
<1>12. /\ c.intervals = [v.intervals EXCEPT ![at] = x] /\ c.index = at + 1
       /\ c.isFull = full /\ c.sum = v.sum + x - old
  BY <1>11, SetFields
<1> HIDE DEF c
<1>13. Len(b) = Size(c)
  <2>1. CASE full
    BY <1>5, <1>6, <1>12, <2>1 DEF Size
  <2>2. CASE ~full
    <3>1. Len(a) = v.index /\ at = v.index /\ Len(a) < S
      BY <1>2, <1>5, <2>2 DEF full, at
    <3> QED  BY Zenon, <1>6, <1>12, <2>2, <3>1 DEF Size
  <2> QED  BY Zenon, <2>1, <2>2
<1>14. ASSUME NEW k \in 1..Len(b) PROVE b[k] = c.intervals[Before(c.index, k)]
  <2>1. CASE k = 1
    <3>1. Before(c.index, 1) = at
      BY <1>2, <1>4, <1>12 DEF Before
    <3> QED  BY Zenon, <1>2, <1>4, <1>6, <1>12, <2>1, <3>1
  <2>2. CASE k # 1
    <3> DEFINE j == k - 1
    <3>1. j \in Nat \ {0} /\ j < Len(b) /\ j \in 1..Len(a) /\ j < S /\ k = j + 1 /\ j <= Len(a)
      BY <1>2, <1>5, <1>6, <2>2
    <3>2. b[k] = a[j] /\ a[j] = v.intervals[Before(v.index, j)]
      BY Zenon, <1>3, <1>6, <3>1
    <3> HIDE DEF j
    <3>3. /\ Before(c.index, k) = Before(v.index, j) /\ Before(v.index, j) # at
          /\ Before(v.index, j) \in 0..(S - 1)
      <4>1. CASE wraps
        <5>1. at = 0 /\ c.index = 1 /\ v.index = S /\ S \in Nat
          BY <1>2, <1>12, <4>1 DEF at
        <5> HIDE DEF S
        <5> QED  BY SMTT(30), <3>1, <5>1 DEF Before, S
      <4>2. CASE ~wraps
        <5>1. /\ c.index = v.index + 1 /\ at = v.index
              /\ v.index \in Nat /\ v.index < S /\ S \in Nat
          BY SMTT(30), <1>2, <1>12, <4>2 DEF at
        <5> HIDE DEF S
        <5>2. CASE j <= v.index
          BY <3>1, <5>1, <5>2 DEF Before, S
        <5>3. CASE ~(j <= v.index)
          BY SMTT(30), <3>1, <5>1, <5>3 DEF Before, S
        <5> QED  BY Zenon, <5>2, <5>3
      <4> QED  BY Zenon, <4>1, <4>2
    <3> QED  BY Zenon, <1>2, <1>12, <3>2, <3>3
  <2> QED  BY Zenon, <2>1, <2>2
<1>15. Len(b) > 1
  BY <1>2, <1>5, <1>6
<1>16. ASSUME NEW j \in 1..Len(b), NEW k \in 1..Len(b), b[j] = 0, b[k] = 0 PROVE j = k
  <2>1. ASSUME NEW i \in 1..Len(b), i # 1 PROVE i - 1 \in 1..Len(a) /\ b[i] = a[i - 1]
    <3>1. i - 1 \in Nat \ {0} /\ i - 1 < Len(b) /\ (i - 1) + 1 = i /\ i - 1 <= Len(a)
      BY <1>2, <1>5, <1>6, <2>1
    <3> QED  BY <1>5, <1>6, <3>1
  <2>2. CASE x = 0
    <3>1. Len(a) = 1 /\ a[1] > 0 /\ Len(b) = 2
      BY <1>2, <1>3, <1>6, <2>2 DEF Holds
    <3>2. b[2] # 0
      <4>1. 2 \in 1..Len(b) /\ 2 # 1 /\ 2 - 1 = 1
        BY <3>1
      <4>2. b[2] = a[1]
        BY Zenon, <2>1, <4>1
      <4>3. a[1] \in Nat
        <5>1. 1 \in 1..Len(a)
          BY <3>1
        <5> QED  BY Zenon, <1>3, <5>1, ElementOfSeq
      <4> QED  BY <3>1, <4>2, <4>3
    <3> QED  BY <1>16, <3>1, <3>2
  <2>3. CASE x # 0
    <3>1. j # 1 /\ k # 1
      BY Zenon, <1>6, <1>16, <2>3
    <3>2. j - 1 = k - 1
      BY ZenonT(30), <1>16, <2>1, <3>1 DEF Holds
    <3> QED  BY <3>2
  <2> QED  BY Zenon, <2>2, <2>3
<1> QED  BY <1>1, <1>6, <1>9, <1>11, <1>12, <1>13, <1>14, <1>15, <1>16 DEF Holds, b

\* The first interval, which is not zero.
LEMMA NewHolds ==
    /\ Holds(NewWindow, <<bootstrapInterval>>)
    /\ Latest(bootstrapInterval, <<>>) = <<bootstrapInterval>>
<1> DEFINE zeros == [i \in 0..sampleSize - 1 |-> 0]
           v == [age |-> 0, intervals |-> zeros, index |-> 0, isFull |-> FALSE, sum |-> 0]
           c == [v EXCEPT !.intervals[0] = bootstrapInterval, !.index = 1, !.isFull = FALSE,
                          !.sum = bootstrapInterval]
           b == <<bootstrapInterval>>
           none == <<>>
<1>1. /\ sampleSize \in Nat /\ sampleSize > 1 /\ sampleSize # 0
      /\ bootstrapInterval \in Nat /\ bootstrapInterval > 0
  BY MembershipAssumption
<1>2. v \in Buffer /\ v.index = 0 /\ v.isFull = FALSE /\ v.sum = 0 /\ v.intervals = zeros
  BY <1>1 DEF Buffer
<1>3. NewWindow = c
  <2> DEFINE wraps == v.index = sampleSize
             full == v.isFull \/ wraps
             at == IF wraps THEN 0 ELSE v.index
             sum == v.sum + bootstrapInterval - IF full THEN v.intervals[at] ELSE 0
  <2>1. NewWindow = [v EXCEPT !.intervals[at] = bootstrapInterval, !.index = at + 1,
                              !.isFull = full, !.sum = sum]
    BY Zenon DEF NewWindow, Add
  <2> HIDE DEF v
  <2>2. wraps = FALSE
    BY Zenon, <1>1, <1>2
  <2>3. full = FALSE /\ at = 0
    BY Zenon, <1>2, <2>2
  <2>4. at + 1 = 1 /\ sum = bootstrapInterval
    BY <1>1, <1>2, <2>3
  <2> HIDE DEF wraps, full, at, sum
  <2> QED  BY Zenon, <2>1, <2>3, <2>4
<1>4. /\ NewWindow \in Window /\ NewWindow.index = 1 /\ NewWindow.isFull = FALSE
      /\ NewWindow.intervals[0] = bootstrapInterval /\ NewWindow.sum = bootstrapInterval
  <2> HIDE DEF v
  <2>1. 0 \in 0..(sampleSize - 1) /\ 1 \in 1..sampleSize
    BY <1>1
  <2>2. DOMAIN v = WindowFields /\ c \in Window
    BY Zenon, <1>1, <1>2, <2>1, SetWindow
  <2>3. /\ c.index = 1 /\ c.isFull = FALSE /\ c.sum = bootstrapInterval
        /\ c.intervals = [zeros EXCEPT ![0] = bootstrapInterval]
    BY <1>2, <2>2, SetFields
  <2> HIDE DEF c
  <2>4. c.intervals[0] = bootstrapInterval
    BY Zenon, <2>1, <2>3
  <2> QED  BY Zenon, <1>3, <2>2, <2>3, <2>4
<1>5. /\ none \in Seq(Nat) /\ Len(none) = 0
      /\ b \in Seq(Nat) /\ Len(b) = 1 /\ b[1] = bootstrapInterval
  BY <1>1
<1> HIDE DEF none, b
<1>6. Sum(b) = bootstrapInterval
  <2>1. Sum(none) = 0
    BY Zenon, <1>5, PartialSums
  <2>2. Sum(b) = bootstrapInterval + Sum(none)
    <3>1. bootstrapInterval \in Nat /\ none \in Seq(Nat) /\ b \in Seq(Nat)
      BY Zenon, <1>1, <1>5
    <3>2. Len(b) = Len(none) + 1 /\ b[1] = bootstrapInterval
      BY <1>5
    <3>3. \A k \in 1..Len(none) : b[k + 1] = none[k]
      BY <1>5
    <3> QED  BY <3>1, <3>2, <3>3, SumOfCons, Zenon
  <2> QED  BY <1>1, <2>1, <2>2
<1>7. Before(1, 1) = 0
  BY DEF Before
<1>8. Size(NewWindow) = 1
  BY Zenon, <1>4 DEF Size
<1>9. Latest(bootstrapInterval, none) = b
  <2>1. Len(none) <= sampleSize /\ Len(none) < sampleSize
    BY <1>1, <1>5
  <2> DEFINE d == Latest(bootstrapInterval, none)
  <2>2. d \in Seq(Nat) /\ Len(d) = 1 /\ d[1] = bootstrapInterval
    <3>1. bootstrapInterval \in Nat /\ none \in Seq(Nat)
      BY Zenon, <1>1, <1>5
    <3>2. d \in Seq(Nat) /\ d[1] = bootstrapInterval
          /\ Len(d) = IF Len(none) < sampleSize THEN Len(none) + 1 ELSE sampleSize
      BY <2>1, <3>1, LatestElements, Zenon
    <3> HIDE DEF d
    <3> QED  BY <1>5, <2>1, <3>2
  <2> HIDE DEF d
  <2> QED  BY <1>5, <2>2, SeqEqual DEF d
<1>10. Holds(NewWindow, b)
  BY <1>1, <1>4, <1>5, <1>6, <1>7, <1>8 DEF Holds
<1> QED  BY Zenon, <1>9, <1>10 DEF b, none

LEMMA AgeHolds ==
    ASSUME NEW v, NEW a, Holds(v, a), NEW t \in Nat
    PROVE  Holds([v EXCEPT !.age = t], a)
<1> DEFINE c == [v EXCEPT !.age = t]
<1>1. v \in Window
  BY Zenon DEF Holds
<1>2. DOMAIN v = WindowFields
  BY Zenon, <1>1 DEF Window, WindowFields
<1>3. c \in Window
  BY Zenon, <1>1 DEF Window
<1>4. /\ c.intervals = v.intervals /\ c.index = v.index /\ c.isFull = v.isFull
      /\ c.sum = v.sum
  BY <1>2, SetFields
<1> HIDE DEF c
<1>5. Size(c) = Size(v)
  BY Zenon, <1>4 DEF Size
<1> QED  BY Zenon, <1>3, <1>4, <1>5 DEF Holds, c

-----------------------------------------------------------------------------
Fit(v, a) == (v = NoWindow /\ a = <<>>) \/ Holds(v, a)

WindowInv ==
    /\ windows = [w \in Watch |-> windows[w]]
    /\ arrivals = [w \in Watch |-> arrivals[w]]
    /\ \A w \in Watch : Fit(windows[w], arrivals[w])

LEMMA ReportStep ==
    ASSUME WindowInv, NEW w \in Watch, Report(w)
    PROVE  WindowInv'
<1>1. DOMAIN windows = Watch /\ DOMAIN arrivals = Watch
  BY Zenon DEF WindowInv
<1>2. ASSUME NEW v, NEW a, Holds(v, a), windows' = [windows EXCEPT ![w] = v],
             arrivals' = [arrivals EXCEPT ![w] = a]
      PROVE  WindowInv'
  <2>1. /\ windows' = [u \in Watch |-> windows'[u]] /\ arrivals' = [u \in Watch |-> arrivals'[u]]
        /\ \A u \in Watch : windows'[u] = (IF u = w THEN v ELSE windows[u])
        /\ \A u \in Watch : arrivals'[u] = (IF u = w THEN a ELSE arrivals[u])
    BY Zenon, <1>1, <1>2 DEF WindowInv
  <2>2. \A u \in Watch : Fit(windows'[u], arrivals'[u])
    BY Zenon, <1>2, <2>1 DEF WindowInv, Fit
  <2> QED  BY Zenon, <2>1, <2>2 DEF WindowInv
<1>3. Fit(windows[w], arrivals[w])
  BY Zenon DEF WindowInv
<1>4. ASSUME NEW x, Arrives(w, x)
      PROVE  arrivals' = [arrivals EXCEPT ![w] = Latest(x, arrivals[w])]
  BY <1>4, Zenon DEF Arrives, Latest
<1>5. CASE windows[w] = NoWindow
  <2>1. windows' = [windows EXCEPT ![w] = NewWindow] /\ Arrives(w, bootstrapInterval)
    BY Zenon, <1>5 DEF Report
  <2>2. arrivals[w] = <<>>
    BY Zenon, <1>3, <1>5, WindowsAreWindows DEF Fit, Holds
  <2>3. arrivals' = [arrivals EXCEPT ![w] = <<bootstrapInterval>>]
    BY Zenon, <1>4, <2>1, <2>2, NewHolds
  <2> QED  BY Zenon, <1>2, <2>1, <2>3, NewHolds
<1>6. CASE windows[w] # NoWindow
  <2> DEFINE v == windows[w]
             a == arrivals[w]
  <2>1. /\ Holds(v, a) /\ (v.age = 0 => Size(v) = 1)
        /\ windows' = [windows EXCEPT ![w] = AddReport(v)] /\ Arrives(w, v.age)
    BY Zenon, <1>3, <1>6 DEF Report, Fit
  <2>2. v.age \in Nat
    BY Zenon, <2>1 DEF Holds, Window
  <2>3. Holds(Add(v, v.age), Latest(v.age, a))
    BY Zenon, <2>1, <2>2, AddHolds
  <2>4. Holds(AddReport(v), Latest(v.age, a))
    BY Zenon, <2>3, AgeHolds DEF AddReport
  <2>5. arrivals' = [arrivals EXCEPT ![w] = Latest(v.age, a)]
    BY Zenon, <1>4, <2>1
  <2> HIDE DEF v, a
  <2> QED  BY Zenon, <1>2, <2>1, <2>4, <2>5
<1> QED  BY Zenon, <1>5, <1>6

LEMMA PeriodicStep ==
    ASSUME WindowInv, NEW n, UpdateLiveness(n) \/ RemoveExpired(n)
    PROVE  WindowInv'
<1>1. ASSUME UpdateLiveness(n) PROVE WindowInv'
  <2> DEFINE first == {w \in Of(n) : members[w].known /\ windows[w] = NoWindow}
  <2>1. /\ windows' = [w \in Watch |-> IF w \in first THEN NewWindow ELSE windows[w]]
        /\ arrivals' = [w \in Watch |-> IF w \in first THEN <<bootstrapInterval>> ELSE arrivals[w]]
    BY Zenon, <1>1 DEF UpdateLiveness
  <2> HIDE DEF first
  <2>2. \A w \in Watch : Fit(windows'[w], arrivals'[w])
    <3> SUFFICES ASSUME NEW w \in Watch PROVE Fit(windows'[w], arrivals'[w])
      BY Zenon
    <3>1. CASE w \in first
      BY Zenon, <2>1, <3>1, NewHolds DEF Fit
    <3>2. CASE w \notin first
      BY Zenon, <2>1, <3>2 DEF WindowInv
    <3> QED  BY Zenon, <3>1, <3>2
  <2>3. windows' = [w \in Watch |-> windows'[w]] /\ arrivals' = [w \in Watch |-> arrivals'[w]]
    BY Zenon, <2>1
  <2> QED  BY Zenon, <2>2, <2>3 DEF WindowInv
<1>2. ASSUME RemoveExpired(n) PROVE WindowInv'
  <2>1. /\ windows' = [w \in Watch |-> IF w \in Expired(n) THEN NoWindow ELSE windows[w]]
        /\ arrivals' = [w \in Watch |-> IF w \in Expired(n) THEN <<>> ELSE arrivals[w]]
    BY Zenon, <1>2 DEF RemoveExpired
  <2>2. \A w \in Watch : Fit(windows'[w], arrivals'[w])
    <3> SUFFICES ASSUME NEW w \in Watch PROVE Fit(windows'[w], arrivals'[w])
      BY Zenon
    <3>1. CASE w \in Expired(n)
      BY Zenon, <2>1, <3>1 DEF Fit
    <3>2. CASE w \notin Expired(n)
      BY Zenon, <2>1, <3>2 DEF WindowInv
    <3> QED  BY Zenon, <3>1, <3>2
  <2>3. windows' = [w \in Watch |-> windows'[w]] /\ arrivals' = [w \in Watch |-> arrivals'[w]]
    BY Zenon, <2>1
  <2> QED  BY Zenon, <2>2, <2>3 DEF WindowInv
<1> QED  BY Zenon, <1>1, <1>2

LEMMA TickStep ==
    ASSUME WindowInv, Tick
    PROVE  WindowInv'
<1>1. /\ windows' = [w \in Watch |->
             IF windows[w] = NoWindow \/ windows[w].age = MaxAge(w) THEN windows[w]
             ELSE [windows[w] EXCEPT !.age = windows[w].age + 1]]
      /\ arrivals' = arrivals
  BY Zenon DEF Tick
<1>2. \A w \in Watch : Fit(windows'[w], arrivals[w])
  <2> SUFFICES ASSUME NEW w \in Watch PROVE Fit(windows'[w], arrivals[w])
    BY Zenon
  <2>1. Fit(windows[w], arrivals[w])
    BY Zenon DEF WindowInv
  <2>2. CASE windows[w] = NoWindow \/ windows[w].age = MaxAge(w)
    BY Zenon, <1>1, <2>1, <2>2
  <2>3. CASE ~(windows[w] = NoWindow \/ windows[w].age = MaxAge(w))
    <3>1. Holds(windows[w], arrivals[w])
      BY Zenon, <2>1, <2>3 DEF Fit
    <3>2. windows[w].age + 1 \in Nat
      BY <3>1 DEF Holds, Window
    <3>3. windows'[w] = [windows[w] EXCEPT !.age = windows[w].age + 1]
      BY Zenon, <1>1, <2>3
    <3> QED  BY <3>1, <3>2, <3>3, AgeHolds DEF Fit
  <2> QED  BY Zenon, <2>2, <2>3
<1>3. windows' = [w \in Watch |-> windows'[w]]
  BY Zenon, <1>1
<1> QED  BY Zenon, <1>1, <1>2, <1>3 DEF WindowInv

LEMMA WindowInvAlways == Spec => []WindowInv
<1>1. Init => WindowInv
  BY Zenon DEF Init, WindowInv, Fit
<1>2. WindowInv /\ [Next]_vars => WindowInv'
  <2> SUFFICES ASSUME WindowInv, [Next]_vars PROVE WindowInv'
    BY Zenon
  <2>1. ASSUME UNCHANGED <<windows, arrivals>> PROVE WindowInv'
    BY Zenon, <2>1 DEF WindowInv
  <2>2. ASSUME NEW n, NEW o, ReceiveDigest(n, o) PROVE WindowInv'
    BY Zenon, <2>1, <2>2 DEF ReceiveDigest
  <2>3. ASSUME NEW n, NEW o, ReceiveDelta(n, o) PROVE WindowInv'
    <3>1. (<<n, o>> \in Watch /\ Report(<<n, o>>)) \/ UNCHANGED <<windows, arrivals>>
      BY Zenon, <2>3 DEF ReceiveDelta
    <3> QED  BY Zenon, <2>1, <3>1, ReportStep
  <2>4. ASSUME NEW n, Periodic(n) PROVE WindowInv'
    BY Zenon, <2>4, PeriodicStep DEF Periodic
  <2>5. ASSUME Tick PROVE WindowInv'
    BY Zenon, <2>5, TickStep
  <2>6. ASSUME NEW n, Crash(n) PROVE WindowInv'
    BY Zenon, <2>1, <2>6 DEF Crash
  <2>7. ASSUME UNCHANGED vars PROVE WindowInv'
    BY Zenon, <2>1, <2>7 DEF vars
  <2> QED  BY Zenon, <2>2, <2>3, <2>4, <2>5, <2>6, <2>7 DEF Next
<1> QED  BY <1>1, <1>2, PTL DEF Spec

\* The mean that a node is judged by is over exactly the last sampleSize
\* intervals, for any sample size and however often the circular buffer has
\* wrapped (arrivalIntervals.Add).
THEOREM MeanIsOfLast == Spec => []MeanOfLast
<1>1. WindowInv => MeanOfLast
  <2> SUFFICES ASSUME WindowInv, NEW w \in Watch, windows[w] # NoWindow
               PROVE  Size(windows[w]) = Len(arrivals[w]) /\ windows[w].sum = Sum(arrivals[w])
    BY Zenon DEF MeanOfLast
  <2> QED  BY Zenon DEF WindowInv, Fit, Holds
<1> QED  BY <1>1, WindowInvAlways, PTL

\* Phi never divides by zero, nor panics: though a report that races with the
\* creation of its window adds an interval of zero, the window holds another
\* one for as long as that stays (arrivalWindow.Phi).
THEOREM MeanStaysPositive == Spec => []MeanIsPositive
<1>1. WindowInv => MeanIsPositive
  <2> SUFFICES ASSUME WindowInv, NEW w \in Watch, windows[w] # NoWindow
               PROVE  windows[w].sum > 0
    BY Zenon DEF MeanIsPositive
  <2> DEFINE v == windows[w]
             a == arrivals[w]
  <2>1. Holds(v, a)
    BY Zenon DEF WindowInv, Fit
  <2>2. /\ a \in Seq(Nat) /\ Len(a) = Size(v) /\ v.sum = Sum(a) /\ (Len(a) = 1 => a[1] > 0)
        /\ \A j, k \in 1..Len(a) : a[j] = 0 /\ a[k] = 0 => j = k
    BY Zenon, <2>1 DEF Holds
  <2>3. Len(a) \in Nat /\ Len(a) >= 1
    BY <2>1, <2>2, SizeIsPositive DEF Holds
  <2> HIDE DEF v, a
  <2>4. \E k \in 1..Len(a) : a[k] > 0
    <3>1. 1 \in 1..Len(a)
      BY <2>3
    <3>2. CASE Len(a) = 1
      BY Zenon, <2>2, <3>1, <3>2
    <3>3. CASE Len(a) > 1
      <4>1. 2 \in 1..Len(a) /\ 1 # 2
        BY <2>3, <3>3
      <4>2. a[1] \in Nat /\ a[2] \in Nat
        BY Zenon, <2>2, <3>1, <4>1, ElementOfSeq
      <4>3. a[1] # 0 \/ a[2] # 0
        BY Zenon, <2>2, <3>1, <4>1
      <4>4. CASE a[1] # 0
        BY <3>1, <4>2, <4>4
      <4>5. CASE a[2] # 0
        BY <4>1, <4>2, <4>5
      <4> QED  BY Zenon, <4>3, <4>4, <4>5
    <3> QED  BY <2>3, <3>2, <3>3
  <2>5. PICK k \in 1..Len(a) : a[k] > 0
    BY Zenon, <2>4
  <2>6. Sum(a) \in Nat /\ Sum(a) >= a[k] /\ a[k] \in Nat
    BY Zenon, <2>2, SumBounds, ElementOfSeq
  <2>7. Sum(a) > 0
    BY <2>5, <2>6
  <2> QED  BY Zenon, <2>2, <2>7 DEF v
<1> QED  BY <1>1, WindowInvAlways, PTL

-----------------------------------------------------------------------------
(***************************************************************************)
(* Members and tombstones: only a known node is unreachable, and no known  *)
(* node has a tombstone.                                                   *)
(***************************************************************************)
MemberFields == {"known", "unreachable", "ttl"}

Consistent(m, tombstone) ==
    /\ DOMAIN m = MemberFields
    /\ m.unreachable => m.known
    /\ m.known => tombstone = NoTombstone

MemberInv == \A w \in Watch : Consistent(members[w], tombstones[w])

\* w's node is added: a running node names it, one that is not kept out by a
\* tombstone or is that node itself.
Added(w) ==
    /\ members'[w] = NewMember
    /\ tombstones'[w] = NoTombstone
    /\ \E q \in Node \ crashed : w[2] \in Known(q) /\ (tombstones[w] = NoTombstone \/ w[2] = q)

\* w's node is not added, and keeps its tombstone for as long as it must.
NotAdded(w) ==
    /\ Consistent(members'[w], tombstones'[w])
    /\ members'[w].known => members[w].known
    /\ tombstones[w] # NoTombstone =>
           \/ tombstones'[w] \in {tombstones[w], tombstones[w] + 1}
           \/ tombstones[w] > nodeTombstoneExpiry

LEMMA MemberRecords ==
    /\ DOMAIN NewMember = MemberFields /\ NewMember.known /\ ~NewMember.unreachable
    /\ DOMAIN NotMember = MemberFields /\ ~NotMember.known /\ ~NotMember.unreachable
BY Zenon DEF NewMember, NotMember, MemberFields

LEMMA SameMembers ==
    ASSUME MemberInv, UNCHANGED <<members, tombstones>>
    PROVE  \A w \in Watch : NotAdded(w)
BY Zenon DEF MemberInv, NotAdded

LEMMA LearnMembers ==
    ASSUME MemberInv, NEW n, NEW o \in Node, Talk(n, o), Learn(n, o), NEW w \in Watch
    PROVE  Added(w) \/ NotAdded(w)
<1>1. PICK ids \in SUBSET (Known(o) \cap Watched(n)) :
          LET new == {<<n, p>> : p \in Admitted(n, o, ids)}
          IN  /\ members' = [v \in Watch |-> IF v \in new THEN NewMember ELSE members[v]]
              /\ tombstones' = [v \in Watch |-> IF v \in new THEN NoTombstone ELSE tombstones[v]]
  BY Zenon DEF Learn
<1> DEFINE new == {<<n, p>> : p \in Admitted(n, o, ids)}
<1>2. /\ members'[w] = (IF w \in new THEN NewMember ELSE members[w])
      /\ tombstones'[w] = (IF w \in new THEN NoTombstone ELSE tombstones[w])
  BY Zenon, <1>1
<1>3. CASE w \in new
  <2>1. PICK p \in Admitted(n, o, ids) : w = <<n, p>>
    BY Zenon, <1>3
  <2>2. p \in ids /\ (tombstones[<<n, p>>] = NoTombstone \/ p = o)
    BY Zenon DEF Admitted
  <2>3. w[2] = p /\ p \in Known(o)
    BY Zenon, <2>1, <2>2
  <2>4. o \notin crashed
    BY Zenon DEF Talk
  <2> HIDE DEF new
  <2> QED  BY Zenon, <1>2, <1>3, <2>1, <2>2, <2>3, <2>4 DEF Added
<1>4. CASE w \notin new
  <2> HIDE DEF new
  <2> QED  BY Zenon, <1>2, <1>4 DEF NotAdded, MemberInv
<1> QED  BY Zenon, <1>3, <1>4

LEMMA LivenessMembers ==
    ASSUME MemberInv, NEW n, UpdateLiveness(n), NEW w \in Watch
    PROVE  NotAdded(w)
<1> DEFINE turned == {v \in Of(n) : members[v].known /\ members[v].unreachable # Suspected(v)}
           ttl == IF Suspected(w) THEN nodeExpiry ELSE 0
           c == [members[w] EXCEPT !.unreachable = Suspected(w), !.ttl = ttl]
<1>1. members'[w] = (IF w \in turned THEN c ELSE members[w]) /\ tombstones' = tombstones
  BY Zenon DEF UpdateLiveness
<1>2. Consistent(members[w], tombstones[w])
  BY Zenon DEF MemberInv
<1>3. DOMAIN c = MemberFields /\ c.known = members[w].known
  <2> HIDE DEF ttl
  <2> QED  BY Zenon, <1>2 DEF Consistent, MemberFields
<1>4. w \in turned => members[w].known
  BY Zenon
<1> HIDE DEF turned, c
<1> QED  BY Zenon, <1>1, <1>2, <1>3, <1>4 DEF NotAdded, Consistent

LEMMA ExpiryMembers ==
    ASSUME MemberInv, NEW n, RemoveExpired(n), NEW w \in Watch
    PROVE  NotAdded(w)
<1>1. /\ members'[w] = (IF w \in Expired(n) THEN NotMember ELSE members[w])
      /\ tombstones'[w] = (CASE w \in Expired(n) -> 0
                             [] w \in Stale(n) \ Expired(n) -> NoTombstone
                             [] OTHER -> tombstones[w])
  BY Zenon DEF RemoveExpired
<1>2. Consistent(members[w], tombstones[w])
  BY Zenon DEF MemberInv
<1>3. CASE w \in Expired(n)
  <2>1. members[w].known /\ tombstones[w] = NoTombstone
    BY Zenon, <1>2, <1>3 DEF Expired, Consistent
  <2> QED  BY Zenon, <1>1, <1>3, <2>1, MemberRecords DEF NotAdded, Consistent
<1>4. CASE w \in Stale(n) \ Expired(n)
  <2>1. tombstones[w] > nodeTombstoneExpiry /\ tombstones'[w] = NoTombstone
    BY Zenon, <1>1, <1>4 DEF Stale
  <2> QED  BY Zenon, <1>1, <1>2, <1>4, <2>1 DEF NotAdded, Consistent
<1>5. CASE w \notin Expired(n) /\ w \notin Stale(n)
  <2>1. tombstones'[w] = tombstones[w] /\ members'[w] = members[w]
    BY Zenon, <1>1, <1>5
  <2> QED  BY Zenon, <1>2, <2>1 DEF NotAdded
<1> QED  BY Zenon, <1>3, <1>4, <1>5

LEMMA TickMembers ==
    ASSUME MemberInv, Tick, NEW w \in Watch
    PROVE  NotAdded(w)
<1> DEFINE ttl == IF members[w].ttl = 0 THEN 0 ELSE members[w].ttl - 1
           c == [members[w] EXCEPT !.ttl = ttl]
<1>1. /\ members'[w] = c
      /\ tombstones'[w] = (IF tombstones[w] = NoTombstone THEN NoTombstone ELSE tombstones[w] + 1)
  BY Zenon DEF Tick
<1>2. Consistent(members[w], tombstones[w])
  BY Zenon DEF MemberInv
<1>3. DOMAIN c = MemberFields /\ c.known = members[w].known /\ c.unreachable = members[w].unreachable
  <2> HIDE DEF ttl
  <2> QED  BY Zenon, <1>2 DEF Consistent, MemberFields
<1> HIDE DEF c
<1> QED  BY Zenon, <1>1, <1>2, <1>3 DEF NotAdded, Consistent

LEMMA MemberSteps ==
    ASSUME MemberInv, [Next]_vars
    PROVE  MemberInv' /\ crashed \subseteq crashed' /\ \A w \in Watch : Added(w) \/ NotAdded(w)
<1>1. \A w \in Watch : Added(w) \/ NotAdded(w)
  <2>1. ASSUME UNCHANGED <<members, tombstones>> PROVE \A w \in Watch : Added(w) \/ NotAdded(w)
    BY Zenon, <2>1, SameMembers
  <2>2. ASSUME NEW n, NEW o \in Node, ReceiveDigest(n, o) \/ ReceiveDelta(n, o)
        PROVE  \A w \in Watch : Added(w) \/ NotAdded(w)
    BY Zenon, <2>2, LearnMembers DEF ReceiveDigest, ReceiveDelta
  <2>3. ASSUME NEW n, Periodic(n) PROVE \A w \in Watch : Added(w) \/ NotAdded(w)
    BY Zenon, <2>3, LivenessMembers, ExpiryMembers DEF Periodic
  <2>4. Tick => \A w \in Watch : Added(w) \/ NotAdded(w)
    BY Zenon, TickMembers
  <2>5. ASSUME NEW n, Crash(n) PROVE UNCHANGED <<members, tombstones>>
    BY Zenon, <2>5 DEF Crash
  <2>6. UNCHANGED vars => UNCHANGED <<members, tombstones>>
    BY Zenon DEF vars
  <2> QED  BY ZenonT(30), <2>1, <2>2, <2>3, <2>4, <2>5, <2>6 DEF Next
<1>2. MemberInv'
  BY Zenon, <1>1, MemberRecords DEF MemberInv, Added, NotAdded, Consistent
<1>3. crashed \subseteq crashed'
  BY Zenon DEF Next, ReceiveDigest, ReceiveDelta, Periodic, UpdateLiveness, RemoveExpired, Tick,
               Crash, vars
<1> QED  BY Zenon, <1>1, <1>2, <1>3

LEMMA MemberInvAlways == Spec => []MemberInv
<1>1. Init => MemberInv
  <2> SUFFICES ASSUME Init, NEW w \in Watch PROVE Consistent(members[w], tombstones[w])
    BY Zenon DEF MemberInv
  <2>1. members[w] = NewMember /\ tombstones[w] = NoTombstone
    BY Zenon DEF Init
  <2> QED  BY Zenon, <2>1, MemberRecords DEF Consistent
<1>2. MemberInv /\ [Next]_vars => MemberInv'
  BY Zenon, MemberSteps
<1> QED  BY <1>1, <1>2, PTL DEF Spec

\* A tombstone does what it is for: for as long as a node keeps it, and that is
\* until it is older than nodeTombstoneExpiry, no digest or delta of another
\* node brings the crashed node back (clusterState.addRemoteNode).
THEOREM TombstonesKeepOut == Spec => TombstonesHold
<1> DEFINE Keeps ==
        \A w \in Watch :
            w[2] \in crashed /\ tombstones[w] # NoTombstone =>
                /\ ~members'[w].known
                /\ \/ tombstones'[w] \in {tombstones[w], tombstones[w] + 1}
                   \/ tombstones[w] > nodeTombstoneExpiry
<1>1. MemberInv /\ [Next]_vars => [Keeps]_vars
  <2> SUFFICES ASSUME MemberInv, [Next]_vars, NEW w \in Watch, w[2] \in crashed,
                      tombstones[w] # NoTombstone
               PROVE  /\ ~members'[w].known
                      /\ \/ tombstones'[w] \in {tombstones[w], tombstones[w] + 1}
                         \/ tombstones[w] > nodeTombstoneExpiry
    BY Zenon
  <2>1. ~Added(w)
    BY Zenon DEF Added
  <2>2. NotAdded(w)
    BY Zenon, <2>1, MemberSteps
  <2>3. ~members[w].known
    BY Zenon DEF MemberInv, Consistent
  <2> QED  BY Zenon, <2>2, <2>3 DEF NotAdded
<1> HIDE DEF Keeps
<1>2. Spec => [][Keeps]_vars
  BY <1>1, MemberInvAlways, PTL DEF Spec
<1> QED  BY <1>2 DEF Keeps, TombstonesHold

LEMMA ForgottenStays ==
    ASSUME MemberInv, [Next]_vars, NEW o \in Node, ForgottenByAll(o)
    PROVE  ForgottenByAll(o)'
<1>1. /\ o \in crashed /\ crashed \subseteq crashed'
      /\ \A w \in Watch : Added(w) \/ NotAdded(w)
  BY Zenon, MemberSteps DEF ForgottenByAll
<1> SUFFICES ASSUME NEW n \in Node \ crashed' PROVE o \notin Known(n)'
  BY Zenon, <1>1 DEF ForgottenByAll
<1> DEFINE w == <<n, o>>
<1>2. \A q \in Node \ crashed : o \notin Known(q)
  BY Zenon DEF ForgottenByAll
<1>3. n \in Node \ crashed
  BY Zenon, <1>1
<1>4. w \in Watch /\ ~members[w].known
  BY Zenon, <1>2, <1>3 DEF Known, Watched
<1>5. w[2] = o
  BY Zenon
<1> HIDE DEF w
<1>6. ~Added(w)
  BY Zenon, <1>2, <1>5 DEF Added
<1>7. ~members'[w].known
  BY Zenon, <1>1, <1>4, <1>6 DEF NotAdded
<1> QED  BY Zenon, <1>4, <1>7 DEF Known, Watched, w

\* A crashed node that every running node has removed is gone for good, even
\* when all tombstones have passed: nobody is left that would name it.
THEOREM ForgottenStaysForgotten ==
    ASSUME NEW o \in Node
    PROVE  Spec => StaysForgotten(o)
<1>1. MemberInv /\ [Next]_vars /\ ForgottenByAll(o) => ForgottenByAll(o)'
  BY Zenon, ForgottenStays
<1> QED  BY <1>1, MemberInvAlways, PTL DEF Spec, StaysForgotten
=============================================================================
