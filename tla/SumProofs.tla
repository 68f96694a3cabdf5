------------------------------ MODULE SumProofs ------------------------------
(***************************************************************************)
(* Facts about the sums of Sums.  They rest on induction over the natural  *)
(* numbers, which is stated here for a set instead of an operator.         *)
(***************************************************************************)
EXTENDS Sums, FiniteSetTheorems, FunctionTheorems, SequenceTheorems, TLAPS

\* A set that contains 0 and n + 1 for each of its n contains every number: of
\* the intervals 1 .. n that end outside of it, none is the smallest.
LEMMA SetInduction ==
  ASSUME NEW T, 0 \in T, \A n \in Nat : n \in T => n + 1 \in T
  PROVE  Nat \subseteq T
<1> DEFINE Missing == {1 .. n : n \in Nat \ T}
<1> SUFFICES ASSUME NEW n \in Nat, n \notin T PROVE FALSE
  OBVIOUS
<1>1. Missing # {} /\ Missing \subseteq FiniteSubsetsOf(Nat)
  <2>1. \A k \in Nat : IsFiniteSet(1 .. k) /\ 1 .. k \subseteq Nat
    BY FS_Interval
  <2> QED
    BY <2>1 DEF FiniteSubsetsOf
<1> HIDE DEF Missing
<1>2. PICK I \in Missing : \A J \in Missing : ~(<<J, I>> \in StrictSubsetOrdering(Nat))
  BY <1>1, FS_StrictSubsetOrderingWellFounded, WFMin
<1>3. PICK m \in Nat \ T : I = 1 .. m
  BY DEF Missing
<1>4. m # 0 /\ m - 1 \in Nat /\ m - 1 \notin T
  <2>1. m - 1 \in T => (m - 1) + 1 \in T
    BY <1>3
  <2> QED
    BY <1>3, <2>1
<1>5. 1 .. (m - 1) \in Missing
  BY <1>4 DEF Missing
<1>6. <<1 .. (m - 1), I>> \in StrictSubsetOrdering(Nat)
  <2>1. m \in I /\ m \notin 1 .. (m - 1)
    BY <1>3, <1>4
  <2> QED
    BY <1>3, <2>1 DEF StrictSubsetOrdering
<1> QED
  BY <1>2, <1>5, <1>6

-----------------------------------------------------------------------------
(* Partial sums *)

Agree(f, g, n) == \A i \in 1 .. n : f[i] = g[i]

IsSum(sum, f, n) == sum = [i \in 0 .. n |-> IF i = 0 THEN 0 ELSE sum[i - 1] + f[i]]

\* There are partial sums of any numbers ...
LEMMA SumExists ==
  ASSUME NEW n \in Nat, NEW f, \A i \in 1 .. n : f[i] \in Int
  PROVE  \E sum \in [0 .. n -> Int] : IsSum(sum, f, n)
<1> DEFINE T == {k \in Nat : k <= n => \E sum \in [0 .. k -> Int] : IsSum(sum, f, k)}
<1>1. 0 \in T
  <2>1. [i \in 0 .. 0 |-> 0] \in [0 .. 0 -> Int] /\ IsSum([i \in 0 .. 0 |-> 0], f, 0)
    BY DEF IsSum
  <2> QED
    BY <2>1
<1>2. ASSUME NEW k \in Nat, k \in T PROVE k + 1 \in T
  <2> SUFFICES ASSUME k + 1 <= n
               PROVE  \E sum \in [0 .. k + 1 -> Int] : IsSum(sum, f, k + 1)
    OBVIOUS
  <2>1. PICK sum \in [0 .. k -> Int] : IsSum(sum, f, k)
    BY <1>2
  <2> DEFINE more == [i \in 0 .. k + 1 |-> IF i = k + 1 THEN sum[k] + f[k + 1] ELSE sum[i]]
  <2>2. f[k + 1] \in Int
    OBVIOUS
  <2>3. more \in [0 .. k + 1 -> Int]
    BY <2>2
  <2>4. \A i \in 0 .. k + 1 : more[i] = IF i = 0 THEN 0 ELSE more[i - 1] + f[i]
    <3> TAKE i \in 0 .. k + 1
    <3>1. CASE i = k + 1
      BY <3>1
    <3>2. CASE i # k + 1
      BY <2>1, <3>2 DEF IsSum
    <3> QED
      BY <3>1, <3>2
  <2>5. IsSum(more, f, k + 1)
    BY <2>3, <2>4 DEF IsSum
  <2> QED
    BY <2>3, <2>5
<1> HIDE DEF T
<1>3. n \in T
  BY <1>1, <1>2, SetInduction
<1> QED
  BY <1>3 DEF T

\* ... which are determined by what is summed.
LEMMA SumUnique ==
  ASSUME NEW m \in Nat, NEW n \in Nat, NEW k \in Nat, k <= m, k <= n,
         NEW f, NEW g, Agree(f, g, k),
         NEW s, NEW t, IsSum(s, f, m), IsSum(t, g, n)
  PROVE  s[k] = t[k]
<1> DEFINE T == {j \in Nat : j <= k => s[j] = t[j]}
<1>1. 0 \in T
  BY DEF IsSum
<1>2. ASSUME NEW j \in Nat, j \in T PROVE j + 1 \in T
  <2> SUFFICES ASSUME j + 1 <= k PROVE s[j + 1] = t[j + 1]
    OBVIOUS
  <2>1. s[j + 1] = s[j] + f[j + 1] /\ t[j + 1] = t[j] + g[j + 1]
    BY DEF IsSum
  <2>2. f[j + 1] = g[j + 1]
    BY DEF Agree
  <2> QED
    BY <1>2, <2>1, <2>2
<1> HIDE DEF T
<1>3. k \in T
  BY <1>1, <1>2, SetInduction
<1> QED
  BY <1>3 DEF T

\* SumTo is the last of them.
LEMMA SumToPartial ==
  ASSUME NEW n \in Nat, NEW f, \A i \in 1 .. n : f[i] \in Int
  PROVE  \E sum \in [0 .. n -> Int] : IsSum(sum, f, n) /\ SumTo(f, n) = sum[n]
<1> DEFINE chosen == CHOOSE s : IsSum(s, f, n)
<1>1. PICK sum \in [0 .. n -> Int] : IsSum(sum, f, n)
  BY SumExists
<1>2. IsSum(chosen, f, n)
  BY <1>1
<1>3. SumTo(f, n) = chosen[n]
  BY DEF SumTo, IsSum
<1> HIDE DEF chosen
<1>4. chosen[n] = sum[n]
  BY <1>1, <1>2, SumUnique DEF Agree
<1> QED
  BY <1>1, <1>3, <1>4

\* The two equations that define a sum.
LEMMA SumToZero == \A f : SumTo(f, 0) = 0
<1> TAKE f
<1> \A i \in 1 .. 0 : f[i] \in Int
  OBVIOUS
<1> QED
  BY SumToPartial DEF IsSum

LEMMA SumToStep ==
  ASSUME NEW n \in Nat, NEW f, \A i \in 1 .. n + 1 : f[i] \in Int
  PROVE  /\ SumTo(f, n) \in Int
         /\ SumTo(f, n + 1) = SumTo(f, n) + f[n + 1]
<1> n + 1 \in Nat /\ \A i \in 1 .. n : f[i] \in Int
  OBVIOUS
<1>1. PICK s \in [0 .. n -> Int] : IsSum(s, f, n) /\ SumTo(f, n) = s[n]
  BY SumToPartial
<1>2. PICK t \in [0 .. n + 1 -> Int] : IsSum(t, f, n + 1) /\ SumTo(f, n + 1) = t[n + 1]
  BY SumToPartial
<1>3. s[n] = t[n]
  <2>1. Agree(f, f, n) /\ n <= n /\ n <= n + 1 /\ n + 1 \in Nat
    BY DEF Agree
  <2> QED
    BY <1>1, <1>2, <2>1, SumUnique
<1>4. n + 1 \in 1 .. n + 1 /\ (n + 1) - 1 = n /\ n \in 0 .. n
  OBVIOUS
<1>5. t[n + 1] = t[(n + 1) - 1] + f[n + 1]
  BY <1>2, <1>4 DEF IsSum
<1>6. t[n + 1] = s[n] + f[n + 1] /\ s[n] \in Int
  BY <1>1, <1>3, <1>4, <1>5
<1> QED
  BY <1>1, <1>2, <1>6

LEMMA SumToInt ==
  ASSUME NEW n \in Nat, NEW f, \A i \in 1 .. n : f[i] \in Int
  PROVE  SumTo(f, n) \in Int
BY SumToPartial

\* Equal numbers have equal sums.
LEMMA SumToEqual ==
  ASSUME NEW n \in Nat, NEW f, NEW g, \A i \in 1 .. n : f[i] \in Int /\ g[i] = f[i]
  PROVE  SumTo(g, n) = SumTo(f, n)
<1>1. PICK s \in [0 .. n -> Int] : IsSum(s, f, n) /\ SumTo(f, n) = s[n]
  BY SumToPartial
<1>2. PICK t \in [0 .. n -> Int] : IsSum(t, g, n) /\ SumTo(g, n) = t[n]
  BY SumToPartial
<1>3. n <= n /\ Agree(f, g, n)
  BY DEF Agree
<1>4. s[n] = t[n]
  BY <1>1, <1>2, <1>3, SumUnique
<1> QED
  BY <1>1, <1>2, <1>4

\* No sum of numbers that are not negative is.
LEMMA SumToNat ==
  ASSUME NEW n \in Nat, NEW f, \A i \in 1 .. n : f[i] \in Nat
  PROVE  SumTo(f, n) \in Nat
<1> DEFINE T == {k \in Nat : k <= n => SumTo(f, k) \in Nat}
<1>1. 0 \in T
  BY SumToZero
<1>2. ASSUME NEW k \in Nat, k \in T PROVE k + 1 \in T
  <2> SUFFICES ASSUME k + 1 <= n PROVE SumTo(f, k + 1) \in Nat
    OBVIOUS
  <2>1. (\A i \in 1 .. k + 1 : f[i] \in Int) /\ f[k + 1] \in Nat
    OBVIOUS
  <2>2. SumTo(f, k + 1) = SumTo(f, k) + f[k + 1]
    BY <2>1, SumToStep
  <2> QED
    BY <1>2, <2>1, <2>2
<1> HIDE DEF T
<1>3. n \in T
  BY <1>1, <1>2, SetInduction
<1> QED
  BY <1>3 DEF T

LEMMA SumToZeros ==
  ASSUME NEW n \in Nat, NEW f, \A i \in 1 .. n : f[i] = 0
  PROVE  SumTo(f, n) = 0
<1> DEFINE T == {k \in Nat : k <= n => SumTo(f, k) = 0}
<1>1. 0 \in T
  BY SumToZero
<1>2. ASSUME NEW k \in Nat, k \in T PROVE k + 1 \in T
  <2> SUFFICES ASSUME k + 1 <= n PROVE SumTo(f, k + 1) = 0
    OBVIOUS
  <2>1. (\A i \in 1 .. k + 1 : f[i] \in Int) /\ f[k + 1] = 0
    OBVIOUS
  <2>2. SumTo(f, k + 1) = SumTo(f, k) + f[k + 1]
    BY <2>1, SumToStep
  <2> QED
    BY <1>2, <2>1, <2>2
<1> HIDE DEF T
<1>3. n \in T
  BY <1>1, <1>2, SetInduction
<1> QED
  BY <1>3 DEF T

\* When one number is replaced, the sum grows by the difference.
LEMMA SumToReplace ==
  ASSUME NEW n \in Nat, NEW f, NEW g, NEW j \in 1 .. n,
         \A i \in 1 .. n : f[i] \in Int /\ g[i] \in Int,
         \A i \in 1 .. n : i # j => g[i] = f[i]
  PROVE  SumTo(g, n) = SumTo(f, n) - f[j] + g[j]
<1> DEFINE T == {k \in Nat : k <= n =>
                   SumTo(g, k) = SumTo(f, k) + (IF j <= k THEN g[j] - f[j] ELSE 0)}
<1>1. 0 \in T
  BY SumToZero
<1>2. ASSUME NEW k \in Nat, k \in T PROVE k + 1 \in T
  <2> SUFFICES ASSUME k + 1 <= n
               PROVE  SumTo(g, k + 1)
                        = SumTo(f, k + 1) + (IF j <= k + 1 THEN g[j] - f[j] ELSE 0)
    OBVIOUS
  <2>1. \A i \in 1 .. k + 1 : f[i] \in Int /\ g[i] \in Int
    OBVIOUS
  <2>2. /\ SumTo(f, k) \in Int /\ SumTo(g, k) \in Int
        /\ SumTo(f, k + 1) = SumTo(f, k) + f[k + 1]
        /\ SumTo(g, k + 1) = SumTo(g, k) + g[k + 1]
    BY <2>1, SumToStep
  <2>3. SumTo(g, k) = SumTo(f, k) + (IF j <= k THEN g[j] - f[j] ELSE 0)
    BY <1>2
  <2>4. f[j] \in Int /\ g[j] \in Int /\ f[k + 1] \in Int /\ g[k + 1] \in Int
    BY <2>1
  <2>5. CASE j = k + 1
    BY <2>2, <2>3, <2>4, <2>5
  <2>6. CASE j # k + 1
    <3>1. g[k + 1] = f[k + 1] /\ (j <= k + 1 <=> j <= k)
      BY <2>6
    <3> QED
      BY <2>2, <2>3, <2>4, <3>1
  <2> QED
    BY <2>5, <2>6
<1> HIDE DEF T
<1>3. n \in T
  BY <1>1, <1>2, SetInduction
<1>4. SumTo(g, n) = SumTo(f, n) + (g[j] - f[j])
  BY <1>3 DEF T
<1> QED
  BY <1>4, SumToInt

\* Smaller numbers have a smaller sum.
LEMMA SumToMonotone ==
  ASSUME NEW n \in Nat, NEW f, NEW g,
         \A i \in 1 .. n : f[i] \in Int /\ g[i] \in Int /\ f[i] <= g[i]
  PROVE  SumTo(f, n) <= SumTo(g, n)
<1> DEFINE T == {k \in Nat : k <= n => SumTo(f, k) <= SumTo(g, k)}
<1>1. 0 \in T
  BY SumToZero
<1>2. ASSUME NEW k \in Nat, k \in T PROVE k + 1 \in T
  <2> SUFFICES ASSUME k + 1 <= n PROVE SumTo(f, k + 1) <= SumTo(g, k + 1)
    OBVIOUS
  <2>1. \A i \in 1 .. k + 1 : f[i] \in Int /\ g[i] \in Int
    OBVIOUS
  <2>2. /\ SumTo(f, k) \in Int /\ SumTo(g, k) \in Int
        /\ SumTo(f, k + 1) = SumTo(f, k) + f[k + 1]
        /\ SumTo(g, k + 1) = SumTo(g, k) + g[k + 1]
    BY <2>1, SumToStep
  <2>3. f[k + 1] <= g[k + 1] /\ f[k + 1] \in Int /\ g[k + 1] \in Int
    OBVIOUS
  <2> QED
    BY <1>2, <2>2, <2>3
<1> HIDE DEF T
<1>3. n \in T
  BY <1>1, <1>2, SetInduction
<1> QED
  BY <1>3 DEF T

\* No number is greater than a sum it belongs to.
LEMMA SumToBounds ==
  ASSUME NEW n \in Nat, NEW f, \A i \in 1 .. n : f[i] \in Nat, NEW j \in 1 .. n
  PROVE  f[j] <= SumTo(f, n)
<1> DEFINE g == [i \in 1 .. n |-> IF i = j THEN 0 ELSE f[i]]
<1>1. \A i \in 1 .. n : g[i] \in Nat /\ f[i] \in Nat /\ g[i] \in Int /\ f[i] \in Int
  OBVIOUS
<1>2. SumTo(g, n) = SumTo(f, n) - f[j] + g[j]
  <2>1. \A i \in 1 .. n : i # j => g[i] = f[i]
    OBVIOUS
  <2> HIDE DEF g
  <2> QED
    BY <1>1, <2>1, SumToReplace
<1>3. g[j] = 0
  OBVIOUS
<1> HIDE DEF g
<1>4. SumTo(g, n) \in Nat /\ SumTo(f, n) \in Nat
  BY <1>1, SumToNat
<1> QED
  BY <1>1, <1>2, <1>3, <1>4

\* The sum over two sequences, one after the other.
Joins(h, f, m, g, n) ==
  /\ \A i \in 1 .. m : f[i] \in Int /\ h[i] = f[i]
  /\ \A i \in 1 .. n : g[i] \in Int /\ h[m + i] = g[i]

LEMMA SumToConcat ==
  ASSUME NEW m \in Nat, NEW n \in Nat, NEW f, NEW g, NEW h, Joins(h, f, m, g, n)
  PROVE  SumTo(h, m + n) = SumTo(f, m) + SumTo(g, n)
<1> DEFINE T == {k \in Nat : k <= n => SumTo(h, m + k) = SumTo(f, m) + SumTo(g, k)}
<1> USE DEF Joins
<1>0. \A i \in 1 .. m + n : h[i] \in Int
  <2> TAKE i \in 1 .. m + n
  <2>1. CASE i <= m
    BY <2>1
  <2>2. CASE i > m
    <3>1. i - m \in 1 .. n /\ m + (i - m) = i
      BY <2>2
    <3> QED
      BY <3>1
  <2> QED
    BY <2>1, <2>2
<1>1. 0 \in T
  <2>1. SumTo(h, m) = SumTo(f, m) /\ SumTo(f, m) \in Int
    BY SumToEqual, SumToInt
  <2> QED
    BY <2>1, SumToZero
<1>2. ASSUME NEW k \in Nat, k \in T PROVE k + 1 \in T
  <2> SUFFICES ASSUME k + 1 <= n
               PROVE  SumTo(h, m + (k + 1)) = SumTo(f, m) + SumTo(g, k + 1)
    OBVIOUS
  <2>1. /\ \A i \in 1 .. k + 1 : g[i] \in Int
        /\ \A i \in 1 .. (m + k) + 1 : h[i] \in Int
    BY <1>0
  <2>2. SumTo(g, k) \in Int /\ SumTo(g, k + 1) = SumTo(g, k) + g[k + 1]
    BY <2>1, SumToStep
  <2>3. SumTo(h, (m + k) + 1) = SumTo(h, m + k) + h[(m + k) + 1]
    <3>1. m + k \in Nat
      OBVIOUS
    <3> QED
      BY <2>1, <3>1, SumToStep
  <2>4. h[(m + k) + 1] = g[k + 1] /\ g[k + 1] \in Int
    <3>1. k + 1 \in 1 .. n /\ m + (k + 1) = (m + k) + 1
      OBVIOUS
    <3> QED
      BY <3>1
  <2>5. SumTo(f, m) \in Int
    BY SumToInt
  <2>6. m + (k + 1) = (m + k) + 1
    OBVIOUS
  <2> QED
    BY <1>2, <2>2, <2>3, <2>4, <2>5, <2>6
<1> HIDE DEF T
<1>3. n \in T
  BY <1>1, <1>2, SetInduction
<1> QED
  BY <1>3 DEF T

-----------------------------------------------------------------------------
(* Sums over finite sets *)

Enumerated(S, f) == [i \in 1 .. Cardinality(S) |-> f[SetToSeq(S)[i]]]

LEMMA SetToSeqEnumerates ==
  ASSUME NEW S, IsFiniteSet(S)
  PROVE  /\ Cardinality(S) \in Nat
         /\ SetToSeq(S) \in [1 .. Cardinality(S) -> S]
         /\ \A i, j \in 1 .. Cardinality(S) : SetToSeq(S)[i] = SetToSeq(S)[j] => i = j
         /\ \A x \in S : \E i \in 1 .. Cardinality(S) : SetToSeq(S)[i] = x
<1> DEFINE n == Cardinality(S)
<1>1. n \in Nat /\ ExistsBijection(1 .. n, S)
  BY FS_CardinalityType
<1>2. \E e \in [1 .. n -> S] : IsInjective(e)
  BY <1>1 DEF ExistsBijection, Bijection, Injection
<1>3. SetToSeq(S) \in [1 .. n -> S] /\ IsInjective(SetToSeq(S))
  BY <1>2 DEF SetToSeq
<1>4. SetToSeq(S) \in Injection(1 .. n, S)
  BY <1>3 DEF Injection
<1>5. SetToSeq(S) \in Surjection(1 .. n, S)
  <2>1. Cardinality(1 .. n) = n
    BY <1>1, FS_Interval
  <2> QED
    BY <1>4, <2>1, FS_Injection
<1> HIDE DEF n
<1> QED
  BY <1>1, <1>4, <1>5, Fun_InjectionProperties, Fun_SurjectionProperties DEF n

LEMMA SumOverNat ==
  ASSUME NEW S, IsFiniteSet(S), NEW f, \A x \in S : f[x] \in Nat
  PROVE  SumOver(S, f) \in Nat
<1>1. Cardinality(S) \in Nat /\ \A i \in 1 .. Cardinality(S) : Enumerated(S, f)[i] \in Nat
  BY SetToSeqEnumerates DEF Enumerated
<1>2. SumTo(Enumerated(S, f), Cardinality(S)) \in Nat
  BY <1>1, SumToNat
<1> QED
  BY <1>2 DEF SumOver, Enumerated

LEMMA SumOverInt ==
  ASSUME NEW S, IsFiniteSet(S), NEW f, \A x \in S : f[x] \in Int
  PROVE  SumOver(S, f) \in Int
<1>1. Cardinality(S) \in Nat /\ \A i \in 1 .. Cardinality(S) : Enumerated(S, f)[i] \in Int
  BY SetToSeqEnumerates DEF Enumerated
<1>2. SumTo(Enumerated(S, f), Cardinality(S)) \in Int
  BY <1>1, SumToInt
<1> QED
  BY <1>2 DEF SumOver, Enumerated

LEMMA SumOverReplace ==
  ASSUME NEW S, IsFiniteSet(S), NEW f, NEW g, NEW x \in S,
         \A y \in S : f[y] \in Int /\ g[y] \in Int,
         \A y \in S : y # x => g[y] = f[y]
  PROVE  SumOver(S, g) = SumOver(S, f) - f[x] + g[x]
<1> DEFINE n == Cardinality(S)
           F == Enumerated(S, f)
           G == Enumerated(S, g)
<1>1. PICK j \in 1 .. n : SetToSeq(S)[j] = x
  BY SetToSeqEnumerates
<1>2. n \in Nat /\ \A i \in 1 .. n : F[i] \in Int /\ G[i] \in Int
  BY SetToSeqEnumerates DEF Enumerated
<1>3. \A i \in 1 .. n : i # j => G[i] = F[i]
  BY <1>1, SetToSeqEnumerates DEF Enumerated
<1>4. F[j] = f[x] /\ G[j] = g[x]
  BY <1>1 DEF Enumerated
<1> HIDE DEF F, G, n
<1>5. SumTo(G, n) = SumTo(F, n) - F[j] + G[j]
  BY <1>2, <1>3, SumToReplace
<1> QED
  BY <1>4, <1>5 DEF SumOver, Enumerated, F, G, n

LEMMA SumOverMonotone ==
  ASSUME NEW S, IsFiniteSet(S), NEW f, NEW g,
         \A x \in S : f[x] \in Nat /\ g[x] \in Nat /\ f[x] <= g[x]
  PROVE  SumOver(S, f) <= SumOver(S, g)
<1> DEFINE n == Cardinality(S)
           F == Enumerated(S, f)
           G == Enumerated(S, g)
<1>1. n \in Nat /\ \A i \in 1 .. n : F[i] \in Int /\ G[i] \in Int /\ F[i] <= G[i]
  BY SetToSeqEnumerates DEF Enumerated
<1> HIDE DEF F, G, n
<1>2. SumTo(F, n) <= SumTo(G, n)
  BY <1>1, SumToMonotone
<1> QED
  BY <1>2 DEF SumOver, Enumerated, F, G, n

LEMMA SumOverBounds ==
  ASSUME NEW S, IsFiniteSet(S), NEW f, \A x \in S : f[x] \in Nat, NEW x \in S
  PROVE  f[x] <= SumOver(S, f)
<1> DEFINE n == Cardinality(S)
           F == Enumerated(S, f)
<1>1. PICK j \in 1 .. n : SetToSeq(S)[j] = x
  BY SetToSeqEnumerates
<1>2. n \in Nat /\ \A i \in 1 .. n : F[i] \in Nat
  BY SetToSeqEnumerates DEF Enumerated
<1>3. F[j] = f[x]
  BY <1>1 DEF Enumerated
<1> HIDE DEF F, n
<1>4. F[j] <= SumTo(F, n)
  BY <1>2, SumToBounds
<1> QED
  BY <1>3, <1>4 DEF SumOver, Enumerated, F, n

LEMMA SumOverZero ==
  ASSUME NEW S, IsFiniteSet(S), NEW f, \A x \in S : f[x] = 0
  PROVE  SumOver(S, f) = 0
<1> DEFINE n == Cardinality(S)
           F == Enumerated(S, f)
<1>1. n \in Nat /\ \A i \in 1 .. n : F[i] = 0
  BY SetToSeqEnumerates DEF Enumerated
<1> HIDE DEF F, n
<1>2. SumTo(F, n) = 0
  BY <1>1, SumToZeros
<1> QED
  BY <1>2 DEF SumOver, Enumerated, F, n
=============================================================================
