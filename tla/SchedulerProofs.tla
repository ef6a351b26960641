--------------------------- MODULE SchedulerProofs ---------------------------
(***************************************************************************)
(* What the scheduler's float arithmetic amounts to, for every precision   *)
(* and every pair of bandwidths: rounding is monotone and exact for few    *)
(* bits, a ratio is at most one, the relays get their share of the symbols *)
(* whose products are exact, and all of them from 2^Precision symbols on.  *)
(***************************************************************************)
EXTENDS Scheduler, FiniteSetTheorems, FunctionTheorems, TLAPS

-----------------------------------------------------------------------------
(* Induction. *)

\* Every set with 0 and all successors has all numbers.  The library's induction
\* theorem takes an operator, which the provers cannot instantiate; this takes a
\* set.  Were m missing, the missing numbers up to m would be a finite set that
\* k - 1 maps into itself, one to one but not onto.
LEMMA Induction ==
    ASSUME NEW S, 0 \in S, \A n \in Nat : n \in S => n + 1 \in S
    PROVE  Nat \subseteq S
<1> SUFFICES ASSUME NEW m \in Nat, m \notin S PROVE FALSE
  OBVIOUS
<1> DEFINE T == {k \in 0 .. m : k \notin S}
           f == [k \in T |-> k - 1]
<1>1. IsFiniteSet(T)
  <2>1. IsFiniteSet(0 .. m) /\ T \subseteq 0 .. m
    BY FS_Interval
  <2> QED
    BY <2>1, FS_Subset
<1>2. \A k \in T : k - 1 \in T
  <2> SUFFICES ASSUME NEW k \in 0 .. m, k \notin S PROVE k - 1 \in 0 .. m /\ k - 1 \notin S
    OBVIOUS
  <2>1. k # 0 /\ k - 1 \in Nat /\ (k - 1) + 1 = k
    OBVIOUS
  <2> QED
    BY <2>1
<1>3. f \in Injection(T, T)
  <2>1. f \in [T -> T] /\ \A k \in T : f[k] = k - 1 /\ k \in Int
    BY <1>2
  <2> HIDE DEF f, T
  <2>2. \A j, k \in T : f[j] = f[k] => j = k
    BY <2>1
  <2> QED
    BY <2>1, <2>2, Fun_IsInj
<1> HIDE DEF f
<1>4. f \in Surjection(T, T)
  BY <1>1, <1>3, FS_Injection
<1>5. \E k \in T : f[k] = m
  <2>1. m \in T
    OBVIOUS
  <2> QED
    BY <1>4, <2>1, Fun_SurjectionProperties
<1> QED
  BY <1>5 DEF f

\* The first of the numbers up to m that are in S.
LEMMA FirstOf ==
    ASSUME NEW S, NEW m \in Nat, m \in S
    PROVE  \E e \in 0 .. m : e \in S /\ (e = 0 \/ e - 1 \notin S)
<1> SUFFICES ASSUME \A e \in 0 .. m : e \in S => e # 0 /\ e - 1 \in S PROVE FALSE
  OBVIOUS
<1> DEFINE T == {k \in Nat : k <= m => k \notin S}
<1>1. 0 \in T
  OBVIOUS
<1>2. \A k \in Nat : k \in T => k + 1 \in T
  <2> SUFFICES ASSUME NEW k \in Nat, k <= m => k \notin S, k + 1 <= m PROVE k + 1 \notin S
    OBVIOUS
  <2>1. k + 1 \in 0 .. m /\ (k + 1) - 1 = k
    OBVIOUS
  <2> QED
    BY <2>1
<1> HIDE DEF T
<1>3. m \in T
  BY <1>1, <1>2, Induction
<1> QED
  BY <1>3 DEF T

-----------------------------------------------------------------------------
(* Powers of two: the subsets of 1 .. n. *)

\* A power of two is the number of subsets.
LEMMA PowSubsets ==
    ASSUME NEW n \in Nat
    PROVE  2 ^ n = Cardinality(SUBSET (1 .. n)) /\ IsFiniteSet(SUBSET (1 .. n)) /\ 2 ^ n \in Nat
<1>1. IsFiniteSet(1 .. n) /\ Cardinality(1 .. n) = n
  BY FS_Interval
<1>2. 2 ^ Cardinality(1 .. n) = Cardinality(SUBSET (1 .. n)) /\ IsFiniteSet(SUBSET (1 .. n))
  BY <1>1, FS_SUBSET
<1> QED
  BY <1>1, <1>2, FS_CardinalityType

\* Each subset goes with and without one more element.
LEMMA PowNext == \A n \in Nat : 2 ^ (n + 1) = 2 * 2 ^ n
<1> SUFFICES ASSUME NEW n \in Nat PROVE 2 ^ (n + 1) = 2 * 2 ^ n
  OBVIOUS
<1> DEFINE A == SUBSET (1 .. n)
           With(X) == X \cup {n + 1}
           B == {With(X) : X \in A}
           f == [X \in A |-> With(X)]
<1>1. IsFiniteSet(A) /\ Cardinality(A) = 2 ^ n /\ 2 ^ n \in Nat
  BY PowSubsets
<1>2. Cardinality(SUBSET (1 .. (n + 1))) = 2 ^ (n + 1)
  BY PowSubsets
<1>3. n + 1 \notin 1 .. n /\ 1 .. (n + 1) = (1 .. n) \cup {n + 1}
  OBVIOUS
<1>4. \A X \in A : n + 1 \notin X
  BY <1>3
<1>5. SUBSET (1 .. (n + 1)) = A \cup B
  <2>1. ASSUME NEW Y \in SUBSET (1 .. (n + 1)) PROVE Y \in A \cup B
    <3>1. CASE n + 1 \notin Y
      BY <1>3, <2>1, <3>1
    <3>2. CASE n + 1 \in Y
      <4>1. Y \ {n + 1} \in A /\ Y = With(Y \ {n + 1})
        BY <1>3, <2>1, <3>2
      <4> QED
        BY <4>1
    <3> QED
      BY <3>1, <3>2
  <2>2. A \cup B \subseteq SUBSET (1 .. (n + 1))
    BY <1>3
  <2> QED
    BY <2>1, <2>2
<1>6. A \cap B = {}
  BY <1>4
<1>7. IsFiniteSet(B) /\ Cardinality(B) = Cardinality(A)
  <2>1. f \in [A -> B] /\ \A X \in A : f[X] = With(X)
    OBVIOUS
  <2>2. \A X, Y \in A : With(X) = With(Y) => X = Y
    BY <1>4
  <2>3. \A Y \in B : \E X \in A : With(X) = Y
    OBVIOUS
  <2> HIDE DEF f, A, B, With
  <2>4. f \in Bijection(A, B)
    BY <2>1, <2>2, <2>3, Fun_IsBij
  <2> QED
    BY <1>1, <2>4, FS_Bijection DEF ExistsBijection
<1> HIDE DEF A, B
<1>8. Cardinality(A \cup B) = Cardinality(A) + Cardinality(B)
  <2>1. Cardinality(A \cup B) = Cardinality(A) + Cardinality(B) - Cardinality(A \cap B)
    BY <1>1, <1>7, FS_Union
  <2>2. Cardinality(A \cap B) = 0
    BY <1>6, FS_EmptySet
  <2> QED
    BY <1>1, <1>7, <2>1, <2>2
<1>9. 2 ^ (n + 1) = Cardinality(A) + Cardinality(A)
  BY <1>2, <1>5, <1>7, <1>8
<1> QED
  BY <1>1, <1>9

\* 2^n exceeds n.
LEMMA PowMore == \A n \in Nat : 2 ^ n \in Nat /\ 2 ^ n > n
<1> DEFINE S == {n \in Nat : 2 ^ n > n}
<1>1. 2 ^ 0 = 1
  OBVIOUS
<1>2. 0 \in S
  BY <1>1
<1>3. ASSUME NEW n \in Nat, 2 ^ n > n PROVE 2 ^ (n + 1) > n + 1
  BY <1>3, PowNext, PowSubsets
<1>4. \A n \in Nat : n \in S => n + 1 \in S
  BY <1>3
<1> HIDE DEF S
<1>5. Nat \subseteq S
  BY <1>2, <1>4, Induction
<1>6. ASSUME NEW n \in Nat PROVE 2 ^ n > n
  <2>1. n \in S
    BY <1>5
  <2> QED
    BY <2>1 DEF S
<1> QED
  BY <1>6, PowSubsets

\* Exponents add.
LEMMA PowSum == \A m, n \in Nat : 2 ^ (m + n) = 2 ^ m * 2 ^ n
<1> SUFFICES ASSUME NEW m \in Nat PROVE \A n \in Nat : 2 ^ (m + n) = 2 ^ m * 2 ^ n
  OBVIOUS
<1> DEFINE S == {n \in Nat : 2 ^ (m + n) = 2 ^ m * 2 ^ n}
<1>1. 0 \in S
  <2>1. 2 ^ 0 = 1
    OBVIOUS
  <2>2. m + 0 = m
    OBVIOUS
  <2>3. 2 ^ m \in Nat
    BY PowSubsets
  <2>4. 2 ^ m = 2 ^ m * 1
    BY <2>3
  <2> QED
    BY <2>1, <2>2, <2>4
<1>2. ASSUME NEW n \in Nat, 2 ^ (m + n) = 2 ^ m * 2 ^ n PROVE 2 ^ (m + (n + 1)) = 2 ^ m * 2 ^ (n + 1)
  <2>1. m + (n + 1) = (m + n) + 1 /\ m + n \in Nat
    OBVIOUS
  <2>2. 2 ^ ((m + n) + 1) = 2 * 2 ^ (m + n) /\ 2 ^ (n + 1) = 2 * 2 ^ n
    BY <2>1, PowNext
  <2>3. 2 ^ m \in Nat /\ 2 ^ n \in Nat
    BY PowSubsets
  <2>4. 2 * (2 ^ m * 2 ^ n) = 2 ^ m * (2 * 2 ^ n)
    BY <2>3
  <2> QED
    BY <1>2, <2>1, <2>2, <2>4
<1>3. \A n \in Nat : n \in S => n + 1 \in S
  BY <1>2
<1> HIDE DEF S
<1>4. Nat \subseteq S
  BY <1>1, <1>3, Induction
<1> QED
  BY <1>4 DEF S

\* Powers are ordered as their exponents are.
LEMMA PowOrder == \A m, n \in Nat : (m <= n => 2 ^ m <= 2 ^ n) /\ (m < n => 2 ^ (m + 1) <= 2 ^ n /\ 2 ^ m < 2 ^ n)
<1>1. ASSUME NEW m \in Nat, NEW n \in Nat, m <= n PROVE 2 ^ m <= 2 ^ n
  <2>1. n - m \in Nat /\ m + (n - m) = n
    BY <1>1
  <2>2. 2 ^ n = 2 ^ m * 2 ^ (n - m)
    BY <2>1, PowSum
  <2>3. 2 ^ m \in Nat /\ 2 ^ (n - m) \in Nat /\ 2 ^ (n - m) >= 1
    BY <2>1, PowMore
  <2>4. \A a, b \in Nat : b >= 1 => a <= a * b
    OBVIOUS
  <2> QED
    BY <2>2, <2>3, <2>4
<1>2. ASSUME NEW m \in Nat, NEW n \in Nat, m < n PROVE 2 ^ (m + 1) <= 2 ^ n /\ 2 ^ m < 2 ^ n
  <2>1. 2 ^ (m + 1) <= 2 ^ n
    BY <1>1, <1>2
  <2>2. 2 ^ (m + 1) = 2 * 2 ^ m /\ 2 ^ m \in Nat /\ 2 ^ m > m
    BY PowNext, PowMore
  <2>3. 2 ^ n \in Nat
    BY PowMore
  <2> QED
    BY <2>1, <2>2, <2>3
<1> QED
  BY <1>1, <1>2

-----------------------------------------------------------------------------
(* Rounding. *)

\* Quotient and remainder.
LEMMA Divided ==
    ASSUME NEW a \in Nat, NEW d \in Nat \ {0}
    PROVE  a \div d \in Nat /\ a % d \in Nat /\ a % d < d /\ a = d * (a \div d) + (a % d)
OBVIOUS

\* They are determined by their sum and the bound on the remainder.
LEMMA DividedIs ==
    ASSUME NEW d \in Nat \ {0}, NEW q \in Nat, NEW r \in Nat, r < d
    PROVE  (d * q + r) \div d = q /\ (d * q + r) % d = r
OBVIOUS

\* The nearest quotient is off by at most one half.
LEMMA NearestType ==
    ASSUME NEW num \in Nat, NEW den \in Nat \ {0}
    PROVE  /\ Nearest(num, den) \in Nat
           /\ 2 * (den * Nearest(num, den)) <= 2 * num + den
           /\ 2 * num <= 2 * (den * Nearest(num, den)) + den
<1> DEFINE q == num \div den
           r == num % den
<1>1. q \in Nat /\ r \in Nat /\ r < den /\ num = den * q + r
  BY Divided
<1>2. (Nearest(num, den) = q /\ 2 * r <= den) \/ (Nearest(num, den) = q + 1 /\ 2 * r >= den)
  BY <1>1 DEF Nearest
<1> HIDE DEF q, r
<1>3. den * (q + 1) = den * q + den
  BY <1>1
<1> QED
  BY <1>1, <1>2, <1>3

\* It stays on its side of every integer.
LEMMA NearestUpTo ==
    ASSUME NEW num \in Nat, NEW den \in Nat \ {0}, NEW k \in Nat, num <= den * k
    PROVE  Nearest(num, den) <= k
<1> DEFINE q == num \div den
           r == num % den
<1>1. q \in Nat /\ r \in Nat /\ r < den /\ num = den * q + r
  BY Divided
<1>2. Nearest(num, den) = q \/ (Nearest(num, den) = q + 1 /\ r > 0)
  BY <1>1 DEF Nearest
<1> HIDE DEF q, r
<1>3. CASE r > 0
  <2>1. den * q < den * k
    BY <1>1, <1>3
  <2>2. q < k
    BY <1>1, <2>1
  <2> QED
    BY <1>1, <1>2, <2>2
<1>4. CASE r = 0
  <2>1. den * q <= den * k
    BY <1>1, <1>4
  <2>2. q <= k
    BY <1>1, <2>1
  <2> QED
    BY <1>1, <1>2, <1>4, <2>2
<1> QED
  BY <1>1, <1>3, <1>4

\* The same from below.
LEMMA NearestFrom ==
    ASSUME NEW num \in Nat, NEW den \in Nat \ {0}, NEW k \in Nat, den * k <= num
    PROVE  Nearest(num, den) >= k
<1> DEFINE q == num \div den
           r == num % den
<1>1. q \in Nat /\ r \in Nat /\ r < den /\ num = den * q + r
  BY Divided
<1>2. Nearest(num, den) \in {q, q + 1}
  BY DEF Nearest
<1> HIDE DEF q, r
<1>3. den * k < den * (q + 1)
  <2>1. den * (q + 1) = den * q + den
    BY <1>1
  <2> QED
    BY <1>1, <2>1
<1>4. k < q + 1
  BY <1>1, <1>3
<1> QED
  BY <1>1, <1>2, <1>4

\* An exact quotient is its own nearest.
LEMMA NearestExact ==
    ASSUME NEW den \in Nat \ {0}, NEW k \in Nat
    PROVE  Nearest(den * k, den) = k
<1>1. den * k \in Nat /\ Nearest(den * k, den) \in Nat
  BY NearestType
<1> QED
  BY <1>1, NearestUpTo, NearestFrom

\* It grows with the dividend.
LEMMA NearestMonotone ==
    ASSUME NEW m \in Nat, NEW n \in Nat, NEW den \in Nat \ {0}, m <= n
    PROVE  Nearest(m, den) <= Nearest(n, den)
<1> DEFINE a == m \div den
           b == m % den
           c == n \div den
           d == n % den
<1>1. /\ a \in Nat /\ b \in Nat /\ b < den /\ m = den * a + b
      /\ c \in Nat /\ d \in Nat /\ d < den /\ n = den * c + d
  BY Divided
<1>2. Nearest(m, den) = IF 2 * b > den \/ (2 * b = den /\ a % 2 = 1) THEN a + 1 ELSE a
  BY DEF Nearest
<1>3. Nearest(n, den) = IF 2 * d > den \/ (2 * d = den /\ c % 2 = 1) THEN c + 1 ELSE c
  BY DEF Nearest
<1> HIDE DEF a, b, c, d
<1>4. den * a < den * (c + 1)
  <2>1. den * (c + 1) = den * c + den
    BY <1>1
  <2> QED
    BY <1>1, <2>1
<1>5. a <= c
  <2>1. a < c + 1
    BY <1>1, <1>4
  <2> QED
    BY <1>1, <2>1
<1>6. CASE a = c
  <2>1. b <= d
    BY <1>1, <1>6
  <2> QED
    BY <1>1, <1>2, <1>3, <1>6, <2>1
<1>7. CASE a # c
  BY <1>1, <1>2, <1>3, <1>5, <1>7
<1> QED
  BY <1>6, <1>7

-----------------------------------------------------------------------------
(* Floats. *)

\* Powers of two can be divided by.
LEMMA PowType == \A n \in Nat : 2 ^ n \in Nat \ {0}
BY PowMore

\* n has e bits beyond the precision, and is rounded by as many.
HasExcess(n, e) ==
    /\ e \in Nat /\ n < 2 ^ (Precision + e)
    /\ e = 0 \/ n >= 2 ^ (Precision + (e - 1))
    /\ ToFloat(n) = 2 ^ e * Nearest(n, 2 ^ e)

\* Every number has an excess: the least exponent that fits.
LEMMA Excess == \A n \in Nat : \E e : HasExcess(n, e)
<1> SUFFICES ASSUME NEW n \in Nat PROVE \E e : HasExcess(n, e)
  OBVIOUS
<1> DEFINE Fits(e) == n < 2 ^ (Precision + e)
           S == {e \in Nat : Fits(e)}
           excess == CHOOSE e \in 0 .. n : Fits(e) /\ (e = 0 \/ ~Fits(e - 1))
<1>1. n \in S
  <2>1. Precision + n \in Nat /\ 2 ^ (Precision + n) > Precision + n /\ 2 ^ (Precision + n) \in Nat
    BY SchedulerAssumption, PowMore
  <2> QED
    BY <2>1, SchedulerAssumption
<1>2. \E e \in 0 .. n : e \in S /\ (e = 0 \/ e - 1 \notin S)
  <2> HIDE DEF S
  <2> QED
    BY <1>1, FirstOf
<1>3. \E e \in 0 .. n : Fits(e) /\ (e = 0 \/ ~Fits(e - 1))
  <2>1. PICK e \in 0 .. n : e \in S /\ (e = 0 \/ e - 1 \notin S)
    BY <1>2
  <2>2. e = 0 \/ ~Fits(e - 1)
    BY <2>1
  <2> QED
    BY <2>1, <2>2
<1>4. excess \in 0 .. n /\ Fits(excess) /\ (excess = 0 \/ ~Fits(excess - 1))
  BY <1>3, Zenon
<1>5. ToFloat(n) = Nearest(n, 2 ^ excess) * 2 ^ excess
  BY DEF ToFloat
<1> HIDE DEF excess
<1>6. 2 ^ excess \in Nat \ {0} /\ Nearest(n, 2 ^ excess) \in Nat
  <2>1. excess \in Nat
    BY <1>4
  <2>2. 2 ^ excess \in Nat \ {0}
    BY <2>1, PowType
  <2> QED
    BY <2>2, NearestType
<1>7. ToFloat(n) = 2 ^ excess * Nearest(n, 2 ^ excess)
  BY <1>5, <1>6
<1>8. excess = 0 \/ n >= 2 ^ (Precision + (excess - 1))
  <2>1. CASE excess # 0
    <3>1. excess - 1 \in Nat /\ Precision + (excess - 1) \in Nat
      BY <1>4, <2>1, SchedulerAssumption
    <3>2. 2 ^ (Precision + (excess - 1)) \in Nat
      BY <3>1, PowType
    <3> QED
      BY <1>4, <2>1, <3>2
  <2> QED
    BY <2>1
<1> QED
  BY <1>4, <1>7, <1>8 DEF HasExcess

\* What fits the precision is exact.
LEMMA FloatExact == \A n \in Nat : n < 2 ^ Precision => ToFloat(n) = n
<1> SUFFICES ASSUME NEW n \in Nat, n < 2 ^ Precision PROVE ToFloat(n) = n
  OBVIOUS
<1>1. PICK e : HasExcess(n, e)
  BY Excess
<1>2. e = 0
  <2> SUFFICES ASSUME e # 0 PROVE FALSE
    OBVIOUS
  <2>1. e - 1 \in Nat /\ Precision + (e - 1) \in Nat /\ Precision <= Precision + (e - 1)
    BY <1>1, SchedulerAssumption DEF HasExcess
  <2>2. 2 ^ Precision <= 2 ^ (Precision + (e - 1))
    BY <2>1, PowOrder, SchedulerAssumption
  <2>3. 2 ^ Precision \in Nat /\ 2 ^ (Precision + (e - 1)) \in Nat
    BY <2>1, PowType, SchedulerAssumption
  <2> QED
    BY <1>1, <2>2, <2>3 DEF HasExcess
<1>3. ToFloat(n) = 2 ^ 0 * Nearest(n, 2 ^ 0) /\ 2 ^ 0 = 1
  BY <1>1, <1>2 DEF HasExcess
<1>4. Nearest(n, 1) = n
  <2>1. Nearest(1 * n, 1) = n /\ 1 * n = n
    BY NearestExact
  <2> QED
    BY <2>1
<1> QED
  BY <1>3, <1>4

\* A rounded number lies between the powers of two around the number.
LEMMA FloatAround ==
    ASSUME NEW n \in Nat, NEW e, HasExcess(n, e)
    PROVE  /\ ToFloat(n) \in Nat /\ ToFloat(n) <= 2 ^ (Precision + e)
           /\ e = 0 \/ ToFloat(n) >= 2 ^ (Precision + (e - 1))
           /\ Nearest(n, 2 ^ e) \in Nat /\ Nearest(n, 2 ^ e) <= 2 ^ Precision
<1>1. e \in Nat /\ 2 ^ e \in Nat \ {0} /\ 2 ^ Precision \in Nat /\ 2 ^ (Precision + e) \in Nat
  BY PowType, SchedulerAssumption DEF HasExcess
<1>2. 2 ^ (Precision + e) = 2 ^ e * 2 ^ Precision
  <2>1. 2 ^ (Precision + e) = 2 ^ Precision * 2 ^ e
    BY <1>1, PowSum, SchedulerAssumption
  <2> QED
    BY <1>1, <2>1
<1>3. Nearest(n, 2 ^ e) \in Nat /\ Nearest(n, 2 ^ e) <= 2 ^ Precision
  <2>1. n <= 2 ^ e * 2 ^ Precision
    BY <1>1, <1>2 DEF HasExcess
  <2> QED
    BY <1>1, <2>1, NearestUpTo, NearestType
<1>4. ToFloat(n) \in Nat /\ ToFloat(n) <= 2 ^ (Precision + e)
  <2>1. ToFloat(n) = 2 ^ e * Nearest(n, 2 ^ e)
    BY DEF HasExcess
  <2> HIDE DEF HasExcess
  <2>2. \A q, d, p \in Nat : q <= p => d * q \in Nat /\ d * q <= d * p
    OBVIOUS
  <2> QED
    BY <1>1, <1>2, <1>3, <2>1, <2>2
<1>5. ASSUME e # 0 PROVE ToFloat(n) >= 2 ^ (Precision + (e - 1))
  <2>1. Precision - 1 \in Nat /\ Precision + (e - 1) = (Precision - 1) + e
    BY <1>1, SchedulerAssumption
  <2>2. 2 ^ ((Precision - 1) + e) = 2 ^ (Precision - 1) * 2 ^ e /\ 2 ^ (Precision - 1) \in Nat
    BY <1>1, <2>1, PowSum, PowType
  <2>3. n >= 2 ^ e * 2 ^ (Precision - 1)
    BY <1>1, <1>5, <2>1, <2>2 DEF HasExcess
  <2>4. Nearest(n, 2 ^ e) >= 2 ^ (Precision - 1)
    BY <1>1, <2>2, <2>3, NearestFrom
  <2>5. ToFloat(n) = 2 ^ e * Nearest(n, 2 ^ e)
    BY DEF HasExcess
  <2>6. \A q, d, p \in Nat : p <= q => d * q >= p * d
    OBVIOUS
  <2> QED
    BY <1>1, <1>3, <2>1, <2>2, <2>4, <2>5, <2>6
<1> QED
  BY <1>3, <1>4, <1>5

\* Rounding does not reorder.
LEMMA FloatMonotone == \A m, n \in Nat : m <= n => ToFloat(m) <= ToFloat(n)
<1> SUFFICES ASSUME NEW m \in Nat, NEW n \in Nat, m <= n PROVE ToFloat(m) <= ToFloat(n)
  OBVIOUS
<1>1. PICK d : HasExcess(m, d)
  BY Excess
<1>2. PICK e : HasExcess(n, e)
  BY Excess
<1>3. d \in Nat /\ e \in Nat
  BY <1>1, <1>2 DEF HasExcess
<1>4. /\ ToFloat(m) \in Nat /\ ToFloat(m) <= 2 ^ (Precision + d)
      /\ ToFloat(n) \in Nat /\ (e = 0 \/ ToFloat(n) >= 2 ^ (Precision + (e - 1)))
  BY <1>1, <1>2, FloatAround
<1>5. \A k \in Nat : 2 ^ (Precision + k) \in Nat
  <2> TAKE k \in Nat
  <2>1. Precision + k \in Nat
    BY SchedulerAssumption
  <2> QED
    BY <2>1, PowType
<1>6. CASE d = e
  <2>1. 2 ^ e \in Nat \ {0}
    BY <1>3, PowType
  <2>2. /\ Nearest(m, 2 ^ e) <= Nearest(n, 2 ^ e)
        /\ Nearest(m, 2 ^ e) \in Nat /\ Nearest(n, 2 ^ e) \in Nat
    BY <2>1, NearestMonotone, NearestType
  <2>3. ToFloat(m) = 2 ^ e * Nearest(m, 2 ^ e) /\ ToFloat(n) = 2 ^ e * Nearest(n, 2 ^ e)
    BY <1>1, <1>2, <1>6 DEF HasExcess
  <2>4. \A a, b, c \in Nat : b <= c => a * b <= a * c
    OBVIOUS
  <2> QED
    BY <2>1, <2>2, <2>3, <2>4
<1>7. CASE d < e
  <2>1. e - 1 \in Nat /\ Precision + d \in Nat /\ Precision + (e - 1) \in Nat
        /\ Precision + d <= Precision + (e - 1)
    BY <1>3, <1>7, SchedulerAssumption
  <2>2. 2 ^ (Precision + d) <= 2 ^ (Precision + (e - 1))
    BY <2>1, PowOrder
  <2> QED
    BY <1>3, <1>4, <1>5, <1>7, <2>1, <2>2
<1>8. CASE d > e
  <2>1. d - 1 \in Nat /\ Precision + e \in Nat /\ Precision + (d - 1) \in Nat
        /\ Precision + e <= Precision + (d - 1)
    BY <1>3, <1>8, SchedulerAssumption
  <2>2. 2 ^ (Precision + e) <= 2 ^ (Precision + (d - 1))
    BY <2>1, PowOrder
  <2>3. m >= 2 ^ (Precision + (d - 1)) /\ n < 2 ^ (Precision + e)
    BY <1>1, <1>2, <1>3, <1>8 DEF HasExcess
  <2> QED
    BY <1>3, <1>5, <2>1, <2>2, <2>3
<1> QED
  BY <1>3, <1>6, <1>7, <1>8

\* Rounding moves a number by at most a half of it.
LEMMA FloatType == \A n \in Nat : ToFloat(n) \in Nat /\ 2 * ToFloat(n) <= 3 * n /\ n <= 2 * ToFloat(n)
<1> SUFFICES ASSUME NEW n \in Nat
             PROVE  ToFloat(n) \in Nat /\ 2 * ToFloat(n) <= 3 * n /\ n <= 2 * ToFloat(n)
  OBVIOUS
<1>1. PICK e : HasExcess(n, e)
  BY Excess
<1>2. e \in Nat /\ ToFloat(n) \in Nat
  BY <1>1, FloatAround DEF HasExcess
<1>3. CASE n < 2 ^ Precision
  BY <1>3, FloatExact
<1>4. CASE ~(n < 2 ^ Precision)
  <2>1. e # 0
    BY <1>1, <1>4, SchedulerAssumption DEF HasExcess
  <2>2. Precision + (e - 1) \in Nat /\ e <= Precision + (e - 1)
    BY <1>2, <2>1, SchedulerAssumption
  <2>3. 2 ^ e <= 2 ^ (Precision + (e - 1)) /\ 2 ^ (Precision + (e - 1)) \in Nat
    BY <1>2, <2>2, PowOrder, PowType
  <2>4. 2 ^ e \in Nat \ {0}
    BY <1>2, PowType
  <2>5. 2 ^ e <= n
    BY <1>1, <2>1, <2>3, <2>4 DEF HasExcess
  <2>6. /\ 2 * (2 ^ e * Nearest(n, 2 ^ e)) <= 2 * n + 2 ^ e
        /\ 2 * n <= 2 * (2 ^ e * Nearest(n, 2 ^ e)) + 2 ^ e
    BY <2>4, NearestType
  <2>7. ToFloat(n) = 2 ^ e * Nearest(n, 2 ^ e)
    BY <1>1 DEF HasExcess
  <2> QED
    BY <1>2, <2>4, <2>5, <2>6, <2>7
<1> QED
  BY <1>3, <1>4

\* A number of at most Precision bits and any exponent is exact.
LEMMA FloatScaledBelow == \A k, j \in Nat : k < 2 ^ Precision => ToFloat(k * 2 ^ j) = k * 2 ^ j
<1> SUFFICES ASSUME NEW k \in Nat, NEW j \in Nat, k < 2 ^ Precision
             PROVE  ToFloat(k * 2 ^ j) = k * 2 ^ j
  OBVIOUS
<1> DEFINE n == k * 2 ^ j
<1>1. 2 ^ j \in Nat \ {0} /\ 2 ^ Precision \in Nat /\ n \in Nat
  BY PowType, SchedulerAssumption
<1>2. n < 2 ^ (Precision + j) /\ 2 ^ (Precision + j) \in Nat
  <2>1. 2 ^ (Precision + j) = 2 ^ Precision * 2 ^ j
    BY PowSum, SchedulerAssumption
  <2>2. \A a, b, c \in Nat : a < b /\ c # 0 => a * c < b * c
    OBVIOUS
  <2> QED
    BY <1>1, <2>1, <2>2
<1> HIDE DEF n
<1>3. PICK e : HasExcess(n, e)
  BY <1>1, Excess
<1>4. e \in Nat /\ e <= j
  <2>1. e \in Nat
    BY <1>3 DEF HasExcess
  <2>2. ASSUME e > j PROVE FALSE
    <3>1. Precision + (e - 1) \in Nat /\ Precision + j \in Nat /\ Precision + j <= Precision + (e - 1)
      BY <2>1, <2>2, SchedulerAssumption
    <3>2. 2 ^ (Precision + j) <= 2 ^ (Precision + (e - 1)) /\ 2 ^ (Precision + (e - 1)) \in Nat
      BY <3>1, PowOrder, PowType
    <3> QED
      BY <1>1, <1>2, <1>3, <2>1, <2>2, <3>2 DEF HasExcess
  <2> QED
    BY <2>1, <2>2
<1>5. j - e \in Nat /\ (j - e) + e = j
  BY <1>4
<1>6. 2 ^ j = 2 ^ (j - e) * 2 ^ e /\ 2 ^ (j - e) \in Nat /\ 2 ^ e \in Nat \ {0}
  <2>1. 2 ^ ((j - e) + e) = 2 ^ (j - e) * 2 ^ e
    BY <1>4, <1>5, PowSum
  <2> QED
    BY <1>4, <1>5, <2>1, PowType
<1>7. n = 2 ^ e * (k * 2 ^ (j - e)) /\ k * 2 ^ (j - e) \in Nat
  <2>1. \A a, b, c \in Nat : a * (b * c) = c * (a * b) /\ a * b \in Nat
    OBVIOUS
  <2> QED
    BY <1>6, <2>1 DEF n
<1>8. Nearest(n, 2 ^ e) = k * 2 ^ (j - e)
  BY <1>6, <1>7, NearestExact
<1>9. ToFloat(n) = n
  BY <1>3, <1>7, <1>8 DEF HasExcess
<1> QED
  BY <1>9 DEF n

\* So is the number that is one more than the largest such.
LEMMA FloatScaled == \A k, j \in Nat : k <= 2 ^ Precision => ToFloat(k * 2 ^ j) = k * 2 ^ j
<1> SUFFICES ASSUME NEW j \in Nat PROVE ToFloat(2 ^ Precision * 2 ^ j) = 2 ^ Precision * 2 ^ j
  <2>1. 2 ^ Precision \in Nat
    BY PowType, SchedulerAssumption
  <2> QED
    BY <2>1, FloatScaledBelow
<1>1. Precision - 1 \in Nat /\ (Precision - 1) + 1 = Precision
  BY SchedulerAssumption
<1>2. 2 ^ Precision = 2 * 2 ^ (Precision - 1) /\ 2 ^ (Precision - 1) \in Nat \ {0}
  BY <1>1, PowNext, PowType
<1>3. 2 ^ (j + 1) = 2 * 2 ^ j /\ 2 ^ j \in Nat
  BY PowNext, PowType
<1>4. 2 ^ Precision * 2 ^ j = 2 ^ (Precision - 1) * 2 ^ (j + 1)
  <2>1. \A a, b \in Nat : (2 * a) * b = a * (2 * b)
    OBVIOUS
  <2> QED
    BY <1>2, <1>3, <2>1
<1>5. 2 ^ (Precision - 1) < 2 ^ Precision
  BY <1>2
<1>6. j + 1 \in Nat
  OBVIOUS
<1>7. ToFloat(2 ^ (Precision - 1) * 2 ^ (j + 1)) = 2 ^ (Precision - 1) * 2 ^ (j + 1)
  BY <1>2, <1>5, <1>6, FloatScaledBelow
<1> QED
  BY <1>4, <1>7

-----------------------------------------------------------------------------
(* The ratio. *)

\* The exponent of the general case.
RatioExp(a, b, bound) ==
    LET Enough(e) == a * 2 ^ e >= b * 2 ^ (Precision - 1)
    IN  CHOOSE e \in 0 .. bound : Enough(e) /\ (e = 0 \/ ~Enough(e - 1))

\* It exists as soon as some exponent within the bound is large enough.
LEMMA RatioExpIs ==
    ASSUME NEW a \in Nat, NEW b \in Nat, NEW bound \in Nat, a * 2 ^ bound >= b * 2 ^ (Precision - 1)
    PROVE  LET shift == RatioExp(a, b, bound)
           IN  /\ shift \in Nat /\ a * 2 ^ shift >= b * 2 ^ (Precision - 1)
               /\ shift = 0 \/ ~(a * 2 ^ (shift - 1) >= b * 2 ^ (Precision - 1))
<1> DEFINE Enough(e) == a * 2 ^ e >= b * 2 ^ (Precision - 1)
           S == {e \in Nat : Enough(e)}
           shift == CHOOSE e \in 0 .. bound : Enough(e) /\ (e = 0 \/ ~Enough(e - 1))
<1>1. \E e \in 0 .. bound : e \in S /\ (e = 0 \/ e - 1 \notin S)
  <2>1. bound \in S
    OBVIOUS
  <2> HIDE DEF S
  <2> QED
    BY <2>1, FirstOf
<1>2. \E e \in 0 .. bound : Enough(e) /\ (e = 0 \/ ~Enough(e - 1))
  <2>1. PICK e \in 0 .. bound : e \in S /\ (e = 0 \/ e - 1 \notin S)
    BY <1>1
  <2>2. e = 0 \/ ~Enough(e - 1)
    BY <2>1
  <2> QED
    BY <2>1, <2>2
<1>3. shift \in 0 .. bound /\ Enough(shift) /\ (shift = 0 \/ ~Enough(shift - 1))
  BY <1>2, Zenon
<1>4. RatioExp(a, b, bound) = shift
  BY DEF RatioExp
<1>5. shift \in Nat
  BY <1>3
<1> HIDE DEF shift
<1> QED
  BY <1>3, <1>4, <1>5, Zenon

\* Some exponent is large enough, whatever the bandwidths.
LEMMA EnoughBits ==
    ASSUME NEW p2p \in Nat, NEW relay \in Nat \ {0}, NEW a \in Nat, NEW b \in Nat,
           relay <= 2 * a, 2 * b <= 3 * (p2p + relay)
    PROVE  a * 2 ^ (2 * Precision + p2p) >= b * 2 ^ (Precision - 1)
<1> DEFINE h == 2 ^ (Precision - 1)
           w == 2 ^ (Precision + 1 + p2p)
<1>1. Precision - 1 \in Nat /\ Precision + 1 + p2p \in Nat
      /\ 2 * Precision + p2p = (Precision - 1) + (Precision + 1 + p2p)
  BY SchedulerAssumption
<1>2. 2 ^ (2 * Precision + p2p) = h * w /\ h \in Nat /\ w \in Nat
  BY <1>1, PowSum, PowType
<1>3. w >= p2p + 2
  <2>1. w > Precision + 1 + p2p
    BY <1>1, PowMore
  <2> QED
    BY <1>2, <2>1, SchedulerAssumption
<1>4. 2 ^ 2 = 4
  OBVIOUS
<1>5. w >= 4 * (p2p + 1)
  <2>1. 2 ^ (Precision + 1 + p2p) = 2 ^ (Precision + 1) * 2 ^ p2p
    BY PowSum, SchedulerAssumption
  <2>2. 2 ^ (Precision + 1) = 2 * 2 ^ Precision /\ 2 ^ Precision = 2 * h
    <3>1. (Precision - 1) + 1 = Precision
      BY SchedulerAssumption
    <3> QED
      BY <1>1, <3>1, PowNext, SchedulerAssumption
  <2>3. 2 ^ (Precision + 1) >= 4 /\ 2 ^ (Precision + 1) \in Nat
    <3>1. h >= 1
      BY <1>1, PowType
    <3> QED
      BY <1>2, <2>2, <3>1
  <2>4. 2 ^ p2p \in Nat /\ 2 ^ p2p >= p2p + 1
    BY PowMore
  <2>5. \A x, y, z \in Nat : x >= 4 /\ y >= z => x * y >= 4 * z
    <3> SUFFICES ASSUME NEW x \in Nat, NEW y \in Nat, NEW z \in Nat, x >= 4, y >= z PROVE x * y >= 4 * z
      OBVIOUS
    <3>1. x * y >= 4 * y
      OBVIOUS
    <3> QED
      BY <3>1
  <2> QED
    BY <2>1, <2>3, <2>4, <2>5
<1> HIDE DEF h, w
<1>6. a * w >= b
  <2>1. a * w >= a * (4 * (p2p + 1))
    BY <1>2, <1>5
  <2>2. a * (4 * (p2p + 1)) = 2 * ((2 * a) * (p2p + 1))
    OBVIOUS
  <2>3. (2 * a) * (p2p + 1) >= relay * (p2p + 1)
    OBVIOUS
  <2>4. relay * (p2p + 1) = relay * p2p + relay /\ relay * p2p >= p2p
    OBVIOUS
  <2>5. relay * (p2p + 1) \in Nat /\ (2 * a) * (p2p + 1) \in Nat /\ a * w \in Nat
    BY <1>2
  <2> QED
    BY <2>1, <2>2, <2>3, <2>4, <2>5
<1>7. h * (a * w) >= h * b
  BY <1>2, <1>6
<1>8. a * (h * w) = h * (a * w) /\ h * b = b * h
  BY <1>2
<1> QED
  BY <1>2, <1>7, <1>8 DEF h

\* A ratio is at most one.
LEMMA RatioType ==
    ASSUME NEW p2p \in Nat, NEW relay \in Nat
    PROVE  LET ratio == Ratio(p2p, relay)
           IN  ratio.mant \in Nat /\ ratio.exp \in Nat /\ ratio.mant <= 2 ^ ratio.exp
<1>1. CASE p2p + relay = 0
  <2>1. Ratio(p2p, relay) = [mant |-> 1, exp |-> 1]
    BY <1>1 DEF Ratio
  <2>2. 2 ^ 1 \in Nat /\ 2 ^ 1 > 1
    BY PowMore
  <2> QED
    BY <2>1, <2>2
<1>2. CASE p2p + relay # 0 /\ relay = 0
  <2>1. Ratio(p2p, relay) = [mant |-> 0, exp |-> 0]
    BY <1>2 DEF Ratio
  <2>2. 2 ^ 0 \in Nat
    BY PowType
  <2> QED
    BY <2>1, <2>2
<1>3. CASE p2p + relay # 0 /\ relay # 0
  <2> DEFINE a == ToFloat(relay)
             b == ToFloat(p2p + relay)
             bound == 2 * Precision + p2p
             shift == RatioExp(a, b, bound)
  <2>1. Ratio(p2p, relay) = [mant |-> Nearest(a * 2 ^ shift, b), exp |-> shift]
    BY <1>3 DEF Ratio, RatioExp
  <2>2. p2p + relay \in Nat /\ relay <= p2p + relay
    OBVIOUS
  <2>3. /\ a \in Nat /\ relay <= 2 * a
        /\ b \in Nat /\ p2p + relay <= 2 * b /\ 2 * b <= 3 * (p2p + relay)
    BY <2>2, FloatType
  <2>4. a <= b
    BY <2>2, FloatMonotone
  <2>5. b # 0
    BY <1>3, <2>2, <2>3
  <2>6. bound \in Nat
    BY SchedulerAssumption
  <2> HIDE DEF a, b
  <2>7. a * 2 ^ bound >= b * 2 ^ (Precision - 1)
    BY <1>3, <2>3, EnoughBits
  <2> HIDE DEF bound
  <2>8. shift \in Nat
    BY <2>3, <2>6, <2>7, RatioExpIs, Zenon
  <2> HIDE DEF shift
  <2>9. 2 ^ shift \in Nat
    BY <2>8, PowType
  <2>10. \A x \in Nat : a * x \in Nat /\ a * x <= b * x
    BY <2>3, <2>4
  <2>11. Nearest(a * 2 ^ shift, b) \in Nat /\ Nearest(a * 2 ^ shift, b) <= 2 ^ shift
    BY <2>3, <2>5, <2>9, <2>10, NearestType, NearestUpTo
  <2>12. Ratio(p2p, relay).mant = Nearest(a * 2 ^ shift, b) /\ Ratio(p2p, relay).exp = shift
    BY <2>1
  <2> QED
    BY <2>8, <2>11, <2>12
<1> QED
  BY <1>1, <1>2, <1>3

\* Equal bandwidths: one half.
LEMMA EqualRatio == Ratio(1, 1) = [mant |-> 2 ^ (Precision - 1), exp |-> Precision]
<1> DEFINE h == 2 ^ (Precision - 1)
           bound == 2 * Precision + 1
           shift == RatioExp(1, 2, bound)
<1>1. Precision - 1 \in Nat /\ (Precision - 1) + 1 = Precision /\ bound \in Nat
  BY SchedulerAssumption
<1>2. h \in Nat \ {0} /\ 2 ^ Precision = 2 * h /\ 2 ^ 0 = 1
  BY <1>1, PowType, PowNext
<1>3. ToFloat(1) = 1
  <2>1. 1 < 2 ^ Precision
    BY <1>2
  <2> QED
    BY <2>1, FloatExact
<1>4. ToFloat(2) = 2
  <2>1. 2 ^ 1 = 2 * 2 ^ 0
    BY PowNext
  <2>2. 1 <= 2 ^ Precision
    BY <1>2
  <2>3. ToFloat(1 * 2 ^ 1) = 1 * 2 ^ 1
    BY <2>2, FloatScaled
  <2> QED
    BY <1>2, <2>1, <2>3
<1>5. Ratio(1, 1) = [mant |-> Nearest(1 * 2 ^ shift, 2), exp |-> shift]
  <2>1. 1 + 1 = 2 /\ 2 # 0 /\ 1 # 0 /\ 2 * Precision + 1 = bound
    OBVIOUS
  <2> HIDE DEF bound, shift
  <2>2. Ratio(1, 1) = [mant |-> Nearest(ToFloat(1) * 2 ^ RatioExp(ToFloat(1), ToFloat(2), bound), ToFloat(2)),
                       exp |-> RatioExp(ToFloat(1), ToFloat(2), bound)]
    BY <2>1 DEF Ratio, RatioExp
  <2> QED
    BY <1>3, <1>4, <2>2 DEF shift
<1>6. 1 * 2 ^ bound >= 2 * 2 ^ (Precision - 1)
  <2>1. bound \in Nat /\ Precision <= bound
    BY SchedulerAssumption
  <2>2. 2 ^ Precision <= 2 ^ bound /\ 2 ^ bound \in Nat
    BY <2>1, PowOrder, PowType, SchedulerAssumption
  <2> QED
    BY <1>2, <2>2
<1> HIDE DEF bound
<1>7. shift \in Nat /\ 1 * 2 ^ shift >= 2 * h /\ (shift = 0 \/ ~(1 * 2 ^ (shift - 1) >= 2 * h))
  <2>1. 1 \in Nat /\ 2 \in Nat
    OBVIOUS
  <2> QED
    BY <1>1, <1>6, <2>1, RatioExpIs, Zenon
<1> HIDE DEF shift, h
<1>8. shift \in Nat
  BY <1>7
<1>9. 2 ^ Precision <= 2 ^ shift /\ 2 ^ shift \in Nat
  <2>1. 2 ^ shift \in Nat
    BY <1>8, PowType
  <2>2. 1 * 2 ^ shift >= 2 * h
    BY <1>7
  <2> QED
    BY <1>2, <2>1, <2>2
<1>10. shift >= Precision
  <2>1. shift < Precision => 2 ^ shift < 2 ^ Precision
    BY <1>8, PowOrder, SchedulerAssumption
  <2>2. 2 ^ Precision \in Nat
    BY PowType, SchedulerAssumption
  <2>3. ~(shift < Precision)
    BY <1>9, <2>1, <2>2
  <2> QED
    BY <1>8, <2>3, SchedulerAssumption
<1>11. shift <= Precision
  <2>1. ASSUME shift > Precision PROVE FALSE
    <3>1. shift - 1 \in Nat /\ Precision <= shift - 1 /\ shift # 0
      BY <1>8, <2>1, SchedulerAssumption
    <3>2. 2 ^ Precision <= 2 ^ (shift - 1) /\ 2 ^ (shift - 1) \in Nat
      BY <3>1, PowOrder, PowType, SchedulerAssumption
    <3>3. ~(1 * 2 ^ (shift - 1) >= 2 * h)
      BY <1>7, <3>1
    <3> QED
      BY <1>2, <3>2, <3>3
  <2> QED
    BY <1>8, <2>1, SchedulerAssumption
<1>12. shift = Precision
  BY <1>8, <1>10, <1>11, SchedulerAssumption
<1>13. Nearest(1 * 2 ^ shift, 2) = h
  <2>1. Nearest(2 * h, 2) = h
    BY <1>2, NearestExact
  <2> QED
    BY <1>2, <1>12, <2>1
<1> QED
  BY <1>5, <1>12, <1>13 DEF h

-----------------------------------------------------------------------------
(* Counting. *)

\* The members of S below n.
Below(S, n) == {s \in 0 .. (n - 1) : s \in S}

\* There is no number below zero.
LEMMA BelowNone == \A S : IsFiniteSet(Below(S, 0)) /\ Cardinality(Below(S, 0)) = 0
<1> SUFFICES ASSUME NEW S PROVE Below(S, 0) = {}
  BY FS_EmptySet
<1> QED
  BY DEF Below

\* One number more.
LEMMA BelowNext ==
    ASSUME NEW S, NEW n \in Nat, IsFiniteSet(Below(S, n))
    PROVE  /\ IsFiniteSet(Below(S, n + 1))
           /\ Cardinality(Below(S, n)) \in Nat
           /\ Cardinality(Below(S, n + 1)) = Cardinality(Below(S, n)) + (IF n \in S THEN 1 ELSE 0)
<1>1. Cardinality(Below(S, n)) \in Nat
  BY FS_CardinalityType
<1>2. CASE n \in S
  <2>1. Below(S, n + 1) = Below(S, n) \cup {n} /\ n \notin Below(S, n)
    BY <1>2 DEF Below
  <2> QED
    BY <1>1, <1>2, <2>1, FS_AddElement
<1>3. CASE n \notin S
  <2>1. Below(S, n + 1) = Below(S, n)
    BY <1>3 DEF Below
  <2> QED
    BY <1>1, <1>3, <2>1
<1> QED
  BY <1>2, <1>3

\* The numbers whose slot is below mant are mant in D, up to one: after n numbers
\* D times their count is n * mant, less the next slot if that is one of theirs,
\* and else plus what that slot lacks to D.
LEMMA Share ==
    ASSUME NEW D \in Nat \ {0}, NEW mant \in Nat, mant <= D
    PROVE  \A n \in Nat : LET S == {s \in Nat : (s * mant) % D < mant}
                          IN  Cardinality(Below(S, n)) * D - n * mant \in (-D) .. D
<1> DEFINE S == {s \in Nat : (s * mant) % D < mant}
           slot(n) == (n * mant) % D
           count(n) == Cardinality(Below(S, n))
           ahead(n) == IF mant = 0 \/ slot(n) < mant THEN -slot(n) ELSE D - slot(n)
           T == {n \in Nat : IsFiniteSet(Below(S, n)) /\ count(n) * D = n * mant + ahead(n)}
<1>1. \A n \in Nat : n * mant \in Nat /\ slot(n) \in Nat /\ slot(n) < D
  <2> TAKE n \in Nat
  <2>1. n * mant \in Nat
    OBVIOUS
  <2> QED
    BY <2>1, Divided
<1>2. \A n \in Nat : slot(n + 1) = IF slot(n) + mant < D THEN slot(n) + mant ELSE slot(n) + mant - D
  <2> TAKE n \in Nat
  <2> DEFINE q == (n * mant) \div D
             p == slot(n)
  <2>1. n * mant = D * q + p /\ q \in Nat /\ p \in Nat /\ p < D
    BY <1>1, Divided
  <2>2. (n + 1) * mant = n * mant + mant
    OBVIOUS
  <2>3. slot(n + 1) = ((n + 1) * mant) % D
    OBVIOUS
  <2> HIDE DEF q, p, slot
  <2>4. CASE p + mant < D
    <3>1. (n + 1) * mant = D * q + (p + mant) /\ p + mant \in Nat
      BY <1>1, <2>1, <2>2
    <3>2. (D * q + (p + mant)) % D = p + mant
      BY <2>1, <2>4, <3>1, DividedIs
    <3> QED
      BY <2>3, <2>4, <3>1, <3>2 DEF p
  <2>5. CASE ~(p + mant < D)
    <3>1. D * (q + 1) = D * q + D
      BY <2>1
    <3>2. (n + 1) * mant = D * (q + 1) + (p + mant - D) /\ p + mant - D \in Nat /\ p + mant - D < D
      BY <1>1, <2>1, <2>2, <2>5, <3>1
    <3>3. (D * (q + 1) + (p + mant - D)) % D = p + mant - D
      BY <2>1, <3>2, DividedIs
    <3> QED
      BY <2>3, <2>5, <3>2, <3>3 DEF p
  <2> QED
    BY <2>4, <2>5
<1>3. \A n \in Nat : n \in S <=> slot(n) < mant
  OBVIOUS
<1>4. 0 \in T
  <2>1. 0 * mant = 0 /\ 0 = D * 0 + 0
    OBVIOUS
  <2>2. slot(0) = 0
    BY <2>1, DividedIs
  <2>3. IsFiniteSet(Below(S, 0)) /\ count(0) = 0
    BY BelowNone
  <2>4. ahead(0) = 0
    BY <2>2
  <2> QED
    BY <2>1, <2>3, <2>4
<1> HIDE DEF slot, S
<1>5. ASSUME NEW n \in Nat, n \in T PROVE n + 1 \in T
  <2>1. IsFiniteSet(Below(S, n)) /\ count(n) * D = n * mant + ahead(n)
    BY <1>5
  <2>2. /\ IsFiniteSet(Below(S, n + 1)) /\ count(n) \in Nat
        /\ count(n + 1) = count(n) + (IF n \in S THEN 1 ELSE 0)
    BY <2>1, BelowNext
  <2>3. (n + 1) * mant = n * mant + mant /\ n * mant \in Nat
    OBVIOUS
  <2>4. slot(n) \in Nat /\ slot(n) < D
    BY <1>1
  <2>5. slot(n + 1) = IF slot(n) + mant < D THEN slot(n) + mant ELSE slot(n) + mant - D
    BY <1>2
  <2>6. n \in S <=> slot(n) < mant
    BY <1>3
  <2> HIDE DEF count
  <2>7. count(n + 1) * D = (n + 1) * mant + ahead(n + 1)
    <3>1. CASE n \in S
      <4>1. (count(n) + 1) * D = count(n) * D + D
        BY <2>2
      <4>2. count(n + 1) * D = n * mant - slot(n) + D
        <5>1. ahead(n) = -slot(n)
          BY <2>6, <3>1
        <5> QED
          BY <2>1, <2>2, <2>3, <2>4, <3>1, <4>1, <5>1
      <4>3. ahead(n + 1) = D - slot(n) - mant
        BY <2>4, <2>5, <2>6, <3>1
      <4> HIDE DEF ahead
      <4> QED
        BY <2>3, <2>4, <4>2, <4>3
    <3>2. CASE n \notin S /\ mant # 0
      <4>1. count(n + 1) * D = n * mant + D - slot(n)
        <5>1. ahead(n) = D - slot(n)
          BY <2>6, <3>2
        <5>2. count(n + 1) = count(n)
          BY <2>2, <3>2
        <5> QED
          BY <2>1, <2>3, <2>4, <5>1, <5>2
      <4>2. ahead(n + 1) = D - slot(n) - mant
        BY <2>4, <2>5, <2>6, <3>2
      <4> HIDE DEF ahead
      <4> QED
        BY <2>3, <2>4, <4>1, <4>2
    <3>3. CASE n \notin S /\ mant = 0
      <4>1. count(n + 1) = count(n) /\ slot(n + 1) = slot(n)
        BY <2>2, <2>4, <2>5, <3>3
      <4> QED
        BY <2>1, <2>3, <3>3, <4>1
    <3> QED
      BY <3>1, <3>2, <3>3
  <2> QED
    BY <2>2, <2>7
<1>6. \A n \in Nat : n \in T => n + 1 \in T
  BY <1>5
<1> HIDE DEF T
<1>7. Nat \subseteq T
  BY <1>4, <1>6, Induction
<1>8. ASSUME NEW n \in Nat PROVE count(n) * D - n * mant \in (-D) .. D
  <2>1. n \in T
    BY <1>7
  <2>2. count(n) * D = n * mant + ahead(n)
    BY <2>1 DEF T
  <2>3. n * mant \in Nat /\ slot(n) \in Nat /\ slot(n) < D
    BY <1>1
  <2>4. ahead(n) \in (-D) .. D
    BY <2>3
  <2> HIDE DEF ahead
  <2> QED
    BY <2>2, <2>3, <2>4
<1> QED
  BY <1>8 DEF S

\* Wherever the products are exact, the relays get their share.
LEMMA SplitIsExact == \A n, p2p, relay \in Nat : SplitExact(n, p2p, relay)
<1> SUFFICES ASSUME NEW n \in Nat, NEW p2p \in Nat, NEW relay \in Nat,
                    ExactBelow(n, Ratio(p2p, relay))
             PROVE  LET ratio == Ratio(p2p, relay)
                        D == 2 ^ ratio.exp
                    IN  Relayed(n, ratio) * D - n * ratio.mant \in (-D) .. D
  BY DEF SplitExact
<1> DEFINE ratio == Ratio(p2p, relay)
           D == 2 ^ ratio.exp
           mant == ratio.mant
           S == {s \in Nat : (s * mant) % D < mant}
<1>1. D \in Nat \ {0} /\ mant \in Nat /\ mant <= D
  BY RatioType, PowType
<1>2. Relayed(n, ratio) = Cardinality(Below(S, n))
  <2>1. \A s \in 0 .. (n - 1) : GoesToRelay(s, ratio) <=> (s * mant) % D < mant
    BY DEF ExactBelow, GoesToRelay, Slot
  <2>2. {s \in 0 .. (n - 1) : GoesToRelay(s, ratio)} = Below(S, n)
    BY <2>1 DEF Below
  <2> QED
    BY <2>2 DEF Relayed
<1> HIDE DEF ratio
<1>3. Cardinality(Below(S, n)) * D - n * mant \in (-D) .. D
  <2> HIDE DEF D, mant
  <2> QED
    BY <1>1, Share
<1> QED
  BY <1>2, <1>3 DEF ratio

\* With equal bandwidths the relays get the even floats.
LEMMA EvenGoesToRelay ==
    \A s \in Nat : GoesToRelay(s, Ratio(1, 1)) <=> ToFloat(s) % 2 = 0
<1> SUFFICES ASSUME NEW s \in Nat
             PROVE  GoesToRelay(s, Ratio(1, 1)) <=> ToFloat(s) % 2 = 0
  OBVIOUS
<1> DEFINE h == 2 ^ (Precision - 1)
           t == ToFloat(s)
           u == t \div 2
           r == t % 2
<1>1. Precision - 1 \in Nat /\ (Precision - 1) + 1 = Precision
  BY SchedulerAssumption
<1>2. h \in Nat \ {0} /\ 2 ^ Precision = 2 * h /\ 2 ^ Precision \in Nat
  BY <1>1, PowType, PowNext
<1>3. ToFloat(t * h) = t * h
  <2>1. PICK e : HasExcess(s, e)
    BY Excess
  <2> DEFINE q == Nearest(s, 2 ^ e)
  <2>2. q \in Nat /\ q <= 2 ^ Precision /\ t = 2 ^ e * q /\ e \in Nat
    BY <2>1, FloatAround DEF HasExcess
  <2>3. e + (Precision - 1) \in Nat /\ 2 ^ e \in Nat
    BY <1>1, <2>2, PowType
  <2>4. 2 ^ (e + (Precision - 1)) = 2 ^ e * h
    BY <1>1, <2>2, PowSum
  <2> HIDE DEF q, t, h
  <2>5. t * h = q * (2 ^ e * h)
    BY <1>2, <2>2, <2>3
  <2>6. ToFloat(q * 2 ^ (e + (Precision - 1))) = q * 2 ^ (e + (Precision - 1))
    BY <2>2, <2>3, FloatScaled
  <2> QED
    BY <2>4, <2>5, <2>6
<1>4. t \in Nat
  BY FloatType
<1>5. GoesToRelay(s, Ratio(1, 1)) <=> (t * h) % (2 * h) < h
  BY <1>2, <1>3, EqualRatio DEF GoesToRelay, Slot
<1> HIDE DEF t
<1>6. u \in Nat /\ r \in {0, 1} /\ t = 2 * u + r
  BY <1>4
<1> HIDE DEF h, u, r
<1>7. t * h = (2 * h) * u + r * h
  <2>1. (2 * u + r) * h = (2 * h) * u + r * h
    BY <1>2, <1>6
  <2> QED
    BY <1>6, <2>1
<1>8. r * h \in Nat /\ r * h < 2 * h /\ 2 * h \in Nat \ {0} /\ (r * h < h <=> r = 0)
  BY <1>2, <1>6
<1>9. (t * h) % (2 * h) = r * h
  BY <1>6, <1>7, <1>8, DividedIs
<1> QED
  BY <1>5, <1>8, <1>9 DEF r, t

\* Numbers beyond the precision have an even float.
LEMMA BigIsEven == \A s \in Nat : s >= 2 ^ Precision => ToFloat(s) % 2 = 0
<1> SUFFICES ASSUME NEW s \in Nat, s >= 2 ^ Precision PROVE ToFloat(s) % 2 = 0
  OBVIOUS
<1>1. PICK e : HasExcess(s, e)
  BY Excess
<1>2. e \in Nat /\ Nearest(s, 2 ^ e) \in Nat /\ 2 ^ Precision \in Nat
  BY <1>1, FloatAround, PowType, SchedulerAssumption DEF HasExcess
<1>3. e # 0
  BY <1>1, <1>2, SchedulerAssumption DEF HasExcess
<1>4. 2 ^ e = 2 * 2 ^ (e - 1) /\ 2 ^ (e - 1) \in Nat
  <2>1. e - 1 \in Nat /\ (e - 1) + 1 = e
    BY <1>2, <1>3
  <2> QED
    BY <2>1, PowNext, PowType
<1>5. ToFloat(s) = 2 ^ e * Nearest(s, 2 ^ e)
  BY <1>1 DEF HasExcess
<1>6. \A a, b \in Nat : ((2 * a) * b) % 2 = 0
  <2> TAKE a, b \in Nat
  <2>1. (2 * a) * b = 2 * (a * b) + 0 /\ a * b \in Nat
    OBVIOUS
  <2>2. (2 * (a * b) + 0) % 2 = 0
    BY <2>1, DividedIs
  <2> QED
    BY <2>1, <2>2
<1> QED
  BY <1>2, <1>4, <1>5, <1>6

\* Half of the first 2^Precision symbols are odd, and none of the later ones.
LEMMA DirectShare ==
    \A n \in Nat : n - Relayed(n, Ratio(1, 1)) =
                     IF n <= 2 ^ Precision THEN n \div 2 ELSE 2 ^ (Precision - 1)
<1> DEFINE S == {s \in Nat : GoesToRelay(s, Ratio(1, 1))}
           count(n) == Cardinality(Below(S, n))
           h == 2 ^ (Precision - 1)
           direct(n) == IF n <= 2 * h THEN n \div 2 ELSE h
           T == {n \in Nat : IsFiniteSet(Below(S, n)) /\ count(n) \in Nat /\ n - count(n) = direct(n)}
<1>1. h \in Nat \ {0} /\ 2 ^ Precision = 2 * h
  <2>1. Precision - 1 \in Nat /\ (Precision - 1) + 1 = Precision
    BY SchedulerAssumption
  <2> QED
    BY <2>1, PowType, PowNext
<1>2. \A n \in Nat : n \in S <=> (n >= 2 * h \/ n % 2 = 0)
  <2> TAKE n \in Nat
  <2>1. n \in S <=> ToFloat(n) % 2 = 0
    BY EvenGoesToRelay
  <2>2. CASE n >= 2 * h
    BY <1>1, <2>1, <2>2, BigIsEven
  <2>3. CASE ~(n >= 2 * h)
    <3>1. n < 2 ^ Precision
      BY <1>1, <2>3
    <3> QED
      BY <2>1, <2>3, <3>1, FloatExact
  <2> QED
    BY <2>2, <2>3
<1> HIDE DEF S, h
<1>3. 0 \in T
  <2>1. IsFiniteSet(Below(S, 0)) /\ count(0) = 0
    BY BelowNone
  <2>2. direct(0) = 0
    BY <1>1
  <2> QED
    BY <2>1, <2>2
<1>4. ASSUME NEW n \in Nat, n \in T PROVE n + 1 \in T
  <2>1. IsFiniteSet(Below(S, n)) /\ count(n) \in Nat /\ n - count(n) = direct(n)
    BY <1>4
  <2>2. IsFiniteSet(Below(S, n + 1)) /\ count(n + 1) = count(n) + (IF n \in S THEN 1 ELSE 0)
    BY <2>1, BelowNext
  <2> HIDE DEF count
  <2>3. direct(n + 1) = direct(n) + (IF n \in S THEN 0 ELSE 1)
    BY <1>1, <1>2
  <2>4. direct(n) \in Int
    BY <1>1
  <2> HIDE DEF direct
  <2>5. (n + 1) - count(n + 1) = direct(n + 1) /\ count(n + 1) \in Nat
    BY <2>1, <2>2, <2>3, <2>4
  <2> QED
    BY <2>2, <2>5
<1>5. \A n \in Nat : n \in T => n + 1 \in T
  BY <1>4
<1> HIDE DEF T
<1>6. Nat \subseteq T
  BY <1>3, <1>5, Induction
<1>7. ASSUME NEW n \in Nat PROVE n - count(n) = direct(n)
  <2>1. n \in T
    BY <1>6
  <2> QED
    BY <2>1 DEF T
<1>8. ASSUME NEW n \in Nat PROVE count(n) = Relayed(n, Ratio(1, 1))
  <2>1. Below(S, n) = {s \in 0 .. (n - 1) : GoesToRelay(s, Ratio(1, 1))}
    BY DEF Below, S
  <2> QED
    BY <2>1 DEF Relayed
<1>9. \A n \in Nat : n - Relayed(n, Ratio(1, 1)) = direct(n)
  BY <1>7, <1>8
<1> QED
  BY <1>1, <1>9 DEF h

\* The even split of the first 2^Precision symbols.
LEMMA SplitIsHalf == \A n \in Nat : HalfSplit(n)
BY DirectShare DEF HalfSplit

\* With equal bandwidths the direct link gets 2^(Precision - 1) symbols and not one
\* more, however many are emitted: the ratio of scheduler.rs:4-6 is not kept from
\* 2^Precision symbols on (scheduler.rs:41-43).
THEOREM StarvedBeyondPrecision == \A n \in Nat : DirectStarved(n)
<1> SUFFICES ASSUME NEW n \in Nat, n >= 2 ^ Precision
             PROVE  n - Relayed(n, Ratio(1, 1)) = 2 ^ (Precision - 1)
  BY DEF DirectStarved
<1> DEFINE h == 2 ^ (Precision - 1)
<1>1. Precision - 1 \in Nat /\ (Precision - 1) + 1 = Precision
  BY SchedulerAssumption
<1>2. h \in Nat /\ 2 ^ Precision = 2 * h
  BY <1>1, PowType, PowNext
<1>3. n - Relayed(n, Ratio(1, 1)) = IF n <= 2 * h THEN n \div 2 ELSE h
  BY <1>2, DirectShare
<1> HIDE DEF h
<1>4. (2 * h) \div 2 = h
  BY <1>2
<1>5. n >= 2 * h
  BY <1>2
<1>6. n - Relayed(n, Ratio(1, 1)) = h
  <2>1. CASE n = 2 * h
    BY <1>3, <1>4, <2>1
  <2>2. CASE n # 2 * h
    <3>1. ~(n <= 2 * h)
      BY <1>2, <1>5, <2>2
    <3> QED
      BY <1>3, <3>1
  <2> QED
    BY <2>1, <2>2
<1> QED
  BY <1>6 DEF h

\* How the share of the relays grows.
LEMMA RelayedNext ==
    ASSUME NEW ratio, NEW n \in Nat
    PROVE  /\ Relayed(0, ratio) = 0
           /\ Relayed(n, ratio) \in Nat
           /\ Relayed(n + 1, ratio) = Relayed(n, ratio) + (IF GoesToRelay(n, ratio) THEN 1 ELSE 0)
<1> DEFINE S == {s \in Nat : GoesToRelay(s, ratio)}
<1>1. \A m \in Nat : Relayed(m, ratio) = Cardinality(Below(S, m))
  <2> TAKE m \in Nat
  <2>1. {s \in 0 .. (m - 1) : GoesToRelay(s, ratio)} = Below(S, m)
    BY DEF Below
  <2> QED
    BY <2>1 DEF Relayed
<1>2. n \in S <=> GoesToRelay(n, ratio)
  OBVIOUS
<1> HIDE DEF S
<1>3. Cardinality(Below(S, 0)) = 0
  BY BelowNone
<1>4. IsFiniteSet(Below(S, n))
  <2>1. IsFiniteSet(0 .. (n - 1))
    BY FS_Interval
  <2>2. Below(S, n) \subseteq 0 .. (n - 1)
    BY DEF Below
  <2> QED
    BY <2>1, <2>2, FS_Subset
<1>5. /\ Cardinality(Below(S, n)) \in Nat
      /\ Cardinality(Below(S, n + 1)) = Cardinality(Below(S, n)) + (IF n \in S THEN 1 ELSE 0)
  BY <1>4, BelowNext
<1>6. /\ Relayed(0, ratio) = Cardinality(Below(S, 0))
      /\ Relayed(n, ratio) = Cardinality(Below(S, n))
      /\ Relayed(n + 1, ratio) = Cardinality(Below(S, n + 1))
  BY <1>1
<1> QED
  BY <1>2, <1>3, <1>5, <1>6
=============================================================================
