--------------------------- MODULE DecoderProofs ---------------------------
(***************************************************************************)
(* The peeling decoder is sound for every code: whatever it resolves is    *)
(* what was encoded, its equations stay true, its reverse index never      *)
(* misses an equation, and between calls it has resolved exactly what can  *)
(* be peeled, for all K, S, H, checks, repair symbols and orders.          *)
(***************************************************************************)
EXTENDS Decoder, FiniteSetTheorems, TLAPS

-----------------------------------------------------------------------------
(* XOR. *)

\* XOR stays in one bit, is its own inverse and cancels.
LEMMA XorBits ==
    \A a, b \in Bits : /\ Xor(a, b) \in Bits
                       /\ Xor(a, a) = 0
                       /\ Xor(Xor(a, b), b) = a
BY DEF Xor, Bits

\* The XOR over a finite set is a bit.
LEMMA ParityType ==
    ASSUME NEW T, IsFiniteSet(T), NEW f
    PROVE  ParityOf(f, T) \in Bits
<1> DEFINE Ones == {n \in T : f[n] = 1}
<1>1. IsFiniteSet(Ones)
  BY FS_Subset
<1>2. Cardinality(Ones) \in Nat
  BY <1>1, FS_CardinalityType
<1> HIDE DEF Ones
<1>3. Cardinality(Ones) % 2 \in Bits
  BY <1>2 DEF Bits
<1> QED
  BY <1>3 DEF ParityOf, Ones

\* The XOR over a set is the XOR over a part and the rest.
LEMMA ParitySplit ==
    ASSUME NEW T, IsFiniteSet(T), NEW U, NEW f
    PROVE  ParityOf(f, T) = Xor(ParityOf(f, T \ U), ParityOf(f, T \cap U))
<1> DEFINE Ones == {n \in T : f[n] = 1}
           a == Cardinality(Ones)
           b == Cardinality(Ones \cap U)
<1>1. IsFiniteSet(Ones) /\ IsFiniteSet(Ones \cap U)
  BY FS_Subset
<1>2. a \in Nat /\ b \in Nat
  BY <1>1, FS_CardinalityType
<1>3. Cardinality(Ones \ U) = a - b
  BY <1>1, FS_Difference
<1>4. {n \in T \ U : f[n] = 1} = Ones \ U /\ {n \in T \cap U : f[n] = 1} = Ones \cap U
  OBVIOUS
<1>5. b <= a
  BY <1>1, FS_Subset
<1>6. ASSUME NEW x \in Nat, NEW y \in Nat, y <= x
      PROVE  x % 2 = (((x - y) % 2) + (y % 2)) % 2
  BY <1>6
<1>7. /\ ParityOf(f, T) = a % 2
      /\ ParityOf(f, T \ U) = (a - b) % 2
      /\ ParityOf(f, T \cap U) = b % 2
  BY <1>3, <1>4, Zenon DEF ParityOf
<1> HIDE DEF a, b
<1> QED
  BY <1>2, <1>5, <1>6, <1>7 DEF Xor

\* The XOR over one input is that input.
LEMMA ParityOne ==
    ASSUME NEW n, NEW f, f[n] \in Bits
    PROVE  ParityOf(f, {n}) = f[n]
<1>1. CASE f[n] = 1
  <2>1. {m \in {n} : f[m] = 1} = {n}
    BY <1>1
  <2> QED
    BY <1>1, <2>1, FS_Singleton DEF ParityOf
<1>2. CASE f[n] = 0
  <2>1. {m \in {n} : f[m] = 1} = {}
    BY <1>2
  <2> QED
    BY <1>2, <2>1, FS_EmptySet DEF ParityOf
<1> QED
  BY <1>1, <1>2 DEF Bits

\* The XOR depends only on the members of the set.
LEMMA ParitySame ==
    ASSUME NEW T, NEW f, NEW g, \A n \in T : f[n] = g[n]
    PROVE  ParityOf(f, T) = ParityOf(g, T)
<1>1. {n \in T : f[n] = 1} = {n \in T : g[n] = 1}
  OBVIOUS
<1> QED
  BY <1>1 DEF ParityOf

\* Removing an input from an equation and cancelling its data.
LEMMA ParityRemove ==
    ASSUME NEW T, IsFiniteSet(T), NEW n \in T, NEW f, f[n] \in Bits
    PROVE  ParityOf(f, T \ {n}) = Xor(ParityOf(f, T), f[n])
<1>1. T \cap {n} = {n}
  OBVIOUS
<1>2. ParityOf(f, T) = Xor(ParityOf(f, T \ {n}), f[n])
  <2>1. ParityOf(f, T) = Xor(ParityOf(f, T \ {n}), ParityOf(f, T \cap {n}))
    BY ParitySplit
  <2>2. ParityOf(f, {n}) = f[n]
    BY ParityOne
  <2> QED
    BY <1>1, <2>1, <2>2
<1>3. ParityOf(f, T \ {n}) \in Bits
  <2>1. IsFiniteSet(T \ {n})
    BY FS_RemoveElement
  <2> QED
    BY <2>1, ParityType
<1> QED
  BY <1>2, <1>3, XorBits

-----------------------------------------------------------------------------
(* The code. *)

\* There are finitely many inputs, and so in every equation.
LEMMA InputsFinite == \A T \in SUBSET Inputs : IsFiniteSet(T)
<1>1. IsFiniteSet(Inputs)
  BY SizesAssumption, FS_Interval DEF Inputs, L
<1> QED
  BY <1>1, FS_Subset

\* The LDPC neighbours of a check are source symbols.
LEMMA PrecodeType == \A i \in 0 .. (S - 1) : PrecodeNeighbors(i) \subseteq 0 .. (K - 1)
BY SizesAssumption DEF PrecodeNeighbors

\* Every symbol and every check mentions inputs only.
LEMMA CodeTypes ==
    /\ \A c \in Checks : Constraint(c) \subseteq Inputs
    /\ \A esi \in Esis : Neighbors(esi) \subseteq Inputs
<1>1. ASSUME NEW c \in Checks PROVE Constraint(c) \subseteq Inputs
  <2>1. K + c \in Inputs
    BY SizesAssumption DEF Checks, Inputs, L
  <2>2. CASE c < S
    <3>1. PrecodeNeighbors(c) \subseteq 0 .. (K - 1)
      BY <2>2, PrecodeType, SizesAssumption DEF Checks
    <3> QED
      BY <2>1, <2>2, <3>1, SizesAssumption DEF Constraint, Inputs, L
  <2>3. CASE ~(c < S)
    <3>1. c - S \in 0 .. (H - 1)
      BY <2>3, SizesAssumption DEF Checks
    <3>2. Hdpc[c - S] \subseteq 0 .. (K + S - 1)
      BY <3>1, HdpcAssumption
    <3> QED
      BY <2>1, <2>3, <3>2, SizesAssumption DEF Constraint, Inputs, L
  <2> QED
    BY <2>2, <2>3
<1>2. ASSUME NEW esi \in Esis PROVE Neighbors(esi) \subseteq Inputs
  BY RepairAssumption DEF Esis, Neighbors
<1> QED
  BY <1>1, <1>2

\* build_precoded satisfies every constraint equation the decoder starts from.
LEMMA ConstraintsHold ==
    ASSUME NEW source \in [0 .. (K - 1) -> Bits]
    PROVE  /\ Precoded(source) \in [Inputs -> Bits]
           /\ \A c \in Checks : ParityOf(Precoded(source), Constraint(c)) = 0
<1> DEFINE ldpc == [n \in 0 .. (K + S - 1) |->
                      IF n < K THEN source[n] ELSE ParityOf(source, PrecodeNeighbors(n - K))]
           all == [n \in Inputs |->
                      IF n < K + S THEN ldpc[n] ELSE ParityOf(ldpc, Hdpc[n - K - S])]
<1>1. Precoded(source) = all
  BY DEF Precoded
<1>2. \A c \in 0 .. (S - 1) : PrecodeNeighbors(c) \subseteq 0 .. (K - 1)
                              /\ IsFiniteSet(PrecodeNeighbors(c))
  <2>1. 0 .. (K - 1) \subseteq Inputs
    BY SizesAssumption DEF Inputs, L
  <2> QED
    BY <2>1, PrecodeType, InputsFinite
<1>3. \A c \in 0 .. (H - 1) : Hdpc[c] \subseteq 0 .. (K + S - 1) /\ IsFiniteSet(Hdpc[c])
  <2>1. 0 .. (K + S - 1) \subseteq Inputs
    BY SizesAssumption DEF Inputs, L
  <2> QED
    BY <2>1, HdpcAssumption, InputsFinite
<1>4. ldpc \in [0 .. (K + S - 1) -> Bits]
  <2>1. ASSUME NEW n \in 0 .. (K + S - 1), ~(n < K)
        PROVE  ParityOf(source, PrecodeNeighbors(n - K)) \in Bits
    <3>1. n - K \in 0 .. (S - 1)
      BY <2>1, SizesAssumption
    <3> QED
      BY <1>2, <3>1, ParityType
  <2>2. ASSUME NEW n \in 0 .. (K + S - 1), n < K
        PROVE  source[n] \in Bits
    <3>1. n \in 0 .. (K - 1)
      BY <2>2, SizesAssumption
    <3> QED
      BY <3>1
  <2> QED
    BY <2>1, <2>2
<1>5. all \in [Inputs -> Bits]
  <2>1. ASSUME NEW n \in Inputs, ~(n < K + S)
        PROVE  ParityOf(ldpc, Hdpc[n - K - S]) \in Bits
    <3>1. n - K - S \in 0 .. (H - 1)
      BY <2>1, SizesAssumption DEF Inputs, L
    <3> QED
      BY <1>3, <3>1, ParityType
  <2>2. ASSUME NEW n \in Inputs, n < K + S
        PROVE  ldpc[n] \in Bits
    <3>1. n \in 0 .. (K + S - 1)
      BY <2>2, SizesAssumption DEF Inputs, L
    <3> QED
      BY <1>4, <3>1
  <2> QED
    BY <2>1, <2>2
<1>6. ASSUME NEW T \in SUBSET Inputs, NEW n \in Inputs, n \notin T,
             all[n] = ParityOf(all, T)
      PROVE  ParityOf(all, {n} \cup T) = 0
  <2>1. IsFiniteSet({n} \cup T) /\ ({n} \cup T) \ {n} = T /\ n \in {n} \cup T
    BY <1>6, InputsFinite
  <2>2. all[n] \in Bits /\ ParityOf(all, {n} \cup T) \in Bits
    BY <1>5, <2>1, ParityType
  <2>3. ParityOf(all, T) = Xor(ParityOf(all, {n} \cup T), all[n])
    BY <2>1, <2>2, ParityRemove
  <2>4. ASSUME NEW x \in Bits, NEW y \in Bits, y = Xor(x, y)
        PROVE  x = 0
    BY <2>4 DEF Xor, Bits
  <2> HIDE DEF all
  <2> QED
    BY <1>6, <2>2, <2>3, <2>4
<1>8. \A n \in 0 .. (K + S - 1) : ~(n < K) => ldpc[n] = ParityOf(source, PrecodeNeighbors(n - K))
  OBVIOUS
<1>9. \A n \in Inputs : ~(n < K + S) => all[n] = ParityOf(ldpc, Hdpc[n - K - S])
  OBVIOUS
<1> HIDE DEF ldpc, all
<1>7. ASSUME NEW c \in Checks PROVE ParityOf(all, Constraint(c)) = 0
  <2>1. K + c \in Inputs
    BY SizesAssumption DEF Checks, Inputs, L
  <2>2. CASE c < S
    <3>1. c \in 0 .. (S - 1)
      BY <2>2, SizesAssumption DEF Checks
    <3>2. PrecodeNeighbors(c) \subseteq Inputs /\ K + c \notin PrecodeNeighbors(c)
      BY <1>2, <3>1, SizesAssumption DEF Inputs, L
    <3>3. \A n \in PrecodeNeighbors(c) : all[n] = source[n]
      BY <1>2, <3>1, SizesAssumption DEF all, ldpc, Inputs, L
    <3>4. all[K + c] = ParityOf(source, PrecodeNeighbors(c))
      <4>1. all[K + c] = ldpc[K + c]
        BY <2>1, <2>2, SizesAssumption DEF all, Checks
      <4>2. K + c \in 0 .. (K + S - 1) /\ ~(K + c < K) /\ (K + c) - K = c
        BY <3>1, SizesAssumption
      <4>3. ldpc[K + c] = ParityOf(source, PrecodeNeighbors((K + c) - K))
        BY <1>8, <4>2
      <4> QED
        BY <4>1, <4>2, <4>3
    <3>5. ParityOf(all, PrecodeNeighbors(c)) = ParityOf(source, PrecodeNeighbors(c))
      BY <3>3, ParitySame
    <3> QED
      BY <1>6, <2>1, <2>2, <3>2, <3>4, <3>5 DEF Constraint
  <2>3. CASE ~(c < S)
    <3>1. c - S \in 0 .. (H - 1)
      BY <2>3, SizesAssumption DEF Checks
    <3>2. Hdpc[c - S] \subseteq Inputs /\ K + c \notin Hdpc[c - S]
      BY <1>3, <2>3, <3>1, SizesAssumption DEF Inputs, L, Checks
    <3>3. \A n \in Hdpc[c - S] : all[n] = ldpc[n]
      BY <1>3, <3>1, SizesAssumption DEF all, Inputs, L
    <3>4. all[K + c] = ParityOf(ldpc, Hdpc[c - S])
      <4>1. ~(K + c < K + S) /\ (K + c) - K - S = c - S
        BY <2>3, SizesAssumption DEF Checks
      <4>2. all[K + c] = ParityOf(ldpc, Hdpc[(K + c) - K - S])
        BY <1>9, <2>1, <4>1
      <4> QED
        BY <4>1, <4>2
    <3>5. ParityOf(all, Hdpc[c - S]) = ParityOf(ldpc, Hdpc[c - S])
      BY <3>3, ParitySame
    <3> QED
      BY <1>6, <2>1, <2>3, <3>2, <3>4, <3>5 DEF Constraint
  <2> QED
    BY <2>2, <2>3
<1> QED
  BY <1>1, <1>5, <1>7

-----------------------------------------------------------------------------
(* The invariant. *)

\* The input whose slots are being visited is resolved.
CurKnown == slots # {} => cur \in known

IInv == TypeOK /\ Sound /\ EquationsHold /\ IndexComplete /\ CurKnown

\* The decoder starts with the constraint equations, which hold.
LEMMA InitInv == Init => IInv
<1> SUFFICES ASSUME Init PROVE IInv
  OBVIOUS
<1>1. PICK source \in [0 .. (K - 1) -> Bits] : truth = Precoded(source)
  BY DEF Init
<1>2. /\ truth \in [Inputs -> Bits]
      /\ \A c \in Checks : ParityOf(truth, Constraint(c)) = 0
  BY <1>1, ConstraintsHold
<1>3. \A t \in 1 .. (S + H) : t - 1 \in Checks
  BY SizesAssumption DEF Checks
<1>4. S + H \in Nat /\ 0 \in Inputs
  BY SizesAssumption DEF Inputs, L
<1>5. \A t \in 1 .. (S + H) :
        [live |-> TRUE, data |-> 0, nbrs |-> Constraint(t - 1)] \in Equations
  BY <1>3, CodeTypes DEF Equations, Bits
<1>6. eqs \in Seq(Equations) /\ Len(eqs) = S + H /\ DOMAIN eqs = 1 .. (S + H)
  BY <1>4, <1>5 DEF Init
<1>7. rev \in [Inputs -> SUBSET (1 .. Len(eqs))]
  BY <1>6 DEF Init
<1>8. TypeOK
  BY <1>2, <1>4, <1>6, <1>7 DEF Init, TypeOK, Bits
<1>9. EquationsHold
  BY <1>2, <1>3, <1>6 DEF Init, EquationsHold
<1>10. IndexComplete
  <2>1. ASSUME NEW t \in DOMAIN eqs, NEW n \in eqs[t].nbrs PROVE t \in rev[n] /\ n \notin known
    <3>1. eqs[t].nbrs = Constraint(t - 1) /\ n \in Inputs
      BY <1>3, <1>6, CodeTypes DEF Init
    <3> QED
      BY <1>6, <2>1, <3>1 DEF Init
  <2> QED
    BY <2>1 DEF IndexComplete
<1>11. Sound /\ CurKnown
  BY DEF Init, Sound, CurKnown
<1> QED
  BY <1>8, <1>9, <1>10, <1>11 DEF IInv

\* A symbol freed of the resolved inputs states a fact about the others.
LEMMA CancelledHolds ==
    ASSUME IInv, NEW esi \in Esis
    PROVE  /\ Cancelled(esi) \in SUBSET Inputs /\ IsFiniteSet(Cancelled(esi))
           /\ CancelledData(esi) = ParityOf(truth, Cancelled(esi))
           /\ CancelledData(esi) \in Bits
<1> DEFINE N == Neighbors(esi)
<1>1. N \in SUBSET Inputs /\ IsFiniteSet(N)
  BY CodeTypes, InputsFinite
<1>2. ParityOf(value, N \cap known) = ParityOf(truth, N \cap known)
  BY ParitySame DEF IInv, Sound
<1>3. ParityOf(truth, N) = Xor(ParityOf(truth, N \ known), ParityOf(truth, N \cap known))
  BY <1>1, ParitySplit
<1>4. /\ IsFiniteSet(N \ known) /\ N \ known \in SUBSET Inputs
      /\ IsFiniteSet(N \cap known)
  BY <1>1, InputsFinite
<1>5. /\ ParityOf(truth, N \ known) \in Bits
      /\ ParityOf(truth, N \cap known) \in Bits
  BY <1>4, ParityType
<1>6. CancelledData(esi) = ParityOf(truth, N \ known)
  BY <1>2, <1>3, <1>5, XorBits DEF CancelledData
<1> QED
  BY <1>4, <1>5, <1>6 DEF Cancelled

\* The one member of a set of cardinality 1.
LEMMA OnlyMember ==
    ASSUME NEW T, IsFiniteSet(T), Cardinality(T) = 1
    PROVE  T = {CHOOSE n \in T : TRUE}
<1>1. PICK x : T = {x}
  BY FS_Singleton
<1> QED
  BY <1>1

\* Resolving an input with its encoded data keeps what was resolved right.
LEMMA ResolveSound ==
    ASSUME TypeOK, Sound, NEW n \in Inputs, NEW data \in Bits, data = truth[n],
           Resolve(n, data), UNCHANGED truth
    PROVE  /\ Sound' /\ known' \subseteq Inputs /\ value' \in [Inputs -> Bits]
           /\ queue' \in Seq(known')
           /\ \A k \in DOMAIN queue : k \in DOMAIN queue' /\ queue'[k] = queue[k]
           /\ \E k \in DOMAIN queue' : queue'[k] = n
<1>1. known \subseteq Inputs /\ value \in [Inputs -> Bits] /\ queue \in Seq(known)
  BY DEF TypeOK
<1>2. known' = known \cup {n} /\ value' = [value EXCEPT ![n] = data] /\ queue' = Append(queue, n)
  BY DEF Resolve
<1>3. Sound' /\ known' \subseteq Inputs /\ value' \in [Inputs -> Bits]
  BY <1>1, <1>2 DEF Sound
<1>4. queue \in Seq(known') /\ n \in known'
  <2>1. \A k \in 1 .. Len(queue) : queue[k] \in known'
    BY <1>1, <1>2
  <2> QED
    BY <1>1, <1>2, <2>1
<1> QED
  BY <1>1, <1>2, <1>3, <1>4

\* add_symbol up to the ripple keeps the invariant.
LEMMA AddSymbolInv == ASSUME IInv, NEW esi \in Esis, AddSymbol(esi) PROVE IInv'
<1> DEFINE left == Cancelled(esi)
<1>1. /\ left \in SUBSET Inputs /\ IsFiniteSet(left)
      /\ CancelledData(esi) = ParityOf(truth, left) /\ CancelledData(esi) \in Bits
  BY CancelledHolds
<1>2. left \cap known = {}
  BY DEF Cancelled
<1>3. /\ TypeOK /\ Sound /\ EquationsHold /\ IndexComplete
      /\ UNCHANGED <<truth, cur, slots>> /\ slots = {}
      /\ received' = received \cup {esi}
  BY Zenon DEF IInv, AddSymbol, Idle
<1>4. CurKnown'
  BY <1>3 DEF CurKnown
<1> HIDE DEF left
<1>5. CASE /\ Cardinality(left) = 1
           /\ Resolve(CHOOSE n \in left : TRUE, CancelledData(esi))
           /\ UNCHANGED <<eqs, rev>>
  <2>1. PICK n \in left : left = {n} /\ n = (CHOOSE m \in left : TRUE)
    BY <1>1, <1>5, OnlyMember
  <2>2. n \in Inputs /\ truth[n] \in Bits
    BY <1>1, <1>3, <2>1 DEF TypeOK
  <2>3. CancelledData(esi) = truth[n]
    BY <1>1, <2>1, <2>2, ParityOne
  <2>4. Resolve(n, CancelledData(esi))
    BY <1>5, <2>1
  <2>5. /\ Sound' /\ known' \subseteq Inputs /\ value' \in [Inputs -> Bits]
        /\ queue' \in Seq(known')
        /\ \A k \in DOMAIN queue : k \in DOMAIN queue' /\ queue'[k] = queue[k]
        /\ \E k \in DOMAIN queue' : queue'[k] = n
    BY <1>1, <1>3, <2>2, <2>3, <2>4, ResolveSound
  <2>6. TypeOK'
    BY <1>3, <1>5, <2>5 DEF TypeOK
  <2>7. EquationsHold'
    BY <1>3, <1>5 DEF EquationsHold
  <2>8. IndexComplete'
    <3>1. known' = known \cup {n}
      BY <2>4 DEF Resolve
    <3> QED
      BY <1>3, <1>5, <2>5, <3>1 DEF IndexComplete
  <2> QED
    BY <1>4, <2>5, <2>6, <2>7, <2>8 DEF IInv
<1>6. CASE /\ Cardinality(left) > 1
           /\ eqs' = Append(eqs, [live |-> TRUE, data |-> CancelledData(esi), nbrs |-> left])
           /\ rev' = [n \in Inputs |-> IF n \in left THEN rev[n] \cup {NewSlot} ELSE rev[n]]
           /\ UNCHANGED <<known, value, queue>>
  <2> DEFINE eq == [live |-> TRUE, data |-> CancelledData(esi), nbrs |-> left]
  <2>1. eqs \in Seq(Equations) /\ eq \in Equations
    BY <1>1, <1>3 DEF TypeOK, Equations
  <2>2. /\ eqs' \in Seq(Equations) /\ Len(eqs') = Len(eqs) + 1
        /\ \A t \in DOMAIN eqs : eqs'[t] = eqs[t]
        /\ eqs'[Len(eqs) + 1] = eq
        /\ DOMAIN eqs' = DOMAIN eqs \cup {Len(eqs) + 1}
    BY <1>6, <2>1
  <2>3. rev' \in [Inputs -> SUBSET (1 .. Len(eqs'))]
    BY <1>3, <1>6, <2>1, <2>2 DEF TypeOK, NewSlot
  <2>4. TypeOK'
    BY <1>3, <1>6, <2>1, <2>2, <2>3 DEF TypeOK
  <2>5. EquationsHold'
    BY <1>1, <1>3, <2>2 DEF EquationsHold
  <2>6. IndexComplete'
    <3>1. ASSUME NEW t \in DOMAIN eqs', NEW n \in eqs'[t].nbrs, eqs'[t].live
          PROVE  t \in rev'[n] /\ (n \in known => \E k \in DOMAIN queue : queue[k] = n)
      <4>1. n \in Inputs
        <5>1. eqs'[t] \in Equations
          BY <2>2
        <5> QED
          BY <3>1, <5>1 DEF Equations
      <4>2. CASE t \in DOMAIN eqs
        <5>1. t \in rev[n] /\ (n \in known => \E k \in DOMAIN queue : queue[k] = n)
          BY <1>3, <2>2, <3>1, <4>2 DEF IndexComplete
        <5> QED
          BY <1>6, <4>1, <5>1
      <4>3. CASE t = Len(eqs) + 1
        BY <1>2, <1>6, <2>2, <3>1, <4>1, <4>3 DEF NewSlot
      <4> QED
        BY <2>2, <4>2, <4>3
    <3> QED
      BY <1>6, <3>1 DEF IndexComplete
  <2>7. Sound'
    BY <1>3, <1>6 DEF Sound
  <2> QED
    BY <1>4, <2>4, <2>5, <2>6, <2>7 DEF IInv
<1>7. CASE left = {} /\ UNCHANGED <<known, value, queue, eqs, rev>>
  BY <1>3, <1>4, <1>7 DEF IInv, TypeOK, Sound, EquationsHold, IndexComplete
<1> QED
  BY <1>5, <1>6, <1>7, Zenon DEF AddSymbol, left

\* Taking the next resolved input off the ripple queue keeps the invariant.
LEMMA PopInv == ASSUME IInv, Pop PROVE IInv'
<1>1. /\ TypeOK /\ Sound /\ EquationsHold /\ IndexComplete
      /\ queue # <<>> /\ slots = {}
      /\ cur' = Head(queue) /\ queue' = Tail(queue) /\ slots' = rev[Head(queue)]
      /\ rev' = [rev EXCEPT ![Head(queue)] = {}]
      /\ UNCHANGED <<truth, known, value, eqs, received>>
  BY Zenon DEF IInv, Pop, PoppedQueue
<1>2. Head(queue) \in known /\ Head(queue) \in Inputs /\ Tail(queue) \in Seq(known)
  BY <1>1 DEF TypeOK
<1>3. TypeOK'
  BY <1>1, <1>2 DEF TypeOK
<1>4. IndexComplete'
  <2>1. ASSUME NEW t \in DOMAIN eqs, NEW n \in eqs[t].nbrs, eqs[t].live
        PROVE  \/ t \in rev'[n] /\ (n \in known => \E k \in DOMAIN queue' : queue'[k] = n)
               \/ n = cur' /\ t \in slots'
    <3>1. n \in Inputs /\ t \in rev[n] /\ (n \in known => \E k \in DOMAIN queue : queue[k] = n)
      <4>1. eqs[t] \in Equations
        BY <1>1 DEF TypeOK
      <4>2. n \in Inputs
        BY <2>1, <4>1 DEF Equations
      <4> QED
        BY <1>1, <2>1, <4>2 DEF IndexComplete
    <3>2. CASE n = Head(queue)
      BY <1>1, <3>1, <3>2
    <3>3. CASE n # Head(queue)
      <4>1. t \in rev'[n]
        BY <1>1, <3>1, <3>3 DEF TypeOK
      <4>2. ASSUME NEW k \in DOMAIN queue, queue[k] = n
            PROVE  k - 1 \in DOMAIN Tail(queue) /\ Tail(queue)[k - 1] = n
        <5>1. k # 1
          BY <3>3, <4>2
        <5> QED
          BY <1>1, <4>2, <5>1 DEF TypeOK
      <4> QED
        BY <1>1, <3>1, <4>1, <4>2
    <3> QED
      BY <3>2, <3>3
  <2> QED
    BY <1>1, <2>1 DEF IndexComplete
<1>5. Sound' /\ EquationsHold' /\ CurKnown'
  BY <1>1, <1>2 DEF Sound, EquationsHold, CurKnown
<1> QED
  BY <1>3, <1>4, <1>5 DEF IInv

\* Visiting one slot keeps the invariant.
LEMMA TouchInv == ASSUME IInv, NEW t \in slots, Touch(t) PROVE IInv'
<1> DEFINE left == eqs[t].nbrs \ {cur}
           dead == [live |-> FALSE, data |-> 0, nbrs |-> {}]
<1>1. /\ TypeOK /\ Sound /\ EquationsHold /\ IndexComplete /\ cur \in known
      /\ slots' = slots \ {t} /\ UNCHANGED <<truth, rev, received, cur>>
  BY DEF IInv, CurKnown, Touch
<1>2. t \in DOMAIN eqs /\ eqs \in Seq(Equations) /\ eqs[t] \in Equations
  BY <1>1 DEF TypeOK
<1>3. /\ eqs[t].nbrs \in SUBSET Inputs /\ left \in SUBSET Inputs
      /\ IsFiniteSet(eqs[t].nbrs) /\ IsFiniteSet(left)
  BY <1>2, InputsFinite DEF Equations
<1>4. ASSUME eqs[t].live, cur \in eqs[t].nbrs
      PROVE  PeeledData(t) = ParityOf(truth, left) /\ PeeledData(t) \in Bits
  <2>1. cur \in Inputs /\ value[cur] = truth[cur] /\ truth[cur] \in Bits
    BY <1>1 DEF TypeOK, Sound
  <2>2. eqs[t].data = ParityOf(truth, eqs[t].nbrs)
    BY <1>1, <1>2, <1>4 DEF EquationsHold
  <2>3. ParityOf(truth, left) = Xor(ParityOf(truth, eqs[t].nbrs), truth[cur])
    BY <1>3, <1>4, <2>1, ParityRemove
  <2>4. ParityOf(truth, left) \in Bits
    BY <1>3, ParityType
  <2> QED
    BY <2>1, <2>2, <2>3, <2>4 DEF PeeledData
<1>5. CurKnown'
  <2>1. known \subseteq known'
    BY Zenon DEF Touch, Resolve
  <2> QED
    BY <1>1, <2>1 DEF CurKnown
\* What the slot holds afterwards: nothing, or the peeled equation.
<1>6. ASSUME NEW e \in Equations, eqs' = [eqs EXCEPT ![t] = e], eqs[t].live, cur \in eqs[t].nbrs,
             e.live => e = [live |-> TRUE, data |-> PeeledData(t), nbrs |-> left],
             known \subseteq known',
             \A n \in known' : n \in known \/ \E k \in DOMAIN queue' : queue'[k] = n,
             \A k \in DOMAIN queue : k \in DOMAIN queue' /\ queue'[k] = queue[k]
      PROVE  /\ eqs' \in Seq(Equations) /\ Len(eqs') = Len(eqs)
             /\ EquationsHold' /\ IndexComplete'
  <2>1. eqs' \in Seq(Equations) /\ Len(eqs') = Len(eqs) /\ DOMAIN eqs' = DOMAIN eqs
        /\ eqs'[t] = e /\ \A u \in DOMAIN eqs : u # t => eqs'[u] = eqs[u]
    BY <1>2, <1>6
  <2>2. EquationsHold'
    <3>1. ASSUME NEW u \in DOMAIN eqs, eqs'[u].live
          PROVE  eqs'[u].data = ParityOf(truth, eqs'[u].nbrs)
      <4>1. CASE u = t
        <5>1. PeeledData(t) = ParityOf(truth, left)
          BY <1>4, <1>6
        <5>2. eqs'[u].data = PeeledData(t) /\ eqs'[u].nbrs = left
          BY <1>6, <2>1, <3>1, <4>1
        <5> QED
          BY <5>1, <5>2
      <4>2. CASE u # t
        BY <1>1, <2>1, <3>1, <4>2 DEF EquationsHold
      <4> QED
        BY <4>1, <4>2
    <3> QED
      BY <1>1, <2>1, <3>1 DEF EquationsHold
  <2>3. ASSUME NEW u \in DOMAIN eqs', NEW n \in eqs'[u].nbrs, eqs'[u].live
        PROVE  \/ u \in rev'[n] /\ (n \in known' => \E k \in DOMAIN queue' : queue'[k] = n)
               \/ n = cur' /\ u \in slots'
    <3>1. n \in eqs[u].nbrs /\ eqs[u].live /\ (u = t => n # cur) /\ u \in DOMAIN eqs
      BY <1>6, <2>1, <2>3
    <3>2. \/ u \in rev[n] /\ (n \in known => \E k \in DOMAIN queue : queue[k] = n)
          \/ n = cur /\ u \in slots
      BY <1>1, <3>1 DEF IndexComplete
    <3>3. CASE n = cur /\ u \in slots
      BY <1>1, <3>1, <3>3
    <3>4. CASE u \in rev[n] /\ (n \in known => \E k \in DOMAIN queue : queue[k] = n)
      BY <1>1, <1>6, <3>4
    <3> QED
      BY <3>2, <3>3, <3>4
  <2>4. IndexComplete'
    BY <2>3 DEF IndexComplete
  <2> QED
    BY <2>1, <2>2, <2>4
<1>7. dead \in Equations
  BY DEF Equations, Bits
<1>8. CASE /\ ~eqs[t].live \/ cur \notin eqs[t].nbrs
           /\ UNCHANGED <<known, value, queue, eqs>>
  <2>1. TypeOK' /\ Sound' /\ EquationsHold'
    BY <1>1, <1>8 DEF TypeOK, Sound, EquationsHold
  <2>2. IndexComplete'
    BY <1>1, <1>8 DEF IndexComplete
  <2> QED
    BY <1>5, <2>1, <2>2 DEF IInv
<1>9. CASE /\ eqs[t].live /\ cur \in eqs[t].nbrs /\ Peelable(left)
           /\ Resolve(CHOOSE n \in left : TRUE, PeeledData(t))
           /\ eqs' = [eqs EXCEPT ![t] = dead]
  <2>1. PICK n \in left : left = {n} /\ n = (CHOOSE m \in left : TRUE)
    BY <1>3, <1>9, OnlyMember DEF Peelable
  <2>2. n \in Inputs /\ truth[n] \in Bits
    BY <1>1, <1>3, <2>1 DEF TypeOK
  <2>3. PeeledData(t) = truth[n]
    BY <1>4, <1>9, <2>1, <2>2, ParityOne
  <2>4. Resolve(n, PeeledData(t)) /\ PeeledData(t) \in Bits
    BY <1>9, <2>1, <2>2, <2>3
  <2>5. /\ Sound' /\ known' \subseteq Inputs /\ value' \in [Inputs -> Bits]
        /\ queue' \in Seq(known')
        /\ \A k \in DOMAIN queue : k \in DOMAIN queue' /\ queue'[k] = queue[k]
        /\ \E k \in DOMAIN queue' : queue'[k] = n
    BY <1>1, <2>2, <2>3, <2>4, ResolveSound
  <2>6. known' = known \cup {n}
    BY <2>4 DEF Resolve
  <2>7. ~dead.live
    OBVIOUS
  <2> HIDE DEF dead, left
  <2>8. /\ eqs' \in Seq(Equations) /\ Len(eqs') = Len(eqs)
        /\ EquationsHold' /\ IndexComplete'
    BY <1>6, <1>7, <1>9, <2>5, <2>6, <2>7
  <2>9. TypeOK'
    BY <1>1, <2>5, <2>8 DEF TypeOK
  <2> QED
    BY <1>5, <2>5, <2>8, <2>9 DEF IInv
<1>10. CASE /\ eqs[t].live /\ cur \in eqs[t].nbrs
            /\ eqs' = [eqs EXCEPT ![t] = IF left = {} THEN dead
                         ELSE [live |-> TRUE, data |-> PeeledData(t), nbrs |-> left]]
            /\ UNCHANGED <<known, value, queue>>
  <2> DEFINE e == IF left = {} THEN dead
                  ELSE [live |-> TRUE, data |-> PeeledData(t), nbrs |-> left]
  <2>1. e \in Equations /\ (e.live => e = [live |-> TRUE, data |-> PeeledData(t), nbrs |-> left])
    BY <1>3, <1>4, <1>7, <1>10 DEF Equations
  <2>2. eqs' = [eqs EXCEPT ![t] = e]
    BY <1>10
  <2> HIDE DEF dead, left, e
  <2>3. /\ eqs' \in Seq(Equations) /\ Len(eqs') = Len(eqs)
        /\ EquationsHold' /\ IndexComplete'
    BY <1>6, <1>10, <2>1, <2>2
  <2>4. TypeOK' /\ Sound'
    BY <1>1, <1>10, <2>3 DEF TypeOK, Sound
  <2> QED
    BY <1>5, <2>3, <2>4 DEF IInv
<1> QED
  BY <1>8, <1>9, <1>10, Zenon DEF Touch

\* Every step keeps the invariant.
LEMMA NextInv == IInv /\ [Next]_vars => IInv'
<1> SUFFICES ASSUME IInv, [Next]_vars PROVE IInv'
  OBVIOUS
<1>1. CASE Next
  BY <1>1, AddSymbolInv, PopInv, TouchInv DEF Next
<1>2. CASE UNCHANGED vars
  BY <1>2 DEF vars, IInv, TypeOK, Sound, EquationsHold, IndexComplete, CurKnown
<1> QED
  BY <1>1, <1>2

\* Every reachable state satisfies the invariant.
LEMMA Invariant == Spec => []IInv
BY InitInv, NextInv, PTL DEF Spec

\* Every state of the decoder is well typed; in particular every queued input
\* has its data, so the unwrap at decoder.rs:166 cannot fail.
THEOREM TypeCorrect == Spec => []TypeOK
<1>1. IInv => TypeOK
  BY DEF IInv
<1> QED
  BY <1>1, Invariant, PTL

\* Whatever the decoder resolves is what was encoded (decoder.rs:128-193).
THEOREM SoundDecoding == Spec => []Sound
<1>1. IInv => Sound
  BY DEF IInv
<1> QED
  BY <1>1, Invariant, PTL

\* The equations in the slots stay true facts about the encoded inputs
\* (decoder.rs:169-190).
THEOREM EquationsSound == Spec => []EquationsHold
<1>1. IInv => EquationsHold
  BY DEF IInv
<1> QED
  BY <1>1, Invariant, PTL

\* The reverse index never misses an equation (decoder.rs:154-168).
THEOREM IndexSound == Spec => []IndexComplete
<1>1. IInv => IndexComplete
  BY DEF IInv
<1> QED
  BY <1>1, Invariant, PTL
-----------------------------------------------------------------------------
(* What is resolved: all that can be peeled, and nothing else. *)

Live == {t \in DOMAIN eqs : eqs[t].live}

\* Slot t holds what is left of fact T: only resolved inputs were removed.
Keeps(t, T) == eqs[t].nbrs \subseteq T /\ T \ eqs[t].nbrs \subseteq known

\* Every fact is used up or kept in a slot, and every slot keeps a fact.
Covered == \A T \in Facts : T \subseteq known \/ \E t \in Live : Keeps(t, T)
Derived == \A t \in Live : \E T \in Facts : Keeps(t, T)

\* An equation in one unresolved input does not wait.
NoLoneInput == \A t \in Live : Cardinality(eqs[t].nbrs) = 1 => eqs[t].nbrs \cap known # {}

\* Nothing is resolved that a closed set can do without.
Minimal == \A X \in SUBSET Inputs : PeelClosed(X) => known \subseteq X

Closure == Covered /\ Derived /\ NoLoneInput /\ Minimal

\* Every fact is a finite set of inputs.
LEMMA FactsFinite == TypeOK => \A T \in Facts : T \in SUBSET Inputs /\ IsFiniteSet(T)
<1>1. TypeOK => \A T \in Facts : T \in SUBSET Inputs
  BY CodeTypes DEF TypeOK, Facts
<1> QED
  BY <1>1, InputsFinite

\* A set with two members does not have cardinality 1.
LEMMA TwoMembers ==
    ASSUME NEW T, IsFiniteSet(T), NEW a \in T, NEW b \in T, a # b
    PROVE  Cardinality(T) # 1
<1> SUFFICES ASSUME Cardinality(T) = 1 PROVE FALSE
  OBVIOUS
<1>1. T = {CHOOSE n \in T : TRUE}
  BY OnlyMember
<1> QED
  BY <1>1

\* A constraint mentions its check and at least one more input.
LEMMA ConstraintSize == \A c \in Checks : Cardinality(Constraint(c)) # 1
<1> SUFFICES ASSUME NEW c \in Checks PROVE Cardinality(Constraint(c)) # 1
  OBVIOUS
<1>1. Constraint(c) \in SUBSET Inputs /\ IsFiniteSet(Constraint(c)) /\ K + c \in Constraint(c)
  BY CodeTypes, InputsFinite DEF Constraint
<1>2. CASE c < S
  <2>1. c \in Nat /\ c % K \in 0 .. (K - 1)
    BY SizesAssumption DEF Checks
  <2>2. c % K \in Constraint(c)
    BY <1>2 DEF Constraint, PrecodeNeighbors
  <2>3. c % K # K + c
    BY <2>1, SizesAssumption
  <2> QED
    BY <1>1, <2>2, <2>3, TwoMembers
<1>3. CASE ~(c < S)
  <2>1. c - S \in 0 .. (H - 1)
    BY <1>3, SizesAssumption DEF Checks
  <2>2. Hdpc[c - S] \in (SUBSET (0 .. (K + S - 1))) \ {{}}
    BY <2>1, HdpcAssumption
  <2>3. PICK n \in 0 .. (K + S - 1) : n \in Hdpc[c - S]
    BY <2>2
  <2>4. n \in Constraint(c) /\ n # K + c
    BY <1>3, <2>3, SizesAssumption DEF Constraint, Checks
  <2> QED
    BY <1>1, <2>4, TwoMembers
<1> QED
  BY <1>2, <1>3

\* The decoder starts with one slot per constraint and nothing resolved.
LEMMA ClosureInit == Init => Closure
<1> SUFFICES ASSUME Init PROVE Closure
  OBVIOUS
<1>1. S + H \in Nat /\ Checks = 0 .. (S + H - 1)
  BY SizesAssumption DEF Checks
<1>2. /\ known = {} /\ Facts = {Constraint(c) : c \in Checks}
      /\ DOMAIN eqs = 1 .. (S + H) /\ Live = 1 .. (S + H)
      /\ \A t \in 1 .. (S + H) : eqs[t].nbrs = Constraint(t - 1)
  BY <1>1 DEF Init, Facts, Live
<1>3. \A c \in Checks : c + 1 \in 1 .. (S + H) /\ (c + 1) - 1 = c
  BY <1>1, SizesAssumption
<1>4. \A t \in 1 .. (S + H) : t - 1 \in Checks
  BY <1>1, SizesAssumption
<1>5. Covered
  <2>1. \A c \in Checks : c + 1 \in Live /\ Keeps(c + 1, Constraint(c))
    BY <1>2, <1>3 DEF Keeps
  <2> QED
    BY <1>2, <2>1 DEF Covered
<1>6. Derived
  BY <1>2, <1>4 DEF Derived, Keeps
<1>7. NoLoneInput
  BY <1>2, <1>4, ConstraintSize DEF NoLoneInput
<1>8. Minimal
  BY <1>2 DEF Minimal
<1> QED
  BY <1>5, <1>6, <1>7, <1>8 DEF Closure

\* Resolving the one input that a fact has left beyond the resolved ones is
\* something every closed set has done.
LEMMA ResolvedIsPeeled ==
    ASSUME TypeOK, Minimal, NEW T \in Facts', NEW n \in T, T \ {n} \subseteq known,
           T \in SUBSET Inputs, Facts \subseteq Facts', known' = known \cup {n}
    PROVE  Minimal'
<1> SUFFICES ASSUME NEW X \in SUBSET Inputs, PeelClosed(X)' PROVE known' \subseteq X
  BY DEF Minimal
<1>1. \A U \in Facts' : Cardinality(U \ X) # 1
  BY DEF PeelClosed
<1>2. known \subseteq X
  <2>1. PeelClosed(X)
    BY <1>1 DEF PeelClosed
  <2> QED
    BY <2>1 DEF Minimal
<1>3. ASSUME n \notin X PROVE FALSE
  <2>1. T \ X = {n}
    BY <1>2, <1>3
  <2>2. Cardinality(T \ X) = 1
    BY <2>1, FS_Singleton
  <2> QED
    BY <1>1, <2>2
<1> QED
  BY <1>2, <1>3

\* As long as no input is resolved, more facts leave less to be closed.
LEMMA MinimalKept ==
    ASSUME Minimal, Facts \subseteq Facts', known' = known
    PROVE  Minimal'
<1> SUFFICES ASSUME NEW X \in SUBSET Inputs, PeelClosed(X)' PROVE known' \subseteq X
  BY DEF Minimal
<1>1. PeelClosed(X)
  BY DEF PeelClosed
<1> QED
  BY <1>1 DEF Minimal

\* A new symbol adds one fact.
LEMMA FactsGrow ==
    ASSUME NEW esi \in Esis, received' = received \cup {esi}
    PROVE  Facts' = Facts \cup {Neighbors(esi)}
BY DEF Facts

\* add_symbol up to the ripple keeps the closure.
LEMMA AddSymbolClosure ==
    ASSUME IInv, Closure, NEW esi \in Esis, AddSymbol(esi)
    PROVE  Closure'
<1> DEFINE N == Neighbors(esi)
           left == Cancelled(esi)
<1>1. /\ TypeOK /\ Facts' = Facts \cup {N} /\ N \in SUBSET Inputs
      /\ left \in SUBSET Inputs /\ IsFiniteSet(left) /\ left = N \ known
  BY CodeTypes, CancelledHolds, FactsGrow DEF IInv, AddSymbol, Cancelled
<1>2. CASE /\ Cardinality(left) = 1
           /\ Resolve(CHOOSE n \in left : TRUE, CancelledData(esi))
           /\ UNCHANGED <<eqs, rev>>
  <2>1. PICK n \in left : left = {n} /\ n = (CHOOSE m \in left : TRUE)
    BY <1>1, <1>2, OnlyMember
  <2>2. known' = known \cup {n} /\ eqs' = eqs /\ Live' = Live
    BY <1>2, <2>1 DEF Resolve, Live
  <2>3. N \subseteq known' /\ n \in N /\ N \ {n} \subseteq known
    BY <1>1, <2>1, <2>2
  <2> HIDE DEF N, left
  <2>4. \A t, T : Keeps(t, T) => Keeps(t, T)'
    BY <2>2 DEF Keeps
  <2>5. Covered'
    BY <1>1, <2>2, <2>3, <2>4 DEF Covered, Closure
  <2>6. Derived'
    BY <1>1, <2>2, <2>4 DEF Derived, Closure
  <2>7. NoLoneInput'
    BY <2>2 DEF NoLoneInput, Closure
  <2>8. Minimal'
    <3>1. N \in Facts' /\ Facts \subseteq Facts'
      BY <1>1
    <3> QED
      BY <1>1, <2>2, <2>3, <3>1, ResolvedIsPeeled DEF Closure
  <2> QED
    BY <2>5, <2>6, <2>7, <2>8 DEF Closure
<1>3. CASE /\ Cardinality(left) > 1
           /\ eqs' = Append(eqs, [live |-> TRUE, data |-> CancelledData(esi), nbrs |-> left])
           /\ UNCHANGED <<known, value, queue>>
  <2>0. PICK z : z = Len(eqs) + 1
    OBVIOUS
  <2>1. /\ DOMAIN eqs' = DOMAIN eqs \cup {z} /\ eqs'[z].live /\ eqs'[z].nbrs = left
        /\ \A t \in DOMAIN eqs : eqs'[t] = eqs[t]
    BY <1>1, <1>3, <2>0 DEF TypeOK
  <2> HIDE DEF left
  <2>2. Live' = Live \cup {z} /\ known' = known
    BY <1>3, <2>1 DEF Live
  <2>3. \A t \in Live : \A T : Keeps(t, T) => Keeps(t, T)'
    BY <2>1, <2>2 DEF Keeps, Live
  <2>4. Keeps(z, N)'
    BY <1>1, <2>1, <2>2 DEF Keeps
  <2>5. Covered'
    BY <1>1, <2>2, <2>3, <2>4 DEF Covered, Closure
  <2>6. Derived'
    BY <1>1, <2>2, <2>3, <2>4 DEF Derived, Closure
  <2>7. NoLoneInput'
    <3>1. Cardinality(eqs'[z].nbrs) # 1
      BY <1>3, <2>1
    <3>2. \A t \in Live : eqs'[t] = eqs[t]
      BY <2>1 DEF Live
    <3> QED
      BY <2>2, <3>1, <3>2 DEF NoLoneInput, Closure
  <2>8. Minimal'
    BY <1>1, <2>2, MinimalKept DEF Closure
  <2> QED
    BY <2>5, <2>6, <2>7, <2>8 DEF Closure
<1>4. CASE left = {} /\ UNCHANGED <<known, value, queue, eqs, rev>>
  <2>1. N \subseteq known' /\ known' = known /\ eqs' = eqs
    BY <1>1, <1>4
  <2> HIDE DEF N, left
  <2>2. Covered' /\ Derived' /\ NoLoneInput'
    BY <1>1, <2>1 DEF Covered, Derived, NoLoneInput, Live, Keeps, Closure
  <2>3. Minimal'
    BY <1>1, <2>1, MinimalKept DEF Closure
  <2> QED
    BY <2>2, <2>3 DEF Closure
<1> QED
  BY <1>2, <1>3, <1>4, Zenon DEF AddSymbol, left

\* Visiting one slot keeps the closure.
LEMMA TouchClosure ==
    ASSUME IInv, Closure, NEW t \in slots, Touch(t)
    PROVE  Closure'
<1> DEFINE left == eqs[t].nbrs \ {cur}
           dead == [live |-> FALSE, data |-> 0, nbrs |-> {}]
<1>1. /\ TypeOK /\ cur \in known /\ Facts' = Facts /\ known \subseteq Inputs
      /\ t \in DOMAIN eqs /\ eqs[t].nbrs \in SUBSET Inputs /\ IsFiniteSet(left)
  <2>1. TypeOK /\ cur \in known /\ received' = received
    BY DEF IInv, CurKnown, Touch
  <2>2. t \in DOMAIN eqs /\ eqs[t] \in Equations
    BY <2>1 DEF TypeOK
  <2>3. eqs[t].nbrs \in SUBSET Inputs
    BY <2>2 DEF Equations
  <2> QED
    BY <2>1, <2>2, <2>3, InputsFinite DEF Facts, TypeOK
<1>2. CASE (~eqs[t].live \/ cur \notin eqs[t].nbrs) /\ UNCHANGED <<known, value, queue, eqs>>
  <2>1. Covered' /\ Derived' /\ NoLoneInput'
    BY <1>1, <1>2 DEF Covered, Derived, NoLoneInput, Live, Keeps, Closure
  <2>2. Minimal'
    BY <1>1, <1>2, MinimalKept DEF Closure
  <2> QED
    BY <2>1, <2>2 DEF Closure
<1>3. ASSUME NEW e, eqs' = [eqs EXCEPT ![t] = e]
      PROVE  /\ DOMAIN eqs' = DOMAIN eqs /\ eqs'[t] = e
             /\ \A u \in DOMAIN eqs : u # t => eqs'[u] = eqs[u]
  BY <1>1, <1>3 DEF TypeOK
\* The slot is given up, with all its inputs resolved.
<1>4. ASSUME eqs' = [eqs EXCEPT ![t] = dead], eqs[t].live,
             known \subseteq known', eqs[t].nbrs \subseteq known'
      PROVE  Covered' /\ Derived' /\ NoLoneInput'
  <2>1. /\ DOMAIN eqs' = DOMAIN eqs /\ ~eqs'[t].live
        /\ \A u \in DOMAIN eqs : u # t => eqs'[u] = eqs[u]
    BY <1>3, <1>4
  <2> HIDE DEF dead, left
  <2>2. Live' = Live \ {t}
    BY <2>1 DEF Live
  <2>3. \A u \in Live' : u \in Live /\ eqs'[u] = eqs[u]
    BY <2>1, <2>2 DEF Live
  <2>4. \A u \in Live' : \A T : Keeps(u, T) => Keeps(u, T)'
    BY <1>4, <2>3 DEF Keeps
  <2>5. \A T : Keeps(t, T) => T \subseteq known'
    BY <1>4 DEF Keeps
  <2>6. Covered'
    <3> SUFFICES ASSUME NEW T \in Facts PROVE T \subseteq known' \/ \E u \in Live' : Keeps(u, T)'
      BY <1>1 DEF Covered
    <3>1. T \subseteq known \/ \E u \in Live : Keeps(u, T)
      BY DEF Covered, Closure
    <3> QED
      BY <1>4, <2>2, <2>4, <2>5, <3>1
  <2>7. Derived'
    BY <1>1, <2>3, <2>4 DEF Derived, Closure
  <2>8. NoLoneInput'
    BY <1>4, <2>3 DEF NoLoneInput, Closure
  <2> QED
    BY <2>6, <2>7, <2>8
<1>5. CASE /\ eqs[t].live /\ cur \in eqs[t].nbrs /\ Peelable(left)
           /\ Resolve(CHOOSE n \in left : TRUE, PeeledData(t))
           /\ eqs' = [eqs EXCEPT ![t] = dead]
  <2>1. PICK n \in left : left = {n} /\ n = (CHOOSE m \in left : TRUE)
    BY <1>1, <1>5, OnlyMember DEF Peelable
  <2>2. known' = known \cup {n} /\ eqs[t].nbrs = {cur, n}
    BY <1>5, <2>1 DEF Resolve
  <2>3. Covered' /\ Derived' /\ NoLoneInput'
    BY <1>1, <1>4, <1>5, <2>2
  <2>4. Minimal'
    <3>1. PICK T \in Facts : Keeps(t, T)
      BY <1>1, <1>5 DEF Derived, Live, Closure
    <3>2. n \in T /\ T \ {n} \subseteq known
      BY <1>1, <2>2, <3>1 DEF Keeps
    <3>3. T \in SUBSET Inputs
      BY <1>1, FactsFinite
    <3> QED
      BY <1>1, <2>2, <3>2, <3>3, ResolvedIsPeeled DEF Closure
  <2> QED
    BY <2>3, <2>4 DEF Closure
<1>6. CASE /\ eqs[t].live /\ cur \in eqs[t].nbrs /\ ~Peelable(left)
           /\ eqs' = [eqs EXCEPT ![t] = IF left = {} THEN dead
                        ELSE [live |-> TRUE, data |-> PeeledData(t), nbrs |-> left]]
           /\ UNCHANGED <<known, value, queue>>
  <2>1. Minimal'
    BY <1>1, <1>6, MinimalKept DEF Closure
  <2>2. CASE left = {}
    <3>1. eqs' = [eqs EXCEPT ![t] = dead] /\ eqs[t].nbrs \subseteq known' /\ known \subseteq known'
      BY <1>1, <1>6, <2>2
    <3>2. Covered' /\ Derived' /\ NoLoneInput'
      BY <1>4, <1>6, <3>1
    <3> QED
      BY <2>1, <3>2 DEF Closure
  <2>3. CASE left # {}
    <3>1. /\ DOMAIN eqs' = DOMAIN eqs /\ eqs'[t].live /\ eqs'[t].nbrs = left
          /\ \A u \in DOMAIN eqs : u # t => eqs'[u] = eqs[u]
      BY <1>3, <1>6, <2>3
    <3>2. Live' = Live /\ known' = known /\ t \in Live
      BY <1>1, <1>6, <3>1 DEF Live
    <3>3. \A u \in Live : \A T : Keeps(u, T) => Keeps(u, T)'
      BY <1>1, <3>1, <3>2 DEF Keeps, Live
    <3>4. Covered'
      BY <1>1, <3>2, <3>3 DEF Covered, Closure
    <3>5. Derived'
      BY <1>1, <3>2, <3>3 DEF Derived, Closure
    <3>6. NoLoneInput'
      <4>1. Cardinality(eqs'[t].nbrs) = 1 => eqs'[t].nbrs \cap known # {}
        BY <1>6, <3>1 DEF Peelable
      <4>2. \A u \in Live : u # t => eqs'[u] = eqs[u]
        BY <3>1 DEF Live
      <4> QED
        BY <3>2, <4>1, <4>2 DEF NoLoneInput, Closure
    <3> QED
      BY <2>1, <3>4, <3>5, <3>6 DEF Closure
  <2> QED
    BY <2>2, <2>3
<1> QED
  BY <1>2, <1>5, <1>6, Zenon DEF Touch

\* Every step keeps the closure.
LEMMA ClosureNext == IInv /\ Closure /\ [Next]_vars => Closure'
<1> SUFFICES ASSUME IInv, Closure, [Next]_vars PROVE Closure'
  OBVIOUS
<1>1. ASSUME UNCHANGED <<known, eqs, received>> PROVE Closure'
  <2>1. Facts' = Facts /\ Live' = Live
    BY <1>1 DEF Facts, Live
  <2>2. Covered' /\ Derived' /\ NoLoneInput'
    BY <1>1, <2>1 DEF Closure, Covered, Derived, NoLoneInput, Keeps
  <2>3. Minimal'
    BY <1>1, <2>1, MinimalKept DEF Closure
  <2> QED
    BY <2>2, <2>3 DEF Closure
<1>2. CASE Pop
  BY <1>1, <1>2 DEF Pop
<1>3. CASE UNCHANGED vars
  BY <1>1, <1>3 DEF vars
<1> QED
  BY <1>2, <1>3, AddSymbolClosure, TouchClosure DEF Next

\* Between calls no equation mentions a resolved input.
LEMMA ClosureEnough == IInv /\ Closure => OrderIndependent
<1> SUFFICES ASSUME IInv, Closure, Idle PROVE PeelClosed(known)
  BY DEF OrderIndependent, Closure, Minimal
<1>1. \A t \in Live : eqs[t].nbrs \cap known = {}
  <2> SUFFICES ASSUME NEW t \in Live, NEW n \in eqs[t].nbrs, n \in known PROVE FALSE
    OBVIOUS
  <2>1. DOMAIN queue = {} /\ slots = {}
    BY DEF Idle
  <2> QED
    BY <2>1 DEF IInv, IndexComplete, Live
<1> SUFFICES ASSUME NEW T \in Facts, Cardinality(T \ known) = 1 PROVE FALSE
  BY DEF PeelClosed
<1>2. CASE T \subseteq known
  <2>1. T \ known = {}
    BY <1>2
  <2> QED
    BY <2>1, FS_EmptySet
<1>3. ASSUME NEW t \in Live, Keeps(t, T) PROVE FALSE
  <2>1. T \ known = eqs[t].nbrs
    BY <1>1, <1>3 DEF Keeps
  <2> QED
    BY <1>1, <2>1 DEF Closure, NoLoneInput
<1> QED
  BY <1>2, <1>3 DEF Closure, Covered

\* Whatever the order and the repetition of the symbols, between calls exactly
\* the inputs that the checks and the symbols allow to be peeled are resolved
\* (decoder.rs:128-193, the comment at session.rs:505-508).
THEOREM OrderDoesNotMatter == Spec => []OrderIndependent
<1>1. Spec => []Closure
  BY ClosureInit, ClosureNext, Invariant, PTL DEF Spec
<1> QED
  BY <1>1, ClosureEnough, Invariant, PTL
=============================================================================
