------------------------- MODULE RateLimiterProofs -------------------------
(***************************************************************************)
(* What the token bucket guarantees for every cap, message size, gap and   *)
(* timer delay: the ledger invariant, from it the bound of twice the       *)
(* configured rate, and the bound on bursts.                               *)
(***************************************************************************)
EXTENDS RateLimiter, TLAPS

\* The credit is a number of bytes between 0 and the cap, and no more than
\* the old tokens and the elapsed time.
LEMMA CreditBounds ==
    ASSUME TypeOK, Ledger
    PROVE  /\ Credit \in Nat
           /\ Credit <= Cap
           /\ Credit <= tokens + (now - last)
  BY TimeAssumption DEF TypeOK, Ledger, Credit

LEMMA InitLedger == Init => TypeOK /\ Ledger
  BY DEF Init, TypeOK, Ledger

\* One step of the limiter keeps the types and the ledger.
LEMMA NextLedger ==
    ASSUME TypeOK, Ledger, [Next]_vars
    PROVE  TypeOK' /\ Ledger'
  <1>1. ASSUME NEW d \in 1 .. MaxGap, Idle(d)
        PROVE  TypeOK' /\ Ledger'
    BY <1>1, TimeAssumption DEF Idle, TypeOK, Ledger
  <1>2. ASSUME NEW n \in Sizes, Pass(n)
        PROVE  TypeOK' /\ Ledger'
    <2>1. n \in Nat /\ Credit - n \in Nat
      BY <1>2, CreditBounds, SizesAssumption DEF Pass
    <2>2. TypeOK'
      BY <1>2, <2>1 DEF Pass, Rest, TypeOK
    <2>3. Ledger'
      BY <1>2, <2>1, CreditBounds DEF Pass, Rest, TypeOK, Ledger
    <2> QED BY <2>2, <2>3
  <1>3. ASSUME NEW n \in Sizes, Sleep(n)
        PROVE  TypeOK' /\ Ledger'
    <2>1. n \in Nat /\ n - Credit \in Nat
      BY <1>3, CreditBounds, SizesAssumption DEF Sleep
    <2>2. TypeOK'
      BY <1>3, <2>1 DEF Sleep, RestDuring, TypeOK
    <2>3. Ledger'
      BY <1>3, <2>1, CreditBounds DEF Sleep, RestDuring, TypeOK, Ledger
    <2> QED BY <2>2, <2>3
  <1>4. ASSUME NEW late \in 0 .. MaxLate, Wake(late)
        PROVE  TypeOK' /\ Ledger'
    <2>1. late \in Nat /\ msg \in Nat
      BY TimeAssumption, SizesAssumption DEF TypeOK
    <2> QED BY <1>4, <2>1 DEF Wake, TypeOK, Ledger
  <1>5. ASSUME UNCHANGED vars
        PROVE  TypeOK' /\ Ledger'
    BY <1>5 DEF vars, TypeOK, Ledger
  <1> QED BY <1>1, <1>2, <1>3, <1>4, <1>5 DEF Next

\* Every reachable state balances: no byte leaves that neither elapsed time
\* nor a sleep has paid for.
THEOREM LedgerHolds == Spec => [](TypeOK /\ Ledger)
  BY InitLedger, NextLedger, PTL DEF Spec

\* The limiter lets through at most twice the configured rate, for any timer.
THEOREM RateBound == Spec => []AtMostTwiceTheRate
  <1>1. TypeOK /\ Ledger => AtMostTwiceTheRate
    BY DEF TypeOK, Ledger, AtMostTwiceTheRate
  <1> QED BY <1>1, LedgerHolds, PTL

\* A long idle never unlocks more than the cap in one instant.
THEOREM BurstBound == Spec => []BurstBounded
  <1> DEFINE Same == pc = "idle" /\ burst > 0 => last = now
             IInv == TypeOK /\ Ledger /\ BurstBounded /\ Same
  <1>1. Init => IInv
    BY InitLedger, TimeAssumption DEF Init, BurstBounded
  <1>2. IInv /\ [Next]_vars => IInv'
    <2> SUFFICES ASSUME IInv, [Next]_vars PROVE BurstBounded' /\ Same'
      BY NextLedger
    <2>1. ASSUME NEW d \in 1 .. MaxGap, Idle(d) PROVE BurstBounded' /\ Same'
      BY <2>1, TimeAssumption DEF Idle, TypeOK, BurstBounded
    <2>2. ASSUME NEW n \in Sizes, Pass(n) PROVE BurstBounded' /\ Same'
      <3>1. n \in Nat /\ burst + Credit <= Cap
        BY <2>2, SizesAssumption, TimeAssumption DEF Credit, TypeOK, Ledger, BurstBounded, Pass
      <3> QED BY <2>2, <3>1, CreditBounds DEF Pass, Rest, TypeOK, BurstBounded
    <2>3. ASSUME NEW n \in Sizes, Sleep(n) PROVE BurstBounded' /\ Same'
      BY <2>3, TimeAssumption DEF Sleep, RestDuring, TypeOK, BurstBounded
    <2>4. ASSUME NEW late \in 0 .. MaxLate, Wake(late) PROVE BurstBounded' /\ Same'
      BY <2>4, TimeAssumption DEF Wake, TypeOK, BurstBounded
    <2>5. ASSUME UNCHANGED vars PROVE BurstBounded' /\ Same'
      BY <2>5 DEF vars, BurstBounded
    <2> QED BY <2>1, <2>2, <2>3, <2>4, <2>5 DEF Next
  <1>3. IInv => BurstBounded
    OBVIOUS
  <1> QED BY <1>1, <1>2, <1>3, PTL DEF Spec
=============================================================================
