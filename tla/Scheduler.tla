------------------------------ MODULE Scheduler ------------------------------
(***************************************************************************)
(* MultiPathScheduler (crates/orbit-transport/src/scheduler.rs): which     *)
(* symbol goes to the relays and which to the direct link.  The decision   *)
(* is a computation in f32, modelled in binary floating point with         *)
(* Precision significant bits, rounding to nearest, ties to even: every    *)
(* value is an integer, or an integer over a power of two.                 *)
(***************************************************************************)
EXTENDS Integers, FiniteSets

CONSTANTS
    Precision,      \* significant bits of a float (24 for f32)
    NRelays         \* n_relays

ASSUME SchedulerAssumption == Precision \in Nat \ {0} /\ NRelays \in Nat

\* num / den, rounded to the nearest integer, ties to even.
Nearest(num, den) ==
    LET q == num \div den
        r == num % den
    IN  IF 2 * r > den \/ (2 * r = den /\ q % 2 = 1) THEN q + 1 ELSE q

\* `n as f32`: the bits beyond the precision are rounded away.
ToFloat(n) ==
    LET Fits(e) == n < 2 ^ (Precision + e)
        excess == CHOOSE e \in 0 .. n : Fits(e) /\ (e = 0 \/ ~Fits(e - 1))
        ulp == 2 ^ excess
    IN  Nearest(n, ulp) * ulp

\* new: relay_bw / total as mant / 2^exp; one half if both are zero.
Ratio(p2p, relay) ==
    IF p2p + relay = 0 THEN [mant |-> 1, exp |-> 1]
    ELSE IF relay = 0 THEN [mant |-> 0, exp |-> 0]
    ELSE LET a == ToFloat(relay)
             b == ToFloat(p2p + relay)
             Enough(e) == a * 2 ^ e >= b * 2 ^ (Precision - 1)
             exp == CHOOSE e \in 0 .. (2 * Precision + p2p) : Enough(e) /\ (e = 0 \/ ~Enough(e - 1))
         IN  [mant |-> Nearest(a * 2 ^ exp, b), exp |-> exp]

\* with_relays: at least one.
RelayCount == IF NRelays = 0 THEN 1 ELSE NRelays

\* pick: slot = fract(seq * ratio), and the symbol is a relay's if slot < ratio.
Slot(seq, ratio) == ToFloat(ToFloat(seq) * ratio.mant) % 2 ^ ratio.exp

\* Faulty variant of GoesToRelay: a slot at the ratio counts too.
GoesToRelayInclusive(seq, ratio) == Slot(seq, ratio) <= ratio.mant

GoesToRelay(seq, ratio) == Slot(seq, ratio) < ratio.mant

\* Faulty variant of NextRelay: the relay is derived from the symbol number.
NextBySeq(next, seq) == (seq + 1) % RelayCount

\* pick: the relays take turns, whatever the symbol's number.
NextRelay(next, seq) == (next + 1) % RelayCount

-----------------------------------------------------------------------------
\* Of the symbols below n, those the relays get.
Relayed(n, ratio) == Cardinality({s \in 0 .. (n - 1) : GoesToRelay(s, ratio)})

\* The products computed for the symbols below n are exact.
ExactBelow(n, ratio) ==
    \A s \in 0 .. (n - 1) : ToFloat(ToFloat(s) * ratio.mant) = s * ratio.mant

\* The split of the first n symbols is the requested one, up to one symbol,
\* wherever the float arithmetic is exact (scheduler.rs:4-6, 41-43).
SplitExact(n, p2p, relay) ==
    LET ratio == Ratio(p2p, relay)
        got == Relayed(n, ratio) * 2 ^ ratio.exp
        asked == n * ratio.mant
    IN  ExactBelow(n, ratio) => got - asked \in (-(2 ^ ratio.exp)) .. (2 ^ ratio.exp)

\* With equal bandwidths, as in run(): an even split of up to 2^Precision symbols.
HalfSplit(n) ==
    n <= 2 ^ Precision => n - Relayed(n, Ratio(1, 1)) = n \div 2

\* Beyond 2^Precision symbols odd numbers have no float of their own, and the
\* direct link gets nothing more, although scheduler.rs:4-6 has the scheduler keep
\* the requested ratio.
DirectStarved(n) ==
    n >= 2 ^ Precision => n - Relayed(n, Ratio(1, 1)) = 2 ^ (Precision - 1)
=============================================================================
