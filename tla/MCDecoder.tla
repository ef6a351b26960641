----------------------------- MODULE MCDecoder -----------------------------
(* A real small code for TLC: K = 2 with S and H as precode.rs computes    *)
(* them, a sample of HDPC rows and a repair symbol.                      *)
EXTENDS Decoder, TLC

\* s_for and h_for (the number of subsets is the binomial coefficient).
SFor(k) == IF k <= 2 THEN 2 ELSE k \div 100 + 10
Binomial(h) == Cardinality({T \in SUBSET (1 .. h) : Cardinality(T) = h \div 2})
HFor(k) == CHOOSE h \in 1 .. 8 : /\ Binomial(h) >= k + SFor(k)
                                /\ \A g \in 1 .. (h - 1) : Binomial(g) < k + SFor(k)

ASSUME S = SFor(K) /\ H = HFor(K)
\* The target of hdpc_neighbors: half of the K + S inputs, and one more.
ASSUME \A i \in DOMAIN Hdpc : Cardinality(Hdpc[i]) = (K + S) \div 2 + 1

Hdpc2 == 0 :> {0, 1, 2} @@ 1 :> {1, 2, 3} @@ 2 :> {0, 2, 3} @@ 3 :> {0, 1, 3}
Repair2 == 8 :> {1, 4, 6}
=============================================================================
