------------------------------ MODULE Decoder ------------------------------
(***************************************************************************)
(* The fountain code: FountainEncoder and build_precoded produce symbols,  *)
(* FountainDecoder (crates/orbit-fountain/src/decoder.rs) peels them.      *)
(*                                                                         *)
(* All arithmetic on symbol data is XOR, which treats every bit position   *)
(* alone, so a symbol is modelled by one bit and an arbitrary payload by   *)
(* an arbitrary assignment of bits to the source symbols.  Which inputs    *)
(* the seeded generators pick (the HDPC checks, the repair symbols) is a   *)
(* parameter; the LDPC checks are the ones of precode.rs.                  *)
(*                                                                         *)
(* add_symbol is split at the iterations of its two loops.  The reverse    *)
(* index holds sets of slots, so the model covers every visiting order.    *)
(***************************************************************************)
EXTENDS Integers, Sequences, FiniteSets

CONSTANTS
    K, S, H,        \* source symbols, LDPC checks, HDPC checks
    Hdpc,           \* hdpc_neighbors: check -> subset of the K + S inputs
    Repair          \* get_neighbors of the ESIs >= L that occur: ESI -> inputs

L == K + S + H
Inputs == 0 .. (L - 1)

ASSUME SizesAssumption == K \in Nat \ {0} /\ S \in Nat /\ H \in Nat
\* hdpc_neighbors picks (K + S) / 2 + 1 inputs, so at least one.
ASSUME HdpcAssumption == Hdpc \in [0 .. (H - 1) -> (SUBSET (0 .. (K + S - 1))) \ {{}}]
ASSUME RepairAssumption ==
    /\ DOMAIN Repair \subseteq Nat \ Inputs
    /\ \A e \in DOMAIN Repair : Repair[e] \subseteq Inputs

Bits == {0, 1}
Xor(a, b) == (a + b) % 2

\* The XOR of the bits that f gives to the members of T.
ParityOf(f, T) == Cardinality({n \in T : f[n] = 1}) % 2

-----------------------------------------------------------------------------
(* The encoder. *)

\* precode_neighbors: every S-th source from i on, and two fixed ones.
PrecodeNeighbors(i) == {j \in 0 .. (K - 1) : j >= i /\ (j - i) % S = 0}
                       \cup {i % K, (i + 1) % K}

\* build_precoded: the sources, then the LDPC checks, then the HDPC checks.
Precoded(source) ==
    LET ldpc == [n \in 0 .. (K + S - 1) |->
                   IF n < K THEN source[n] ELSE ParityOf(source, PrecodeNeighbors(n - K))]
    IN  [n \in Inputs |->
           IF n < K + S THEN ldpc[n] ELSE ParityOf(ldpc, Hdpc[n - K - S])]

\* get_neighbors: systematic below L, sampled above.
Esis == Inputs \cup DOMAIN Repair
Neighbors(esi) == IF esi \in Inputs THEN {esi} ELSE Repair[esi]

\* The constraint equation of check c, which XORs to zero.
Constraint(c) == {K + c} \cup (IF c < S THEN PrecodeNeighbors(c) ELSE Hdpc[c - S])
Checks == 0 .. (S + H - 1)

-----------------------------------------------------------------------------
VARIABLES
    truth,      \* the encoder's precoded inputs
    known,      \* the resolved inputs ...
    value,      \* ... and their data
    eqs,        \* active_equations: slot -> [live, data, nbrs]
    rev,        \* input -> slots that mention it
    received,   \* received_esis
    queue,      \* the ripple queue of the running add_symbol
    cur,        \* resolved_idx
    slots       \* what is left of eq_slots

vars == <<truth, known, value, eqs, rev, received, queue, cur, slots>>

Equations == [live : BOOLEAN, data : Bits, nbrs : SUBSET Inputs]

TypeOK ==
    /\ truth \in [Inputs -> Bits]
    /\ known \subseteq Inputs
    /\ value \in [Inputs -> Bits]
    /\ eqs \in Seq(Equations)
    /\ rev \in [Inputs -> SUBSET (1 .. Len(eqs))]
    /\ received \subseteq Esis
    /\ queue \in Seq(known)
    /\ cur \in Inputs
    /\ slots \subseteq 1 .. Len(eqs)

Init ==
    /\ \E source \in [0 .. (K - 1) -> Bits] : truth = Precoded(source)
    /\ known = {} /\ value = [n \in Inputs |-> 0]
    /\ eqs = [t \in 1 .. (S + H) |-> [live |-> TRUE, data |-> 0, nbrs |-> Constraint(t - 1)]]
    /\ rev = [n \in Inputs |-> {t \in 1 .. (S + H) : n \in Constraint(t - 1)}]
    /\ received = {}
    /\ queue = <<>> /\ cur = 0 /\ slots = {}

Idle == queue = <<>> /\ slots = {}
IsComplete == known = Inputs

\* add_symbol up to the ripple loop: duplicates and late symbols are ignored,
\* resolved inputs are cancelled, what is left resolves an input, waits as an
\* equation or is worthless.
Cancelled(esi) == Neighbors(esi) \ known

\* Faulty variant of CancelledData: resolved inputs are not cancelled from the data.
UncancelledData(esi) == ParityOf(truth, Neighbors(esi))

CancelledData(esi) == Xor(ParityOf(truth, Neighbors(esi)),
                          ParityOf(value, Neighbors(esi) \cap known))

\* Faulty variant of Resolve: the input is queued before it is recorded.
QueueOnly(n, data) ==
    /\ queue' = Append(queue, n)
    /\ value' = [value EXCEPT ![n] = data]
    /\ UNCHANGED known

Resolve(n, data) ==
    /\ known' = known \cup {n}
    /\ value' = [value EXCEPT ![n] = data]
    /\ queue' = Append(queue, n)

\* Faulty variant of NewSlot: the reverse index names the slot before.
LastSlot == Len(eqs)

NewSlot == Len(eqs) + 1
AddSymbol(esi) ==
    /\ Idle /\ ~IsComplete /\ esi \notin received
    /\ received' = received \cup {esi}
    /\ LET left == Cancelled(esi) IN
       \/ /\ Cardinality(left) = 1
          /\ Resolve(CHOOSE n \in left : TRUE, CancelledData(esi))
          /\ UNCHANGED <<eqs, rev>>
       \/ /\ Cardinality(left) > 1
          /\ eqs' = Append(eqs, [live |-> TRUE, data |-> CancelledData(esi), nbrs |-> left])
          /\ rev' = [n \in Inputs |-> IF n \in left THEN rev[n] \cup {NewSlot} ELSE rev[n]]
          /\ UNCHANGED <<known, value, queue>>
       \/ /\ left = {}
          /\ UNCHANGED <<known, value, queue, eqs, rev>>
    /\ UNCHANGED <<truth, cur, slots>>

\* Faulty variant of PoppedQueue: the queue is read without being popped.
PeekedQueue == queue

\* The ripple: the next resolved input, and the slots that mention it.
PoppedQueue == Tail(queue)
Pop ==
    /\ slots = {} /\ queue # <<>>
    /\ cur' = Head(queue) /\ queue' = PoppedQueue
    /\ slots' = rev[Head(queue)]
    /\ rev' = [rev EXCEPT ![Head(queue)] = {}]
    /\ UNCHANGED <<truth, known, value, eqs, received>>

\* Faulty variant of Peelable: equations are never peeled.
NeverPeelable(left) == FALSE

\* One slot: the input is removed and its data cancelled; an equation left
\* with one unresolved input resolves it, an empty one is dropped, and one
\* whose last input is resolved but still queued is left for its turn.
Peelable(left) == Cardinality(left) = 1 /\ left \cap known = {}

\* Faulty variant of PeeledData: the resolved input is not cancelled.
StaleData(t) == eqs[t].data

PeeledData(t) == Xor(eqs[t].data, value[cur])
Touch(t) ==
    /\ t \in slots
    /\ slots' = slots \ {t}
    /\ LET left == eqs[t].nbrs \ {cur} IN
       \/ /\ ~eqs[t].live \/ cur \notin eqs[t].nbrs
          /\ UNCHANGED <<known, value, queue, eqs>>
       \/ /\ eqs[t].live /\ cur \in eqs[t].nbrs /\ Peelable(left)
          /\ Resolve(CHOOSE n \in left : TRUE, PeeledData(t))
          /\ eqs' = [eqs EXCEPT ![t] = [live |-> FALSE, data |-> 0, nbrs |-> {}]]
       \/ /\ eqs[t].live /\ cur \in eqs[t].nbrs /\ ~Peelable(left)
          /\ eqs' = [eqs EXCEPT ![t] = IF left = {}
                                         THEN [live |-> FALSE, data |-> 0, nbrs |-> {}]
                                         ELSE [live |-> TRUE, data |-> PeeledData(t), nbrs |-> left]]
          /\ UNCHANGED <<known, value, queue>>
    /\ UNCHANGED <<truth, rev, received, cur>>

Next == Pop \/ (\E esi \in Esis : AddSymbol(esi)) \/ (\E t \in slots : Touch(t))

Spec == Init /\ [][Next]_vars

\* add_symbol is one call: once begun, its loops run.
FairSpec == Spec /\ WF_vars(Pop \/ \E t \in slots : Touch(t))

-----------------------------------------------------------------------------
\* Whatever the decoder resolves is what the encoder encoded, in whatever
\* order the symbols arrive (decoder.rs:128-193); with IsComplete this is
\* what reconstruct() copies out (decoder.rs:204-210).
Sound == \A n \in known : value[n] = truth[n]

\* Every equation still states a true fact about the inputs it mentions.
EquationsHold ==
    \A t \in DOMAIN eqs : eqs[t].live => eqs[t].data = ParityOf(truth, eqs[t].nbrs)

\* The reverse index finds every live equation a later resolution must touch:
\* those of unresolved or queued inputs are indexed, the current input's are
\* in `slots` (decoder.rs:40-44, 168).
IndexComplete ==
    \A t \in DOMAIN eqs : \A n \in eqs[t].nbrs :
        eqs[t].live => \/ t \in rev[n] /\ (n \in known => \E k \in DOMAIN queue : queue[k] = n)
                       \/ n = cur /\ t \in slots

\* Everything the received symbols and the checks allow to be peeled.
Facts == {Constraint(c) : c \in Checks} \cup {Neighbors(e) : e \in received}
PeelClosed(X) == \A T \in Facts : Cardinality(T \ X) # 1

\* Between calls exactly the peelable inputs are resolved: the result does
\* not depend on the order or the repetition of symbols ("order never matters
\* for a rateless decoder, and duplicates are harmless", session.rs:505-508).
OrderIndependent ==
    Idle => /\ PeelClosed(known)
            /\ \A X \in SUBSET Inputs : PeelClosed(X) => known \subseteq X

\* The ripple loop of a call terminates (decoder.rs:165-190).
RippleEnds == []<>Idle
=============================================================================
