----------------------------- MODULE DirectPath -----------------------------
(***************************************************************************)
(* The sender's emission loop with the scheduler and the direct link in    *)
(* full (crates/orbit-transport/src/session.rs, run()): which path each    *)
(* symbol takes, what the link makes of it, and the fall back to a relay   *)
(* when the link is full or dead.  A relay is reduced to a path that may   *)
(* refuse a symbol for a while (Sender.tla has its detail).                *)
(***************************************************************************)
EXTENDS Scheduler, DirectLink

CONSTANTS
    MaxEsi,         \* bound: symbols emitted
    MaxRefusals,    \* bound: times the relay asked first had no room
    Bandwidths      \* pairs of bandwidths asked of the scheduler

ASSUME PathAssumption ==
    MaxEsi \in Nat /\ MaxRefusals \in Nat /\ Bandwidths \subseteq (Nat \X Nat)

VARIABLES
    step,           \* "next": at the top of the loop; "refused": try_send has failed
    esi,            \* the next symbol
    nextRelay,      \* the scheduler's next_relay
    picks,          \* history: how often the scheduler named each relay
    carried,        \* history: the symbols each relay took
    fallbacks,      \* history: the symbols of the direct link that a relay took
    refusals,       \* history: the dispatches whose first relay had no room
    direct,         \* run()'s `direct`: is_some()
    viaDirect,      \* via_direct
    viaRelay        \* via_relay

loopVars == <<step, esi, nextRelay, picks, carried, fallbacks, refusals, direct, viaDirect,
              viaRelay>>
vars == <<linkVars, loopVars>>

Relays == 0 .. (RelayCount - 1)

TypeOK ==
    /\ LinkTypeOK
    /\ step \in {"next", "refused"}
    /\ esi \in 0 .. MaxEsi /\ refusals \in 0 .. MaxRefusals
    /\ nextRelay \in Relays
    /\ picks \in [Relays -> Nat] /\ carried \in [Relays -> Nat]
    /\ direct \in BOOLEAN
    /\ viaDirect \in 0 .. MaxEsi /\ viaRelay \in 0 .. MaxEsi /\ fallbacks \in 0 .. viaRelay

Init ==
    /\ LinkInit
    /\ step = "next"
    /\ esi = 0 /\ nextRelay = 0 /\ fallbacks = 0 /\ refusals = 0
    /\ picks = [i \in Relays |-> 0] /\ carried = [i \in Relays |-> 0]
    /\ direct = TRUE
    /\ viaDirect = 0 /\ viaRelay = 0

-----------------------------------------------------------------------------
\* dispatch: relay i takes the symbol, because `first` and those between have
\* no room or are dead.
Dispatched(first, i) ==
    /\ carried' = [carried EXCEPT ![i] = @ + 1]
    /\ refusals' = refusals + (IF i = first THEN 0 ELSE 1) /\ refusals' <= MaxRefusals
    /\ esi' = esi + 1 /\ viaRelay' = viaRelay + 1

\* dispatch_or_wait, all relays refusing: the same symbol is scheduled again.
Waited ==
    /\ refusals < MaxRefusals /\ refusals' = refusals + 1
    /\ UNCHANGED <<esi, carried, viaRelay, fallbacks>>

Equal == Ratio(1, 1)

\* A symbol scheduled on a relay.
EmitRelay ==
    /\ step = "next" /\ esi < MaxEsi /\ ~dropped /\ GoesToRelay(esi, Equal)
    /\ nextRelay' = NextRelay(nextRelay, esi)
    /\ picks' = [picks EXCEPT ![nextRelay] = @ + 1]
    /\ \/ (\E i \in Relays : Dispatched(nextRelay, i)) /\ UNCHANGED fallbacks
       \/ Waited
    /\ UNCHANGED <<linkVars, step, direct, viaDirect>>

\* A symbol scheduled on the direct link.
ForDirect == esi < MaxEsi /\ ~dropped /\ ~GoesToRelay(esi, Equal)

\* try_send queues it there.
EmitDirect ==
    /\ step = "next" /\ ForDirect /\ direct
    /\ TrySend
    /\ esi' = esi + 1 /\ viaDirect' = viaDirect + 1
    /\ UNCHANGED <<step, nextRelay, picks, carried, fallbacks, refusals, direct, viaRelay>>

\* try_send refuses it: the queue is full, or the link is dead.  Which of them
\* it was is asked of is_alive() afterwards.
DirectRefuses ==
    /\ step = "next" /\ ForDirect /\ direct /\ ~CanQueue
    /\ step' = "refused"
    /\ UNCHANGED <<linkVars, esi, nextRelay, picks, carried, fallbacks, refusals, direct, viaDirect,
                   viaRelay>>

\* The symbol goes to the relays, from the first one on, whichever relay's turn
\* it is; a link that is dead by now is given up.
FallBack ==
    /\ step = "refused" \/ (step = "next" /\ ForDirect /\ ~direct)
    /\ direct' = (direct /\ alive)
    /\ step' = "next"
    /\ \/ (\E i \in Relays : Dispatched(0, i)) /\ fallbacks' = fallbacks + 1
       \/ Waited
    /\ UNCHANGED <<linkVars, nextRelay, picks, viaDirect>>

\* READY: run() returns.
Return ==
    /\ step = "next" /\ esi > 0 /\ ~dropped
    /\ Drop
    /\ UNCHANGED loopVars

Writer == WriterStep /\ UNCHANGED loopVars
Reader == ReaderStep /\ UNCHANGED loopVars

Next ==
    \/ EmitRelay \/ EmitDirect \/ DirectRefuses \/ FallBack \/ Return
    \/ Writer \/ Reader
    \/ (WriterKilled /\ UNCHANGED loopVars)
    \/ (Break /\ UNCHANGED loopVars)

Spec == Init /\ [][Next]_vars

\* The writer task and the reader task are scheduled by the runtime; nothing is
\* assumed of the end of the process.
FairSpec == Spec /\ WF_vars(Writer) /\ WF_vars(Reader)

-----------------------------------------------------------------------------
\* What keeps the loads of the relays apart.  The relays are named in turn, also
\* when a symbol is scheduled again (scheduler.rs:37-40), so no relay carries
\* more than another but for one turn, for the dispatches in which a relay had no
\* room, and, the first relay only, for the symbols the direct link did not
\* take: their dispatch starts at relay 0 (session.rs:296, 303, 310).  Without a
\* direct link that is every second symbol, so the round-robin over all live
\* links of README.md:112-113 is kept for symbols that were scheduled on relays.
RelaysBalanced ==
    \A i, j \in Relays :
        carried[i] <= carried[j] + 1 + 2 * refusals + (IF i = 0 THEN fallbacks ELSE 0)

\* The scheduler keeps the requested split wherever its floats are exact, and no
\* symbol loses its place in it by being scheduled twice or refused: up to
\* 2^Precision symbols, every second one is the direct link's, queued there or
\* taken over by a relay (scheduler.rs:4-6, 41-43).  The link is given up only
\* when it is dead, although its queue may have been full when it was asked and
\* the writer task may end in between (session.rs:290-303).
SplitKept ==
    /\ esi <= 2 ^ Precision => viaDirect + fallbacks = esi \div 2
    /\ \A bw \in Bandwidths : SplitExact(esi, bw[1], bw[2])
    /\ direct \/ ~alive

\* A frame that was accepted is returned on the other side, unless the connection
\* breaks, is closed by the end of the process or of the QUIC task, or a read goes
\* past the end of a frame.
LinkDelivers == [](conn = "up" /\ ~overread) => <>[](Len(delivered) = viaDirect)

\* Whatever becomes of the reader (it gave up, it waits for the rest of a frame
\* that does not exist), the writer task is not held up for ever: what it has
\* accepted is written, or the link is known to be dead (direct.rs:78-85).
QueueDrains == []<>(writer = "ended" \/ (queue = 0 /\ wpos = EndOf(taken)))
=============================================================================
