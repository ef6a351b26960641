---------------------------- MODULE RateLimiter ----------------------------
(***************************************************************************)
(* The egress token bucket of a relay connection (RateLimiter in           *)
(* crates/orbit-relay/src/lib.rs) as its sink task drives it: one message  *)
(* at a time, throttle_bytes before every write.                           *)
(*                                                                         *)
(* The unit of time is the time one byte takes at the configured rate, so  *)
(* a credit of t time units is a credit of t bytes; float rounding is      *)
(* abstracted away.                                                        *)
(***************************************************************************)
EXTENDS Integers

CONSTANTS
    Sizes,      \* message sizes in bytes
    Cap,        \* the burst cap: the bytes of 10 ms of egress
    MaxGap,     \* bound: longest wait for a message and longest write
    MaxLate,    \* bound: how late the timer may fire
    MaxTime     \* bound: the length of a behaviour

ASSUME SizesAssumption == Sizes \subseteq Nat \ {0}
ASSUME TimeAssumption == Cap \in Nat /\ MaxGap \in Nat /\ MaxLate \in Nat /\ MaxTime \in Nat

VARIABLES
    now,        \* Instant::now()
    tokens,     \* accumulated credit
    last,       \* the last accounting point
    pc,         \* "idle": outside throttle_bytes, "asleep": in its sleep
    wake,       \* when the sleep was asked to end
    msg,        \* size of the message waiting in throttle_bytes
    passed,     \* history: bytes let through
    waited,     \* history: total of the sleeps asked for
    burst       \* history: bytes let through without a sleep at the present instant

vars == <<now, tokens, last, pc, wake, msg, passed, waited, burst>>

TypeOK ==
    /\ now \in Nat /\ tokens \in Nat /\ last \in Nat /\ wake \in Nat
    /\ pc \in {"idle", "asleep"}
    /\ msg \in Sizes \cup {0}
    /\ passed \in Nat /\ waited \in Nat /\ burst \in Nat

Init ==
    /\ now = 0 /\ tokens = 0 /\ last = 0
    /\ pc = "idle" /\ wake = 0 /\ msg = 0
    /\ passed = 0 /\ waited = 0 /\ burst = 0

\* Time passes in rx.recv() or in sink.send().
Idle(d) ==
    /\ pc = "idle" /\ now + d <= MaxTime
    /\ now' = now + d
    /\ burst' = 0
    /\ UNCHANGED <<tokens, last, pc, wake, msg, passed, waited>>

\* Faulty variant of Credit: no burst cap.
CreditUncapped == tokens + (now - last)

\* The credit at the start of a call: all the time since `last`, capped.
Credit == IF tokens + (now - last) < Cap THEN tokens + (now - last) ELSE Cap

\* Faulty variant of Rest: the message is not paid for.
RestUnspent(n) == Credit

\* throttle_bytes returns at once: the credit covers the message.
Rest(n) == Credit - n
Pass(n) ==
    /\ pc = "idle" /\ Credit >= n
    /\ tokens' = Rest(n) /\ last' = now
    /\ passed' = passed + n
    /\ burst' = burst + n
    /\ UNCHANGED <<now, pc, wake, msg, waited>>

\* Faulty variant of RestDuring: the credit survives a sleep.
RestKept == Credit

\* It sleeps for what is missing: the credit is gone, `last` is now, and is
\* not refreshed when the sleep ends.
RestDuring == 0
Sleep(n) ==
    /\ pc = "idle" /\ Credit < n
    /\ now + (n - Credit) <= MaxTime
    /\ wake' = now + (n - Credit)
    /\ waited' = waited + (n - Credit)
    /\ tokens' = RestDuring /\ last' = now
    /\ pc' = "asleep" /\ msg' = n
    /\ UNCHANGED <<now, passed, burst>>

\* The timer fires, never early; the message passes.
Wake(late) ==
    /\ pc = "asleep" /\ wake + late <= MaxTime
    /\ now' = wake + late
    /\ pc' = "idle" /\ msg' = 0
    /\ passed' = passed + msg
    /\ burst' = 0
    /\ UNCHANGED <<tokens, last, wake, waited>>

Next ==
    \/ \E d \in 1 .. MaxGap : Idle(d)
    \/ \E n \in Sizes : Pass(n) \/ Sleep(n)
    \/ \E late \in 0 .. MaxLate : Wake(late)

Spec == Init /\ [][Next]_vars

-----------------------------------------------------------------------------
\* What the limiter does guarantee on every prefix, whatever the timer does:
\* at most twice the configured rate.  Every byte is paid either with the
\* time elapsed up to an accounting point or with a sleep, and an instant
\* can be used for both, because `last` is not refreshed after the sleep
\* (lib.rs:55-71).
AtMostTwiceTheRate == pc = "idle" => passed <= 2 * now

\* "idle time may buy a small burst, but a long idle must not unlock an
\* unbounded run" (lib.rs:51-53): no more than Cap bytes leave in one instant.
BurstBounded == burst + tokens <= Cap

\* The sum behind AtMostTwiceTheRate: bytes accounted for (the sleeping
\* message included) plus unspent credit never exceed the time credited plus
\* the time slept, and sleeps do not overlap (lib.rs:60-71).
Ledger ==
    /\ passed + msg + tokens <= last + waited
    /\ waited <= (IF pc = "asleep" THEN wake ELSE now)
    /\ last <= now
    /\ pc = "idle" => msg = 0
    /\ pc = "asleep" => now <= wake

\* The comment at lib.rs:55-59: "the long-term rate converges to `rate`
\* regardless of how imprecise tokio's timer is".  Whatever was let through
\* beyond the configured rate is at most the burst cap and one message.
LongTermRate ==
    pc = "idle" => \E n \in Sizes : passed <= now + Cap + n
=============================================================================
