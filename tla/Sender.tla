------------------------------- MODULE Sender -------------------------------
(***************************************************************************)
(* SenderSession (crates/orbit-transport/src/session.rs): connect, the     *)
(* watcher and writer task of every relay, the emission loop run() with    *)
(* the MultiPathScheduler (scheduler.rs), and the pipelined writer of the  *)
(* direct link (direct.rs).                                                *)
(***************************************************************************)
EXTENDS Paths

CONSTANTS
    QueueDepth,     \* PATH_QUEUE_DEPTH, DIRECT_QUEUE_DEPTH
    StallMayFire    \* whether 30 s may pass without a successful send

ASSUME SenderAssumption == QueueDepth \in Nat \ {0} /\ StallMayFire \in BOOLEAN

VARIABLES
    spc,            \* "connect", "meta", "run", "done", "failed"
    dialled,        \* relays connected so far
    watcher,        \* a relay's watcher task: "off", "reading", "dialling", "ended"
    events,         \* the channel from the watchers to run()
    directUp,       \* the direct_up flag
    pathQueue,      \* symbols queued for a relay's writer task
    pathAlive,      \* path_alive
    direct,         \* run()'s `direct`: is_some()
    linkQueue,      \* symbols queued for the direct writer task
    linkAlive,      \* the DirectWriter's alive flag
    odd,            \* the parity of esi
    nextRelay       \* the scheduler's next_relay

senderVars == <<spc, dialled, watcher, events, directUp, pathQueue, pathAlive, direct,
                linkQueue, linkAlive, odd, nextRelay>>

SenderTypeOK ==
    /\ spc \in {"connect", "meta", "run", "done", "failed"}
    /\ dialled \in 0 .. N
    /\ watcher \in [Relays -> {"off", "reading", "dialling", "ended"}]
    /\ events \in Seq({"ready", "direct"})
    /\ directUp \in BOOLEAN
    /\ pathQueue \in [Relays -> 0 .. QueueDepth]
    /\ pathAlive \in [Relays -> BOOLEAN]
    /\ direct \in BOOLEAN
    /\ linkQueue \in 0 .. QueueDepth
    /\ linkAlive \in BOOLEAN
    /\ odd \in BOOLEAN
    /\ nextRelay \in Relays

SenderInit ==
    /\ spc = "connect" /\ dialled = 0
    /\ watcher = [i \in Relays |-> "off"]
    /\ events = <<>> /\ directUp = FALSE
    /\ pathQueue = [i \in Relays |-> 0]
    /\ pathAlive = [i \in Relays |-> TRUE]
    /\ direct = FALSE /\ linkQueue = 0 /\ linkAlive = FALSE
    /\ odd = FALSE /\ nextRelay = 0

-----------------------------------------------------------------------------
(* connect *)

\* One round of the loop over the URLs: connect, Hello, spawn the watcher.
\* A relay that cannot be reached fails the session.
SenderDial ==
    /\ spc = "connect"
    /\ \/ /\ relayUp[dialled]
          /\ out' = [out EXCEPT ![dialled] = Append(@, "hello")]
          /\ watcher' = [watcher EXCEPT ![dialled] = "reading"]
          /\ dialled' = dialled + 1
          /\ spc' = IF dialled + 1 = N THEN "meta" ELSE spc
       \/ /\ ~relayUp[dialled]
          /\ spc' = "failed"
          /\ UNCHANGED <<out, watcher, dialled>>
    /\ UNCHANGED <<relayUp, back, in, ack, senderReg, receiverReg, receiverDone, pendingDirect,
                   closed, linkVars, events, directUp, pathQueue, pathAlive, direct, linkQueue,
                   linkAlive, odd, nextRelay>>

\* The Meta goes out once, on the first relay; then the writers are spawned.
\* A write to a dead relay fails, or is still swallowed by the socket.
MetaRelays == {0}
SendMeta ==
    /\ spc = "meta"
    /\ \A i \in MetaRelays : relayUp[i] => Len(out[i]) < PipeCap
    /\ out' = [i \in Relays |-> IF i \in MetaRelays /\ relayUp[i]
                                THEN Append(out[i], "meta") ELSE out[i]]
    /\ \/ spc' = "run"
       \/ ~relayUp[0] /\ spc' = "failed"
    /\ UNCHANGED <<relayUp, back, in, ack, senderReg, receiverReg, receiverDone, pendingDirect,
                   closed, linkVars, dialled, watcher, events, directUp, pathQueue, pathAlive,
                   direct, linkQueue, linkAlive, odd, nextRelay>>

-----------------------------------------------------------------------------
(* The watcher of relay i. *)

\* READY is reported and ends the task.
WatchReady(i) ==
    /\ watcher[i] = "reading" /\ ack[i] # <<>> /\ Head(ack[i]) = "ready"
    /\ Len(events) < N + 2
    /\ ack' = [ack EXCEPT ![i] = Tail(@)]
    /\ events' = Append(events, "ready")
    /\ watcher' = [watcher EXCEPT ![i] = "ended"]
    /\ UNCHANGED <<relayUp, out, back, in, senderReg, receiverReg, receiverDone, pendingDirect,
                   closed, linkVars, spc, dialled, directUp, pathQueue, pathAlive, direct,
                   linkQueue, linkAlive, odd, nextRelay>>

\* Faulty variant of MayDial: the direct_up flag is not consulted.
DialAnyway == TRUE

\* DIRECT: the first watcher to swap the flag dials, the others ignore it.
MayDial == ~directUp
WatchDirect(i) ==
    /\ watcher[i] = "reading" /\ ack[i] # <<>> /\ Head(ack[i]) = "direct"
    /\ ack' = [ack EXCEPT ![i] = Tail(@)]
    /\ directUp' = TRUE
    /\ watcher' = IF MayDial THEN [watcher EXCEPT ![i] = "dialling"] ELSE watcher
    /\ UNCHANGED <<relayUp, out, back, in, senderReg, receiverReg, receiverDone, pendingDirect,
                   closed, linkVars, spc, dialled, events, pathQueue, pathAlive, direct,
                   linkQueue, linkAlive, odd, nextRelay>>

\* Faulty variant of DialSucceeds: the watcher stops reading once it has dialled.
DialAndStop(i, listening) ==
    /\ watcher[i] = "dialling" /\ listening
    /\ Len(events) < N + 2
    /\ link' = "up"
    /\ events' = Append(events, "direct")
    /\ watcher' = [watcher EXCEPT ![i] = "ended"]
    /\ UNCHANGED <<relayVars, linkPipe, spc, dialled, directUp, pathQueue, pathAlive, direct,
                   linkQueue, linkAlive, odd, nextRelay>>

\* The dial succeeds, or fails or times out and the flag is cleared.
DialSucceeds(i, listening) ==
    /\ watcher[i] = "dialling" /\ listening
    /\ Len(events) < N + 2
    /\ link' = "up"
    /\ events' = Append(events, "direct")
    /\ watcher' = [watcher EXCEPT ![i] = "reading"]
    /\ UNCHANGED <<relayVars, linkPipe, spc, dialled, directUp, pathQueue, pathAlive, direct,
                   linkQueue, linkAlive, odd, nextRelay>>

DialFails(i, listening) ==
    /\ watcher[i] = "dialling" /\ (DirectMayDie \/ ~listening)
    /\ directUp' = FALSE
    /\ watcher' = [watcher EXCEPT ![i] = "reading"]
    /\ UNCHANGED <<relayVars, linkVars, spc, dialled, events, pathQueue, pathAlive, direct,
                   linkQueue, linkAlive, odd, nextRelay>>

\* Faulty variant of WatchEnds: the end of the stream is taken for READY.
EndIsReady(i) ==
    /\ watcher[i] = "reading" /\ ack[i] = <<>> /\ ~relayUp[i]
    /\ watcher' = [watcher EXCEPT ![i] = "ended"]
    /\ events' = Append(events, "ready")
    /\ UNCHANGED <<relayVars, linkVars, spc, dialled, directUp, pathQueue, pathAlive,
                   direct, linkQueue, linkAlive, odd, nextRelay>>

\* The relay's side of the socket is gone.
WatchEnds(i) ==
    /\ watcher[i] = "reading" /\ ack[i] = <<>> /\ ~relayUp[i]
    /\ watcher' = [watcher EXCEPT ![i] = "ended"]
    /\ UNCHANGED <<relayVars, linkVars, spc, dialled, events, directUp, pathQueue, pathAlive,
                   direct, linkQueue, linkAlive, odd, nextRelay>>

-----------------------------------------------------------------------------
(* The writer tasks. *)

PathWrites(i) ==
    /\ spc = "run" /\ pathQueue[i] > 0 /\ relayUp[i] /\ Len(out[i]) < PipeCap
    /\ pathQueue' = [pathQueue EXCEPT ![i] = @ - 1]
    /\ out' = [out EXCEPT ![i] = Append(@, "symbol")]
    /\ UNCHANGED <<relayUp, back, in, ack, senderReg, receiverReg, receiverDone, pendingDirect,
                   closed, linkVars, spc, dialled, watcher, events, directUp, pathAlive, direct,
                   linkQueue, linkAlive, odd, nextRelay>>

\* A failed write disables the path; what was queued on it is lost.
PathFails(i) ==
    /\ pathQueue[i] > 0 /\ ~relayUp[i] /\ spc = "run"
    /\ pathAlive' = [pathAlive EXCEPT ![i] = FALSE]
    /\ pathQueue' = [pathQueue EXCEPT ![i] = 0]
    /\ UNCHANGED <<relayVars, linkVars, spc, dialled, watcher, events, directUp, direct,
                   linkQueue, linkAlive, odd, nextRelay>>

LinkWrites ==
    /\ linkQueue > 0 /\ link = "up" /\ linkPipe < PipeCap /\ spc = "run"
    /\ linkQueue' = linkQueue - 1
    /\ linkPipe' = linkPipe + 1
    /\ UNCHANGED <<relayVars, link, spc, dialled, watcher, events, directUp, pathQueue,
                   pathAlive, direct, linkAlive, odd, nextRelay>>

LinkFails ==
    /\ linkQueue > 0 /\ link = "dead" /\ spc = "run"
    /\ linkAlive' = FALSE /\ linkQueue' = 0
    /\ UNCHANGED <<relayVars, linkVars, spc, dialled, watcher, events, directUp, pathQueue,
                   pathAlive, direct, odd, nextRelay>>

-----------------------------------------------------------------------------
(* The emission loop. *)

\* Events come first: READY ends the session, a DIRECT installs its writer.
TakeEvent ==
    /\ spc = "run" /\ events # <<>>
    /\ events' = Tail(events)
    /\ IF Head(events) = "ready"
         THEN spc' = "done" /\ UNCHANGED <<direct, linkAlive, linkQueue>>
         ELSE direct' = TRUE /\ linkAlive' = TRUE /\ linkQueue' = 0 /\ UNCHANGED spc
    /\ UNCHANGED <<relayVars, linkVars, dialled, watcher, directUp, pathQueue, pathAlive, odd,
                   nextRelay>>

\* dispatch: the first live path with a free slot, in ring order from `first`.
Ring(first, offset) == (first + offset) % N

\* Faulty variant of Accepts: the queue bound is ignored.
AcceptsFull(j) == pathAlive[j]

Accepts(j) == pathAlive[j] /\ pathQueue[j] < QueueDepth
Dispatch(first) ==
    \E o \in 0 .. (N - 1) :
        /\ Accepts(Ring(first, o))
        /\ \A p \in 0 .. (o - 1) : ~Accepts(Ring(first, p))
        /\ pathQueue' = [pathQueue EXCEPT ![Ring(first, o)] = @ + 1]

AnyPathAlive == \E i \in Relays : pathAlive[i]
AnyAccepts == \E i \in Relays : Accepts(i)

\* dispatch_or_wait: the symbol is queued, or every queue is full and the same
\* symbol is retried, or the session fails: no relay is left, or no send
\* succeeded for STALL_TIMEOUT.
DispatchOrWait(first) ==
    \/ AnyAccepts /\ Dispatch(first) /\ odd' = ~odd /\ UNCHANGED spc
    \/ ~AnyAccepts /\ AnyPathAlive /\ UNCHANGED <<spc, pathQueue, odd>>
    \/ ~AnyAccepts /\ AnyPathAlive /\ StallMayFire /\ spc' = "failed" /\ UNCHANGED <<pathQueue, odd>>
    \/ ~AnyPathAlive /\ spc' = "failed" /\ UNCHANGED <<pathQueue, odd>>

\* With equal bandwidths the scheduler gives even symbols to the relays in
\* turn and odd ones to the direct link; relay 0 stands in for a direct link
\* that is missing, full or dead.
Emit ==
    /\ spc = "run" /\ events = <<>>
    /\ IF ~odd
         THEN /\ nextRelay' = (nextRelay + 1) % N
              /\ DispatchOrWait(nextRelay)
              /\ UNCHANGED <<direct, linkQueue>>
         ELSE /\ UNCHANGED nextRelay
              /\ \/ /\ direct /\ linkAlive /\ linkQueue < QueueDepth
                    /\ linkQueue' = linkQueue + 1
                    /\ odd' = FALSE
                    /\ UNCHANGED <<spc, pathQueue, direct>>
                 \/ /\ (direct /\ linkAlive) => linkQueue = QueueDepth
                    /\ direct' = (direct /\ linkAlive)
                    /\ DispatchOrWait(0)
                    /\ UNCHANGED linkQueue
    /\ UNCHANGED <<relayVars, linkVars, dialled, watcher, events, directUp, pathAlive, linkAlive>>

-----------------------------------------------------------------------------
WatchStep(i, listening) ==
    WatchReady(i) \/ WatchDirect(i) \/ DialSucceeds(i, listening) \/ DialFails(i, listening)
        \/ WatchEnds(i)

SenderStep == SenderDial \/ SendMeta \/ TakeEvent \/ Emit

WriterStep(i) == PathWrites(i) \/ PathFails(i)

LinkWriterStep == LinkWrites \/ LinkFails
=============================================================================
