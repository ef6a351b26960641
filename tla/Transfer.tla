------------------------------ MODULE Transfer ------------------------------
(***************************************************************************)
(* A whole transfer: a sender, a receiver, N relays and the direct link,   *)
(* with relays that die, a direct link that breaks, a drain that times out *)
(* and wrong secrets.                                                      *)
(***************************************************************************)
EXTENDS Sender, Receiver

CONSTANTS
    OnlyMidTransfer,    \* relays die only once both sides are connected
    ReceiverFirst       \* the receiver is registered before the Meta is sent

ASSUME TransferAssumption == OnlyMidTransfer \in BOOLEAN /\ ReceiverFirst \in BOOLEAN

vars == <<relayVars, linkVars, senderVars, receiverVars>>

TypeOK == PathsTypeOK /\ SenderTypeOK /\ ReceiverTypeOK

Init == PathsInit /\ SenderInit /\ ReceiverInit

\* Every relay the receiver can register at has it registered.
ReceiverThere ==
    \A i \in Relays : receiverReg[i] \/ ~relayUp[i] \/ rpc = "failed"

BothConnected == spc # "connect" /\ rpc # "connect"

Send ==
    /\ (ReceiverFirst /\ spc = "meta") => ReceiverThere
    /\ SenderStep
    /\ UNCHANGED receiverVars

Watch(i) == WatchStep(i, Listening) /\ UNCHANGED receiverVars
Writer(i) == WriterStep(i) /\ UNCHANGED receiverVars
LinkWriter == LinkWriterStep /\ UNCHANGED receiverVars

Receive == ReceiverStep /\ UNCHANGED senderVars
Advert(i) == Advertise(i) /\ UNCHANGED senderVars

RelayDown(i) == (RelayHello(i) \/ RelayForward(i)) /\ UNCHANGED <<senderVars, receiverVars>>
RelayBack(i) ==
    \/ RelayReturn(i) /\ UNCHANGED <<senderVars, receiverVars>>
    \/ RelayForgetsReceiver(i) /\ UNCHANGED senderVars

Fault ==
    \/ /\ OnlyMidTransfer => BothConnected
       /\ \E i \in Relays : RelayDies(i)
       /\ UNCHANGED <<senderVars, receiverVars>>
    \/ (LinkBreaks \/ LinkLoses) /\ UNCHANGED <<senderVars, receiverVars>>

Next ==
    \/ Send \/ LinkWriter \/ Receive \/ Fault
    \/ \E i \in Relays : Watch(i) \/ Writer(i) \/ Advert(i) \/ RelayDown(i) \/ RelayBack(i)

Spec == Init /\ [][Next]_vars

\* run()'s select takes from every source it is offered; the relays' frames
\* come through one FIFO channel that every reader task can enter.
ReceiveFrom(i) ==
    (RecvMeta(i) \/ RecvSymbol(i) \/ RecvClosed(i) \/ DrainFrame(i) \/ DrainEnd(i))
        /\ UNCHANGED senderVars

\* Every task of the two clients and of the relays that are alive is run.
\* Nothing is assumed of the faults.
FairSpec ==
    /\ Spec
    /\ WF_vars(Send) /\ WF_vars(LinkWriter) /\ WF_vars(Receive)
    /\ WF_vars(RecvDirect /\ UNCHANGED senderVars)
    /\ \A i \in Relays :
         /\ WF_vars(Watch(i)) /\ WF_vars(Writer(i)) /\ WF_vars(Advert(i))
         /\ WF_vars(RelayDown(i)) /\ WF_vars(RelayBack(i)) /\ WF_vars(ReceiveFrom(i))

-----------------------------------------------------------------------------
(* Safety. *)

\* The sender reports success only for a payload the receiver has decoded:
\* READY cannot be fabricated by restarts, faults or reordering
\* (session.rs:256-264, 628-635).
NoFalseAck == spc = "done" => Decoded

\* Why: READY exists only once the payload is decoded.  A READY on its way
\* (in a relay, in a watcher, in the events channel) and a receiver in its
\* shutdown both mean that the payload is there, and it is never lost again.
ReadyMeansDecoded ==
    /\ rpc \in {"ready", "close", "drain", "done"} => Decoded
    /\ rpc \in {"connect", "run"} => have < Need
    /\ \A i \in Relays : Holds(back[i], "ready") \/ Holds(ack[i], "ready") => Decoded
    /\ Holds(events, "ready") \/ spc = "done" => Decoded

\* The events channel (capacity n + 2) never makes a watcher wait, although
\* nobody reads it before run() starts (session.rs:92, 113, 127).
WatchersNeverBlock ==
    \A i \in Relays : watcher[i] \in {"reading", "dialling"} => Len(events) < N + 2

\* At most one direct link is being set up or in use, however many relays
\* carry the advertisement (the comment at session.rs:106-109).
OneDirectLink ==
    Cardinality({i \in Relays : watcher[i] = "dialling"})
      + Cardinality({k \in DOMAIN events : events[k] = "direct"})
      + (IF direct THEN 1 ELSE 0) <= 1

\* The receiver never throws away a payload it has decoded.
DecodedIsReturned == rpc = "failed" => ~Decoded

\* The results the users of the two sessions see (TransferAbs.tla).
Result(pc) == IF pc = "done" THEN "ok" ELSE IF pc = "failed" THEN "error" ELSE "busy"
Abs == INSTANCE TransferAbs
         WITH payload <- Decoded, sender <- Result(spc), receiver <- Result(rpc)

\* Transfer implements TransferAbs.
ImplementsAbs == Abs!Spec

(* Liveness. *)

AllRelaysLive == \A i \in Relays : relayUp[i]

\* The only Meta was sent and is nowhere any more: a relay's buffer overflowed
\* before the receiver came, or the relay died.
MetaLost ==
    spc = "run" /\ ~decoder /\ \A i \in Relays : ~Holds(out[i], "meta") /\ ~Holds(in[i], "meta")

\* The drain timed out before every relay had closed.
DrainCutShort == rpc = "done" /\ streamEnded # Relays

\* dispatch_or_wait gave up although a path was alive: 30 s without a send.
Stalled == spc = "failed" /\ AnyPathAlive

Undisturbed == AllRelaysLive /\ secretsMatch /\ ~MetaLost /\ ~DrainCutShort /\ ~Stalled

\* As long as the relays live, the secrets match, no relay has evicted the
\* Meta, the sender has not stalled and the drain is not cut short, the
\* receiver reconstructs the payload, both sides finish with success, and
\* nobody waits for anybody else for ever, whatever the direct link loses and
\* whenever it breaks (session.rs:239-329, 528-673).
Completes == []Undisturbed => <>(spc = "done" /\ rpc = "done")

\* Any relay but the first may be lost: the receiver still decodes
\* (README.md:123-125, session.rs:602-626).
SurvivesRelayLoss == []relayUp[0] => <>Decoded

\* The same for a relay lost among several, whichever it is: "A relay that
\* dies mid-transfer is disabled and its load is transparently redistributed
\* over the remaining links; no symbols are lost" (README.md:123-125).
SurvivesAnyRelayLoss == (\E i \in Relays : []relayUp[i]) => <>Decoded
=============================================================================
