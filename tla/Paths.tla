------------------------------- MODULE Paths -------------------------------
(***************************************************************************)
(* What lies between a sender and a receiver: N edge relays and the        *)
(* optional direct link.  A relay is reduced to what its two clients see   *)
(* of the room in crates/orbit-relay/src/lib.rs (Relay.tla has the detail):*)
(* a pipe of data frames one way, READY and DIRECT the other way, the      *)
(* registrations, and receiver_done.                                       *)
(*                                                                         *)
(* A symbol has no identity here: every emitted symbol has an ESI of its   *)
(* own (session.rs:315), so no two symbols in flight are equal.            *)
(***************************************************************************)
EXTENDS Integers, Sequences, FiniteSets

CONSTANTS
    N,              \* number of relay URLs
    Crashable,      \* relays that may die
    DirectMayDie,   \* whether the direct link may break
    PipeCap         \* bound: frames in one leg of a relay link or of the direct link

Relays == 0 .. (N - 1)

ASSUME PathsAssumption ==
    /\ N \in Nat \ {0}
    /\ Crashable \subseteq Relays
    /\ DirectMayDie \in BOOLEAN
    /\ PipeCap \in Nat \ {0}

VARIABLES
    relayUp,        \* the relay process is alive
    out,            \* written by the sender, not yet read by the relay
    back,           \* written by the receiver, not yet read by the relay
    in,             \* on the way to the receiver, or buffered for it
    ack,            \* on the way to the sender
    senderReg,      \* room.sender.is_some()
    receiverReg,    \* room.receiver.is_some()
    receiverDone,   \* room.receiver_done
    pendingDirect,  \* room.pending_direct.is_some()
    closed,         \* the relay has closed the receiver's socket
    link,           \* the direct connection: "none", "up", "dead"
    linkPipe        \* symbols on the direct connection

relayVars == <<relayUp, out, back, in, ack, senderReg, receiverReg, receiverDone,
               pendingDirect, closed>>
linkVars == <<link, linkPipe>>

DataMsgs == {"hello", "meta", "symbol"}
BackMsgs == {"hello", "ready", "direct", "close"}
AckMsgs == {"ready", "direct"}

PathsTypeOK ==
    /\ relayUp \in [Relays -> BOOLEAN]
    /\ out \in [Relays -> Seq(DataMsgs)]
    /\ back \in [Relays -> Seq(BackMsgs)]
    /\ in \in [Relays -> Seq(DataMsgs)]
    /\ ack \in [Relays -> Seq(AckMsgs)]
    /\ senderReg \in [Relays -> BOOLEAN]
    /\ receiverReg \in [Relays -> BOOLEAN]
    /\ receiverDone \in [Relays -> BOOLEAN]
    /\ pendingDirect \in [Relays -> BOOLEAN]
    /\ closed \in [Relays -> BOOLEAN]
    /\ link \in {"none", "up", "dead"}
    /\ linkPipe \in 0 .. PipeCap

PathsInit ==
    /\ relayUp = [i \in Relays |-> TRUE]
    /\ out = [i \in Relays |-> <<>>]
    /\ back = [i \in Relays |-> <<>>]
    /\ in = [i \in Relays |-> <<>>]
    /\ ack = [i \in Relays |-> <<>>]
    /\ senderReg = [i \in Relays |-> FALSE]
    /\ receiverReg = [i \in Relays |-> FALSE]
    /\ receiverDone = [i \in Relays |-> FALSE]
    /\ pendingDirect = [i \in Relays |-> FALSE]
    /\ closed = [i \in Relays |-> FALSE]
    /\ link = "none" /\ linkPipe = 0

\* m is somewhere in the queue q.
Holds(q, m) == \E k \in DOMAIN q : q[k] = m

-----------------------------------------------------------------------------
(* The relays. *)

\* Hello from the sender: it is registered and a kept DIRECT is flushed to it.
RelayHello(i) ==
    /\ relayUp[i] /\ out[i] # <<>> /\ Head(out[i]) = "hello"
    /\ out' = [out EXCEPT ![i] = Tail(@)]
    /\ senderReg' = [senderReg EXCEPT ![i] = TRUE]
    /\ pendingDirect' = [pendingDirect EXCEPT ![i] = FALSE]
    /\ ack' = IF pendingDirect[i] THEN [ack EXCEPT ![i] = Append(@, "direct")] ELSE ack
    /\ UNCHANGED <<relayUp, back, in, receiverReg, receiverDone, closed, linkVars>>

\* Meta or Symbol: dropped after READY, passed on to a registered receiver
\* under backpressure, buffered otherwise; a full buffer loses its oldest frame.
AfterEviction(q, m) == IF Len(q) < PipeCap THEN Append(q, m) ELSE Append(Tail(q), m)
RelayForward(i) ==
    /\ relayUp[i] /\ out[i] # <<>> /\ Head(out[i]) # "hello"
    /\ out' = [out EXCEPT ![i] = Tail(@)]
    /\ \/ receiverDone[i] /\ UNCHANGED in
       \/ /\ ~receiverDone[i] /\ receiverReg[i] /\ Len(in[i]) < PipeCap
          /\ in' = [in EXCEPT ![i] = Append(@, Head(out[i]))]
       \/ /\ ~receiverDone[i] /\ ~receiverReg[i]
          /\ in' = [in EXCEPT ![i] = AfterEviction(@, Head(out[i]))]
    /\ UNCHANGED <<relayUp, back, ack, senderReg, receiverReg, receiverDone, pendingDirect,
                   closed, linkVars>>

\* A frame from the receiver.  READY stops the forwarding and reaches the
\* sender if one is registered; DIRECT is kept for a sender to come; on Close
\* the relay forgets the receiver and closes the socket, with or without
\* having written what was still queued for it.
RelayReturn(i) ==
    /\ relayUp[i] /\ back[i] # <<>>
    /\ back' = [back EXCEPT ![i] = Tail(@)]
    /\ LET m == Head(back[i]) IN
       /\ receiverReg' = [receiverReg EXCEPT ![i] = IF m = "hello" THEN TRUE
                                                    ELSE @ /\ m # "close"]
       /\ receiverDone' = [receiverDone EXCEPT ![i] = @ \/ m = "ready"]
       /\ ack' = IF m \in AckMsgs /\ senderReg[i] THEN [ack EXCEPT ![i] = Append(@, m)] ELSE ack
       /\ pendingDirect' = [pendingDirect EXCEPT ![i] = @ \/ (m = "direct" /\ ~senderReg[i])]
       /\ closed' = [closed EXCEPT ![i] = @ \/ m = "close"]
       /\ \/ UNCHANGED in
          \/ m = "close" /\ in' = [in EXCEPT ![i] = <<>>]
    /\ UNCHANGED <<relayUp, out, senderReg, linkVars>>

\* A relay dies: what it had not read or written is lost, what had already
\* reached a client's socket may still be read there.
RelayDies(i) ==
    /\ i \in Crashable /\ relayUp[i]
    /\ relayUp' = [relayUp EXCEPT ![i] = FALSE]
    /\ out' = [out EXCEPT ![i] = <<>>] /\ back' = [back EXCEPT ![i] = <<>>]
    /\ \E q \in {in[i], <<>>} : in' = [in EXCEPT ![i] = q]
    /\ \E q \in {ack[i], <<>>} : ack' = [ack EXCEPT ![i] = q]
    /\ UNCHANGED <<senderReg, receiverReg, receiverDone, pendingDirect, closed, linkVars>>

\* The direct link breaks, or recv_frames loses a frame that shared a read
\* with its predecessor (the local buffer is dropped on return).
LinkBreaks ==
    /\ DirectMayDie /\ link = "up"
    /\ link' = "dead"
    /\ linkPipe' = 0
    /\ UNCHANGED relayVars

LinkLoses ==
    /\ DirectMayDie /\ link = "up" /\ linkPipe > 0
    /\ linkPipe' = linkPipe - 1
    /\ UNCHANGED <<link, relayVars>>
=============================================================================
