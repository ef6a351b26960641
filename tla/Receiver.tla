------------------------------ MODULE Receiver ------------------------------
(***************************************************************************)
(* ReceiverSession (crates/orbit-transport/src/session.rs): connect, the   *)
(* advertisement task, the decode loop run() over all relays and the       *)
(* direct link, and the shutdown: READY on every relay, Close on every     *)
(* relay, drain.                                                           *)
(*                                                                         *)
(* The per-relay reader tasks only merge the streams into one channel, so  *)
(* run() is modelled as taking the next frame of any relay.  The decoder   *)
(* (Decoder.tla) is reduced to a count: it completes after Need symbols.   *)
(***************************************************************************)
EXTENDS Paths

CONSTANTS
    Need,               \* symbols after which the decoder is complete
    UseDirect,          \* a listen address was given and could be bound
    Secrets,            \* may the symbols be opened with the receiver's secret?
    DrainMayTimeOut     \* whether a relay may take more than 10 s to close

ASSUME ReceiverAssumption ==
    /\ Need \in Nat \ {0}
    /\ UseDirect \in BOOLEAN /\ Secrets \subseteq BOOLEAN /\ DrainMayTimeOut \in BOOLEAN

VARIABLES
    rpc,            \* "connect", "run", "ready", "close", "drain", "done", "failed"
    turn,           \* the relay a loop over the sinks has reached
    decoder,        \* decoder.is_some(): the Meta has arrived
    have,           \* symbols fed to the decoder
    pending,        \* symbols kept until the Meta arrives (counted up to Need)
    streamEnded,    \* relays whose reader task has reported the end
    secretsMatch    \* both sides were given the same secret, or none

receiverVars == <<rpc, turn, decoder, have, pending, streamEnded, secretsMatch>>

ReceiverTypeOK ==
    /\ rpc \in {"connect", "run", "ready", "close", "drain", "done", "failed"}
    /\ turn \in Relays
    /\ decoder \in BOOLEAN
    /\ have \in 0 .. Need
    /\ pending \in 0 .. Need
    /\ streamEnded \subseteq Relays
    /\ secretsMatch \in BOOLEAN

ReceiverInit ==
    /\ rpc = "connect" /\ turn = 0
    /\ decoder = FALSE /\ have = 0 /\ pending = 0
    /\ streamEnded = {}
    /\ secretsMatch \in Secrets

\* The decoder holds the whole payload.
Decoded == decoder /\ have = Need

\* The direct listener accepts connections while the process lives.
Listening == UseDirect /\ rpc \notin {"done", "failed"}

-----------------------------------------------------------------------------
(* How the session ends. *)

\* The process exits: its sockets are closed, and unread data in one of them
\* makes the close a reset that purges what the relay has not read.
Exit(result) ==
    /\ rpc' = result
    /\ \E purged \in SUBSET Relays :
         back' = [i \in Relays |-> IF i \in purged THEN <<>> ELSE back[i]]
    /\ link' = IF link = "up" THEN "dead" ELSE link
    /\ linkPipe' = 0

\* Afterwards each relay notices and clears the registration.
RelayForgetsReceiver(i) ==
    /\ rpc \in {"done", "failed"} /\ relayUp[i] /\ receiverReg[i] /\ back[i] = <<>>
    /\ receiverReg' = [receiverReg EXCEPT ![i] = FALSE]
    /\ in' = [in EXCEPT ![i] = <<>>]
    /\ UNCHANGED <<relayUp, out, back, ack, senderReg, receiverDone, pendingDirect, closed,
                   linkVars, receiverVars>>

-----------------------------------------------------------------------------
(* connect *)

ReceiverDial ==
    /\ rpc = "connect"
    /\ \/ /\ relayUp[turn]
          /\ back' = [back EXCEPT ![turn] = Append(@, "hello")]
          /\ rpc' = IF turn + 1 = N THEN "run" ELSE rpc
          /\ turn' = IF turn + 1 = N THEN 0 ELSE turn + 1
          /\ UNCHANGED linkVars
       \/ /\ ~relayUp[turn]
          /\ Exit("failed")
          /\ UNCHANGED turn
    /\ UNCHANGED <<relayUp, out, in, ack, senderReg, receiverReg, receiverDone, pendingDirect,
                   closed, decoder, have, pending, streamEnded, secretsMatch>>

\* The advertisement task repeats DIRECT on every relay until the process
\* ends (one unanswered advertisement per relay at a time is enough).
Advertise(i) ==
    /\ UseDirect /\ relayUp[i]
    /\ rpc \in {"run", "ready"} \/ (rpc = "close" /\ i >= turn)
    /\ ~Holds(back[i], "direct") /\ ~Holds(ack[i], "direct") /\ ~pendingDirect[i]
    /\ back' = [back EXCEPT ![i] = Append(@, "direct")]
    /\ UNCHANGED <<relayUp, out, in, ack, senderReg, receiverReg, receiverDone, pendingDirect,
                   closed, linkVars, receiverVars>>

-----------------------------------------------------------------------------
(* run: the decode loop. *)

\* Faulty variant of Feed: the loop ends one symbol early.
FeedOneShort(n) ==
    /\ have' = n
    /\ rpc' = IF n + 1 >= Need THEN "ready" ELSE rpc
    /\ UNCHANGED <<back, linkVars>>

\* handle_symbol with a decoder: the symbol is opened and fed; the loop ends
\* when the decoder is complete.  A symbol that cannot be opened is an error.
Feed(n) ==
    IF n > 0 /\ ~secretsMatch
      THEN Exit("failed") /\ UNCHANGED have
      ELSE /\ have' = n
           /\ rpc' = IF n = Need THEN "ready" ELSE rpc
           /\ UNCHANGED <<back, linkVars>>

\* Symbols that overtake the Meta are kept.
KeptSymbols == IF pending < Need THEN pending + 1 ELSE pending

\* The first Meta creates the decoder and feeds it the kept symbols.
RecvMeta(i) ==
    /\ rpc = "run" /\ in[i] # <<>> /\ Head(in[i]) = "meta"
    /\ in' = [in EXCEPT ![i] = Tail(@)]
    /\ IF decoder
         THEN UNCHANGED <<back, linkVars, rpc, decoder, have, pending>>
         ELSE decoder' = TRUE /\ pending' = 0 /\ Feed(pending)
    /\ UNCHANGED <<relayUp, out, ack, senderReg, receiverReg, receiverDone, pendingDirect,
                   closed, turn, streamEnded, secretsMatch>>

RecvSymbol(i) ==
    /\ rpc = "run" /\ in[i] # <<>> /\ Head(in[i]) = "symbol"
    /\ in' = [in EXCEPT ![i] = Tail(@)]
    /\ IF decoder
         THEN Feed(have + 1) /\ UNCHANGED pending
         ELSE pending' = KeptSymbols /\ UNCHANGED <<back, linkVars, rpc, have>>
    /\ UNCHANGED <<relayUp, out, ack, senderReg, receiverReg, receiverDone, pendingDirect,
                   closed, turn, decoder, streamEnded, secretsMatch>>

RecvDirect ==
    /\ rpc = "run" /\ linkPipe > 0
    /\ IF decoder
         THEN /\ UNCHANGED pending
              /\ IF secretsMatch
                   THEN /\ have' = have + 1 /\ linkPipe' = linkPipe - 1
                        /\ rpc' = IF have + 1 = Need THEN "ready" ELSE rpc
                        /\ UNCHANGED <<back, link>>
                   ELSE Exit("failed") /\ UNCHANGED have
         ELSE /\ pending' = KeptSymbols /\ linkPipe' = linkPipe - 1
              /\ UNCHANGED <<back, link, rpc, have>>
    /\ UNCHANGED <<relayUp, out, in, ack, senderReg, receiverReg, receiverDone, pendingDirect,
                   closed, turn, decoder, streamEnded, secretsMatch>>

\* Faulty variant of AtEnd: the relay's orderly close is not noticed.
AtEndOfCrashed(i) == i \notin streamEnded /\ in[i] = <<>> /\ ~relayUp[i]

\* The stream of relay i is at its end and its reader has not reported it yet.
AtEnd(i) == i \notin streamEnded /\ in[i] = <<>> /\ (closed[i] \/ ~relayUp[i])

\* Faulty variant of AllStreamsEnded: the first lost relay is fatal.
AnyStreamEnded(ended) == ended # {}

AllStreamsEnded(ended) == ended = Relays

\* A relay is lost: fatal only for the last one while there is no Meta, or,
\* when the merged channel itself ends, without a direct listener.
RecvClosed(i) ==
    /\ rpc = "run" /\ AtEnd(i)
    /\ streamEnded' = streamEnded \cup {i}
    /\ IF AllStreamsEnded(streamEnded') /\ ~(decoder /\ UseDirect)
         THEN Exit("failed")
         ELSE UNCHANGED <<rpc, back, linkVars>>
    /\ UNCHANGED <<relayUp, out, in, ack, senderReg, receiverReg, receiverDone, pendingDirect,
                   closed, turn, decoder, have, pending, secretsMatch>>

-----------------------------------------------------------------------------
(* run: the shutdown. *)

\* One round of a loop over the sinks: m is written to relay `turn`.  On a
\* dead relay the write fails, and `?` ends the session, or it is still
\* swallowed by the socket.
SendToSink(m, next) ==
    /\ \/ /\ relayUp[turn]
          /\ back' = [back EXCEPT ![turn] = Append(@, m)]
          /\ turn' = IF turn + 1 = N THEN 0 ELSE turn + 1
          /\ rpc' = IF turn + 1 = N THEN next ELSE rpc
          /\ UNCHANGED linkVars
       \/ /\ ~relayUp[turn]
          /\ turn' = IF turn + 1 = N THEN 0 ELSE turn + 1
          /\ rpc' = IF turn + 1 = N THEN next ELSE rpc
          /\ UNCHANGED <<back, linkVars>>
       \/ /\ ~relayUp[turn]
          /\ Exit("failed")
          /\ UNCHANGED turn
    /\ UNCHANGED <<relayUp, out, in, ack, senderReg, receiverReg, receiverDone, pendingDirect,
                   closed, decoder, have, pending, streamEnded, secretsMatch>>

SendReady == rpc = "ready" /\ SendToSink("ready", "close")
SendClose == rpc = "close" /\ SendToSink("close", "drain")

\* What still arrives is discarded, until every stream has ended.
DrainFrame(i) ==
    /\ rpc = "drain" /\ in[i] # <<>>
    /\ in' = [in EXCEPT ![i] = Tail(@)]
    /\ UNCHANGED <<relayUp, out, back, ack, senderReg, receiverReg, receiverDone, pendingDirect,
                   closed, linkVars, receiverVars>>

DrainEnd(i) ==
    /\ rpc = "drain" /\ AtEnd(i)
    /\ streamEnded' = streamEnded \cup {i}
    /\ UNCHANGED <<relayVars, linkVars, rpc, turn, decoder, have, pending, secretsMatch>>

\* All streams have ended, or 10 s are over; run() returns the payload.
Finish ==
    /\ rpc = "drain" /\ (streamEnded = Relays \/ DrainMayTimeOut)
    /\ Exit("done")
    /\ UNCHANGED <<relayUp, out, in, ack, senderReg, receiverReg, receiverDone, pendingDirect,
                   closed, turn, decoder, have, pending, streamEnded, secretsMatch>>

-----------------------------------------------------------------------------
ReceiverStep ==
    \/ ReceiverDial \/ RecvDirect \/ SendReady \/ SendClose \/ Finish
    \/ \E i \in Relays : RecvMeta(i) \/ RecvSymbol(i) \/ RecvClosed(i) \/ DrainFrame(i) \/ DrainEnd(i)
=============================================================================
