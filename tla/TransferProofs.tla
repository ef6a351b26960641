--------------------------- MODULE TransferProofs ---------------------------
(***************************************************************************)
(* Transfer is type correct, its sender is never told of a payload that    *)
(* was not decoded, and it implements TransferAbs, for every number of     *)
(* relays, every bound and every choice of faults.  However many relays    *)
(* carry the advertisement of the direct address, and however often, one   *)
(* direct link at a time is set up or in use, and the watchers' events     *)
(* channel never fills.                                                    *)
(***************************************************************************)
EXTENDS Transfer, FiniteSetTheorems, TLAPS

-----------------------------------------------------------------------------
(* Queues. *)

\* A queue after Append holds what it held and the new message.
LEMMA HoldsAppend ==
    ASSUME NEW M, NEW q \in Seq(M), NEW m \in M, NEW x
    PROVE  Holds(Append(q, m), x) => Holds(q, x) \/ m = x
BY DEF Holds

\* A queue that is not empty holds its head, and all that its tail holds.
LEMMA HoldsTail ==
    ASSUME NEW M, NEW q \in Seq(M), q # <<>>, NEW x
    PROVE  /\ Holds(q, Head(q))
           /\ Holds(Tail(q), x) => Holds(q, x)
<1>1. Holds(q, Head(q))
  BY DEF Holds
<1>2. ASSUME NEW k \in DOMAIN Tail(q)
      PROVE  k + 1 \in DOMAIN q /\ q[k + 1] = Tail(q)[k]
  OBVIOUS
<1> QED
  BY <1>1, <1>2 DEF Holds

\* Queue operations stay in the type of the queue.
LEMMA QueueTypes ==
    ASSUME NEW M, NEW q \in Seq(M)
    PROVE  /\ \A m \in M : Append(q, m) \in Seq(M)
           /\ q # <<>> => Head(q) \in M /\ Tail(q) \in Seq(M)
OBVIOUS

\* The empty queue is a queue of any type.
LEMMA EmptyQueue == \A M : <<>> \in Seq(M)
OBVIOUS

\* The empty queue holds nothing.
LEMMA HoldsEmpty == \A x : ~Holds(<<>>, x)
BY DEF Holds
-----------------------------------------------------------------------------
(* Types. *)

\* Assigning one entry of a function keeps its type.
LEMMA ExceptType ==
    ASSUME NEW A, NEW B, NEW f \in [A -> B], NEW a \in A, NEW b \in B
    PROVE  [f EXCEPT ![a] = b] \in [A -> B]
OBVIOUS

\* A counter below its bound can be incremented.
LEMMA NextSlot == \A k : k \in 0 .. QueueDepth /\ k < QueueDepth => k + 1 \in 0 .. QueueDepth
BY SenderAssumption

\* The ring of dispatch stays within the relays.
LEMMA RingType ==
    \A first, o \in Relays : Ring(first, o) \in Relays /\ (first + 1) % N \in Relays
BY PathsAssumption DEF Ring, Relays

\* The messages on the four legs of a relay.
LEMMA MsgTypes ==
    /\ "hello" \in DataMsgs /\ "meta" \in DataMsgs /\ "symbol" \in DataMsgs
    /\ "hello" \in BackMsgs /\ "ready" \in BackMsgs /\ "direct" \in BackMsgs /\ "close" \in BackMsgs
    /\ "ready" \in AckMsgs /\ "direct" \in AckMsgs
BY DEF DataMsgs, BackMsgs, AckMsgs

\* The sender's loop over the URLs.
Dialling == spc = "connect" => dialled < N

\* The initial state is well typed.
LEMMA InitType == Init => TypeOK
<1> SUFFICES ASSUME Init PROVE TypeOK
  OBVIOUS
<1>1. PathsTypeOK
  BY PathsAssumption, EmptyQueue DEF Init, PathsInit, PathsTypeOK
<1>2. SenderTypeOK
  BY PathsAssumption, SenderAssumption, EmptyQueue DEF Init, SenderInit, SenderTypeOK, Relays
<1>3. ReceiverTypeOK
  <2>1. secretsMatch \in BOOLEAN
    BY ReceiverAssumption, Zenon DEF Init, ReceiverInit
  <2>2. 0 \in Relays /\ 0 \in 0 .. Need
    BY PathsAssumption, ReceiverAssumption DEF Relays
  <2> QED
    BY <2>1, PathsAssumption, ReceiverAssumption, <2>2, Zenon DEF Init, ReceiverInit, ReceiverTypeOK
<1> QED
  BY <1>1, <1>2, <1>3 DEF TypeOK

\* Steps of the relays and of the network keep the types.
LEMMA PathsType ==
    ASSUME TypeOK, NEW i \in Relays,
           \/ RelayHello(i) \/ RelayForward(i) \/ RelayReturn(i) \/ RelayDies(i)
           \/ LinkBreaks \/ LinkLoses
    PROVE  PathsTypeOK'
<1> USE PathsAssumption, MsgTypes DEF TypeOK, PathsTypeOK, linkVars, relayVars
<1>1. CASE RelayHello(i)
  BY <1>1 DEF RelayHello
<1>2. CASE RelayForward(i)
  <2>1. Head(out[i]) \in DataMsgs /\ out' \in [Relays -> Seq(DataMsgs)]
    BY <1>2, QueueTypes DEF RelayForward
  <2>2. /\ AfterEviction(in[i], Head(out[i])) \in Seq(DataMsgs)
        /\ Append(in[i], Head(out[i])) \in Seq(DataMsgs)
    <3>1. Len(in[i]) >= PipeCap => in[i] # <<>>
      OBVIOUS
    <3> QED
      BY <2>1, <3>1, QueueTypes DEF AfterEviction
  <2>3. in' \in [Relays -> Seq(DataMsgs)]
    <3>1. \/ in' = in
          \/ in' = [in EXCEPT ![i] = Append(in[i], Head(out[i]))]
          \/ in' = [in EXCEPT ![i] = AfterEviction(in[i], Head(out[i]))]
      BY <1>2, Zenon DEF RelayForward
    <3> QED
      BY <2>2, <3>1
  <2> QED
    BY <1>2, <2>1, <2>3 DEF RelayForward
<1>3. CASE RelayReturn(i)
  <2>1. Head(back[i]) \in BackMsgs /\ back' \in [Relays -> Seq(BackMsgs)]
    BY <1>3, QueueTypes DEF RelayReturn
  <2>2. ack' \in [Relays -> Seq(AckMsgs)]
    BY <1>3, QueueTypes DEF RelayReturn
  <2>3. in' \in [Relays -> Seq(DataMsgs)]
    <3>1. in' = in \/ in' = [in EXCEPT ![i] = <<>>]
      BY <1>3, Zenon DEF RelayReturn
    <3> QED
      BY <3>1, EmptyQueue
  <2>4. /\ receiverReg' \in [Relays -> BOOLEAN] /\ receiverDone' \in [Relays -> BOOLEAN]
        /\ pendingDirect' \in [Relays -> BOOLEAN] /\ closed' \in [Relays -> BOOLEAN]
    BY <1>3, ExceptType, Zenon DEF RelayReturn
  <2> QED
    BY <1>3, <2>1, <2>2, <2>3, <2>4 DEF RelayReturn
<1>4. CASE RelayDies(i)
  <2>1. relayUp' \in [Relays -> BOOLEAN]
    BY <1>4, ExceptType DEF RelayDies
  <2>2. out' \in [Relays -> Seq(DataMsgs)] /\ back' \in [Relays -> Seq(BackMsgs)]
    BY <1>4, EmptyQueue DEF RelayDies
  <2>3. in' \in [Relays -> Seq(DataMsgs)] /\ ack' \in [Relays -> Seq(AckMsgs)]
    <3>1. PICK q \in {in[i], <<>>} : in' = [in EXCEPT ![i] = q]
      BY <1>4, Zenon DEF RelayDies
    <3>2. PICK p \in {ack[i], <<>>} : ack' = [ack EXCEPT ![i] = p]
      BY <1>4, Zenon DEF RelayDies
    <3> QED
      BY <3>1, <3>2, EmptyQueue
  <2> QED
    BY <1>4, <2>1, <2>2, <2>3 DEF RelayDies
<1>5. CASE LinkBreaks
  BY <1>5 DEF LinkBreaks
<1>6. CASE LinkLoses
  BY <1>6 DEF LinkLoses
<1> QED
  BY <1>1, <1>2, <1>3, <1>4, <1>5, <1>6

\* Steps of the sender's tasks keep the types.
LEMMA SenderType ==
    ASSUME TypeOK, Dialling, NEW i \in Relays, NEW listening,
           SenderStep \/ WatchStep(i, listening) \/ WriterStep(i) \/ LinkWriterStep
    PROVE  PathsTypeOK' /\ SenderTypeOK'
<1> USE PathsAssumption, SenderAssumption, MsgTypes
    DEF TypeOK, PathsTypeOK, SenderTypeOK, linkVars, relayVars
<1>1. CASE SenderDial
  <2>1. CASE relayUp[dialled]
    <3>1. dialled \in Relays /\ dialled + 1 \in 0 .. N
      <4>1. dialled \in 0 .. N /\ dialled < N
        BY <1>1 DEF SenderDial, Dialling
      <4> QED
        BY <4>1 DEF Relays
    <3>2. out' \in [Relays -> Seq(DataMsgs)]
      <4>1. out' = [out EXCEPT ![dialled] = Append(out[dialled], "hello")]
        BY <1>1, <2>1, Zenon DEF SenderDial
      <4> QED
        BY <3>1, <4>1
    <3> QED
      BY <1>1, <2>1, <3>1, <3>2 DEF SenderDial
  <2>2. CASE ~relayUp[dialled]
    BY <1>1, <2>2 DEF SenderDial
  <2> QED
    BY <2>1, <2>2
<1>2. CASE SendMeta
  BY <1>2 DEF SendMeta
<1>3. CASE WatchReady(i)
  <2>1. ack' \in [Relays -> Seq(AckMsgs)]
    BY <1>3 DEF WatchReady
  <2>2. events' \in Seq({"ready", "direct"})
    BY <1>3 DEF WatchReady
  <2> QED
    BY <1>3, <2>1, <2>2 DEF WatchReady
<1>4. CASE WatchDirect(i)
  <2>1. ack' \in [Relays -> Seq(AckMsgs)]
    BY <1>4 DEF WatchDirect
  <2>2. watcher' \in [Relays -> {"off", "reading", "dialling", "ended"}]
    BY <1>4 DEF WatchDirect
  <2> QED
    BY <1>4, <2>1, <2>2 DEF WatchDirect
<1>5. CASE DialSucceeds(i, listening)
  BY <1>5 DEF DialSucceeds
<1>6. CASE DialFails(i, listening)
  BY <1>6 DEF DialFails
<1>7. CASE WatchEnds(i)
  BY <1>7 DEF WatchEnds
<1>8. CASE PathWrites(i)
  BY <1>8 DEF PathWrites
<1>9. CASE PathFails(i)
  BY <1>9 DEF PathFails
<1>10. CASE LinkWrites
  BY <1>10 DEF LinkWrites
<1>11. CASE LinkFails
  <2>1. linkAlive' \in BOOLEAN /\ linkQueue' \in 0 .. QueueDepth
    BY <1>11, 0 \in 0 .. QueueDepth, Zenon DEF LinkFails
  <2>2. PathsTypeOK'
    BY <1>11 DEF LinkFails
  <2> QED
    BY <1>11, <2>1, <2>2, Zenon DEF LinkFails
<1>12. CASE TakeEvent
  <2>1. events' \in Seq({"ready", "direct"})
    BY <1>12 DEF TakeEvent
  <2>2. CASE Head(events) = "ready"
    BY <1>12, <2>1, <2>2 DEF TakeEvent
  <2>3. CASE Head(events) # "ready"
    <3>1. direct' \in BOOLEAN /\ linkAlive' \in BOOLEAN /\ linkQueue' \in 0 .. QueueDepth
      BY <1>12, <2>3 DEF TakeEvent
    <3>2. PathsTypeOK'
      BY <1>12 DEF TakeEvent
    <3> QED
      BY <1>12, <2>1, <2>3, <3>1, <3>2, Zenon DEF TakeEvent
  <2> QED
    BY <2>2, <2>3
<1>13. CASE Emit
  <2>1. nextRelay' \in Relays
    BY <1>13, RingType, Zenon DEF Emit
  <2>2. ASSUME NEW first \in Relays, DispatchOrWait(first)
        PROVE  /\ pathQueue' \in [Relays -> 0 .. QueueDepth]
               /\ spc' \in {"run", "failed", spc} /\ odd' \in BOOLEAN
    <3>1. CASE Dispatch(first)
      <4>1. PICK o \in Relays : /\ Accepts(Ring(first, o))
                               /\ pathQueue' = [pathQueue EXCEPT ![Ring(first, o)] = @ + 1]
        BY <3>1 DEF Dispatch, Relays
      <4>2. Ring(first, o) \in Relays
        BY RingType
      <4>3. pathQueue' \in [Relays -> 0 .. QueueDepth]
        <5>1. pathQueue[Ring(first, o)] + 1 \in 0 .. QueueDepth
          <6>1. pathQueue[Ring(first, o)] \in 0 .. QueueDepth
            BY <4>2
          <6>2. pathQueue[Ring(first, o)] < QueueDepth
            BY <4>1, Zenon DEF Accepts
          <6> QED
            BY <6>1, <6>2, NextSlot, Zenon
        <5> QED
          BY <4>1, <4>2, <5>1
      <4> QED
        BY <2>2, <4>3, Zenon DEF DispatchOrWait
    <3>2. CASE ~Dispatch(first)
      BY <2>2, <3>2 DEF DispatchOrWait
    <3> QED
      BY <3>1, <3>2
  <2>3. CASE ~odd
    <3>1. DispatchOrWait(nextRelay)
      BY <1>13, <2>3 DEF Emit
    <3> QED
      BY <1>13, <2>1, <2>2, <2>3, <3>1, Zenon DEF Emit
  <2>4. CASE odd
    <3>1. CASE /\ linkQueue' = linkQueue + 1 /\ linkQueue < QueueDepth /\ odd' = FALSE
               /\ UNCHANGED <<spc, pathQueue, direct>>
      <4>1. linkQueue' \in 0 .. QueueDepth
        BY <3>1
      <4> QED
        BY <1>13, <2>1, <2>4, <3>1, <4>1, Zenon DEF Emit
    <3>2. CASE direct' = (direct /\ linkAlive) /\ DispatchOrWait(0) /\ UNCHANGED linkQueue
      <4>1. 0 \in Relays
        BY DEF Relays
      <4> QED
        BY <1>13, <2>1, <2>2, <2>4, <3>2, <4>1, Zenon DEF Emit
    <3> QED
      BY <1>13, <2>4, <3>1, <3>2, Zenon DEF Emit
  <2> QED
    BY <2>3, <2>4
<1> QED
  BY <1>1, <1>2, <1>3, <1>4, <1>5, <1>6, <1>7, <1>8, <1>9, <1>10, <1>11, <1>12, <1>13
  DEF SenderStep, WatchStep, WriterStep, LinkWriterStep

\* Leaving the process keeps the types.
LEMMA ExitType ==
    ASSUME TypeOK, NEW result \in {"done", "failed"}, Exit(result)
    PROVE  /\ back' \in [Relays -> Seq(BackMsgs)]
           /\ link' \in {"none", "up", "dead"} /\ linkPipe' \in 0 .. PipeCap
           /\ rpc' \in {"done", "failed"}
<1>1. PICK purged \in SUBSET Relays :
        back' = [i \in Relays |-> IF i \in purged THEN <<>> ELSE back[i]]
  BY Zenon DEF Exit
<1>2. back' \in [Relays -> Seq(BackMsgs)]
  BY <1>1 DEF TypeOK, PathsTypeOK
<1> QED
  BY <1>2, PathsAssumption DEF Exit, TypeOK, PathsTypeOK

\* Steps of the receiver keep the types.
LEMMA ReceiverType ==
    ASSUME TypeOK, ReadyMeansDecoded, NEW i \in Relays,
           ReceiverStep \/ Advertise(i) \/ RelayForgetsReceiver(i)
    PROVE  PathsTypeOK' /\ ReceiverTypeOK'
<1> USE PathsAssumption, ReceiverAssumption, MsgTypes
    DEF TypeOK, PathsTypeOK, ReceiverTypeOK, linkVars, relayVars, receiverVars
<1>0. /\ turn + 1 # N => turn + 1 \in Relays
      /\ 0 \in Relays
  BY DEF Relays
<1>1. CASE ReceiverDial
  <2>1. CASE relayUp[turn]
    <3>1. back' = [back EXCEPT ![turn] = Append(back[turn], "hello")]
      BY <1>1, <2>1, Zenon DEF ReceiverDial
    <3>2. back' \in [Relays -> Seq(BackMsgs)]
      BY <3>1
    <3> QED
      BY <1>0, <1>1, <2>1, <3>2 DEF ReceiverDial
  <2>2. CASE ~relayUp[turn]
    <3>1. Exit("failed")
      BY <1>1, <2>2 DEF ReceiverDial
    <3> QED
      BY <1>1, <2>2, <3>1, ExitType, Zenon DEF ReceiverDial
  <2> QED
    BY <2>1, <2>2
<1>2. ASSUME NEW m \in BackMsgs, NEW next \in {"close", "drain"}, SendToSink(m, next)
      PROVE  PathsTypeOK' /\ ReceiverTypeOK'
  <2>1. CASE Exit("failed") /\ UNCHANGED turn
    BY <1>2, <2>1, ExitType, Zenon DEF SendToSink
  <2>2. CASE /\ \/ back' = [back EXCEPT ![turn] = Append(back[turn], m)]
                \/ back' = back
             /\ turn' = (IF turn + 1 = N THEN 0 ELSE turn + 1)
             /\ rpc' = (IF turn + 1 = N THEN next ELSE rpc)
             /\ UNCHANGED linkVars
    <3>1. back' \in [Relays -> Seq(BackMsgs)]
      <4>1. Append(back[turn], m) \in Seq(BackMsgs)
        OBVIOUS
      <4>2. CASE back' = [back EXCEPT ![turn] = Append(back[turn], m)]
        BY <4>1, <4>2
      <4> QED
        BY <2>2, <4>2, Zenon
    <3> QED
      BY <1>0, <1>2, <2>2, <3>1, Zenon DEF SendToSink
  <2> QED
    BY <1>2, <2>1, <2>2, Zenon DEF SendToSink
<1>3. CASE SendReady
  BY <1>2, <1>3, Zenon DEF SendReady
<1>4. CASE SendClose
  BY <1>2, <1>4, Zenon DEF SendClose
<1>5. CASE Finish
  BY <1>5, ExitType, Zenon DEF Finish
<1>6. CASE Advertise(i)
  BY <1>6 DEF Advertise
<1>7. CASE RelayForgetsReceiver(i)
  BY <1>7 DEF RelayForgetsReceiver
<1>8. ASSUME NEW n \in 0 .. Need, Feed(n)
      PROVE  /\ back' \in [Relays -> Seq(BackMsgs)]
             /\ link' \in {"none", "up", "dead"} /\ linkPipe' \in 0 .. PipeCap
             /\ rpc' \in {"failed", "ready", rpc} /\ have' \in 0 .. Need
  <2>1. CASE Exit("failed") /\ UNCHANGED have
    BY <2>1, ExitType, Zenon DEF Exit
  <2>2. CASE /\ have' = n /\ rpc' = (IF n = Need THEN "ready" ELSE rpc)
             /\ UNCHANGED <<back, linkVars>>
    BY <1>8, <2>2, Zenon
  <2> QED
    BY <1>8, <2>1, <2>2, Zenon DEF Feed
<1>9. ASSUME NEW j \in Relays, in' = [in EXCEPT ![j] = Tail(@)], in[j] # <<>>
      PROVE  in' \in [Relays -> Seq(DataMsgs)]
  BY <1>9
<1>10. KeptSymbols \in 0 .. Need /\ 0 \in 0 .. Need
  BY DEF KeptSymbols
<1>11. rpc = "run" => have + 1 \in 0 .. Need
  BY DEF ReadyMeansDecoded
<1>12. ASSUME NEW j \in Relays, RecvMeta(j)
      PROVE  PathsTypeOK' /\ ReceiverTypeOK'
  BY <1>8, <1>9, <1>10, <1>12, Zenon DEF RecvMeta
<1>13. ASSUME NEW j \in Relays, RecvSymbol(j)
      PROVE  PathsTypeOK' /\ ReceiverTypeOK'
  BY <1>8, <1>9, <1>10, <1>11, <1>13, Zenon DEF RecvSymbol
<1>14. CASE RecvDirect
  <2>1. CASE decoder /\ ~secretsMatch
    BY <1>14, <2>1, ExitType, Zenon DEF RecvDirect
  <2>2. CASE ~(decoder /\ ~secretsMatch)
    <3>1. linkPipe' \in 0 .. PipeCap
      BY <1>14, <2>2 DEF RecvDirect
    <3>2. have' \in 0 .. Need /\ pending' \in 0 .. Need /\ rpc' \in {"ready", rpc}
      BY <1>10, <1>11, <1>14, <2>2, Zenon DEF RecvDirect
    <3> QED
      BY <1>14, <2>2, <3>1, <3>2, Zenon DEF RecvDirect
  <2> QED
    BY <2>1, <2>2
<1>15. ASSUME NEW j \in Relays, RecvClosed(j)
      PROVE  PathsTypeOK' /\ ReceiverTypeOK'
  <2>1. streamEnded' \subseteq Relays
    BY <1>15 DEF RecvClosed
  <2>2. CASE Exit("failed")
    BY <1>15, <2>1, <2>2, ExitType, Zenon DEF RecvClosed
  <2>3. CASE UNCHANGED <<rpc, back, linkVars>>
    BY <1>15, <2>1, <2>3, Zenon DEF RecvClosed
  <2> QED
    BY <1>15, <2>2, <2>3, Zenon DEF RecvClosed
<1>16. ASSUME NEW j \in Relays, DrainFrame(j)
      PROVE  PathsTypeOK' /\ ReceiverTypeOK'
  BY <1>16 DEF DrainFrame
<1>17. ASSUME NEW j \in Relays, DrainEnd(j)
      PROVE  PathsTypeOK' /\ ReceiverTypeOK'
  BY <1>17 DEF DrainEnd
<1> QED
  BY <1>1, <1>3, <1>4, <1>5, <1>6, <1>7, <1>12, <1>13, <1>14, <1>15, <1>16, <1>17 DEF ReceiverStep

-----------------------------------------------------------------------------
(* READY. *)

\* What READY messages the sender and the relays may have in a next state:
\* none that was not there before.
NoNewReady ==
    /\ \A i \in Relays : Holds(back'[i], "ready") => Holds(back[i], "ready")
    /\ \A i \in Relays : Holds(ack'[i], "ready")
                          => Holds(ack[i], "ready") \/ Holds(back[i], "ready")
    /\ Holds(events', "ready")
         => Holds(events, "ready") \/ \E i \in Relays : Holds(ack[i], "ready")
    /\ spc' = "done" => spc = "done" \/ Holds(events, "ready")

\* A step that leaves the receiver alone and makes up no READY is harmless.
LEMMA ReadyKept ==
    ASSUME ReadyMeansDecoded, NoNewReady, UNCHANGED receiverVars
    PROVE  ReadyMeansDecoded'
BY Zenon DEF ReadyMeansDecoded, NoNewReady, receiverVars, Decoded

\* The relays and the network make up no READY.
LEMMA PathsReady ==
    ASSUME TypeOK, NEW i \in Relays,
           \/ RelayHello(i) \/ RelayForward(i) \/ RelayReturn(i) \/ RelayDies(i)
           \/ LinkBreaks \/ LinkLoses,
           UNCHANGED senderVars
    PROVE  NoNewReady
<1> USE DEF TypeOK, PathsTypeOK, senderVars
<1>1. ASSUME UNCHANGED <<back, ack>>
      PROVE  NoNewReady
  BY <1>1, Zenon DEF NoNewReady
<1>2. CASE RelayHello(i)
  <2>1. \A j \in Relays : Holds(ack'[j], "ready") => Holds(ack[j], "ready")
    <3>1. CASE ack' = [ack EXCEPT ![i] = Append(@, "direct")]
      <4>1. Holds(Append(ack[i], "direct"), "ready") => Holds(ack[i], "ready")
        BY HoldsAppend, MsgTypes
      <4> QED
        BY <3>1, <4>1
    <3> QED
      BY <1>2, <3>1, Zenon DEF RelayHello
  <2> QED
    BY <1>2, <2>1, Zenon DEF NoNewReady, RelayHello
<1>3. CASE RelayForward(i)
  BY <1>1, <1>3, Zenon DEF RelayForward
<1>4. CASE RelayReturn(i)
  <2>1. back[i] # <<>> /\ back' = [back EXCEPT ![i] = Tail(@)]
    BY <1>4, Zenon DEF RelayReturn
  <2>2. \A j \in Relays : Holds(back'[j], "ready") => Holds(back[j], "ready")
    <3>1. Holds(Tail(back[i]), "ready") => Holds(back[i], "ready")
      BY <2>1, HoldsTail
    <3> QED
      BY <2>1, <3>1
  <2>3. \A j \in Relays : Holds(ack'[j], "ready") => Holds(ack[j], "ready") \/ Holds(back[j], "ready")
    <3>1. Holds(back[i], Head(back[i]))
      BY <2>1, HoldsTail
    <3>2. CASE ack' = [ack EXCEPT ![i] = Append(@, Head(back[i]))] /\ Head(back[i]) \in AckMsgs
      <4>1. Holds(Append(ack[i], Head(back[i])), "ready")
              => Holds(ack[i], "ready") \/ Head(back[i]) = "ready"
        BY <3>2, HoldsAppend
      <4> QED
        BY <3>1, <3>2, <4>1
    <3> QED
      BY <1>4, <3>2, Zenon DEF RelayReturn
  <2> QED
    BY <2>2, <2>3, Zenon DEF NoNewReady
<1>5. CASE RelayDies(i)
  <2>1. \A j \in Relays : Holds(back'[j], "ready") => Holds(back[j], "ready")
    BY <1>5, HoldsEmpty DEF RelayDies
  <2>2. \A j \in Relays : Holds(ack'[j], "ready") => Holds(ack[j], "ready")
    <3>1. PICK q \in {ack[i], <<>>} : ack' = [ack EXCEPT ![i] = q]
      BY <1>5, Zenon DEF RelayDies
    <3> QED
      BY <3>1, HoldsEmpty
  <2> QED
    BY <2>1, <2>2, Zenon DEF NoNewReady
<1>6. CASE LinkBreaks
  BY <1>1, <1>6, Zenon DEF LinkBreaks, relayVars
<1>7. CASE LinkLoses
  BY <1>1, <1>7, Zenon DEF LinkLoses, relayVars
<1> QED
  BY <1>2, <1>3, <1>4, <1>5, <1>6, <1>7

\* The sender's tasks make up no READY and stay within the URLs.
LEMMA SenderReady ==
    ASSUME TypeOK, Dialling, NEW i \in Relays, NEW listening,
           SenderStep \/ WatchStep(i, listening) \/ WriterStep(i) \/ LinkWriterStep
    PROVE  NoNewReady /\ Dialling'
<1> USE DEF TypeOK, SenderTypeOK
<1>1. ASSUME UNCHANGED <<back, ack, events>>, spc' # "done" \/ UNCHANGED spc
      PROVE  NoNewReady
  BY <1>1, Zenon DEF NoNewReady
<1>2. ASSUME UNCHANGED <<spc, dialled>> PROVE Dialling'
  BY <1>2, Zenon DEF Dialling
<1>3. CASE SenderDial
  <2>1. NoNewReady
    BY <1>1, <1>3, Zenon DEF SenderDial
  <2>2. CASE spc' = "connect"
    <3>1. dialled' = dialled + 1 /\ dialled + 1 # N /\ dialled < N
      BY <1>3, <2>2, Zenon DEF SenderDial, Dialling
    <3>2. dialled \in 0 .. N
      OBVIOUS
    <3> QED
      BY <2>1, <3>1, <3>2, PathsAssumption DEF Dialling
  <2>3. CASE spc' # "connect"
    BY <2>1, <2>3 DEF Dialling
  <2> QED
    BY <2>1, <2>2, <2>3
<1>4. CASE SendMeta
  BY <1>1, <1>4, Zenon DEF SendMeta, Dialling
<1>5. CASE WatchReady(i)
  <2>1. ack[i] # <<>> /\ Head(ack[i]) = "ready" /\ ack' = [ack EXCEPT ![i] = Tail(@)]
    BY <1>5, Zenon DEF WatchReady
  <2>2. Holds(ack[i], "ready")
    BY <2>1, HoldsTail DEF PathsTypeOK
  <2>3. \A j \in Relays : Holds(ack'[j], "ready") => Holds(ack[j], "ready")
    BY <2>1, <2>2 DEF PathsTypeOK
  <2> QED
    BY <1>2, <1>5, <2>2, <2>3, Zenon DEF WatchReady, NoNewReady
<1>6. CASE WatchDirect(i)
  <2>1. ack[i] # <<>> /\ ack' = [ack EXCEPT ![i] = Tail(@)]
    BY <1>6, Zenon DEF WatchDirect
  <2>2. Holds(Tail(ack[i]), "ready") => Holds(ack[i], "ready")
    BY <2>1, HoldsTail DEF PathsTypeOK
  <2>3. \A j \in Relays : Holds(ack'[j], "ready") => Holds(ack[j], "ready")
    BY <2>1, <2>2 DEF PathsTypeOK
  <2> QED
    BY <1>2, <1>6, <2>3, Zenon DEF WatchDirect, NoNewReady
<1>7. CASE DialSucceeds(i, listening)
  <2>1. Holds(Append(events, "direct"), "ready") => Holds(events, "ready")
    BY HoldsAppend
  <2> QED
    BY <1>2, <1>7, <2>1, Zenon DEF DialSucceeds, NoNewReady, relayVars
<1>8. CASE DialFails(i, listening)
  BY <1>1, <1>2, <1>8, Zenon DEF DialFails, relayVars
<1>9. CASE WatchEnds(i)
  BY <1>1, <1>2, <1>9, Zenon DEF WatchEnds, relayVars
<1>10. CASE PathWrites(i)
  BY <1>1, <1>2, <1>10, Zenon DEF PathWrites
<1>11. CASE PathFails(i)
  BY <1>1, <1>2, <1>11, Zenon DEF PathFails, relayVars
<1>12. CASE LinkWrites
  BY <1>1, <1>2, <1>12, Zenon DEF LinkWrites, relayVars
<1>13. CASE LinkFails
  BY <1>1, <1>2, <1>13, Zenon DEF LinkFails, relayVars
<1>14. CASE TakeEvent
  <2>1. events # <<>> /\ events' = Tail(events)
    BY <1>14, Zenon DEF TakeEvent
  <2>2. /\ Holds(events, Head(events))
        /\ Holds(events', "ready") => Holds(events, "ready")
    BY <2>1, HoldsTail
  <2> QED
    BY <1>14, <2>2, Zenon DEF TakeEvent, NoNewReady, Dialling, relayVars
<1>15. CASE Emit
  <2>1. spc' \in {spc, "failed"}
    BY <1>15, Zenon DEF Emit, DispatchOrWait
  <2> QED
    BY <1>1, <1>15, <2>1, Zenon DEF Emit, Dialling, relayVars
<1> QED
  BY <1>3, <1>4, <1>5, <1>6, <1>7, <1>8, <1>9, <1>10, <1>11, <1>12, <1>13, <1>14, <1>15
  DEF SenderStep, WatchStep, WriterStep, LinkWriterStep

\* The receiver writes READY only with the payload, and keeps the payload.
LEMMA ReceiverReady ==
    ASSUME TypeOK, ReadyMeansDecoded, NEW i \in Relays, UNCHANGED senderVars,
           ReceiverStep \/ Advertise(i) \/ RelayForgetsReceiver(i)
    PROVE  ReadyMeansDecoded'
<1> USE DEF TypeOK, PathsTypeOK, ReceiverTypeOK, senderVars
\* It suffices to look at the receiver and at what it writes.
<1>1. ASSUME /\ Decoded => Decoded'
             /\ rpc' \in {"ready", "close", "drain", "done"} => Decoded'
             /\ rpc' \in {"connect", "run"} => have' < Need,
             \A j \in Relays : Holds(back'[j], "ready") => Holds(back[j], "ready") \/ Decoded',
             UNCHANGED ack
      PROVE  ReadyMeansDecoded'
  BY <1>1, Zenon DEF ReadyMeansDecoded
<1>2. ASSUME NEW result \in {"done", "failed"}, Exit(result)
      PROVE  \A j \in Relays : Holds(back'[j], "ready") => Holds(back[j], "ready")
  <2>1. PICK purged \in SUBSET Relays :
          back' = [j \in Relays |-> IF j \in purged THEN <<>> ELSE back[j]]
    BY <1>2, Zenon DEF Exit
  <2> QED
    BY <2>1, HoldsEmpty
<1>3. ASSUME NEW m \in BackMsgs, back' = [back EXCEPT ![turn] = Append(@, m)],
             m = "ready" => Decoded'
      PROVE  \A j \in Relays : Holds(back'[j], "ready") => Holds(back[j], "ready") \/ Decoded'
  <2>1. Holds(Append(back[turn], m), "ready") => Holds(back[turn], "ready") \/ m = "ready"
    BY HoldsAppend
  <2> QED
    BY <1>3, <2>1
<1>4. ASSUME UNCHANGED <<decoder, have>>, rpc' = "failed" \/ UNCHANGED rpc
      PROVE  /\ Decoded => Decoded'
             /\ rpc' \in {"ready", "close", "drain", "done"} => Decoded'
             /\ rpc' \in {"connect", "run"} => have' < Need
  BY <1>4 DEF ReadyMeansDecoded, Decoded
<1>5. CASE ReceiverDial
  <2>1. CASE relayUp[turn]
    <3>1. back' = [back EXCEPT ![turn] = Append(@, "hello")] /\ rpc' \in {"connect", "run"}
      BY <1>5, <2>1, Zenon DEF ReceiverDial
    <3> QED
      BY <1>1, <1>3, <1>5, <3>1, MsgTypes DEF ReceiverDial, ReadyMeansDecoded, Decoded
  <2>2. CASE ~relayUp[turn]
    <3>1. Exit("failed") /\ UNCHANGED <<ack, decoder, have>>
      BY <1>5, <2>2, Zenon DEF ReceiverDial
    <3>2. rpc' = "failed"
      BY <3>1 DEF Exit
    <3> QED
      BY <1>1, <1>2, <1>4, <3>1, <3>2, Zenon
  <2> QED
    BY <2>1, <2>2
<1>6. ASSUME NEW m \in BackMsgs, NEW next \in {"close", "drain"}, SendToSink(m, next),
             rpc \in {"ready", "close"}
      PROVE  ReadyMeansDecoded'
  <2>1. Decoded /\ Decoded' /\ UNCHANGED ack
    BY <1>6, Zenon DEF SendToSink, ReadyMeansDecoded, Decoded
  <2>2. rpc' \in {"failed", next, rpc}
    BY <1>6, Zenon DEF SendToSink, Exit
  <2>3. \/ Exit("failed") \/ UNCHANGED back
        \/ back' = [back EXCEPT ![turn] = Append(@, m)]
    BY <1>6, Zenon DEF SendToSink
  <2>4. \A j \in Relays : Holds(back'[j], "ready") => Holds(back[j], "ready") \/ Decoded'
    BY <2>1, Zenon
  <2>5. rpc' \notin {"connect", "run"}
    BY <1>6, <2>2
  <2> QED
    BY <1>1, <2>1, <2>4, <2>5, Zenon
<1>7. CASE SendReady
  BY <1>6, <1>7, MsgTypes, Zenon DEF SendReady
<1>8. CASE SendClose
  BY <1>6, <1>8, MsgTypes, Zenon DEF SendClose
<1>9. CASE Finish
  <2>1. Exit("done") /\ UNCHANGED <<ack, decoder, have>> /\ rpc = "drain" /\ rpc' = "done"
    BY <1>9, Zenon DEF Finish, Exit
  <2>2. Decoded /\ Decoded'
    BY <2>1, Zenon DEF ReadyMeansDecoded, Decoded
  <2> QED
    BY <1>1, <1>2, <2>1, <2>2
<1>10. CASE Advertise(i)
  <2>1. \A j \in Relays : Holds(back'[j], "ready") => Holds(back[j], "ready")
    <3>1. back' = [back EXCEPT ![i] = Append(@, "direct")]
      BY <1>10, Zenon DEF Advertise
    <3>2. Holds(Append(back[i], "direct"), "ready") => Holds(back[i], "ready")
      BY HoldsAppend, MsgTypes
    <3> QED
      BY <3>1, <3>2
  <2> QED
    BY <1>1, <1>4, <1>10, <2>1, Zenon DEF Advertise, receiverVars
<1>11. CASE RelayForgetsReceiver(i)
  BY <1>1, <1>4, <1>11, Zenon DEF RelayForgetsReceiver, receiverVars
\* Feeding the decoder, from a relay or from the direct link.
<1>12. ASSUME rpc = "run", NEW n \in 0 .. Need, decoder', have' = n,
              rpc' = (IF n = Need THEN "ready" ELSE rpc), UNCHANGED <<back, ack>>
       PROVE  ReadyMeansDecoded'
  <2>1. ~Decoded
    BY <1>12, ReceiverAssumption DEF ReadyMeansDecoded, Decoded
  <2>2. /\ rpc' = "run" => have' < Need
        /\ rpc' = "ready" => Decoded'
        /\ rpc' \in {"run", "ready"}
    BY <1>12, ReceiverAssumption DEF Decoded
  <2> QED
    BY <1>1, <1>12, <2>1, <2>2
<1>13. ASSUME rpc = "run", Exit("failed"), UNCHANGED <<have, ack>>
       PROVE  ReadyMeansDecoded'
  <2>1. rpc' = "failed"
    BY <1>13 DEF Exit
  <2>2. ~Decoded
    BY <1>13, ReceiverAssumption DEF ReadyMeansDecoded, Decoded
  <2> QED
    BY <1>1, <1>2, <1>13, <2>1, <2>2
<1>14. ASSUME UNCHANGED <<rpc, have, decoder, back, ack>>
       PROVE  ReadyMeansDecoded'
  BY <1>1, <1>4, <1>14, Zenon
<1>15. rpc = "run" => have + 1 \in 0 .. Need
  BY ReceiverAssumption DEF ReadyMeansDecoded
<1>16. ASSUME rpc = "run", NEW n \in 0 .. Need, Feed(n), decoder', UNCHANGED ack
       PROVE  ReadyMeansDecoded'
  BY <1>12, <1>13, <1>16, Zenon DEF Feed
<1>17. ASSUME NEW j \in Relays, RecvMeta(j) PROVE ReadyMeansDecoded'
  BY <1>14, <1>16, <1>17, Zenon DEF RecvMeta
<1>18. ASSUME NEW j \in Relays, RecvSymbol(j) PROVE ReadyMeansDecoded'
  BY <1>14, <1>15, <1>16, <1>18, Zenon DEF RecvSymbol
<1>19. CASE RecvDirect
  BY <1>12, <1>13, <1>14, <1>15, <1>19, Zenon DEF RecvDirect
<1>20. ASSUME NEW j \in Relays, RecvClosed(j) PROVE ReadyMeansDecoded'
  BY <1>13, <1>14, <1>20, Zenon DEF RecvClosed
<1>21. ASSUME NEW j \in Relays, DrainFrame(j) PROVE ReadyMeansDecoded'
  BY <1>14, <1>21, Zenon DEF DrainFrame, receiverVars
<1>22. ASSUME NEW j \in Relays, DrainEnd(j) PROVE ReadyMeansDecoded'
  BY <1>14, <1>22, Zenon DEF DrainEnd, relayVars
<1> QED
  BY <1>5, <1>7, <1>8, <1>9, <1>10, <1>11, <1>17, <1>18, <1>19, <1>20, <1>21, <1>22
  DEF ReceiverStep

-----------------------------------------------------------------------------
(* The invariant and what follows from it. *)

IInv == TypeOK /\ Dialling /\ ReadyMeansDecoded

\* The invariant holds initially: nothing has been written yet.
LEMMA InitInv == Init => IInv
<1> SUFFICES ASSUME Init PROVE IInv
  OBVIOUS
<1>1. TypeOK
  BY InitType
<1>2. Dialling
  BY PathsAssumption DEF Init, SenderInit, Dialling
<1>3. ReadyMeansDecoded
  BY ReceiverAssumption, HoldsEmpty
  DEF Init, PathsInit, SenderInit, ReceiverInit, ReadyMeansDecoded, Decoded
<1> QED
  BY <1>1, <1>2, <1>3 DEF IInv

\* Every step keeps the invariant.
LEMMA NextInv == IInv /\ [Next]_vars => IInv'
<1> SUFFICES ASSUME IInv, [Next]_vars PROVE IInv'
  OBVIOUS
<1> USE DEF IInv
<1>0. 0 \in Relays
  BY PathsAssumption DEF Relays
<1>1. ASSUME NEW i \in Relays, NEW listening,
             SenderStep \/ WatchStep(i, listening) \/ WriterStep(i) \/ LinkWriterStep,
             UNCHANGED receiverVars
      PROVE  IInv'
  <2>1. ReceiverTypeOK'
    BY <1>1, Zenon DEF TypeOK, ReceiverTypeOK, receiverVars
  <2>2. PathsTypeOK' /\ SenderTypeOK'
    BY <1>1, SenderType
  <2>3. NoNewReady /\ Dialling'
    BY <1>1, SenderReady
  <2> QED
    BY <1>1, <2>1, <2>2, <2>3, ReadyKept DEF TypeOK
<1>2. ASSUME NEW i \in Relays, ReceiverStep \/ Advertise(i) \/ RelayForgetsReceiver(i),
             UNCHANGED senderVars
      PROVE  IInv'
  <2>1. SenderTypeOK' /\ Dialling'
    BY <1>2, Zenon DEF TypeOK, SenderTypeOK, Dialling, senderVars
  <2>2. PathsTypeOK' /\ ReceiverTypeOK'
    BY <1>2, ReceiverType
  <2>3. ReadyMeansDecoded'
    BY <1>2, ReceiverReady
  <2> QED
    BY <2>1, <2>2, <2>3 DEF TypeOK
<1>3. ASSUME NEW i \in Relays,
             \/ RelayHello(i) \/ RelayForward(i) \/ RelayReturn(i) \/ RelayDies(i)
             \/ LinkBreaks \/ LinkLoses,
             UNCHANGED <<senderVars, receiverVars>>
      PROVE  IInv'
  <2>1. SenderTypeOK' /\ Dialling' /\ ReceiverTypeOK'
    BY <1>3, Zenon
    DEF TypeOK, SenderTypeOK, ReceiverTypeOK, Dialling, senderVars, receiverVars
  <2>2. PathsTypeOK'
    BY <1>3, PathsType
  <2>3. ReadyMeansDecoded'
    BY <1>3, PathsReady, ReadyKept
  <2> QED
    BY <2>1, <2>2, <2>3 DEF TypeOK
<1>4. CASE Send \/ LinkWriter \/ \E i \in Relays : Watch(i) \/ Writer(i)
  BY <1>0, <1>1, <1>4, Zenon DEF Send, LinkWriter, Watch, Writer
<1>5. CASE Receive \/ \E i \in Relays : Advert(i)
  BY <1>0, <1>2, <1>5, Zenon DEF Receive, Advert
<1>6. CASE Fault \/ \E i \in Relays : RelayDown(i) \/ RelayBack(i)
  BY <1>0, <1>2, <1>3, <1>6, Zenon DEF Fault, RelayDown, RelayBack
<1>7. CASE UNCHANGED vars
  <2>1. UNCHANGED relayVars /\ UNCHANGED linkVars /\ UNCHANGED senderVars /\ UNCHANGED receiverVars
    BY <1>7, Zenon DEF vars
  <2>2. PathsTypeOK'
    BY <2>1 DEF TypeOK, PathsTypeOK, relayVars, linkVars
  <2>3. SenderTypeOK' /\ Dialling'
    BY <2>1, Zenon DEF TypeOK, SenderTypeOK, Dialling, senderVars
  <2>4. ReceiverTypeOK'
    BY <2>1, Zenon DEF TypeOK, ReceiverTypeOK, receiverVars
  <2>5. NoNewReady
    BY <2>1, Zenon DEF NoNewReady, relayVars, senderVars
  <2> QED
    BY <2>1, <2>2, <2>3, <2>4, <2>5, ReadyKept DEF TypeOK
<1> QED
  BY <1>4, <1>5, <1>6, <1>7, Zenon DEF Next

\* Every reachable state satisfies the invariant.
LEMMA Invariant == Spec => []IInv
BY InitInv, NextInv, PTL DEF Spec

\* Every reachable state is well typed: queues of the connections and of the
\* writer tasks stay within their capacities (session.rs:33-44, 193-205).
THEOREM TypeCorrect == Spec => []TypeOK
<1>1. IInv => TypeOK
  BY DEF IInv
<1> QED
  BY <1>1, Invariant, PTL

\* A READY anywhere between the receiver and the sender's loop means that the
\* payload is decoded (session.rs:111-115, 628-635; lib.rs:356-381).
THEOREM ReadySound == Spec => []ReadyMeansDecoded
<1>1. IInv => ReadyMeansDecoded
  BY DEF IInv
<1> QED
  BY <1>1, Invariant, PTL

\* The sender never reports success for a payload that was not decoded,
\* whatever fails (session.rs:256-264).
THEOREM AckSound == Spec => []NoFalseAck
<1>1. IInv => NoFalseAck
  BY DEF IInv, ReadyMeansDecoded, NoFalseAck
<1> QED
  BY <1>1, Invariant, PTL

-----------------------------------------------------------------------------
(* Refinement. *)

\* Initial states map to initial states.
LEMMA InitRefines == Init => Abs!Init
<1> SUFFICES ASSUME Init PROVE Abs!Init
  OBVIOUS
<1>1. Decoded = FALSE
  BY Zenon DEF Init, ReceiverInit, Decoded
<1>2. Result(spc) = "busy" /\ Result(rpc) = "busy"
  BY DEF Init, SenderInit, ReceiverInit, Result
<1> QED
  BY <1>1, <1>2 DEF Abs!Init

\* A step of the sender's tasks ends the session at most once.
LEMMA SenderEndsOnce ==
    ASSUME NEW i \in Relays, NEW listening,
           SenderStep \/ WatchStep(i, listening) \/ WriterStep(i) \/ LinkWriterStep
    PROVE  UNCHANGED spc \/ spc \notin {"done", "failed"}
BY Zenon
DEF SenderStep, WatchStep, WriterStep, LinkWriterStep, SenderDial, SendMeta, TakeEvent, Emit,
    WatchReady, WatchDirect, DialSucceeds, DialFails, WatchEnds, PathWrites, PathFails,
    LinkWrites, LinkFails

\* A step of the receiver either leaves the payload as it is and ends the
\* session at most once, or completes the payload and goes on.
LEMMA ReceiverEndsOnce ==
    ASSUME IInv, NEW i \in Relays, ReceiverStep \/ Advertise(i) \/ RelayForgetsReceiver(i)
    PROVE  \/ Decoded' = Decoded /\ (UNCHANGED rpc \/ rpc \notin {"done", "failed"})
           \/ rpc = "run" /\ rpc' = "ready" /\ Decoded = FALSE /\ Decoded' = TRUE
<1> DEFINE Goal == \/ Decoded' = Decoded /\ (UNCHANGED rpc \/ rpc \notin {"done", "failed"})
                   \/ rpc = "run" /\ rpc' = "ready" /\ Decoded = FALSE /\ Decoded' = TRUE
<1>1. ASSUME UNCHANGED <<decoder, have>>, UNCHANGED rpc \/ rpc \notin {"done", "failed"}
      PROVE  Goal
  BY <1>1, Zenon DEF Decoded
<1>2. rpc = "run" => Decoded = FALSE /\ have + 1 \in 0 .. Need
  <2>1. ASSUME rpc = "run" PROVE have < Need
    BY <2>1, Zenon DEF IInv, ReadyMeansDecoded
  <2>2. have \in 0 .. Need
    BY DEF IInv, TypeOK, ReceiverTypeOK
  <2>3. ASSUME rpc = "run" PROVE have # Need /\ have + 1 \in 0 .. Need
    BY <2>1, <2>2, <2>3, ReceiverAssumption
  <2> QED
    BY <2>3, Zenon DEF Decoded
<1>3. ASSUME rpc = "run", NEW n \in 0 .. Need, decoder', have' = n,
             rpc' = (IF n = Need THEN "ready" ELSE rpc)
      PROVE  Goal
  <2>1. CASE n = Need
    <3>1. Decoded' = TRUE
      BY <1>3, <2>1, Zenon DEF Decoded
    <3> QED
      BY <1>2, <1>3, <2>1, <3>1, Zenon
  <2>2. CASE n # Need
    <3>1. Decoded' = FALSE
      BY <1>3, <2>2, Zenon DEF Decoded
    <3> QED
      BY <1>2, <1>3, <2>2, <3>1, Zenon
  <2> QED
    BY <2>1, <2>2
<1>4. ASSUME rpc = "run", UNCHANGED have PROVE Goal
  <2>1. have # Need
    BY <1>4, ReceiverAssumption DEF IInv, TypeOK, ReceiverTypeOK, ReadyMeansDecoded
  <2>2. Decoded' = FALSE
    BY <1>4, <2>1, Zenon DEF Decoded
  <2> QED
    BY <1>2, <1>4, <2>2, "run" \notin {"done", "failed"}, Zenon
<1>5. CASE ReceiverDial
  BY <1>1, <1>5, Zenon DEF ReceiverDial
<1>6. CASE SendReady \/ SendClose
  BY <1>1, <1>6, Zenon DEF SendReady, SendClose, SendToSink
<1>7. CASE Finish
  BY <1>1, <1>7, Zenon DEF Finish
<1>8. CASE Advertise(i) \/ RelayForgetsReceiver(i)
  BY <1>1, <1>8, Zenon DEF Advertise, RelayForgetsReceiver, receiverVars
<1>9. ASSUME rpc = "run", NEW n \in 0 .. Need, Feed(n), decoder'
      PROVE  Goal
  BY <1>3, <1>4, <1>9, Zenon DEF Feed
<1>10. pending \in 0 .. Need
  BY DEF IInv, TypeOK, ReceiverTypeOK
<1>11. ASSUME NEW j \in Relays, RecvMeta(j) PROVE Goal
  BY <1>4, <1>9, <1>10, <1>11, Zenon DEF RecvMeta
<1>12. ASSUME NEW j \in Relays, RecvSymbol(j) PROVE Goal
  BY <1>2, <1>4, <1>9, <1>12, Zenon DEF RecvSymbol
<1>13. CASE RecvDirect
  BY <1>2, <1>3, <1>4, <1>13, Zenon DEF RecvDirect
<1>14. ASSUME NEW j \in Relays, RecvClosed(j) \/ DrainFrame(j) \/ DrainEnd(j) PROVE Goal
  BY <1>1, <1>4, <1>14, Zenon DEF RecvClosed, DrainFrame, DrainEnd, receiverVars
<1> QED
  BY <1>5, <1>6, <1>7, <1>8, <1>11, <1>12, <1>13, <1>14, Zenon DEF ReceiverStep

\* A step that leaves the receiver alone is a stutter or a return of the sender.
LEMMA SenderRefines ==
    ASSUME IInv, IInv', UNCHANGED receiverVars, UNCHANGED spc \/ spc \notin {"done", "failed"}
    PROVE  [Abs!Next]_(Abs!vars)
<1>1. UNCHANGED <<Decoded, Result(rpc)>>
  BY Zenon DEF receiverVars, Decoded, Result
<1>2. CASE Result(spc)' = Result(spc)
  BY <1>1, <1>2, Zenon DEF Abs!vars
<1>3. CASE Result(spc)' # Result(spc)
  <2>1. Result(spc) = "busy" /\ Result(spc)' \in {"ok", "error"}
    BY <1>3 DEF Result
  <2>2. Result(spc)' = "ok" => Decoded
    <3>1. Result(spc)' = "ok" => spc' = "done"
      BY DEF Result
    <3> QED
      BY <1>1, <3>1, Zenon DEF IInv, ReadyMeansDecoded
  <2>3. Abs!SenderReturns(Result(spc)')
    BY <1>1, <2>1, <2>2, Zenon DEF Abs!SenderReturns
  <2> QED
    BY <2>1, <2>3, Zenon DEF Abs!Next
<1> QED
  BY <1>2, <1>3

\* A step of the receiver is a stutter, a return, or the decoding.
LEMMA ReceiverRefines ==
    ASSUME IInv, IInv', UNCHANGED spc,
           \/ Decoded' = Decoded /\ (UNCHANGED rpc \/ rpc \notin {"done", "failed"})
           \/ rpc = "run" /\ rpc' = "ready" /\ Decoded = FALSE /\ Decoded' = TRUE
    PROVE  [Abs!Next]_(Abs!vars)
<1>1. UNCHANGED Result(spc)
  BY Zenon DEF Result
<1>2. CASE Decoded' = Decoded /\ Result(rpc)' = Result(rpc)
  BY <1>1, <1>2, Zenon DEF Abs!vars
<1>3. CASE Decoded' = Decoded /\ Result(rpc)' # Result(rpc)
  <2>1. Result(rpc) = "busy" /\ Result(rpc)' \in {"ok", "error"}
    BY <1>3 DEF Result
  <2>2. Result(rpc)' = "ok" => Decoded
    <3>1. Result(rpc)' = "ok" => rpc' = "done"
      BY DEF Result
    <3> QED
      BY <1>3, <3>1, Zenon DEF IInv, ReadyMeansDecoded
  <2>3. Abs!ReceiverReturns(Result(rpc)')
    BY <1>1, <1>3, <2>1, <2>2, Zenon DEF Abs!ReceiverReturns
  <2> QED
    BY <2>1, <2>3, Zenon DEF Abs!Next
<1>4. CASE rpc = "run" /\ rpc' = "ready" /\ Decoded = FALSE /\ Decoded' = TRUE
  <2>1. Result(rpc) = "busy" /\ Result(rpc)' = "busy"
    BY <1>4 DEF Result
  <2> QED
    BY <1>1, <1>4, <2>1, Zenon DEF Abs!Next, Abs!Decode
<1> QED
  BY <1>2, <1>3, <1>4

\* Every step maps to a step of TransferAbs or to a stutter.
LEMMA NextRefines == IInv /\ IInv' /\ [Next]_vars => [Abs!Next]_(Abs!vars)
<1> SUFFICES ASSUME IInv, IInv', [Next]_vars PROVE [Abs!Next]_(Abs!vars)
  OBVIOUS
<1>0. 0 \in Relays
  BY PathsAssumption DEF Relays
<1>1. ASSUME NEW i \in Relays, NEW listening,
             SenderStep \/ WatchStep(i, listening) \/ WriterStep(i) \/ LinkWriterStep,
             UNCHANGED receiverVars
      PROVE  [Abs!Next]_(Abs!vars)
  BY <1>1, SenderEndsOnce, SenderRefines
<1>2. ASSUME NEW i \in Relays, ReceiverStep \/ Advertise(i) \/ RelayForgetsReceiver(i),
             UNCHANGED senderVars
      PROVE  [Abs!Next]_(Abs!vars)
  <2>1. UNCHANGED spc
    BY <1>2, Zenon DEF senderVars
  <2> QED
    BY <1>2, <2>1, ReceiverEndsOnce, ReceiverRefines
<1>3. ASSUME UNCHANGED <<senderVars, receiverVars>>
      PROVE  [Abs!Next]_(Abs!vars)
  BY <1>3, SenderRefines, Zenon DEF senderVars
<1>4. CASE Send \/ LinkWriter \/ \E i \in Relays : Watch(i) \/ Writer(i)
  BY <1>0, <1>1, <1>4, Zenon DEF Send, LinkWriter, Watch, Writer
<1>5. CASE Receive \/ \E i \in Relays : Advert(i)
  BY <1>0, <1>2, <1>5, Zenon DEF Receive, Advert
<1>6. CASE Fault \/ \E i \in Relays : RelayDown(i) \/ RelayBack(i)
  BY <1>0, <1>2, <1>3, <1>6, Zenon DEF Fault, RelayDown, RelayBack
<1>7. CASE UNCHANGED vars
  BY <1>3, <1>7, Zenon DEF vars
<1> QED
  BY <1>4, <1>5, <1>6, <1>7, Zenon DEF Next

\* Transfer implements TransferAbs: each side returns once, the receiver with
\* success only with the payload, the sender with success only after the
\* receiver has it (session.rs:239-329, 528-673).
THEOREM Refinement == Spec => ImplementsAbs
BY InitRefines, NextRefines, Invariant, PTL DEF Spec, ImplementsAbs, Abs!Spec

-----------------------------------------------------------------------------
(* Queues with at most one "direct". *)

Single(q) == \A j, k \in DOMAIN q : q[j] = "direct" /\ q[k] = "direct" => j = k

\* Append adds the new message, and nothing else.
LEMMA AppendHolds ==
    ASSUME NEW M, NEW q \in Seq(M), NEW m \in M, NEW x
    PROVE  Holds(Append(q, m), x) <=> (Holds(q, x) \/ m = x)
<1>1. /\ Len(q) \in Nat /\ DOMAIN q = 1 .. Len(q)
      /\ DOMAIN Append(q, m) = 1 .. (Len(q) + 1)
      /\ \A k \in DOMAIN q : Append(q, m)[k] = q[k]
      /\ Append(q, m)[Len(q) + 1] = m
  OBVIOUS
<1>2. ASSUME Holds(q, x) PROVE Holds(Append(q, m), x)
  <2>1. PICK k \in DOMAIN q : q[k] = x
    BY <1>2 DEF Holds
  <2>2. k \in DOMAIN Append(q, m) /\ Append(q, m)[k] = x
    BY <1>1, <2>1
  <2> QED
    BY <2>2 DEF Holds
<1>3. ASSUME m = x PROVE Holds(Append(q, m), x)
  <2>1. Len(q) + 1 \in DOMAIN Append(q, m) /\ Append(q, m)[Len(q) + 1] = x
    BY <1>1, <1>3
  <2> QED
    BY <2>1 DEF Holds
<1> QED
  BY <1>2, <1>3, HoldsAppend

\* What a queue holds is its head or in its tail.
LEMMA TailHolds ==
    ASSUME NEW M, NEW q \in Seq(M), q # <<>>, NEW x
    PROVE  Holds(q, x) <=> (Head(q) = x \/ Holds(Tail(q), x))
<1>1. ASSUME Holds(q, x), Head(q) # x PROVE Holds(Tail(q), x)
  <2>1. PICK k \in DOMAIN q : q[k] = x
    BY <1>1 DEF Holds
  <2>2. k # 1 /\ k \in 1 .. Len(q) /\ Len(q) \in Nat
    BY <1>1, <2>1
  <2>3. k - 1 \in DOMAIN Tail(q) /\ Tail(q)[k - 1] = q[k]
    BY <2>2
  <2> QED
    BY <2>1, <2>3 DEF Holds
<1> QED
  BY <1>1, HoldsTail

\* A first "direct" may be appended, and other messages always.
LEMMA SingleAppend ==
    ASSUME NEW M, NEW q \in Seq(M), NEW m \in M, Single(q),
           m = "direct" => ~Holds(q, "direct")
    PROVE  Single(Append(q, m))
<1>1. /\ Len(q) \in Nat /\ DOMAIN q = 1 .. Len(q)
      /\ DOMAIN Append(q, m) = 1 .. (Len(q) + 1)
      /\ \A k \in DOMAIN q : Append(q, m)[k] = q[k]
      /\ Append(q, m)[Len(q) + 1] = m
  OBVIOUS
<1>2. \A k \in DOMAIN Append(q, m) : k = Len(q) + 1 \/ k \in DOMAIN q
  BY <1>1
<1> QED
  BY <1>1, <1>2, Zenon DEF Single, Holds

\* Behind a "direct" at the head there is no other.
LEMMA SingleTail ==
    ASSUME NEW M, NEW q \in Seq(M), q # <<>>, Single(q)
    PROVE  Single(Tail(q)) /\ (Head(q) = "direct" => ~Holds(Tail(q), "direct"))
<1>1. ASSUME NEW k \in DOMAIN Tail(q)
      PROVE  k + 1 \in DOMAIN q /\ q[k + 1] = Tail(q)[k] /\ k \in Nat /\ k + 1 # 1
  OBVIOUS
<1>2. 1 \in DOMAIN q /\ q[1] = Head(q)
  OBVIOUS
<1>3. Single(Tail(q))
  <2>1. SUFFICES ASSUME NEW j \in DOMAIN Tail(q), NEW k \in DOMAIN Tail(q),
                        Tail(q)[j] = "direct", Tail(q)[k] = "direct"
                 PROVE  j = k
    BY DEF Single
  <2>2. j + 1 = k + 1
    BY <1>1, <2>1, Zenon DEF Single
  <2> QED
    BY <1>1, <2>2
<1>4. ASSUME Head(q) = "direct", NEW k \in DOMAIN Tail(q), Tail(q)[k] = "direct" PROVE FALSE
  BY <1>1, <1>2, <1>4, Zenon DEF Single
<1> QED
  BY <1>3, <1>4, Zenon DEF Holds

-----------------------------------------------------------------------------
(* The invariant. *)

SomeDialling == \E i \in Relays : watcher[i] = "dialling"
Ended == {i \in Relays : watcher[i] = "ended"}

\* One link at a time is dialled, announced or in use, and the flag says so.
OneSetup ==
    /\ \A i, j \in Relays : watcher[i] = "dialling" /\ watcher[j] = "dialling" => i = j
    /\ Single(events)
    /\ SomeDialling \/ Holds(events, "direct") \/ direct => directUp
    /\ SomeDialling => ~Holds(events, "direct") /\ ~direct
    /\ Holds(events, "direct") => ~direct

\* Every READY in the channel has ended a watcher.
EventsBound == Len(events) <= Cardinality(Ended) + (IF Holds(events, "direct") THEN 1 ELSE 0)

\* A relay that was not dialled has no watcher yet.
NotDialled == \A j \in Relays : j >= dialled => watcher[j] = "off"

AInv == OneSetup /\ EventsBound /\ NotDialled

\* Types used throughout.
LEMMA Facts ==
    ASSUME TypeOK
    PROVE  /\ watcher \in [Relays -> {"off", "reading", "dialling", "ended"}]
           /\ events \in Seq({"ready", "direct"}) /\ Len(events) \in Nat
           /\ directUp \in BOOLEAN /\ direct \in BOOLEAN /\ dialled \in 0 .. N
           /\ IsFiniteSet(Relays) /\ Cardinality(Relays) = N
           /\ IsFiniteSet(Ended) /\ Cardinality(Ended) \in Nat
<1>1. IsFiniteSet(Relays) /\ Cardinality(Relays) = N
  <2>1. 0 \in Int /\ N - 1 \in Int /\ (IF 0 > N - 1 THEN 0 ELSE (N - 1) - 0 + 1) = N
    BY PathsAssumption
  <2> QED
    BY <2>1, FS_Interval DEF Relays
<1>2. Ended \subseteq Relays
  BY DEF Ended
<1>3. IsFiniteSet(Ended) /\ Cardinality(Ended) \in Nat
  BY <1>1, <1>2, FS_Subset, FS_CardinalityType
<1> QED
  BY <1>1, <1>3 DEF TypeOK, SenderTypeOK

-----------------------------------------------------------------------------
(* The steps. *)

LEMMA AdvertInit == Init => AInv
<1> SUFFICES ASSUME Init PROVE AInv
  OBVIOUS
<1>1. \A j \in Relays : watcher[j] = "off"
  BY DEF Init, SenderInit
<1>2. events = <<>> /\ directUp = FALSE /\ direct = FALSE
  BY DEF Init, SenderInit
<1>3. ~Holds(events, "direct") /\ Single(events) /\ Len(events) = 0
  <2>1. DOMAIN events = {} /\ Len(events) = 0
    BY <1>2
  <2> QED
    BY <2>1 DEF Holds, Single
<1>4. Ended = {} /\ Cardinality(Ended) = 0
  <2>1. Ended = {}
    BY <1>1 DEF Ended
  <2> QED
    BY <2>1, FS_EmptySet
<1> QED
  BY <1>1, <1>2, <1>3, <1>4 DEF AInv, OneSetup, SomeDialling, EventsBound, NotDialled

\* What a step of one watcher does to the set of ended watchers.
LEMMA EndedAfter ==
    ASSUME TypeOK, NEW i \in Relays, NEW v, watcher' = [watcher EXCEPT ![i] = v]
    PROVE  /\ \A j \in Relays : watcher'[j] = IF j = i THEN v ELSE watcher[j]
           /\ (v = "ended" /\ watcher[i] # "ended")
                => Cardinality(Ended') = Cardinality(Ended) + 1
           /\ (v # "ended" /\ watcher[i] # "ended")
                => Cardinality(Ended') = Cardinality(Ended)
<1>1. \A j \in Relays : watcher'[j] = IF j = i THEN v ELSE watcher[j]
  BY Facts
<1>2. ASSUME v = "ended", watcher[i] # "ended"
      PROVE  Cardinality(Ended') = Cardinality(Ended) + 1
  <2>1. Ended' = Ended \cup {i} /\ i \notin Ended
    BY <1>1, <1>2 DEF Ended
  <2> QED
    BY <2>1, Facts, FS_AddElement
<1>3. ASSUME v # "ended", watcher[i] # "ended"
      PROVE  Cardinality(Ended') = Cardinality(Ended)
  <2>1. Ended' = Ended
    BY <1>1, <1>3 DEF Ended
  <2> QED
    BY <2>1
<1> QED
  BY <1>1, <1>2, <1>3

LEMMA AdvertUnchanged ==
    ASSUME AInv, UNCHANGED <<watcher, events, directUp, dialled>>, direct' => direct
    PROVE  AInv'
<1>1. /\ SomeDialling' = SomeDialling /\ Ended' = Ended
      /\ Holds(events, "direct")' = Holds(events, "direct") /\ Single(events)' = Single(events)
  BY DEF SomeDialling, Ended, Holds, Single
<1>2. OneSetup'
  BY <1>1 DEF AInv, OneSetup
<1>3. EventsBound'
  BY <1>1 DEF AInv, EventsBound
<1>4. NotDialled'
  BY DEF AInv, NotDialled
<1> QED
  BY <1>2, <1>3, <1>4 DEF AInv

LEMMA DialKeeps ==
    ASSUME IInv, AInv, SenderDial
    PROVE  AInv'
<1>1. CASE relayUp[dialled] /\ watcher' = [watcher EXCEPT ![dialled] = "reading"]
           /\ dialled' = dialled + 1
  <2>1. TypeOK /\ dialled \in Relays /\ dialled \in Nat
    <3>1. TypeOK /\ dialled < N /\ dialled \in 0 .. N /\ N \in Nat
      BY Facts, PathsAssumption DEF IInv, Dialling, SenderDial
    <3> QED
      BY <3>1 DEF Relays
  <2>2. watcher[dialled] = "off"
    <3>1. dialled >= dialled
      BY <2>1
    <3> QED
      BY <2>1, <3>1 DEF AInv, NotDialled
  <2>3. /\ \A j \in Relays : watcher'[j] = IF j = dialled THEN "reading" ELSE watcher[j]
        /\ Cardinality(Ended') = Cardinality(Ended)
    BY <1>1, <2>1, <2>2, EndedAfter
  <2>4. UNCHANGED <<events, directUp, direct>>
    BY DEF SenderDial
  <2>5. /\ SomeDialling' <=> SomeDialling
        /\ \A j \in Relays : watcher'[j] = "dialling" => watcher[j] = "dialling"
    BY <2>2, <2>3 DEF SomeDialling
  <2>6. OneSetup'
    BY <2>4, <2>5 DEF AInv, OneSetup, Single, Holds
  <2>7. EventsBound'
    BY <2>3, <2>4 DEF AInv, EventsBound, Holds
  <2>8. NotDialled'
    <3>1. \A j \in Relays : j >= dialled + 1 => j >= dialled /\ j # dialled
      BY <2>1 DEF Relays
    <3> QED
      BY <1>1, <2>3, <3>1 DEF AInv, NotDialled
  <2> QED
    BY <2>6, <2>7, <2>8 DEF AInv
<1>2. CASE UNCHANGED <<watcher, dialled>>
  BY <1>2, AdvertUnchanged DEF SenderDial
<1> QED
  BY <1>1, <1>2 DEF SenderDial

\* A watcher that ends, with or without a READY, makes room for its event.
LEMMA EndKeeps ==
    ASSUME IInv, AInv, NEW i \in Relays, WatchReady(i) \/ WatchEnds(i)
    PROVE  AInv'
<1>1. TypeOK
  BY DEF IInv
<1>2. /\ watcher[i] = "reading" /\ watcher' = [watcher EXCEPT ![i] = "ended"]
      /\ UNCHANGED <<directUp, direct, dialled>>
      /\ events' = Append(events, "ready") \/ events' = events
  BY DEF WatchReady, WatchEnds
<1>3. /\ \A j \in Relays : watcher'[j] = IF j = i THEN "ended" ELSE watcher[j]
      /\ Cardinality(Ended') = Cardinality(Ended) + 1
  BY <1>1, <1>2, EndedAfter
<1>4. /\ Holds(events, "direct")' <=> Holds(events, "direct")
      /\ Single(events)'
      /\ Len(events') <= Len(events) + 1
  <2>1. CASE events' = events
    BY <2>1, Facts, <1>1 DEF Holds, Single, AInv, OneSetup
  <2>2. CASE events' = Append(events, "ready")
    <3>1. Holds(Append(events, "ready"), "direct") <=> Holds(events, "direct")
      BY <1>1, Facts, AppendHolds
    <3>2. Single(Append(events, "ready"))
      BY <1>1, Facts, SingleAppend DEF AInv, OneSetup
    <3>3. Len(Append(events, "ready")) = Len(events) + 1
      BY <1>1, Facts
    <3>4. Len(events') <= Len(events) + 1
      BY <1>1, Facts, <2>2, <3>3
    <3> QED
      BY <2>2, <3>1, <3>2, <3>4 DEF Holds, Single
  <2> QED
    BY <1>2, <2>1, <2>2
<1>5. /\ SomeDialling' => SomeDialling
      /\ \A j \in Relays : watcher'[j] = "dialling" => watcher[j] = "dialling"
  BY <1>3 DEF SomeDialling
<1>6. OneSetup'
  BY <1>2, <1>4, <1>5 DEF AInv, OneSetup
<1>7. EventsBound'
  <2>1. Len(events') \in Nat /\ Cardinality(Ended) \in Nat /\ Len(events) \in Nat
    <3>1. events' \in Seq({"ready", "direct"})
      BY <1>1, <1>2, Facts
    <3> QED
      BY <1>1, <3>1, Facts
  <2>2. Len(events) <= Cardinality(Ended) + (IF Holds(events, "direct") THEN 1 ELSE 0)
    BY DEF AInv, EventsBound
  <2> QED
    BY <1>3, <1>4, <2>1, <2>2 DEF EventsBound
<1>8. NotDialled'
  BY <1>2, <1>3 DEF AInv, NotDialled
<1> QED
  BY <1>6, <1>7, <1>8 DEF AInv

\* An advertisement: only the watcher that finds the flag clear dials.
LEMMA AdvertKeeps ==
    ASSUME IInv, AInv, NEW i \in Relays, WatchDirect(i)
    PROVE  AInv'
<1>1. TypeOK /\ watcher[i] = "reading" /\ UNCHANGED <<events, direct, dialled>> /\ directUp' = TRUE
  BY DEF IInv, WatchDirect
<1>2. CASE directUp
  <2>1. directUp = TRUE /\ watcher' = watcher
    BY <1>1, <1>2, Facts DEF WatchDirect, MayDial
  <2> QED
    BY <1>1, <2>1, AdvertUnchanged
<1>3. CASE ~directUp
  <2>1. watcher' = [watcher EXCEPT ![i] = "dialling"]
    BY <1>3 DEF WatchDirect, MayDial
  <2>2. /\ \A j \in Relays : watcher'[j] = IF j = i THEN "dialling" ELSE watcher[j]
        /\ Cardinality(Ended') = Cardinality(Ended)
    BY <1>1, <2>1, EndedAfter
  <2>3. ~SomeDialling /\ ~Holds(events, "direct") /\ ~direct /\ Single(events)
    BY <1>3 DEF AInv, OneSetup
  <2>4. OneSetup'
    BY <1>1, <2>2, <2>3 DEF OneSetup, SomeDialling, Single, Holds
  <2>5. EventsBound'
    BY <1>1, <2>2 DEF AInv, EventsBound, Holds
  <2>6. NotDialled'
    BY <1>1, <2>2 DEF AInv, NotDialled
  <2> QED
    BY <2>4, <2>5, <2>6 DEF AInv
<1> QED
  BY <1>2, <1>3

\* The dial's outcome: the link is announced, or the flag is cleared.
LEMMA OutcomeKeeps ==
    ASSUME IInv, AInv, NEW i \in Relays, NEW listening,
           DialSucceeds(i, listening) \/ DialFails(i, listening)
    PROVE  AInv'
<1>1. /\ TypeOK /\ watcher[i] = "dialling" /\ UNCHANGED <<direct, dialled>>
      /\ watcher' = [watcher EXCEPT ![i] = "reading"]
      /\ \/ events' = Append(events, "direct") /\ UNCHANGED directUp
         \/ events' = events /\ directUp' = FALSE
  BY DEF IInv, DialSucceeds, DialFails
<1>2. /\ \A j \in Relays : watcher'[j] = IF j = i THEN "reading" ELSE watcher[j]
      /\ Cardinality(Ended') = Cardinality(Ended)
  BY <1>1, EndedAfter
<1>3. SomeDialling /\ directUp /\ ~Holds(events, "direct") /\ ~direct /\ Single(events)
  BY <1>1 DEF AInv, OneSetup, SomeDialling
<1>4. ~SomeDialling'
  BY <1>1, <1>2 DEF AInv, OneSetup, SomeDialling
<1>5. OneSetup' /\ EventsBound'
  <2>1. CASE events' = Append(events, "direct") /\ UNCHANGED directUp
    <3>1. Holds(Append(events, "direct"), "direct") /\ Single(Append(events, "direct"))
          /\ Len(Append(events, "direct")) = Len(events) + 1
      BY <1>1, <1>3, Facts, AppendHolds, SingleAppend
    <3>2. OneSetup'
      BY <1>1, <1>2, <1>3, <1>4, <2>1, <3>1 DEF OneSetup, SomeDialling
    <3>3. Len(events) <= Cardinality(Ended) /\ Len(events) \in Nat /\ Cardinality(Ended) \in Nat
      BY <1>1, <1>3, Facts DEF AInv, EventsBound
    <3>4. EventsBound'
      BY <1>2, <2>1, <3>1, <3>3 DEF EventsBound
    <3> QED
      BY <3>2, <3>4
  <2>2. CASE events' = events /\ directUp' = FALSE
    <3>1. OneSetup'
      BY <1>1, <1>2, <1>3, <1>4, <2>2 DEF OneSetup, SomeDialling
    <3>2. EventsBound'
      BY <1>2, <2>2 DEF AInv, EventsBound, Holds
    <3> QED
      BY <3>1, <3>2
  <2> QED
    BY <1>1, <2>1, <2>2
<1>6. NotDialled'
  BY <1>1, <1>2 DEF AInv, NotDialled
<1> QED
  BY <1>5, <1>6 DEF AInv

\* run() takes an event: a READY, or the one link that was announced.
LEMMA TakeKeeps ==
    ASSUME IInv, AInv, TakeEvent
    PROVE  AInv'
<1>1. TypeOK /\ events # <<>> /\ events' = Tail(events) /\ UNCHANGED <<watcher, directUp, dialled>>
  BY DEF IInv, TakeEvent
<1>2. /\ events \in Seq({"ready", "direct"}) /\ Len(events) \in Nat /\ Len(events) > 0
      /\ Cardinality(Ended) \in Nat /\ Len(events') = Len(events) - 1
      /\ Head(events) \in {"ready", "direct"}
  BY <1>1, Facts
<1>3. /\ Holds(events, "direct") <=> (Head(events) = "direct" \/ Holds(events', "direct"))
      /\ Single(events')
      /\ Head(events) = "direct" => ~Holds(events', "direct")
  <2>1. Single(events)
    BY DEF AInv, OneSetup
  <2>2. Holds(events, "direct") <=> (Head(events) = "direct" \/ Holds(Tail(events), "direct"))
    BY <1>1, <1>2, TailHolds
  <2>3. Single(Tail(events)) /\ (Head(events) = "direct" => ~Holds(Tail(events), "direct"))
    BY <1>1, <1>2, <2>1, SingleTail
  <2> QED
    BY <1>1, <2>2, <2>3
<1>4. /\ Head(events) = "direct" => direct' = TRUE
      /\ Head(events) # "direct" => direct' = direct
  BY <1>2 DEF TakeEvent
<1>5. SomeDialling' = SomeDialling /\ Ended' = Ended
  BY <1>1 DEF SomeDialling, Ended
<1>6. OneSetup'
  BY <1>1, <1>3, <1>4, <1>5 DEF AInv, OneSetup
<1>7. EventsBound'
  <2>1. Len(events) <= Cardinality(Ended) + (IF Holds(events, "direct") THEN 1 ELSE 0)
    BY DEF AInv, EventsBound
  <2> QED
    BY <1>2, <1>3, <1>5, <2>1 DEF EventsBound
<1>8. NotDialled'
  BY <1>1 DEF AInv, NotDialled
<1> QED
  BY <1>6, <1>7, <1>8 DEF AInv

\* Every step keeps the invariant; most do not touch what it is about.
LEMMA AdvertNext == IInv /\ AInv /\ [Next]_vars => AInv'
<1> SUFFICES ASSUME IInv, AInv, [Next]_vars PROVE AInv'
  OBVIOUS
<1>1. ASSUME UNCHANGED senderVars PROVE AInv'
  BY <1>1, AdvertUnchanged DEF senderVars
<1>2. ASSUME SenderStep PROVE AInv'
  <2>1. CASE SendMeta
    BY <2>1, AdvertUnchanged DEF SendMeta
  <2>2. CASE Emit
    <3>1. direct' => direct
      BY <2>2, Zenon DEF Emit
    <3> QED
      BY <2>2, <3>1, AdvertUnchanged DEF Emit
  <2> QED
    BY <1>2, <2>1, <2>2, DialKeeps, TakeKeeps DEF SenderStep
<1>3. ASSUME NEW i \in Relays, NEW listening, WatchStep(i, listening) PROVE AInv'
  BY <1>3, EndKeeps, AdvertKeeps, OutcomeKeeps DEF WatchStep
<1>4. ASSUME NEW i \in Relays, WriterStep(i) PROVE AInv'
  BY <1>4, AdvertUnchanged DEF WriterStep, PathWrites, PathFails
<1>5. ASSUME LinkWriterStep PROVE AInv'
  BY <1>5, AdvertUnchanged DEF LinkWriterStep, LinkWrites, LinkFails
<1>6. CASE Send \/ LinkWriter \/ \E i \in Relays : Watch(i) \/ Writer(i)
  BY <1>2, <1>3, <1>4, <1>5, <1>6, Zenon DEF Send, LinkWriter, Watch, Writer
<1>7. CASE \/ Receive \/ Fault
           \/ \E i \in Relays : Advert(i) \/ RelayDown(i) \/ RelayBack(i)
  <2>1. UNCHANGED senderVars
    BY <1>7, Zenon DEF Receive, Fault, Advert, RelayDown, RelayBack
  <2> QED
    BY <1>1, <2>1
<1>8. CASE UNCHANGED vars
  <2>1. UNCHANGED senderVars
    BY <1>8, Zenon DEF vars
  <2> QED
    BY <1>1, <2>1
<1> QED
  BY <1>6, <1>7, <1>8, Zenon DEF Next

LEMMA AdvertInvariant == Spec => [](IInv /\ AInv)
<1>1. Init => IInv /\ AInv
  BY InitInv, AdvertInit
<1>2. IInv /\ AInv /\ [Next]_vars => (IInv /\ AInv)'
  BY NextInv, AdvertNext
<1> QED
  BY <1>1, <1>2, PTL DEF Spec

-----------------------------------------------------------------------------
(* The theorems. *)

\* A set whose members are all equal has at most one.
LEMMA AtMostOne ==
    ASSUME NEW S, \A x, y \in S : x = y
    PROVE  Cardinality(S) = IF S = {} THEN 0 ELSE 1
<1>1. CASE S = {}
  BY <1>1, FS_EmptySet
<1>2. CASE S # {}
  <2>1. PICK x \in S : TRUE
    BY <1>2
  <2>2. S = {x}
    BY <2>1
  <2> QED
    BY <1>2, <2>2, FS_Singleton
<1> QED
  BY <1>1, <1>2

\* However many relays carry the advertisement and however often it comes, one
\* direct link at a time is set up or in use (session.rs:106-131, 266-268).
THEOREM OneLink == Spec => []OneDirectLink
<1>1. AInv => OneDirectLink
  <2> SUFFICES ASSUME AInv PROVE OneDirectLink
    OBVIOUS
  <2> DEFINE D == {i \in Relays : watcher[i] = "dialling"}
             E == {k \in DOMAIN events : events[k] = "direct"}
  <2>1. Cardinality(D) = IF SomeDialling THEN 1 ELSE 0
    <3>1. \A x, y \in D : x = y
      BY DEF AInv, OneSetup
    <3>2. D = {} <=> ~SomeDialling
      BY DEF SomeDialling
    <3> HIDE DEF D
    <3> QED
      BY <3>1, <3>2, AtMostOne
  <2>2. Cardinality(E) = IF Holds(events, "direct") THEN 1 ELSE 0
    <3>1. \A x, y \in E : x = y
      BY DEF AInv, OneSetup, Single
    <3>2. E = {} <=> ~Holds(events, "direct")
      BY DEF Holds
    <3> HIDE DEF E
    <3> QED
      BY <3>1, <3>2, AtMostOne
  <2>3. /\ SomeDialling => ~Holds(events, "direct") /\ ~direct
        /\ Holds(events, "direct") => ~direct
    BY DEF AInv, OneSetup
  <2>4. OneDirectLink <=> Cardinality(D) + Cardinality(E) + (IF direct THEN 1 ELSE 0) <= 1
    BY DEF OneDirectLink
  <2> HIDE DEF D, E
  <2> QED
    BY <2>1, <2>2, <2>3, <2>4
<1> QED
  BY <1>1, AdvertInvariant, PTL

\* A watcher never waits for room in the events channel, which nobody reads
\* before run() starts: n + 2 places suffice for every n (session.rs:92).
THEOREM ChannelNeverFull == Spec => []WatchersNeverBlock
<1>1. IInv /\ AInv => WatchersNeverBlock
  <2> SUFFICES ASSUME IInv, AInv, NEW i \in Relays, watcher[i] \in {"reading", "dialling"}
               PROVE  Len(events) < N + 2
    BY DEF WatchersNeverBlock
  <2>1. TypeOK
    BY DEF IInv
  <2>2. Ended \in SUBSET Relays 
    BY DEF Ended
  <2>3. Cardinality(Ended) <= N
    BY <2>1, <2>2, Facts, FS_Subset
  <2>4. Len(events) <= Cardinality(Ended) + (IF Holds(events, "direct") THEN 1 ELSE 0)
    BY DEF AInv, EventsBound
  <2> QED
    BY <2>1, <2>3, <2>4, Facts, PathsAssumption
<1> QED
  BY <1>1, AdvertInvariant, PTL
=============================================================================
