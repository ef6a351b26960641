---------------------------- MODULE RelayProofs ----------------------------
(***************************************************************************)
(* The relay is type correct, its registrations are sound, and its buffer  *)
(* for a receiver to come holds the most recent frames without a gap and   *)
(* counts their bytes exactly: for every set of connections, every size of *)
(* frames, every capacity and cap, and every failure of the clients.       *)
(***************************************************************************)
EXTENDS Relay, FiniteSetTheorems, TLAPS

-----------------------------------------------------------------------------
(* Sequences and functions. *)

\* Queue operations stay in the type of the queue.
LEMMA QueueTypes ==
    ASSUME NEW M, NEW q \in Seq(M)
    PROVE  /\ \A m \in M : Append(q, m) \in Seq(M)
           /\ q # <<>> => Head(q) \in M /\ Tail(q) \in Seq(M)
OBVIOUS

\* The empty queue is a queue of any type.
LEMMA EmptyQueue == \A M : <<>> \in Seq(M)
OBVIOUS

\* Assigning one entry of a function keeps its type.
LEMMA ExceptType ==
    ASSUME NEW A, NEW B, NEW f \in [A -> B], NEW a \in A, NEW b \in B
    PROVE  [f EXCEPT ![a] = b] \in [A -> B]
OBVIOUS

-----------------------------------------------------------------------------
(* The buffer. *)

\* The bytes of a sequence of frames are a natural number.
LEMMA BytesType == ASSUME NEW s \in Seq(Frames) PROVE Bytes(s) \in Nat
<1>1. ASSUME NEW type PROVE Count(s, type) \in Nat
  <2>1. IsFiniteSet(1 .. Len(s))
    BY FS_Interval
  <2>2. IsFiniteSet({i \in DOMAIN s : s[i].type = type})
    BY <2>1, FS_Subset
  <2> QED
    BY <2>2, FS_CardinalityType DEF Count
<1> QED
  BY <1>1, BoundsAssumption DEF Bytes

\* push_buffer drops between none and all of the frames.
LEMMA EvictType == ASSUME TypeOK, NEW size PROVE Evict(size) \in 0 .. Len(buffer)
<1> DEFINE D == {k \in 1 .. Len(buffer) :
                   SaturatingSub(bufferedBytes, Bytes(SubSeq(buffer, 1, k - 1))) + size
                     > MaxBufferedBytes}
<1>1. Len(buffer) \in Nat
  <2>1. buffer \in Seq(Frames)
    BY DEF TypeOK
  <2> QED
    BY <2>1
<1>2. IsFiniteSet(1 .. Len(buffer)) /\ Cardinality(1 .. Len(buffer)) = Len(buffer)
  <2>1. ASSUME NEW n \in Nat
        PROVE  IsFiniteSet(1 .. n) /\ Cardinality(1 .. n) = n
    <3>1. IsFiniteSet(1 .. n) /\ Cardinality(1 .. n) = IF 1 > n THEN 0 ELSE n - 1 + 1
      BY FS_Interval
    <3> QED
      BY <3>1
  <2> QED
    BY <1>1, <2>1
<1>3. D \in SUBSET (1 .. Len(buffer))
  OBVIOUS
<1>4. Cardinality(D) \in Nat /\ Cardinality(D) <= Len(buffer)
  BY <1>2, <1>3, FS_Subset, FS_CardinalityType
<1>5. Evict(size) = Cardinality(D)
  BY DEF Evict
<1> HIDE DEF D
<1> QED
  BY <1>1, <1>4, <1>5

\* After push_buffer the buffer ends with the new frame.
LEMMA PushBufferType ==
    ASSUME TypeOK, NEW f \in Frames, PushBuffer(f)
    PROVE  /\ buffer' \in Seq(Frames) /\ bufferedBytes' \in Nat
           /\ evicted' \in SUBSET Frames
<1> DEFINE k == Evict(Size(f))
<1>1. k \in 0 .. Len(buffer)
  BY EvictType
<1>2. buffer \in Seq(Frames) /\ evicted \in SUBSET Frames /\ bufferedBytes \in Nat
  BY DEF TypeOK
<1>3. /\ bufferedBytes' = SaturatingSub(bufferedBytes, Bytes(SubSeq(buffer, 1, k))) + Size(f)
      /\ buffer' = Append(SubSeq(buffer, k + 1, Len(buffer)), f)
      /\ evicted' = evicted \cup {buffer[i] : i \in 1 .. k}
  BY DEF PushBuffer
<1>4. Size(f) \in Nat
  BY BoundsAssumption DEF Size
<1> HIDE DEF k
<1>5. SubSeq(buffer, 1, k) \in Seq(Frames) /\ SubSeq(buffer, k + 1, Len(buffer)) \in Seq(Frames)
  BY <1>1, <1>2
<1>6. Bytes(SubSeq(buffer, 1, k)) \in Nat
  BY <1>5, BytesType
<1>7. bufferedBytes' \in Nat
  BY <1>2, <1>3, <1>4, <1>6 DEF SaturatingSub
<1> QED
  BY <1>1, <1>2, <1>3, <1>5, <1>7

\* drain_buffer empties the buffer.
LEMMA DrainType ==
    ASSUME TypeOK, DrainBuffer
    PROVE  buffer' = <<>> /\ bufferedBytes' \in Nat
<1>1. Bytes(buffer) \in Nat
  BY BytesType DEF TypeOK
<1> QED
  BY <1>1 DEF DrainBuffer, SaturatingSub, TypeOK

-----------------------------------------------------------------------------
(* Types. *)

\* A handler that has left the lock with sends to make has some.
HasSends == \A c \in Conns : handler[c] \in {"sending", "direct"} => todo[c] # <<>>

\* The frames a client and the handlers make up are frames.
LEMMA FrameType ==
    \A c \in Conns : \A p \in Nat :
        \A type \in {"Hello", "Meta", "Symbol", "Ready", "Direct", "Done", "Close", "Bad"} :
            Frame(type, c, p) \in Frames
BY DEF Frame, Frames

\* The initial state is well typed.
LEMMA InitType == Init => TypeOK /\ HasSends
<1> SUFFICES ASSUME Init PROVE TypeOK /\ HasSends
  OBVIOUS
<1>1. TypeOK
  <2>1. \A M : [c \in Conns |-> <<>>] \in [Conns -> Seq(M)]
    BY EmptyQueue
  <2>2. buffer \in Seq(Frames) /\ routed \in Seq(Frames)
    BY EmptyQueue DEF Init
  <2>3. /\ client \in [Conns -> ClientStates] /\ handler \in [Conns -> HandlerStates]
        /\ joined \in [Conns -> BOOLEAN] /\ sink \in [Conns -> {"run", "dead"}]
    BY DEF Init, ClientStates, HandlerStates
  <2>4. /\ inq \in [Conns -> Seq(Frames)] /\ todo \in [Conns -> Seq(Sends)]
        /\ chan \in [Conns -> Seq(Frames)] /\ got \in [Conns -> Seq(Frames)]
    BY <2>1, Zenon DEF Init
  <2>5. /\ sent \in [Conns -> Nat] /\ mark \in [Receivers -> Nat] /\ readyAt \in Int
        /\ bufferedBytes \in Nat /\ evicted \in SUBSET Frames
    BY DEF Init
  <2> QED
    BY <2>2, <2>3, <2>4, <2>5, Zenon DEF Init, TypeOK
<1>2. HasSends
  BY DEF Init, HasSends
<1> QED
  BY <1>1, <1>2

\* Steps of the clients keep the types.
LEMMA ClientType == ASSUME TypeOK, HasSends, ClientStep PROVE TypeOK' /\ HasSends'
<1> USE DEF TypeOK, roomVars, connVars, histVars
<1>1. ASSUME UNCHANGED <<handler, todo>> PROVE HasSends'
  BY <1>1, Zenon DEF HasSends
<1>2. ASSUME NEW c \in Conns, NEW f \in Frames, NEW next \in ClientStates, Write(c, f, next),
             sent' \in [Conns -> Nat]
      PROVE  TypeOK' /\ HasSends'
  <2>1. inq' \in [Conns -> Seq(Frames)]
    <3>1. inq' = [inq EXCEPT ![c] = Append(inq[c], f)]
      BY <1>2 DEF Write
    <3> QED
      BY <3>1
  <2>2. client' \in [Conns -> ClientStates]
    BY <1>2 DEF Write
  <2> QED
    BY <1>1, <1>2, <2>1, <2>2, Zenon DEF Write
<1>3. ASSUME NEW c \in Conns, Connect(c) PROVE TypeOK' /\ HasSends'
  <2>1. inq' \in [Conns -> Seq(Frames)]
    <3>1. Frame("Hello", c, 0) \in Frames
      BY FrameType
    <3>2. inq' = [inq EXCEPT ![c] = Append(inq[c], Frame("Hello", c, 0))]
      BY <1>3 DEF Connect
    <3> QED
      BY <3>1, <3>2
  <2>2. client' \in [Conns -> ClientStates] /\ handler' \in [Conns -> HandlerStates]
    BY <1>3 DEF Connect, ClientStates, HandlerStates
  <2>3. HasSends'
    BY <1>3 DEF Connect, HasSends
  <2> QED
    BY <1>3, <2>1, <2>2, <2>3, Zenon DEF Connect
<1>4. ASSUME NEW c \in Conns, Vanish(c) PROVE TypeOK' /\ HasSends'
  <2>1. PICK kept \in {inq[c], <<>>} : inq' = [inq EXCEPT ![c] = kept]
    BY <1>4 DEF Vanish
  <2>2. inq' \in [Conns -> Seq(Frames)]
    BY <2>1, EmptyQueue
  <2>3. client' \in [Conns -> ClientStates]
    BY <1>4 DEF Vanish, ClientStates
  <2> QED
    BY <1>1, <1>4, <2>2, <2>3, Zenon DEF Vanish
<1>5. ASSUME NEW s \in Senders, Emit(s) PROVE TypeOK' /\ HasSends'
  <2>1. s \in Conns /\ sent[s] \in Nat /\ "up" \in ClientStates
    BY DEF Conns, ClientStates
  <2>2. Frame(IF sent[s] = 0 THEN "Meta" ELSE "Symbol", s, sent[s]) \in Frames
    BY <2>1, FrameType
  <2>3. sent' \in [Conns -> Nat]
    BY <1>5, <2>1 DEF Emit
  <2> QED
    BY <1>2, <1>5, <2>1, <2>2, <2>3, Zenon DEF Emit
<1>6. ASSUME NEW r \in Receivers, Advertise(r) PROVE TypeOK' /\ HasSends'
  <2>1. r \in Conns /\ sent[r] \in Nat /\ client[r] \in ClientStates
    BY DEF Conns
  <2>2. Frame("Direct", r, sent[r]) \in Frames
    BY <2>1, FrameType
  <2>3. sent' \in [Conns -> Nat]
    BY <1>6, <2>1 DEF Advertise
  <2> QED
    BY <1>2, <1>6, <2>1, <2>2, <2>3, Zenon DEF Advertise
<1>7. ASSUME NEW c \in Conns PROVE /\ Frame("Ready", c, 0) \in Frames /\ Frame("Close", c, 0) \in Frames
                                   /\ Frame("Done", c, 0) \in Frames /\ Frame("Bad", c, 0) \in Frames
  BY FrameType
<1>8. "ready" \in ClientStates /\ "closing" \in ClientStates
  BY DEF ClientStates
<1>9. ASSUME NEW c \in Conns, Acknowledge(c) \/ SendClose(c) \/ Abort(c) \/ SendBad(c)
      PROVE  TypeOK' /\ HasSends'
  BY <1>2, <1>7, <1>8, <1>9, Zenon DEF Acknowledge, SendClose, Abort, SendBad
<1>10. ASSUME NEW c \in Conns, Crash(c) \/ SenderExit(c) \/ Drained(c)
      PROVE  TypeOK' /\ HasSends'
  BY <1>4, <1>10, Zenon DEF Crash, SenderExit, Drained
<1> QED
  BY <1>3, <1>5, <1>6, <1>9, <1>10, Zenon DEF ClientStep, Conns

\* Leaving the lock keeps the handler and its sends consistent.
LEMMA ThenType ==
    ASSUME TypeOK, HasSends, NEW c \in Conns, NEW ss \in Seq(Sends), Then(c, ss)
    PROVE  /\ todo' \in [Conns -> Seq(Sends)] /\ handler' \in [Conns -> HandlerStates]
           /\ HasSends'
<1>1. /\ todo' = [todo EXCEPT ![c] = ss]
      /\ handler' = [handler EXCEPT ![c] = IF ss = <<>> THEN "reading" ELSE "sending"]
  BY DEF Then
<1>2. todo \in [Conns -> Seq(Sends)] /\ handler \in [Conns -> HandlerStates]
  BY DEF TypeOK
<1>3. todo' \in [Conns -> Seq(Sends)] /\ handler' \in [Conns -> HandlerStates]
  BY <1>1, <1>2 DEF HandlerStates
<1>4. HasSends'
  BY <1>1, <1>2 DEF HasSends
<1> QED
  BY <1>3, <1>4

\* Reading a frame off the wire keeps the types, and the frame is a frame.
LEMMA ReadType ==
    ASSUME TypeOK, NEW c \in Conns, NEW types, Read(c, types)
    PROVE  /\ Head(inq[c]) \in Frames /\ Head(inq[c]).type \in types
           /\ inq' \in [Conns -> Seq(Frames)] /\ joined' \in [Conns -> BOOLEAN]
<1>1. /\ inq[c] # <<>> /\ Head(inq[c]).type \in types
      /\ inq' = [inq EXCEPT ![c] = Tail(@)]
      /\ joined' = [joined EXCEPT ![c] = TRUE]
  BY Zenon DEF Read
<1>2. inq \in [Conns -> Seq(Frames)] /\ joined \in [Conns -> BOOLEAN]
  BY DEF TypeOK
<1>3. inq[c] \in Seq(Frames)
  BY <1>2
<1>4. Head(inq[c]) \in Frames /\ Tail(inq[c]) \in Seq(Frames)
  BY <1>1, <1>3, QueueTypes
<1> QED
  BY <1>1, <1>2, <1>4

\* A send to a connection.
LEMMA SendType ==
    \A c \in Conns \cup {NoConn} : \A f \in Frames : <<[to |-> c, frame |-> f]>> \in Seq(Sends)
BY DEF Sends

\* A removed room is well typed.
LEMMA RemoveRoomType ==
    ASSUME RemoveRoom
    PROVE  /\ open' \in BOOLEAN /\ sender' \in Senders \cup {NoConn}
           /\ receiver' \in Receivers \cup {NoConn} /\ buffer' \in Seq(Frames)
           /\ bufferedBytes' \in Nat /\ pendingDirect' \in Frames \cup {NoFrame}
           /\ receiverDone' \in BOOLEAN /\ readyAt' \in Int
<1>1. bufferedBytes' \in Nat /\ readyAt' \in Int
  BY SMT DEF RemoveRoom
<1>2. buffer' \in Seq(Frames)
  BY EmptyQueue, Zenon DEF RemoveRoom
<1> QED
  BY <1>1, <1>2, Zenon DEF RemoveRoom

\* Steps of the handlers keep the types.
LEMMA HandlerType ==
    ASSUME TypeOK, HasSends, NEW c \in Conns, HandlerStep(c)
    PROVE  TypeOK' /\ HasSends'
<1> USE DEF TypeOK, roomVars, connVars, histVars
<1>0. ASSUME NEW h \in HandlerStates, h \notin {"sending", "direct"},
             handler' = [handler EXCEPT ![c] = h], UNCHANGED todo
      PROVE  handler' \in [Conns -> HandlerStates] /\ HasSends'
  BY <1>0 DEF HasSends
<1>1. CASE c \in Senders /\ RouteHelloSender(c)
  <2>1. inq' \in [Conns -> Seq(Frames)] /\ joined' \in [Conns -> BOOLEAN]
    BY <1>1, ReadType DEF RouteHelloSender
  <2>2. CASE pendingDirect = NoFrame
    <3>1. Then(c, <<>>)
      BY <1>1, <2>2 DEF RouteHelloSender
    <3>2. todo' \in [Conns -> Seq(Sends)] /\ handler' \in [Conns -> HandlerStates] /\ HasSends'
      BY <3>1, ThenType, EmptyQueue
    <3> QED
      BY <1>1, <2>1, <3>2, Zenon DEF RouteHelloSender
  <2>3. CASE pendingDirect # NoFrame
    <3>1. /\ todo' = [todo EXCEPT ![c] = <<[to |-> NoConn, frame |-> pendingDirect]>>]
          /\ handler' = [handler EXCEPT ![c] = "direct"]
      BY <1>1, <2>3, Zenon DEF RouteHelloSender
    <3>2. <<[to |-> NoConn, frame |-> pendingDirect]>> \in Seq(Sends)
      BY <2>3, SendType
    <3>3. todo' \in [Conns -> Seq(Sends)] /\ handler' \in [Conns -> HandlerStates]
      BY <3>1, <3>2 DEF HandlerStates
    <3>4. HasSends'
      BY <3>1 DEF HasSends
    <3> QED
      BY <1>1, <2>1, <3>3, <3>4, Zenon DEF RouteHelloSender
  <2> QED
    BY <2>2, <2>3
<1>2. CASE FlushDirect(c)
  <2>1. todo[c] # <<>> /\ todo[c] \in Seq(Sends)
    BY <1>2 DEF FlushDirect, HasSends
  <2>2. todo[c][1].frame \in Frames
    <3>1. todo[c][1] \in Sends
      BY <2>1
    <3> QED
      BY <3>1 DEF Sends
  <2>3. (IF sender = NoConn THEN <<>> ELSE <<[to |-> sender, frame |-> todo[c][1].frame]>>) \in Seq(Sends)
    BY <2>2, SendType, EmptyQueue DEF Conns
  <2>4. todo' \in [Conns -> Seq(Sends)] /\ handler' \in [Conns -> HandlerStates] /\ HasSends'
    BY <1>2, <2>3, ThenType DEF FlushDirect
  <2> QED
    BY <1>2, <2>4, Zenon DEF FlushDirect
<1>3. CASE c \in Senders /\ RouteData(c)
  <2> DEFINE f == Head(inq[c])
  <2>1. f \in Frames /\ inq' \in [Conns -> Seq(Frames)] /\ joined' \in [Conns -> BOOLEAN]
    BY <1>3, ReadType DEF RouteData
  <2> HIDE DEF f
  <2>2. DataTarget(f) \in Seq(Sends)
    BY <2>1, SendType, EmptyQueue DEF DataTarget, Conns
  <2>3. todo' \in [Conns -> Seq(Sends)] /\ handler' \in [Conns -> HandlerStates] /\ HasSends'
    BY <1>3, <2>2, ThenType DEF RouteData, f
  <2>4. routed' \in Seq(Frames)
    BY <1>3, <2>1 DEF RouteData, f
  <2>5. CASE DataBuffered
    <3>1. PushBuffer(f) /\ open' = TRUE
      BY <1>3, <2>5 DEF RouteData, f
    <3>2. buffer' \in Seq(Frames) /\ bufferedBytes' \in Nat /\ evicted' \in SUBSET Frames
      BY <2>1, <3>1, PushBufferType
    <3> QED
      BY <1>3, <2>1, <2>3, <2>4, <3>1, <3>2, Zenon DEF RouteData
  <2>6. CASE ~DataBuffered
    BY <1>3, <2>1, <2>3, <2>4, <2>6, Zenon DEF RouteData
  <2> QED
    BY <2>5, <2>6
<1>5. CASE c \in Senders /\ RouteDone(c)
  <2>1. inq' \in [Conns -> Seq(Frames)] /\ joined' \in [Conns -> BOOLEAN]
    BY <1>5, ReadType DEF RouteDone
  <2>2. todo' \in [Conns -> Seq(Sends)] /\ handler' \in [Conns -> HandlerStates] /\ HasSends'
    BY <1>5, ThenType, EmptyQueue DEF RouteDone
  <2> QED
    BY RemoveRoomType, <1>5, <2>1, <2>2, Zenon DEF RouteDone
<1>6. CASE c \in Receivers /\ RouteHelloReceiver(c)
  <2>1. inq' \in [Conns -> Seq(Frames)] /\ joined' \in [Conns -> BOOLEAN]
    BY <1>6, ReadType DEF RouteHelloReceiver
  <2>2. FlushSends(c) \in Seq(Sends)
    <3>1. buffer \in Seq(Frames)
      OBVIOUS
    <3>2. \A i \in DOMAIN buffer : [to |-> c, frame |-> buffer[i]] \in Sends
      BY <3>1 DEF Sends
    <3>3. FlushSends(c) = [i \in 1 .. Len(buffer) |-> [to |-> c, frame |-> buffer[i]]]
      BY <3>1 DEF FlushSends
    <3> QED
      BY <3>1, <3>2, <3>3
  <2>3. todo' \in [Conns -> Seq(Sends)] /\ handler' \in [Conns -> HandlerStates] /\ HasSends'
    BY <1>6, <2>2, ThenType DEF RouteHelloReceiver
  <2>4. buffer' \in Seq(Frames) /\ bufferedBytes' \in Nat
    BY <1>6, DrainType, EmptyQueue DEF RouteHelloReceiver
  <2>5. mark' \in [Receivers -> Nat]
    BY <1>6 DEF RouteHelloReceiver
  <2> QED
    BY <1>6, <2>1, <2>3, <2>4, <2>5, Zenon DEF RouteHelloReceiver
<1>7. CASE c \in Receivers /\ RouteReady(c)
  <2>1. /\ Head(inq[c]) \in Frames
        /\ inq' \in [Conns -> Seq(Frames)] /\ joined' \in [Conns -> BOOLEAN]
    BY <1>7, ReadType DEF RouteReady
  <2>2. (IF sender = NoConn THEN <<>> ELSE <<[to |-> sender, frame |-> Head(inq[c])]>>) \in Seq(Sends)
    BY <2>1, SendType, EmptyQueue DEF Conns
  <2>3. todo' \in [Conns -> Seq(Sends)] /\ handler' \in [Conns -> HandlerStates] /\ HasSends'
    BY <1>7, <2>2, ThenType DEF RouteReady
  <2>4. readyAt' \in Int
    BY <1>7 DEF RouteReady
  <2> QED
    BY <1>7, <2>1, <2>3, <2>4, Zenon DEF RouteReady
<1>8. CASE c \in Receivers /\ RouteDirect(c)
  <2>1. /\ Head(inq[c]) \in Frames
        /\ inq' \in [Conns -> Seq(Frames)] /\ joined' \in [Conns -> BOOLEAN]
    BY <1>8, ReadType DEF RouteDirect
  <2>2. <<[to |-> sender, frame |-> Head(inq[c])]>> \in Seq(Sends) /\ <<>> \in Seq(Sends)
    BY <2>1, SendType, EmptyQueue DEF Conns
  <2>3. todo' \in [Conns -> Seq(Sends)] /\ handler' \in [Conns -> HandlerStates] /\ HasSends'
    BY <1>8, <2>2, ThenType DEF RouteDirect
  <2> QED
    BY <1>8, <2>1, <2>3, Zenon DEF RouteDirect
<1>9. CASE RouteBad(c)
  <2>1. inq' \in [Conns -> Seq(Frames)]
    BY <1>9 DEF RouteBad
  <2>2. handler' \in [Conns -> HandlerStates] /\ HasSends'
    BY <1>0, <1>9 DEF RouteBad, HandlerStates
  <2> QED
    BY <1>9, <2>1, <2>2, Zenon DEF RouteBad
<1>10. CASE SendNext(c)
  <2>1. todo[c] # <<>> /\ todo[c] \in Seq(Sends)
    BY <1>10 DEF SendNext, HasSends
  <2>2. Head(todo[c]) \in Sends /\ Tail(todo[c]) \in Seq(Sends)
    BY <2>1, QueueTypes
  <2>3. Head(todo[c]).to \in Conns \cup {NoConn} /\ Head(todo[c]).frame \in Frames
    BY <2>2 DEF Sends
  <2>4. chan' \in [Conns -> Seq(Frames)]
    <3> DEFINE d == Head(todo[c]).to
               g == Head(todo[c]).frame
    <3>1. chan' = chan \/ chan' = [chan EXCEPT ![d] = Append(chan[d], g)]
      BY <1>10, Zenon DEF SendNext
    <3>2. d \in Conns => Append(chan[d], g) \in Seq(Frames)
      BY <2>3
    <3>3. g \in Frames /\ d \in Conns \cup {NoConn}
      BY <2>3
    <3> HIDE DEF d, g
    <3> QED
      BY <3>1, <3>2, <3>3
  <2>5. todo' \in [Conns -> Seq(Sends)] /\ handler' \in [Conns -> HandlerStates] /\ HasSends'
    BY <1>10, <2>2, ThenType DEF SendNext
  <2> QED
    BY <1>10, <2>4, <2>5, Zenon DEF SendNext
<1>11. CASE ReadClose(c)
  <2>1. inq' \in [Conns -> Seq(Frames)]
    BY <1>11 DEF ReadClose
  <2>2. handler' \in [Conns -> HandlerStates] /\ HasSends'
    BY <1>0, <1>11 DEF ReadClose, HandlerStates
  <2>3. chan' \in [Conns -> Seq(Frames)]
    <3>1. Append(chan[c], Frame("Close", c, 0)) \in Seq(Frames)
      BY FrameType
    <3>2. chan' = chan \/ chan' = [chan EXCEPT ![c] = Append(chan[c], Frame("Close", c, 0))]
      BY <1>11, Zenon DEF ReadClose
    <3> QED
      BY <3>1, <3>2
  <2> QED
    BY <1>11, <2>1, <2>2, <2>3, Zenon DEF ReadClose
<1>12. CASE ReadEnd(c)
  <2>1. handler' \in [Conns -> HandlerStates] /\ HasSends'
    BY <1>0, <1>12 DEF ReadEnd, HandlerStates
  <2> QED
    BY <1>12, <2>1, Zenon DEF ReadEnd
<1>13. CASE LeaveRoom(c)
  <2>1. handler' \in [Conns -> HandlerStates] /\ HasSends'
    BY <1>0, <1>13 DEF LeaveRoom, HandlerStates
  <2>2. Clear(sender, c) \in Senders \cup {NoConn} /\ Clear(receiver, c) \in Receivers \cup {NoConn}
    BY Zenon DEF Clear
  <2> QED
    BY RemoveRoomType, <1>13, <2>1, <2>2, Zenon DEF LeaveRoom
<1>14. CASE AbortSink(c)
  <2>1. handler' \in [Conns -> HandlerStates] /\ HasSends'
    BY <1>0, <1>14 DEF AbortSink, HandlerStates
  <2>2. sink' \in [Conns -> {"run", "dead"}] /\ chan' \in [Conns -> Seq(Frames)]
    BY <1>14, EmptyQueue DEF AbortSink
  <2> QED
    BY <1>14, <2>1, <2>2, Zenon DEF AbortSink
<1> QED
  BY <1>1, <1>2, <1>3, <1>5, <1>6, <1>7, <1>8, <1>9, <1>10, <1>11, <1>12, <1>13, <1>14, Zenon
  DEF HandlerStep

\* Steps of the sink tasks keep the types.
LEMMA SinkType ==
    ASSUME TypeOK, HasSends, NEW c \in Conns, SinkStep(c)
    PROVE  TypeOK' /\ HasSends'
<1> USE DEF TypeOK, roomVars, histVars
<1>1. UNCHANGED <<handler, todo>>
  BY Zenon DEF SinkStep, Deliver, DeliverFails, SinkEnds
<1>2. HasSends'
  BY <1>1, Zenon DEF HasSends
<1>3. chan[c] # <<>> => Tail(chan[c]) \in Seq(Frames) /\ Head(chan[c]) \in Frames
  <2>1. chan[c] \in Seq(Frames)
    OBVIOUS
  <2> QED
    BY <2>1, QueueTypes
<1>4. CASE Deliver(c)
  <2>1. /\ chan' = [chan EXCEPT ![c] = Tail(chan[c])] /\ chan[c] # <<>>
        /\ got' = [got EXCEPT ![c] = Append(got[c], Head(chan[c]))]
    BY <1>4, Zenon DEF Deliver
  <2>2. chan' \in [Conns -> Seq(Frames)] /\ got' \in [Conns -> Seq(Frames)]
    BY <1>3, <2>1
  <2> QED
    BY <1>2, <1>4, <2>2, Zenon DEF Deliver
<1>5. CASE DeliverFails(c)
  <2>1. chan[c] # <<>> /\ (chan' = [chan EXCEPT ![c] = Tail(chan[c])] \/ chan' = [chan EXCEPT ![c] = <<>>])
    BY <1>5, Zenon DEF DeliverFails
  <2>2. chan' \in [Conns -> Seq(Frames)]
    BY <1>3, <2>1, EmptyQueue
  <2>3. sink' = sink \/ sink' = [sink EXCEPT ![c] = "dead"]
    BY <1>5, Zenon DEF DeliverFails
  <2>4. sink' \in [Conns -> {"run", "dead"}]
    BY <2>3
  <2> QED
    BY <1>2, <1>5, <2>2, <2>4, Zenon DEF DeliverFails
<1>6. CASE SinkEnds(c)
  <2>1. sink' \in [Conns -> {"run", "dead"}]
    BY <1>6 DEF SinkEnds
  <2> QED
    BY <1>2, <1>6, <2>1, Zenon DEF SinkEnds
<1> QED
  BY <1>4, <1>5, <1>6, Zenon DEF SinkStep

\* Every step keeps the types.
LEMMA StepType == TypeOK /\ HasSends /\ [Next]_vars => TypeOK' /\ HasSends'
<1> SUFFICES ASSUME TypeOK, HasSends, [Next]_vars PROVE TypeOK' /\ HasSends'
  OBVIOUS
<1>1. CASE Next
  BY <1>1, ClientType, HandlerType, SinkType, Zenon DEF Next
<1>2. CASE UNCHANGED vars
  BY <1>2, Zenon DEF vars, roomVars, connVars, histVars, TypeOK, HasSends
<1> QED
  BY <1>1, <1>2

\* The relay's state stays well typed: the room, the connections' queues and
\* the position of every handler (lib.rs:76-119, 169-438).
THEOREM TypeCorrect == Spec => []TypeOK
<1>1. Spec => [](TypeOK /\ HasSends)
  BY InitType, StepType, PTL DEF Spec
<1> QED
  BY <1>1, PTL

-----------------------------------------------------------------------------
(* Registrations. *)

\* A room that is not in the map has no registrations.
ClosedIsEmpty == ~open => sender = NoConn /\ receiver = NoConn

Reg == RegistrationSound /\ ClosedIsEmpty

\* A connection that has joined and not left: its handler runs, or was ended by a
\* frame that does not parse.
Served(c) == joined[c] /\ handler[c] \notin {"idle", "left", "closed"}

\* A step that keeps the room, and moves no served handler to "left",
\* "closed" or "idle", keeps the registrations.
LEMMA RegKept ==
    ASSUME TypeOK, Reg,
           UNCHANGED <<open, sender, receiver, buffer>>,
           \A c \in Conns : Served(c) => Served(c)'
    PROVE  Reg'
<1>1. sender # NoConn => sender \in Conns /\ Served(sender)
  BY DEF Reg, RegistrationSound, TypeOK, Conns, Served
<1>2. receiver # NoConn => receiver \in Conns /\ Served(receiver)
  BY DEF Reg, RegistrationSound, TypeOK, Conns, Served
<1>3. sender # NoConn => Served(sender)'
  BY <1>1, Zenon DEF Served
<1>4. receiver # NoConn => Served(receiver)'
  BY <1>2, Zenon DEF Served
<1> QED
  BY <1>3, <1>4, Zenon DEF Reg, RegistrationSound, ClosedIsEmpty, Served

\* The new value of one entry of handler or joined, and the others.
LEMMA ServedAfter ==
    ASSUME TypeOK, NEW c \in Conns, NEW h, h \notin {"idle", "left", "closed"},
           handler' = [handler EXCEPT ![c] = h] \/ handler' = handler,
           joined' = [joined EXCEPT ![c] = TRUE] \/ joined' = joined
    PROVE  \A d \in Conns : Served(d) => Served(d)'
<1> SUFFICES ASSUME NEW d \in Conns, Served(d) PROVE Served(d)'
  OBVIOUS
<1>1. handler'[d] = handler[d] \/ handler'[d] = h
  BY DEF TypeOK
<1>2. joined'[d] = joined[d] \/ joined'[d] = TRUE
  BY DEF TypeOK
<1> QED
  BY <1>1, <1>2, Zenon DEF Served

\* Leaving the lock leaves the handler serving.
LEMMA ThenServes ==
    ASSUME NEW c \in Conns, NEW ss, Then(c, ss)
    PROVE  \E h : /\ h \notin {"idle", "left", "closed"}
                  /\ handler' = [handler EXCEPT ![c] = h]
<1>1. CASE ss = <<>>
  <2>1. handler' = [handler EXCEPT ![c] = "reading"]
    BY <1>1, Zenon DEF Then
  <2> QED
    BY <2>1
<1>2. CASE ss # <<>>
  <2>1. handler' = [handler EXCEPT ![c] = "sending"]
    BY <1>2, Zenon DEF Then
  <2> QED
    BY <2>1
<1> QED
  BY <1>1, <1>2

\* No step disturbs a registration it does not end.
LEMMA RegStep == ASSUME TypeOK, HasSends, Reg, Next PROVE Reg'
<1> USE DEF roomVars, connVars, histVars
<1>1. CASE ClientStep
  <2>1. UNCHANGED <<open, sender, receiver, buffer, joined>>
    BY <1>1, Zenon DEF ClientStep, Connect, SendBad, Crash, Emit, Abort, SenderExit, Advertise,
                       Acknowledge, SendClose, Drained, Write, Vanish
  <2>2. \E c \in Conns : handler' = [handler EXCEPT ![c] = "reading"] \/ handler' = handler
    BY <1>1, Zenon DEF ClientStep, Connect, SendBad, Crash, Emit, Abort, SenderExit, Advertise,
                       Acknowledge, SendClose, Drained, Write, Vanish, Conns
  <2> QED
    BY <2>1, <2>2, ServedAfter, RegKept
<1>2. ASSUME NEW c \in Conns, SinkStep(c) PROVE Reg'
  <2>1. UNCHANGED <<open, sender, receiver, buffer, joined, handler>>
    BY <1>2, Zenon DEF SinkStep, Deliver, DeliverFails, SinkEnds
  <2> QED
    BY <2>1, RegKept, Zenon DEF Served
<1>3. ASSUME NEW c \in Conns, HandlerStep(c) PROVE Reg'
  <2>1. ASSUME NEW h, h \notin {"idle", "left", "closed"},
               handler' = [handler EXCEPT ![c] = h],
               joined' = [joined EXCEPT ![c] = TRUE]
        PROVE  Served(c)' /\ \A d \in Conns : Served(d) => Served(d)'
    <3>1. \A d \in Conns : Served(d) => Served(d)'
      BY <2>1, ServedAfter
    <3>2. handler'[c] = h /\ joined'[c]
      BY <2>1 DEF TypeOK
    <3> QED
      BY <2>1, <3>1, <3>2, Zenon DEF Served
  <2>2. CASE c \in Senders /\ RouteHelloSender(c)
    <3>1. joined' = [joined EXCEPT ![c] = TRUE]
      BY <2>2, Zenon DEF RouteHelloSender, Read
    <3>2. \E h : /\ h \notin {"idle", "left", "closed"}
                 /\ handler' = [handler EXCEPT ![c] = h]
      <4>1. CASE pendingDirect = NoFrame
        BY <2>2, <4>1, ThenServes DEF RouteHelloSender
      <4>2. CASE pendingDirect # NoFrame
        <5>1. handler' = [handler EXCEPT ![c] = "direct"]
          BY <2>2, <4>2, Zenon DEF RouteHelloSender
        <5> QED
          BY <5>1
      <4> QED
        BY <4>1, <4>2
    <3>3. Served(c)' /\ \A d \in Conns : Served(d) => Served(d)'
      BY <2>1, <3>1, <3>2
    <3>4. open' /\ sender' = c /\ UNCHANGED <<receiver, buffer>>
      BY <2>2, Zenon DEF RouteHelloSender
    <3>5. receiver # NoConn => receiver \in Conns /\ Served(receiver)
      BY DEF Reg, RegistrationSound, TypeOK, Conns, Served
    <3> QED
      BY <3>3, <3>4, <3>5, Zenon DEF Reg, RegistrationSound, ClosedIsEmpty, Served
  <2>3. CASE c \in Receivers /\ RouteHelloReceiver(c)
    <3>1. joined' = [joined EXCEPT ![c] = TRUE]
      BY <2>3, Zenon DEF RouteHelloReceiver, Read
    <3>2. \E h : /\ h \notin {"idle", "left", "closed"}
                 /\ handler' = [handler EXCEPT ![c] = h]
      BY <2>3, ThenServes DEF RouteHelloReceiver
    <3>3. Served(c)' /\ \A d \in Conns : Served(d) => Served(d)'
      BY <2>1, <3>1, <3>2
    <3>4. open' /\ receiver' = c /\ UNCHANGED sender /\ buffer' = <<>>
      BY <2>3, Zenon DEF RouteHelloReceiver, DrainBuffer
    <3>5. sender # NoConn => sender \in Conns /\ Served(sender)
      BY DEF Reg, RegistrationSound, TypeOK, Conns, Served
    <3> QED
      BY <3>3, <3>4, <3>5, Zenon DEF Reg, RegistrationSound, ClosedIsEmpty, Served
  <2>4. CASE c \in Senders /\ RouteData(c)
    <3>1. joined' = [joined EXCEPT ![c] = TRUE]
      BY <2>4, Zenon DEF RouteData, Read
    <3>2. \E h : /\ h \notin {"idle", "left", "closed"}
                 /\ handler' = [handler EXCEPT ![c] = h]
      BY <2>4, ThenServes DEF RouteData
    <3>3. \A d \in Conns : Served(d) => Served(d)'
      BY <2>1, <3>1, <3>2
    <3>4. UNCHANGED <<sender, receiver>> /\ (open' \/ UNCHANGED open)
      BY <2>4, Zenon DEF RouteData
    <3>5. receiver # NoConn => buffer' = buffer
      BY <2>4, Zenon DEF RouteData, DataBuffered
    <3>6. /\ sender # NoConn => sender \in Conns /\ Served(sender)
          /\ receiver # NoConn => receiver \in Conns /\ Served(receiver)
      BY DEF Reg, RegistrationSound, TypeOK, Conns, Served
    <3> QED
      BY <3>3, <3>4, <3>5, <3>6, Zenon DEF Reg, RegistrationSound, ClosedIsEmpty, Served
  <2>5. CASE c \in Senders /\ RouteDone(c)
    BY <2>5, Zenon DEF RouteDone, RemoveRoom, Reg, RegistrationSound, ClosedIsEmpty
  <2>6. CASE \/ c \in Receivers /\ (RouteReady(c) \/ RouteDirect(c))
             \/ c \in Senders /\ FlushDirect(c)
             \/ SendNext(c)
    <3>1. joined' = [joined EXCEPT ![c] = TRUE] \/ joined' = joined
      BY <2>6, Zenon DEF RouteReady, RouteDirect, FlushDirect, SendNext, Read
    <3>2. \E ss : Then(c, ss)
      BY <2>6, Zenon DEF RouteReady, RouteDirect, FlushDirect, SendNext
    <3>3. \E h : /\ h \notin {"idle", "left", "closed"}
                 /\ handler' = [handler EXCEPT ![c] = h]
      BY <3>2, ThenServes
    <3>4. \A d \in Conns : Served(d) => Served(d)'
      BY <3>1, <3>3, ServedAfter
    <3>5. UNCHANGED <<sender, receiver, buffer>> /\ (open' \/ UNCHANGED open)
      BY <2>6, Zenon DEF RouteReady, RouteDirect, FlushDirect, SendNext
    <3>6. /\ sender # NoConn => sender \in Conns /\ Served(sender)
          /\ receiver # NoConn => receiver \in Conns /\ Served(receiver)
      BY DEF Reg, RegistrationSound, TypeOK, Conns, Served
    <3> QED
      BY <3>4, <3>5, <3>6, Zenon DEF Reg, RegistrationSound, ClosedIsEmpty, Served
  <2>7. CASE RouteBad(c) \/ ReadClose(c) \/ ReadEnd(c)
    <3>1. UNCHANGED <<open, sender, receiver, buffer, joined>>
      BY <2>7, Zenon DEF RouteBad, ReadClose, ReadEnd
    <3>2. handler' = [handler EXCEPT ![c] = "aborted"] \/ handler' = [handler EXCEPT ![c] = "leaving"]
      BY <2>7, Zenon DEF RouteBad, ReadClose, ReadEnd
    <3> QED
      BY <3>1, <3>2, ServedAfter, RegKept
  <2>8. CASE LeaveRoom(c)
    <3>1. CASE joined[c] /\ open
      <4>1. CASE RoomAbandoned(Clear(sender, c), Clear(receiver, c))
        BY <2>8, <3>1, <4>1, Zenon
        DEF LeaveRoom, RemoveRoom, Reg, RegistrationSound, ClosedIsEmpty
      <4>2. CASE ~RoomAbandoned(Clear(sender, c), Clear(receiver, c))
        <5>1. /\ sender' = Clear(sender, c) /\ receiver' = Clear(receiver, c)
              /\ UNCHANGED <<open, buffer, joined>>
              /\ handler' = [handler EXCEPT ![c] = "left"]
          BY <2>8, <3>1, <4>2, Zenon DEF LeaveRoom
        <5>2. \A d \in Conns : d # c => handler'[d] = handler[d]
          BY <5>1 DEF TypeOK
        <5>3. /\ sender' # NoConn => sender' = sender /\ sender # c
              /\ receiver' # NoConn => receiver' = receiver /\ receiver # c
          BY <5>1, Zenon DEF Clear
        <5>4. /\ sender # NoConn => sender \in Conns /\ Served(sender)
              /\ receiver # NoConn => receiver \in Conns /\ Served(receiver)
          BY DEF Reg, RegistrationSound, TypeOK, Conns, Served
        <5>5. /\ sender' # NoConn => joined'[sender'] /\ handler'[sender'] \notin {"idle", "left", "closed"}
              /\ receiver' # NoConn => joined'[receiver'] /\ handler'[receiver'] \notin {"idle", "left", "closed"}
          BY <5>1, <5>2, <5>3, <5>4, Zenon DEF Served
        <5>6. receiver' # NoConn => buffer' = <<>>
          BY <5>1, <5>3, Zenon DEF Reg, RegistrationSound
        <5>7. ClosedIsEmpty'
          BY <3>1, <5>1, Zenon DEF ClosedIsEmpty
        <5> QED
          BY <5>5, <5>6, <5>7, Zenon DEF Reg, RegistrationSound
      <4> QED
        BY <4>1, <4>2
    <3>2. CASE ~(joined[c] /\ open)
      <4>1. sender # c /\ receiver # c
        <5>1. c # NoConn
          BY ConnsAssumption DEF Conns
        <5> QED
          BY <3>2, <5>1, Zenon DEF Reg, RegistrationSound, ClosedIsEmpty
      <4>2. UNCHANGED <<open, sender, receiver, buffer, joined>> /\ handler' = [handler EXCEPT ![c] = "left"]
        BY <2>8, <3>2, Zenon DEF LeaveRoom
      <4>3. \A d \in Conns : d # c => handler'[d] = handler[d]
        BY <4>2 DEF TypeOK
      <4>4. /\ sender # NoConn => sender \in Conns /\ Served(sender)
            /\ receiver # NoConn => receiver \in Conns /\ Served(receiver)
        BY DEF Reg, RegistrationSound, TypeOK, Conns, Served
      <4> QED
        BY <4>1, <4>2, <4>3, <4>4, Zenon DEF Reg, RegistrationSound, ClosedIsEmpty, Served
    <3> QED
      BY <3>1, <3>2
  <2>9. CASE AbortSink(c)
    <3>1. /\ UNCHANGED <<open, sender, receiver, buffer, joined>> /\ handler[c] = "left"
          /\ handler' = [handler EXCEPT ![c] = "closed"]
      BY <2>9, Zenon DEF AbortSink
    <3>2. \A d \in Conns : d # c => handler'[d] = handler[d]
      BY <3>1 DEF TypeOK
    <3>3. \A d \in Conns : Served(d) => Served(d)'
      BY <3>1, <3>2, Zenon DEF Served
    <3> QED
      BY <3>1, <3>3, RegKept
  <2> QED
    BY <1>3, <2>2, <2>3, <2>4, <2>5, <2>6, <2>7, <2>8, <2>9, Zenon DEF HandlerStep
<1> QED
  BY <1>1, <1>2, <1>3, Zenon DEF Next

\* Every reachable state is well typed and its registrations are sound.
LEMMA RegInvariant == Spec => [](TypeOK /\ HasSends /\ Reg)
<1>1. Init => Reg
  BY Zenon DEF Init, Reg, RegistrationSound, ClosedIsEmpty
<1>2. TypeOK /\ HasSends /\ Reg /\ [Next]_vars => Reg'
  <2> SUFFICES ASSUME TypeOK, HasSends, Reg, [Next]_vars PROVE Reg'
    OBVIOUS
  <2>1. CASE UNCHANGED vars
    BY <2>1, Zenon DEF vars, roomVars, connVars, Reg, RegistrationSound, ClosedIsEmpty
  <2> QED
    BY <2>1, RegStep
<1> QED
  BY <1>1, <1>2, InitType, StepType, PTL DEF Spec

\* A registration belongs to a connection that has still to leave the room, or
\* never will because a frame that does not parse has ended its handler, and a
\* registered receiver has been handed the whole buffer: route's Hello and
\* leave_room leave no other stale entry behind, whatever connections displace
\* each other (lib.rs:195-200, 231-278, 415-438).
THEOREM Registrations == Spec => []RegistrationSound
<1>1. Reg => RegistrationSound
  BY DEF Reg
<1> QED
  BY <1>1, RegInvariant, PTL

-----------------------------------------------------------------------------
(* The end of a registration. *)

\* A client that has not connected has nothing on the wire, and a Hello is the
\* first frame of its connection: while it is on the wire nothing of the
\* connection has been routed.
HelloIsFirst(cl, q, j) ==
    /\ cl = "new" => q = <<>> /\ ~j
    /\ \A i \in DOMAIN q : q[i].type = "Hello" => i = 1 /\ ~j

HelloFirst == \A c \in Conns : HelloIsFirst(client[c], inq[c], joined[c])

\* Reading the head of a queue leaves no Hello in it.
LEMMA HelloRead ==
    ASSUME NEW q \in Seq(Frames), q # <<>>, NEW cl, NEW j, NEW k, HelloIsFirst(cl, q, j)
    PROVE  HelloIsFirst(cl, Tail(q), k) /\ (Head(q).type = "Hello" => ~j)
<1>1. \A i \in DOMAIN Tail(q) : Tail(q)[i].type # "Hello"
  <2> SUFFICES ASSUME NEW i \in DOMAIN Tail(q), Tail(q)[i].type = "Hello" PROVE FALSE
    OBVIOUS
  <2>1. i \in Nat /\ i >= 1 /\ i + 1 \in DOMAIN q /\ Tail(q)[i] = q[i + 1]
    OBVIOUS
  <2>2. i + 1 = 1
    BY <2>1, Zenon DEF HelloIsFirst
  <2> QED
    BY <2>1, <2>2
<1>2. 1 \in DOMAIN q /\ Head(q) = q[1]
  OBVIOUS
<1> QED
  BY <1>1, <1>2, Zenon DEF HelloIsFirst

\* Appending a frame that is not a Hello, on a connection that is up.
LEMMA HelloWritten ==
    ASSUME NEW q \in Seq(Frames), NEW f \in Frames, f.type # "Hello",
           NEW cl, NEW next, next # "new", NEW j, HelloIsFirst(cl, q, j)
    PROVE  HelloIsFirst(next, Append(q, f), j)
<1> SUFFICES ASSUME NEW i \in DOMAIN Append(q, f), Append(q, f)[i].type = "Hello"
             PROVE  i = 1 /\ ~j
  BY Zenon DEF HelloIsFirst
<1>1. (i \in DOMAIN q /\ Append(q, f)[i] = q[i]) \/ Append(q, f)[i] = f
  OBVIOUS
<1> QED
  BY <1>1, Zenon DEF HelloIsFirst

\* A step that touches the wire of one connection only.
LEMMA HelloFirstKept ==
    ASSUME HelloFirst, NEW c \in Conns,
           \A d \in Conns \ {c} : client'[d] = client[d] /\ inq'[d] = inq[d] /\ joined'[d] = joined[d],
           HelloIsFirst(client'[c], inq'[c], joined'[c])
    PROVE  HelloFirst'
<1> SUFFICES ASSUME NEW d \in Conns PROVE HelloIsFirst(client'[d], inq'[d], joined'[d])
  BY Zenon DEF HelloFirst
<1>1. CASE d = c
  BY <1>1
<1>2. CASE d # c
  <2>1. client'[d] = client[d] /\ inq'[d] = inq[d] /\ joined'[d] = joined[d]
    BY <1>2
  <2>2. HelloIsFirst(client[d], inq[d], joined[d])
    BY DEF HelloFirst
  <2> QED
    BY <2>1, <2>2
<1> QED
  BY <1>1, <1>2

\* Clients write their Hello first and once.
LEMMA HelloClient == ASSUME TypeOK, HelloFirst, ClientStep PROVE HelloFirst'
<1> USE DEF roomVars, connVars, histVars
<1>1. ASSUME NEW c \in Conns PROVE HelloIsFirst(client[c], inq[c], joined[c]) /\ inq[c] \in Seq(Frames)
  BY DEF HelloFirst, TypeOK
<1>2. ASSUME NEW c \in Conns, NEW f \in Frames, NEW next, Write(c, f, next),
             f.type # "Hello", next # "new"
      PROVE  HelloFirst'
  <2>1. /\ inq' = [inq EXCEPT ![c] = Append(inq[c], f)]
        /\ client' = [client EXCEPT ![c] = next] /\ joined' = joined
    BY <1>2 DEF Write
  <2>2. \A d \in Conns \ {c} : client'[d] = client[d] /\ inq'[d] = inq[d] /\ joined'[d] = joined[d]
    BY <2>1 DEF TypeOK
  <2>3. client'[c] = next /\ inq'[c] = Append(inq[c], f) /\ joined'[c] = joined[c]
    BY <2>1 DEF TypeOK
  <2>4. HelloIsFirst(next, Append(inq[c], f), joined[c])
    BY <1>1, <1>2, HelloWritten
  <2> QED
    BY <2>2, <2>3, <2>4, HelloFirstKept
<1>3. ASSUME NEW c \in Conns, Connect(c) PROVE HelloFirst'
  <2>1. /\ inq' = [inq EXCEPT ![c] = Append(inq[c], Frame("Hello", c, 0))]
        /\ client' = [client EXCEPT ![c] = "up"] /\ joined' = joined /\ client[c] = "new"
    BY <1>3 DEF Connect
  <2>2. \A d \in Conns \ {c} : client'[d] = client[d] /\ inq'[d] = inq[d] /\ joined'[d] = joined[d]
    BY <2>1 DEF TypeOK
  <2>3. client'[c] = "up" /\ inq'[c] = Append(inq[c], Frame("Hello", c, 0)) /\ joined'[c] = joined[c]
    BY <2>1 DEF TypeOK
  <2>4. inq[c] = <<>> /\ ~joined[c]
    BY <1>1, <2>1, Zenon DEF HelloIsFirst
  <2>5. DOMAIN Append(<<>>, Frame("Hello", c, 0)) = {1}
    <3>1. Append(<<>>, Frame("Hello", c, 0)) = <<Frame("Hello", c, 0)>>
      OBVIOUS
    <3> QED
      BY <3>1
  <2>6. HelloIsFirst("up", Append(<<>>, Frame("Hello", c, 0)), joined[c])
    BY <2>4, <2>5 DEF HelloIsFirst
  <2> QED
    BY <2>2, <2>3, <2>4, <2>6, HelloFirstKept
<1>4. ASSUME NEW c \in Conns, Vanish(c) PROVE HelloFirst'
  <2>1. PICK kept \in {inq[c], <<>>} : inq' = [inq EXCEPT ![c] = kept]
    BY <1>4, Zenon DEF Vanish
  <2>2. client' = [client EXCEPT ![c] = "gone"] /\ joined' = joined
    BY <1>4, Zenon DEF Vanish
  <2>3. \A d \in Conns \ {c} : client'[d] = client[d] /\ inq'[d] = inq[d] /\ joined'[d] = joined[d]
    BY <2>1, <2>2 DEF TypeOK
  <2>4. client'[c] = "gone" /\ inq'[c] = kept /\ joined'[c] = joined[c]
    BY <2>1, <2>2 DEF TypeOK
  <2>5. HelloIsFirst("gone", kept, joined[c])
    <3>1. CASE kept = inq[c]
      BY <1>1, <3>1, Zenon DEF HelloIsFirst
    <3>2. CASE kept = <<>>
      BY <3>2 DEF HelloIsFirst
    <3> QED
      BY <3>1, <3>2
  <2> QED
    BY <2>3, <2>4, <2>5, HelloFirstKept
<1>5. ASSUME NEW s \in Senders, Emit(s) PROVE HelloFirst'
  <2>1. s \in Conns /\ sent[s] \in Nat
    BY DEF Conns, TypeOK
  <2> DEFINE t == IF sent[s] = 0 THEN "Meta" ELSE "Symbol"
  <2>2. t # "Hello" /\ Frame(t, s, sent[s]) \in Frames
    BY <2>1, FrameType
  <2>3. Frame(t, s, sent[s]).type # "Hello"
    BY <2>2 DEF Frame
  <2>4. Write(s, Frame(t, s, sent[s]), "up")
    BY <1>5 DEF Emit
  <2> HIDE DEF t
  <2> QED
    BY <1>2, <2>1, <2>2, <2>3, <2>4
<1>6. ASSUME NEW r \in Receivers, Advertise(r) PROVE HelloFirst'
  <2>1. r \in Conns /\ sent[r] \in Nat /\ client[r] # "new"
    BY <1>6 DEF Conns, TypeOK, Advertise
  <2>2. Frame("Direct", r, sent[r]) \in Frames /\ Frame("Direct", r, sent[r]).type # "Hello"
    BY <2>1, FrameType DEF Frame
  <2>3. Write(r, Frame("Direct", r, sent[r]), client[r])
    BY <1>6 DEF Advertise
  <2> QED
    BY <1>2, <2>1, <2>2, <2>3
<1>7. ASSUME NEW c \in Conns, NEW t \in {"Ready", "Close", "Done", "Bad"}
      PROVE  Frame(t, c, 0) \in Frames /\ Frame(t, c, 0).type # "Hello"
  BY FrameType DEF Frame
<1>8. ASSUME NEW c \in Conns, Acknowledge(c) \/ SendClose(c) \/ Abort(c) \/ SendBad(c)
      PROVE  HelloFirst'
  <2>1. \E t \in {"Ready", "Close", "Done", "Bad"} : \E next \in {"ready", "closing"} :
            Write(c, Frame(t, c, 0), next)
    BY <1>8 DEF Acknowledge, SendClose, Abort, SendBad
  <2> QED
    BY <1>2, <1>7, <2>1
<1>9. ASSUME NEW c \in Conns, Crash(c) \/ SenderExit(c) \/ Drained(c)
      PROVE  HelloFirst'
  BY <1>4, <1>9, Zenon DEF Crash, SenderExit, Drained
<1> QED
  BY <1>3, <1>5, <1>6, <1>8, <1>9, Zenon DEF ClientStep, Conns

\* A handler only takes frames off its wire.
LEMMA HelloHandler ==
    ASSUME TypeOK, HelloFirst, NEW c \in Conns, HandlerStep(c)
    PROVE  HelloFirst'
<1> USE DEF roomVars, connVars, histVars
<1>1. \/ client' = client /\ inq' = inq /\ joined' = joined
      \/ /\ client' = client /\ inq[c] # <<>> /\ inq' = [inq EXCEPT ![c] = Tail(inq[c])]
         /\ joined' = joined \/ joined' = [joined EXCEPT ![c] = TRUE]
  BY Zenon DEF HandlerStep, RouteHelloSender, FlushDirect, RouteData, RouteDone, RouteHelloReceiver,
               RouteReady, RouteDirect, RouteBad, SendNext, ReadClose, ReadEnd, LeaveRoom, AbortSink,
               Read
<1>2. CASE client' = client /\ inq' = inq /\ joined' = joined
  BY <1>2, Zenon DEF HelloFirst
<1>3. CASE /\ client' = client /\ inq[c] # <<>> /\ inq' = [inq EXCEPT ![c] = Tail(inq[c])]
           /\ joined' = joined \/ joined' = [joined EXCEPT ![c] = TRUE]
  <2>1. \A d \in Conns \ {c} : client'[d] = client[d] /\ inq'[d] = inq[d] /\ joined'[d] = joined[d]
    BY <1>3 DEF TypeOK
  <2>2. client'[c] = client[c] /\ inq'[c] = Tail(inq[c])
    BY <1>3 DEF TypeOK
  <2>3. inq[c] \in Seq(Frames) /\ HelloIsFirst(client[c], inq[c], joined[c])
    BY DEF TypeOK, HelloFirst
  <2>4. HelloIsFirst(client[c], Tail(inq[c]), joined'[c])
    BY <1>3, <2>3, HelloRead
  <2> QED
    BY <2>1, <2>2, <2>4, HelloFirstKept
<1> QED
  BY <1>1, <1>2, <1>3

\* Every step keeps Hello first.
LEMMA HelloStep == TypeOK /\ HelloFirst /\ [Next]_vars => HelloFirst'
<1> SUFFICES ASSUME TypeOK, HelloFirst, [Next]_vars PROVE HelloFirst'
  OBVIOUS
<1>1. CASE UNCHANGED vars
  BY <1>1, Zenon DEF vars, connVars, HelloFirst
<1>2. ASSUME NEW c \in Conns, SinkStep(c) PROVE HelloFirst'
  <2>1. client' = client /\ inq' = inq /\ joined' = joined
    BY <1>2, Zenon DEF SinkStep, Deliver, DeliverFails, SinkEnds
  <2> QED
    BY <2>1, Zenon DEF HelloFirst
<1> QED
  BY <1>1, <1>2, HelloClient, HelloHandler, Zenon DEF Next

\* Only a Hello, leave_room and DONE touch a registration.
LEMMA RegistrationStepHolds ==
    ASSUME TypeOK, HelloFirst, Next
    PROVE  RegistrationStep
<1> USE DEF roomVars, connVars, histVars
<1>1. CASE ClientStep
  <2>1. UNCHANGED <<sender, receiver>>
    BY <1>1, Zenon DEF ClientStep, Connect, SendBad, Crash, Emit, Abort, SenderExit, Advertise,
                       Acknowledge, SendClose, Drained, Write, Vanish
  <2> QED
    BY <2>1, Zenon DEF RegistrationStep
<1>2. ASSUME NEW c \in Conns, SinkStep(c) PROVE RegistrationStep
  <2>1. UNCHANGED <<sender, receiver>>
    BY <1>2, Zenon DEF SinkStep, Deliver, DeliverFails, SinkEnds
  <2> QED
    BY <2>1, Zenon DEF RegistrationStep
<1>3. ASSUME NEW c \in Conns, HandlerStep(c) PROVE RegistrationStep
  <2>1. ASSUME Read(c, {"Hello"}) PROVE Succeeds(c)
    <3>1. inq[c] # <<>> /\ Head(inq[c]).type = "Hello" /\ joined' = [joined EXCEPT ![c] = TRUE]
      BY <2>1 DEF Read
    <3>2. inq[c] \in Seq(Frames) /\ HelloIsFirst(client[c], inq[c], joined[c])
      BY DEF TypeOK, HelloFirst
    <3>3. ~joined[c]
      BY <3>1, <3>2, HelloRead
    <3>4. joined'[c] /\ c # NoConn
      BY <3>1, ConnsAssumption DEF TypeOK, Conns
    <3> QED
      BY <3>3, <3>4, Zenon DEF Succeeds
  <2>2. CASE c \in Senders /\ RouteHelloSender(c)
    <3>1. sender' = c /\ receiver' = receiver /\ Read(c, {"Hello"})
      BY <2>2, Zenon DEF RouteHelloSender
    <3> QED
      BY <2>1, <3>1, Zenon DEF RegistrationStep
  <2>3. CASE c \in Receivers /\ RouteHelloReceiver(c)
    <3>1. receiver' = c /\ sender' = sender /\ Read(c, {"Hello"})
      BY <2>3, Zenon DEF RouteHelloReceiver
    <3> QED
      BY <2>1, <3>1, Zenon DEF RegistrationStep
  <2>4. CASE c \in Senders /\ RouteDone(c)
    <3>1. inq[c] # <<>> /\ Head(inq[c]).type = "Done" /\ inq'[c] = Tail(inq[c])
      BY <2>4 DEF RouteDone, Read, TypeOK
    <3>2. Discarded
      BY <2>4, <3>1, Zenon DEF Discarded
    <3> QED
      BY <3>2, Zenon DEF RegistrationStep
  <2>5. CASE LeaveRoom(c)
    <3>1. Leaves(c)
      BY <2>5 DEF LeaveRoom, Leaves, TypeOK
    <3>2. sender' # sender /\ sender # NoConn => sender = c
      BY <2>5, Zenon DEF LeaveRoom, RemoveRoom, RoomAbandoned, Clear
    <3>3. receiver' # receiver /\ receiver # NoConn => receiver = c
      BY <2>5, Zenon DEF LeaveRoom, RemoveRoom, RoomAbandoned, Clear
    <3> QED
      BY <3>1, <3>2, <3>3, Zenon DEF RegistrationStep
  <2>6. CASE \/ c \in Receivers /\ (RouteReady(c) \/ RouteDirect(c))
             \/ c \in Senders /\ (FlushDirect(c) \/ RouteData(c))
             \/ RouteBad(c) \/ SendNext(c) \/ ReadClose(c) \/ ReadEnd(c) \/ AbortSink(c)
    <3>1. UNCHANGED <<sender, receiver>>
      BY <2>6, Zenon DEF RouteReady, RouteDirect, FlushDirect, RouteData, RouteBad, SendNext,
                         ReadClose, ReadEnd, AbortSink
    <3> QED
      BY <3>1, Zenon DEF RegistrationStep
  <2> QED
    BY <1>3, <2>2, <2>3, <2>4, <2>5, <2>6, Zenon DEF HandlerStep
<1> QED
  BY <1>1, <1>2, <1>3, Zenon DEF Next

\* A displaced connection that leaves late never evicts its successor: a
\* registration ends only through leave_room of that same connection, the
\* Hello of a new one, or DONE (lib.rs:236-246, 408-438).
THEOREM RegistrationsKept == Spec => KeepsRegistration
<1>1. Init => HelloFirst
  BY DEF Init, HelloFirst, HelloIsFirst
<1>2. TypeOK /\ HelloFirst /\ [Next]_vars => [RegistrationStep]_vars
  BY RegistrationStepHolds
<1>3. Spec => [](TypeOK /\ HelloFirst)
  <2>1. Spec => []HelloFirst
    BY <1>1, TypeCorrect, HelloStep, PTL DEF Spec
  <2> QED
    BY <2>1, TypeCorrect, PTL
<1> QED
  BY <1>2, <1>3, PTL DEF Spec, KeepsRegistration
-----------------------------------------------------------------------------
(* The end of a room. *)

\* An empty room in the map has a connection that has not left it.
Attended == open /\ buffer = <<>> => \E c \in Conns : Served(c)

\* Every step keeps an empty room attended.
LEMMA AttendedStep ==
    ASSUME TypeOK, HasSends, Reg, Attended, [Next]_vars
    PROVE  Attended'
<1> USE DEF roomVars, connVars, histVars
\* Nobody leaves, and a room that is opened or emptied is so by a connection
\* that serves it.
<1>1. ASSUME \A d \in Conns : Served(d) => Served(d)',
             open' /\ buffer' = <<>> => (open /\ buffer = <<>>) \/ \E d \in Conns : Served(d)'
      PROVE  Attended'
  BY <1>1, Zenon DEF Attended
<1>2. CASE ClientStep
  <2>1. UNCHANGED <<open, buffer, joined>>
    BY <1>2, Zenon DEF ClientStep, Connect, SendBad, Crash, Emit, Abort, SenderExit, Advertise,
                       Acknowledge, SendClose, Drained, Write, Vanish
  <2>2. \E c \in Conns : handler' = [handler EXCEPT ![c] = "reading"] \/ handler' = handler
    BY <1>2, Zenon DEF ClientStep, Connect, SendBad, Crash, Emit, Abort, SenderExit, Advertise,
                       Acknowledge, SendClose, Drained, Write, Vanish, Conns
  <2>3. \A d \in Conns : Served(d) => Served(d)'
    BY <2>1, <2>2, ServedAfter
  <2> QED
    BY <1>1, <2>1, <2>3
<1>3. ASSUME NEW c \in Conns, SinkStep(c) PROVE Attended'
  <2>1. UNCHANGED <<open, buffer, joined, handler>>
    BY <1>3, Zenon DEF SinkStep, Deliver, DeliverFails, SinkEnds
  <2> QED
    BY <1>1, <2>1, Zenon DEF Served
<1>4. ASSUME NEW c \in Conns, HandlerStep(c) PROVE Attended'
  <2>1. CASE \/ c \in Senders /\ (RouteHelloSender(c) \/ RouteData(c))
             \/ c \in Receivers /\ (RouteHelloReceiver(c) \/ RouteReady(c) \/ RouteDirect(c))
    <3>1. joined' = [joined EXCEPT ![c] = TRUE]
      BY <2>1, Zenon DEF RouteHelloSender, RouteData, RouteHelloReceiver, RouteReady, RouteDirect, Read
    <3>2. \E h : /\ h \notin {"idle", "left", "closed"}
                 /\ handler' = [handler EXCEPT ![c] = h]
      <4>1. (\E ss : Then(c, ss)) \/ handler' = [handler EXCEPT ![c] = "direct"]
        BY <2>1, Zenon DEF RouteHelloSender, RouteData, RouteHelloReceiver, RouteReady, RouteDirect
      <4>2. CASE \E ss : Then(c, ss)
        BY <4>2, ThenServes
      <4>3. CASE handler' = [handler EXCEPT ![c] = "direct"]
        BY <4>3
      <4> QED
        BY <4>1, <4>2, <4>3
    <3>3. \A d \in Conns : Served(d) => Served(d)'
      BY <3>1, <3>2, ServedAfter
    <3>4. Served(c)'
      BY <3>1, <3>2 DEF TypeOK, Served
    <3> QED
      BY <1>1, <3>3, <3>4
  <2>2. CASE c \in Senders /\ RouteDone(c)
    BY <2>2, Zenon DEF RouteDone, RemoveRoom, Attended
  <2>3. CASE (c \in Senders /\ FlushDirect(c)) \/ SendNext(c)
    <3>1. \E ss : Then(c, ss) /\ UNCHANGED <<open, buffer, joined>>
      BY <2>3, Zenon DEF FlushDirect, SendNext
    <3>2. \A d \in Conns : Served(d) => Served(d)'
      BY <3>1, ThenServes, ServedAfter
    <3> QED
      BY <1>1, <3>1, <3>2
  <2>4. CASE RouteBad(c) \/ ReadClose(c) \/ ReadEnd(c)
    <3>1. UNCHANGED <<open, buffer, joined>>
      BY <2>4, Zenon DEF RouteBad, ReadClose, ReadEnd
    <3>2. handler' = [handler EXCEPT ![c] = "aborted"] \/ handler' = [handler EXCEPT ![c] = "leaving"]
      BY <2>4, Zenon DEF RouteBad, ReadClose, ReadEnd
    <3>3. \A d \in Conns : Served(d) => Served(d)'
      BY <3>1, <3>2, ServedAfter
    <3> QED
      BY <1>1, <3>1, <3>3
  <2>5. CASE LeaveRoom(c)
    <3>1. handler' = [handler EXCEPT ![c] = "left"] /\ joined' = joined
      BY <2>5, Zenon DEF LeaveRoom
    <3>2. \A d \in Conns : d # c /\ Served(d) => Served(d)'
      BY <3>1 DEF TypeOK, Served
    <3>3. CASE joined[c] /\ open
      <4>1. CASE RoomAbandoned(Clear(sender, c), Clear(receiver, c))
        BY <2>5, <3>3, <4>1, Zenon DEF LeaveRoom, RemoveRoom, Attended
      <4>2. CASE ~RoomAbandoned(Clear(sender, c), Clear(receiver, c))
        <5>1. /\ sender # NoConn => sender \in Conns /\ Served(sender)
              /\ receiver # NoConn => receiver \in Conns /\ Served(receiver)
          BY DEF Reg, RegistrationSound, TypeOK, Conns, Served
        <5>2. buffer' = buffer
          BY <2>5, <3>3, <4>2, Zenon DEF LeaveRoom
        <5>3. CASE buffer # <<>>
          BY <5>2, <5>3, Zenon DEF Attended
        <5>4. CASE Clear(sender, c) # NoConn
          BY <3>2, <5>1, <5>4, Zenon DEF Clear, Attended
        <5>5. CASE Clear(receiver, c) # NoConn
          BY <3>2, <5>1, <5>5, Zenon DEF Clear, Attended
        <5> QED
          BY <4>2, <5>3, <5>4, <5>5, Zenon DEF RoomAbandoned
      <4> QED
        BY <4>1, <4>2
    <3>4. CASE ~(joined[c] /\ open)
      <4>1. UNCHANGED <<open, buffer>>
        BY <2>5, <3>4, Zenon DEF LeaveRoom
      <4>2. open => ~Served(c)
        BY <3>4, Zenon DEF Served
      <4> QED
        BY <3>2, <4>1, <4>2, Zenon DEF Attended
    <3> QED
      BY <3>3, <3>4
  <2>6. CASE AbortSink(c)
    <3>1. /\ UNCHANGED <<open, buffer, joined>> /\ handler[c] = "left"
          /\ handler' = [handler EXCEPT ![c] = "closed"]
      BY <2>6, Zenon DEF AbortSink
    <3>2. \A d \in Conns : d # c => handler'[d] = handler[d]
      BY <3>1 DEF TypeOK
    <3>3. \A d \in Conns : Served(d) => Served(d)'
      BY <3>1, <3>2, Zenon DEF Served
    <3> QED
      BY <1>1, <3>1, <3>3
  <2> QED
    BY <1>4, <2>1, <2>2, <2>3, <2>4, <2>5, <2>6, Zenon DEF HandlerStep
<1>5. CASE UNCHANGED vars
  BY <1>5, Zenon DEF vars, Attended, Served
<1> QED
  BY <1>2, <1>3, <1>4, <1>5, Zenon DEF Next

\* A room without a running handler is in the map only for the frames it still
\* holds, or because a handler was ended by a frame that does not parse:
\* leave_room itself never leaks an empty room, in whatever order displaced and
\* displacing connections leave (lib.rs:195-200, 408-438).
THEOREM RoomsReclaimed == Spec => []RoomReclaimed
<1>1. Init => Attended
  BY Zenon DEF Init, Attended
<1>2. Spec => []Attended
  BY <1>1, AttendedStep, RegInvariant, PTL DEF Spec
<1>3. Attended => RoomReclaimed
  BY Zenon DEF Attended, RoomReclaimed, Served, Severed
<1> QED
  BY <1>2, <1>3, PTL

-----------------------------------------------------------------------------
(* Counting frames. *)

\* The positions of s, below n or above, that hold a frame of the given type.
At(s, type, low, high) == {i \in low .. high : s[i].type = type}

LEMMA AtFinite ==
    ASSUME NEW s, NEW type, NEW low \in Int, NEW high \in Int
    PROVE  IsFiniteSet(At(s, type, low, high)) /\ Cardinality(At(s, type, low, high)) \in Nat
<1>1. IsFiniteSet(low .. high)
  BY FS_Interval
<1>2. At(s, type, low, high) \in SUBSET (low .. high)
  BY DEF At
<1>3. IsFiniteSet(At(s, type, low, high))
  BY <1>1, <1>2, FS_Subset
<1> QED
  BY <1>3, FS_CardinalityType

LEMMA CountAt ==
    ASSUME NEW s \in Seq(Frames), NEW type
    PROVE  Count(s, type) = Cardinality(At(s, type, 1, Len(s))) /\ Count(s, type) \in Nat
<1>1. DOMAIN s = 1 .. Len(s) /\ Len(s) \in Nat
  OBVIOUS
<1>2. {i \in DOMAIN s : s[i].type = type} = At(s, type, 1, Len(s))
  BY <1>1 DEF At
<1>3. 1 \in Int /\ Len(s) \in Int
  BY <1>1
<1>4. Cardinality(At(s, type, 1, Len(s))) \in Nat
  BY <1>3, AtFinite
<1> QED
  BY <1>2, <1>4 DEF Count

\* The first k frames.
LEMMA CountPrefix ==
    ASSUME NEW s \in Seq(Frames), NEW k \in 0 .. Len(s), NEW type
    PROVE  Count(SubSeq(s, 1, k), type) = Cardinality(At(s, type, 1, k))
<1> DEFINE p == SubSeq(s, 1, k)
<1>1. Len(s) \in Nat /\ k \in Nat
  OBVIOUS
<1>2. p \in Seq(Frames) /\ Len(p) = k /\ \A i \in 1 .. k : p[i] = s[i]
  BY <1>1
<1> HIDE DEF p
<1>3. At(p, type, 1, Len(p)) = At(s, type, 1, k)
  BY <1>2 DEF At
<1>4. Count(p, type) = Cardinality(At(s, type, 1, k))
  BY <1>2, <1>3, CountAt
<1> QED
  BY <1>4 DEF p

\* The frames after the first k: their positions are shifted by k.
LEMMA CountSuffix ==
    ASSUME NEW s \in Seq(Frames), NEW k \in 0 .. Len(s), NEW type
    PROVE  Count(SubSeq(s, k + 1, Len(s)), type) = Cardinality(At(s, type, k + 1, Len(s)))
<1> DEFINE q == SubSeq(s, k + 1, Len(s))
           A == At(q, type, 1, Len(q))
           B == At(s, type, k + 1, Len(s))
           g == [i \in A |-> k + i]
<1>1. Len(s) \in Nat /\ k \in Nat /\ k <= Len(s)
  OBVIOUS
<1>2. q \in Seq(Frames) /\ Len(q) = Len(s) - k /\ \A i \in 1 .. (Len(s) - k) : q[i] = s[k + i]
  BY <1>1
<1> HIDE DEF q
<1>3. \A i \in A : i \in Nat /\ k + i \in B
  BY <1>1, <1>2 DEF At
<1>4. \A j \in B : j - k \in A /\ k + (j - k) = j
  BY <1>1, <1>2 DEF At
<1>5. IsFiniteSet(A)
  BY <1>1, <1>2, AtFinite
<1> HIDE DEF A, B
<1>6. g \in [A -> B] /\ \A i \in A : g[i] = k + i
  BY <1>3
<1>7. \A i, j \in A : g[i] = g[j] => i = j
  BY <1>1, <1>3, <1>6
<1>8. \A j \in B : \E i \in A : g[i] = j
  BY <1>4, <1>6
<1> HIDE DEF g
<1>9. g \in Bijection(A, B)
  BY <1>6, <1>7, <1>8 DEF Bijection, Injection, Surjection, IsInjective
<1>10. Cardinality(B) = Cardinality(A)
  BY <1>5, <1>9, FS_Bijection DEF ExistsBijection
<1>11. Count(q, type) = Cardinality(A)
  BY <1>2, CountAt DEF A
<1> QED
  BY <1>10, <1>11 DEF q, B

\* A sequence cut in two.
LEMMA BytesSplit ==
    ASSUME NEW s \in Seq(Frames), NEW k \in 0 .. Len(s)
    PROVE  Bytes(s) = Bytes(SubSeq(s, 1, k)) + Bytes(SubSeq(s, k + 1, Len(s)))
<1>1. Len(s) \in Nat /\ k \in Nat /\ k <= Len(s)
  OBVIOUS
<1>2. ASSUME NEW type
      PROVE  /\ Count(s, type) = Count(SubSeq(s, 1, k), type)
                                  + Count(SubSeq(s, k + 1, Len(s)), type)
             /\ Count(SubSeq(s, 1, k), type) \in Nat
             /\ Count(SubSeq(s, k + 1, Len(s)), type) \in Nat
  <2> DEFINE A == At(s, type, 1, k)
             B == At(s, type, k + 1, Len(s))
  <2>1. At(s, type, 1, Len(s)) = A \cup B /\ A \cap B = {}
    BY <1>1 DEF At
  <2>2. IsFiniteSet(A) /\ IsFiniteSet(B) /\ Cardinality(A) \in Nat /\ Cardinality(B) \in Nat
    BY <1>1, AtFinite
  <2>3. Count(s, type) = Cardinality(At(s, type, 1, Len(s)))
    BY CountAt
  <2>4. Count(SubSeq(s, 1, k), type) = Cardinality(A)
    BY CountPrefix
  <2>5. Count(SubSeq(s, k + 1, Len(s)), type) = Cardinality(B)
    BY CountSuffix
  <2> HIDE DEF A, B
  <2>6. Cardinality(A \cup B) = Cardinality(A) + Cardinality(B)
    <3>1. Cardinality(A \cup B) = Cardinality(A) + Cardinality(B) - Cardinality(A \cap B)
      BY <2>2, FS_Union
    <3>2. Cardinality(A \cap B) = 0
      BY <2>1, FS_EmptySet
    <3> QED
      BY <2>2, <3>1, <3>2
  <2> QED
    BY <2>1, <2>2, <2>3, <2>4, <2>5, <2>6
<1> DEFINE a == Count(SubSeq(s, 1, k), "Meta")
           b == Count(SubSeq(s, k + 1, Len(s)), "Meta")
           c == Count(SubSeq(s, 1, k), "Symbol")
           d == Count(SubSeq(s, k + 1, Len(s)), "Symbol")
<1>3. /\ Bytes(s) = MetaSize * (a + b) + SymbolSize * (c + d)
      /\ Bytes(SubSeq(s, 1, k)) = MetaSize * a + SymbolSize * c
      /\ Bytes(SubSeq(s, k + 1, Len(s))) = MetaSize * b + SymbolSize * d
      /\ a \in Nat /\ b \in Nat /\ c \in Nat /\ d \in Nat
  BY <1>2 DEF Bytes
<1> HIDE DEF a, b, c, d
<1>4. /\ MetaSize * (a + b) = MetaSize * a + MetaSize * b
      /\ SymbolSize * (c + d) = SymbolSize * c + SymbolSize * d
      /\ MetaSize * a \in Nat /\ MetaSize * b \in Nat
      /\ SymbolSize * c \in Nat /\ SymbolSize * d \in Nat
  BY <1>3, BoundsAssumption
<1> QED
  BY <1>3, <1>4

\* One frame more at the end.
LEMMA BytesAppend ==
    ASSUME NEW s \in Seq(Frames), NEW f \in Frames, f.type \in DataTypes
    PROVE  Bytes(Append(s, f)) = Bytes(s) + Size(f)
<1> DEFINE t == Append(s, f)
           n == Len(s)
<1>1. /\ n \in Nat /\ t \in Seq(Frames) /\ Len(t) = n + 1 /\ t[n + 1] = f
      /\ \A i \in 1 .. n : t[i] = s[i]
  OBVIOUS
<1> HIDE DEF t
<1>2. ASSUME NEW type
      PROVE  /\ Count(t, type) = Count(s, type) + (IF f.type = type THEN 1 ELSE 0)
             /\ Count(s, type) \in Nat
  <2>1. /\ Count(t, type) = Cardinality(At(t, type, 1, n + 1))
        /\ Count(s, type) = Cardinality(At(s, type, 1, n)) /\ Count(s, type) \in Nat
    BY <1>1, CountAt
  <2>2. At(t, type, 1, n + 1) = At(s, type, 1, n) \cup (IF f.type = type THEN {n + 1} ELSE {})
    BY <1>1 DEF At
  <2>3. n + 1 \notin At(s, type, 1, n)
    BY <1>1 DEF At
  <2>4. IsFiniteSet(At(s, type, 1, n))
    BY <1>1, AtFinite
  <2>5. CASE f.type = type
    <3>1. At(t, type, 1, n + 1) = At(s, type, 1, n) \cup {n + 1}
      BY <2>2, <2>5
    <3>2. Cardinality(At(s, type, 1, n) \cup {n + 1}) = Cardinality(At(s, type, 1, n)) + 1
      BY <2>3, <2>4, FS_AddElement
    <3> QED
      BY <2>1, <2>5, <3>1, <3>2
  <2>6. CASE f.type # type
    <3>1. At(t, type, 1, n + 1) = At(s, type, 1, n)
      BY <2>2, <2>6
    <3> QED
      BY <2>1, <2>6, <3>1
  <2> QED
    BY <2>5, <2>6
<1> DEFINE a == Count(s, "Meta")
           b == Count(s, "Symbol")
<1>3. /\ Bytes(s) = MetaSize * a + SymbolSize * b /\ a \in Nat /\ b \in Nat
      /\ Bytes(t) = MetaSize * (a + (IF f.type = "Meta" THEN 1 ELSE 0))
                     + SymbolSize * (b + (IF f.type = "Symbol" THEN 1 ELSE 0))
  BY <1>2 DEF Bytes
<1> HIDE DEF a, b
<1>4. /\ MetaSize * (a + 1) = MetaSize * a + MetaSize /\ MetaSize * (a + 0) = MetaSize * a
      /\ SymbolSize * (b + 1) = SymbolSize * b + SymbolSize /\ SymbolSize * (b + 0) = SymbolSize * b
      /\ MetaSize * a \in Nat /\ SymbolSize * b \in Nat
      /\ MetaSize \in Nat /\ SymbolSize \in Nat
  BY <1>3, BoundsAssumption
<1>5. CASE f.type = "Meta"
  BY <1>3, <1>4, <1>5 DEF Size, t
<1>6. CASE f.type = "Symbol"
  BY <1>3, <1>4, <1>6 DEF Size, t
<1> QED
  BY <1>5, <1>6 DEF DataTypes

LEMMA BytesEmpty == Bytes(<<>>) = 0
<1>1. <<>> \in Seq(Frames) /\ Len(<<>>) = 0
  OBVIOUS
<1>2. ASSUME NEW type PROVE Count(<<>>, type) = 0
  <2>1. At(<<>>, type, 1, 0) = {}
    BY DEF At
  <2>2. Count(<<>>, type) = Cardinality(At(<<>>, type, 1, Len(<<>>)))
    BY <1>1, CountAt
  <2> QED
    BY <1>1, <2>1, <2>2, FS_EmptySet
<1>3. MetaSize * 0 = 0 /\ SymbolSize * 0 = 0
  BY BoundsAssumption
<1> QED
  BY <1>2, <1>3 DEF Bytes

\* The more frames are dropped, the more bytes.
LEMMA PrefixGrows ==
    ASSUME NEW s \in Seq(Frames), NEW j \in 0 .. Len(s), NEW k \in 0 .. Len(s), j <= k
    PROVE  /\ Bytes(SubSeq(s, 1, j)) \in Nat /\ Bytes(SubSeq(s, 1, k)) \in Nat
           /\ Bytes(SubSeq(s, 1, j)) <= Bytes(SubSeq(s, 1, k))
<1>1. Len(s) \in Nat /\ j \in Nat /\ k \in Nat
  OBVIOUS
<1>2. SubSeq(s, 1, j) \in Seq(Frames) /\ SubSeq(s, 1, k) \in Seq(Frames)
  BY <1>1
<1>3. ASSUME NEW type
      PROVE  /\ Count(SubSeq(s, 1, j), type) <= Count(SubSeq(s, 1, k), type)
             /\ Count(SubSeq(s, 1, j), type) \in Nat /\ Count(SubSeq(s, 1, k), type) \in Nat
  <2>1. At(s, type, 1, j) \in SUBSET At(s, type, 1, k)
    BY <1>1 DEF At
  <2>2. IsFiniteSet(At(s, type, 1, k))
    BY <1>1, AtFinite
  <2>3. Cardinality(At(s, type, 1, j)) <= Cardinality(At(s, type, 1, k))
    BY <2>1, <2>2, FS_Subset
  <2>4. /\ Count(SubSeq(s, 1, j), type) = Cardinality(At(s, type, 1, j))
        /\ Count(SubSeq(s, 1, k), type) = Cardinality(At(s, type, 1, k))
    BY CountPrefix
  <2>5. Count(SubSeq(s, 1, j), type) \in Nat /\ Count(SubSeq(s, 1, k), type) \in Nat
    BY <1>2, CountAt
  <2> QED
    BY <2>3, <2>4, <2>5
<1> DEFINE a == Count(SubSeq(s, 1, j), "Meta")
           b == Count(SubSeq(s, 1, k), "Meta")
           c == Count(SubSeq(s, 1, j), "Symbol")
           d == Count(SubSeq(s, 1, k), "Symbol")
<1>4. /\ Bytes(SubSeq(s, 1, j)) = MetaSize * a + SymbolSize * c
      /\ Bytes(SubSeq(s, 1, k)) = MetaSize * b + SymbolSize * d
      /\ a \in Nat /\ b \in Nat /\ c \in Nat /\ d \in Nat /\ a <= b /\ c <= d
  BY <1>3 DEF Bytes
<1> HIDE DEF a, b, c, d
<1>5. /\ MetaSize * a <= MetaSize * b /\ SymbolSize * c <= SymbolSize * d
      /\ MetaSize * a \in Nat /\ MetaSize * b \in Nat
      /\ SymbolSize * c \in Nat /\ SymbolSize * d \in Nat
  BY <1>4, BoundsAssumption
<1> QED
  BY <1>4, <1>5

-----------------------------------------------------------------------------
(* push_buffer. *)

\* push_buffer stops as soon as the new frame fits: it drops nothing more.
LEMMA EvictEnough ==
    ASSUME TypeOK, NEW f \in Frames, Evict(Size(f)) < Len(buffer)
    PROVE  SaturatingSub(bufferedBytes, Bytes(SubSeq(buffer, 1, Evict(Size(f))))) + Size(f)
             <= MaxBufferedBytes
<1> DEFINE Left(j) == SaturatingSub(bufferedBytes, Bytes(SubSeq(buffer, 1, j)))
           D == {j \in 1 .. Len(buffer) : Left(j - 1) + Size(f) > MaxBufferedBytes}
           k == Cardinality(D)
<1>1. /\ buffer \in Seq(Frames) /\ Len(buffer) \in Nat /\ bufferedBytes \in Nat
      /\ Size(f) \in Nat /\ MaxBufferedBytes \in Nat
  BY BoundsAssumption DEF TypeOK, Size
<1>2. Evict(Size(f)) = k
  BY DEF Evict
<1>3. k \in 0 .. Len(buffer) /\ k < Len(buffer) /\ k + 1 \in 1 .. Len(buffer)
  BY <1>1, <1>2, EvictType
<1>4. IsFiniteSet(D)
  <2>1. IsFiniteSet(1 .. Len(buffer))
    BY <1>1, FS_Interval
  <2>2. D \in SUBSET (1 .. Len(buffer))
    OBVIOUS
  <2> HIDE DEF D
  <2> QED
    BY <2>1, <2>2, FS_Subset
<1>5. ASSUME NEW i \in 0 .. Len(buffer), NEW j \in 0 .. Len(buffer), i <= j
      PROVE  Left(i) >= Left(j) /\ Left(i) \in Nat /\ Left(j) \in Nat
  <2>1. /\ Bytes(SubSeq(buffer, 1, i)) \in Nat /\ Bytes(SubSeq(buffer, 1, j)) \in Nat
        /\ Bytes(SubSeq(buffer, 1, i)) <= Bytes(SubSeq(buffer, 1, j))
    BY <1>1, <1>5, PrefixGrows
  <2> QED
    BY <1>1, <2>1 DEF SaturatingSub
<1>6. k + 1 \notin D
  <2> SUFFICES ASSUME k + 1 \in D PROVE FALSE
    OBVIOUS
  <2>1. Left(k) + Size(f) > MaxBufferedBytes
    <3>1. (k + 1) - 1 = k
      BY <1>3
    <3> HIDE DEF k, Left
    <3> QED
      BY <3>1
  <2>2. ASSUME NEW j \in 1 .. (k + 1) PROVE j \in D
    <3>1. /\ j - 1 \in 0 .. Len(buffer) /\ k \in 0 .. Len(buffer) /\ j - 1 <= k
          /\ j \in 1 .. Len(buffer)
      BY <1>1, <1>3, <2>2
    <3>2. Left(j - 1) >= Left(k) /\ Left(j - 1) \in Nat /\ Left(k) \in Nat
      BY <1>5, <3>1
    <3> HIDE DEF Left, k
    <3>3. Left(j - 1) + Size(f) > MaxBufferedBytes
      BY <1>1, <2>1, <3>2
    <3> QED
      BY <3>1, <3>3
  <2>3. (1 .. (k + 1)) \in SUBSET D
    BY <2>2
  <2>4. Cardinality(1 .. (k + 1)) <= k
    BY <1>4, <2>3, FS_Subset
  <2>5. Cardinality(1 .. (k + 1)) = k + 1
    <3>1. k + 1 \in Int /\ 1 \in Int /\ ~(1 > k + 1) /\ (k + 1) - 1 + 1 = k + 1
      BY <1>3
    <3> HIDE DEF k
    <3> QED
      BY <3>1, FS_Interval
  <2> QED
    BY <1>3, <2>4, <2>5
<1>7. ~(Left(k) + Size(f) > MaxBufferedBytes) /\ Left(k) \in Nat
  <2>1. (k + 1) - 1 = k /\ Left(k) \in Nat
    BY <1>3, <1>5
  <2> HIDE DEF k, Left
  <2> QED
    BY <1>3, <1>6, <2>1
<1>8. Left(k) + Size(f) <= MaxBufferedBytes
  <2> HIDE DEF Left, k
  <2> QED
    BY <1>1, <1>7
<1> QED
  BY <1>2, <1>8

\* The byte count stays exact and the cap holds, but for one frame alone.
LEMMA PushExact ==
    ASSUME TypeOK, BufferAccounting, NEW f \in Frames, f.type \in DataTypes, PushBuffer(f)
    PROVE  BufferAccounting'
<1> DEFINE k == Evict(Size(f))
           p == SubSeq(buffer, 1, k)
           q == SubSeq(buffer, k + 1, Len(buffer))
<1>1. /\ buffer \in Seq(Frames) /\ Len(buffer) \in Nat /\ Size(f) \in Nat
      /\ k \in 0 .. Len(buffer) /\ MaxBufferedBytes \in Nat
  BY EvictType, BoundsAssumption DEF TypeOK, Size
<1>2. bufferedBytes' = SaturatingSub(bufferedBytes, Bytes(p)) + Size(f) /\ buffer' = Append(q, f)
  BY DEF PushBuffer
<1>3. Bytes(buffer) = Bytes(p) + Bytes(q)
  BY <1>1, BytesSplit
<1>4. k < Len(buffer) => SaturatingSub(bufferedBytes, Bytes(p)) + Size(f) <= MaxBufferedBytes
  BY EvictEnough
<1> HIDE DEF k
<1>5. p \in Seq(Frames) /\ q \in Seq(Frames) /\ Len(q) = Len(buffer) - k
  BY <1>1
<1>6. Bytes(p) \in Nat /\ Bytes(q) \in Nat
  BY <1>5, BytesType
<1> HIDE DEF p, q
<1>7. SaturatingSub(bufferedBytes, Bytes(p)) = Bytes(q)
  BY <1>3, <1>6 DEF BufferAccounting, SaturatingSub
<1>8. bufferedBytes' = Bytes(buffer')
  BY <1>2, <1>5, <1>7, BytesAppend
<1>9. bufferedBytes' <= MaxBufferedBytes \/ Len(buffer') = 1
  <2>1. CASE k < Len(buffer)
    BY <1>2, <1>4, <2>1
  <2>2. CASE k = Len(buffer)
    BY <1>1, <1>2, <1>5, <2>2
  <2> QED
    BY <1>1, <2>1, <2>2
<1> QED
  BY <1>8, <1>9 DEF BufferAccounting

-----------------------------------------------------------------------------
(* The most recent frames. *)

\* b is the run of r that ends at n, position by position.
EndsAt(b, r, n) == Len(b) <= n /\ \A i \in 1 .. Len(b) : b[i] = r[n - Len(b) + i]

LEMMA EndsAtSubSeq ==
    ASSUME NEW b \in Seq(Frames), NEW r \in Seq(Frames), NEW n \in 0 .. Len(r), Len(b) <= n
    PROVE  b = SubSeq(r, n - Len(b) + 1, n) <=> EndsAt(b, r, n)
<1> DEFINE m == n - Len(b)
           t == SubSeq(r, m + 1, n)
<1>1. Len(b) \in Nat /\ Len(r) \in Nat /\ n \in Nat /\ m \in Nat /\ n - m = Len(b)
  OBVIOUS
<1>2. t \in Seq(Frames) /\ Len(t) = n - m /\ \A i \in 1 .. (n - m) : t[i] = r[m + i]
  <2> HIDE DEF m
  <2>1. m + 1 >= 1 /\ n <= Len(r) /\ m <= n
    BY <1>1
  <2> QED
    BY <1>1, <2>1
<1> HIDE DEF t
<1>3. t = b <=> \A i \in 1 .. Len(b) : b[i] = t[i]
  BY <1>1, <1>2
<1>4. (\A i \in 1 .. Len(b) : b[i] = t[i]) <=> \A i \in 1 .. Len(b) : b[i] = r[m + i]
  BY <1>1, <1>2
<1> QED
  BY <1>3, <1>4 DEF t, EndsAt

\* Where the run ends: READY freezes it.
Until == IF readyAt >= 0 THEN readyAt ELSE Len(routed)

\* readyAt is set exactly while the room has seen READY, which a closed room has not.
ReadyFacts ==
    /\ readyAt \in (-1) .. Len(routed)
    /\ receiverDone <=> readyAt >= 0
    /\ receiverDone => open

BInv == BufferAccounting /\ EndsAt(buffer, routed, Until) /\ ReadyFacts

LEMMA BufferExactBy == TypeOK /\ BInv => BufferExact
<1> SUFFICES ASSUME TypeOK, BInv PROVE BufferExact
  OBVIOUS
<1>1. buffer \in Seq(Frames) /\ routed \in Seq(Frames) /\ Len(routed) \in Nat
  BY DEF TypeOK
<1>2. Until \in 0 .. Len(routed)
  BY <1>1 DEF BInv, ReadyFacts, Until
<1>3. Len(buffer) <= Until /\ buffer = SubSeq(routed, Until - Len(buffer) + 1, Until)
  BY <1>1, <1>2, EndsAtSubSeq DEF BInv, EndsAt
<1> QED
  BY <1>3 DEF BufferExact, BufferIsSuffix, BInv, Until

\* An empty buffer is exact.
LEMMA EmptyExact ==
    ASSUME buffer' = <<>>, bufferedBytes' = 0, ReadyFacts', Len(routed') \in Nat
    PROVE  BInv'
<1>1. Bytes(buffer') = 0 /\ Len(buffer') = 0
  BY BytesEmpty
<1>2. Until' \in Nat
  BY DEF ReadyFacts, Until
<1>3. BufferAccounting'
  BY <1>1, BoundsAssumption DEF BufferAccounting
<1>4. EndsAt(buffer, routed, Until)'
  BY <1>1, <1>2 DEF EndsAt
<1> QED
  BY <1>3, <1>4 DEF BInv

LEMMA BufferInit == Init => BInv
<1> SUFFICES ASSUME Init PROVE BInv
  OBVIOUS
<1>1. buffer = <<>> /\ bufferedBytes = 0 /\ routed = <<>> /\ readyAt = -1 /\ receiverDone = FALSE
  BY DEF Init
<1>2. Len(buffer) = 0 /\ Len(routed) = 0 /\ Bytes(buffer) = 0
  BY <1>1, BytesEmpty
<1>3. ReadyFacts
  BY <1>1, <1>2 DEF ReadyFacts
<1>4. BufferAccounting
  BY <1>1, <1>2, BoundsAssumption DEF BufferAccounting
<1>5. EndsAt(buffer, routed, Until)
  BY <1>1, <1>2 DEF EndsAt, Until
<1> QED
  BY <1>3, <1>4, <1>5 DEF BInv

\* Steps that leave the buffer alone.
LEMMA BufferUntouched ==
    ASSUME BInv, UNCHANGED <<buffer, bufferedBytes, routed, readyAt, receiverDone>>, open => open'
    PROVE  BInv'
<1>1. BufferAccounting' /\ ReadyFacts'
  BY DEF BInv, BufferAccounting, ReadyFacts, Bytes, Count
<1>2. EndsAt(buffer, routed, Until)'
  BY DEF BInv, EndsAt, Until
<1> QED
  BY <1>1, <1>2 DEF BInv

\* The room is removed.
LEMMA RemoveExact ==
    ASSUME TypeOK, RemoveRoom, UNCHANGED routed
    PROVE  BInv'
<1>1. buffer' = <<>> /\ bufferedBytes' = 0 /\ readyAt' = -1 /\ receiverDone' = FALSE
  BY DEF RemoveRoom
<1>2. Len(routed') \in Nat
  BY DEF TypeOK
<1>3. ReadyFacts'
  BY <1>1, <1>2 DEF ReadyFacts
<1> QED
  BY <1>1, <1>2, <1>3, EmptyExact

\* A receiver takes over the buffer.
LEMMA FlushExact ==
    ASSUME TypeOK, BInv, NEW r \in Receivers, RouteHelloReceiver(r)
    PROVE  BInv'
<1>1. buffer' = <<>> /\ bufferedBytes' = SaturatingSub(bufferedBytes, Bytes(buffer))
  BY DEF RouteHelloReceiver, DrainBuffer
<1>2. bufferedBytes = Bytes(buffer) /\ bufferedBytes \in Nat /\ Len(routed) \in Nat
  BY DEF BInv, BufferAccounting, TypeOK
<1>3. bufferedBytes' = 0
  BY <1>1, <1>2 DEF SaturatingSub
<1>4. UNCHANGED <<routed, readyAt, receiverDone>> /\ open'
  BY DEF RouteHelloReceiver
<1>5. ReadyFacts'
  BY <1>4 DEF BInv, ReadyFacts
<1> QED
  BY <1>1, <1>2, <1>3, <1>4, <1>5, EmptyExact

\* READY: the run ends here.
LEMMA ReadyExact ==
    ASSUME TypeOK, BInv, NEW r \in Receivers, RouteReady(r)
    PROVE  BInv'
<1>1. /\ UNCHANGED <<buffer, bufferedBytes, routed, open>> /\ receiverDone' = open
      /\ readyAt' = IF open /\ ~receiverDone THEN Len(routed) ELSE readyAt
      /\ open \in BOOLEAN /\ receiverDone \in BOOLEAN /\ Len(routed) \in Nat
  BY DEF RouteReady, TypeOK
<1>2. ReadyFacts
  BY DEF BInv
<1>3. ReadyFacts' /\ Until' = Until
  <2>1. CASE open /\ ~receiverDone
    BY <1>1, <1>2, <2>1 DEF ReadyFacts, Until
  <2>2. CASE ~(open /\ ~receiverDone)
    BY <1>1, <1>2, <2>2 DEF ReadyFacts, Until
  <2> QED
    BY <2>1, <2>2
<1>4. BufferAccounting'
  BY <1>1 DEF BInv, BufferAccounting, Bytes, Count
<1>5. EndsAt(buffer', routed', Until')
  BY <1>1, <1>3 DEF BInv
<1> QED
  BY <1>3, <1>4, <1>5 DEF BInv

\* Meta or Symbol: buffered, forwarded with nothing in the buffer, or dropped
\* after READY.
LEMMA DataExact ==
    ASSUME TypeOK, Reg, BInv, NEW s \in Senders, RouteData(s)
    PROVE  BInv'
<1> DEFINE f == Head(inq[s])
           L == Len(buffer)
           n == Len(routed)
<1>1. f \in Frames /\ f.type \in DataTypes
  <2>1. inq[s] \in Seq(Frames) /\ inq[s] # <<>> /\ f.type \in DataTypes
    BY DEF RouteData, Read, TypeOK, Conns
  <2> QED
    BY <2>1, QueueTypes
<1>2. UNCHANGED <<readyAt, receiverDone, receiver>> /\ routed' = Append(routed, f)
  BY DEF RouteData
<1> HIDE DEF f
<1>3. /\ buffer \in Seq(Frames) /\ routed \in Seq(Frames) /\ L \in Nat /\ n \in Nat
      /\ routed' \in Seq(Frames) /\ Len(routed') = n + 1 /\ routed'[n + 1] = f
      /\ \A i \in 1 .. n : routed'[i] = routed[i]
  BY <1>1, <1>2 DEF TypeOK
<1>4. /\ BufferAccounting /\ ReadyFacts /\ Until \in 0 .. n /\ L <= Until
      /\ \A i \in 1 .. L : buffer[i] = routed[Until - L + i]
  BY <1>3 DEF BInv, EndsAt, ReadyFacts, Until
<1>5. CASE ~receiverDone /\ receiver = NoConn
  <2>1. PushBuffer(f) /\ open' = TRUE /\ readyAt = -1 /\ Until = n /\ Until' = n + 1
    BY <1>2, <1>3, <1>4, <1>5 DEF RouteData, DataBuffered, f, ReadyFacts, Until
  <2>2. BufferAccounting'
    BY <1>1, <1>4, <2>1, PushExact
  <2>3. ReadyFacts'
    BY <1>2, <1>3, <1>4, <1>5, <2>1 DEF ReadyFacts
  <2> DEFINE k == Evict(Size(f))
             q == SubSeq(buffer, k + 1, L)
  <2>4. buffer' = Append(q, f) /\ k \in 0 .. L
    BY <2>1, EvictType DEF PushBuffer
  <2> HIDE DEF k
  <2>5. q \in Seq(Frames) /\ Len(q) = L - k /\ \A i \in 1 .. (L - k) : q[i] = buffer[k + i]
    BY <1>3, <2>4
  <2> HIDE DEF q
  <2>6. /\ Len(buffer') = L - k + 1 /\ buffer'[L - k + 1] = f
        /\ \A i \in 1 .. (L - k) : buffer'[i] = q[i]
    BY <1>1, <1>3, <2>4, <2>5
  <2>7. EndsAt(buffer', routed', n + 1)
    <3>1. L - k + 1 <= n + 1
      BY <1>3, <1>4, <2>1, <2>4
    <3>2. ASSUME NEW i \in 1 .. (L - k + 1)
          PROVE  buffer'[i] = routed'[(n + 1) - (L - k + 1) + i]
      <4>1. CASE i = L - k + 1
        <5>1. (n + 1) - (L - k + 1) + i = n + 1
          BY <1>3, <2>4, <4>1
        <5> QED
          BY <1>3, <2>6, <4>1, <5>1
      <4>2. CASE i \in 1 .. (L - k)
        <5> DEFINE j == k + i
        <5>1. j \in 1 .. L /\ (n + 1) - (L - k + 1) + i = n - L + j /\ n - L + j \in 1 .. n
          BY <1>3, <1>4, <2>1, <2>4, <4>2
        <5>2. buffer'[i] = buffer[j]
          BY <2>5, <2>6, <4>2
        <5> HIDE DEF j
        <5>3. buffer[j] = routed[n - L + j]
          BY <1>4, <2>1, <5>1
        <5>4. routed'[n - L + j] = routed[n - L + j]
          BY <1>3, <5>1
        <5> QED
          BY <5>1, <5>2, <5>3, <5>4
      <4>3. i = L - k + 1 \/ i \in 1 .. (L - k)
        <5> HIDE DEF L
        <5>1. L \in Int /\ k \in Int
          BY <1>3, <2>4
        <5> QED
          BY <5>1
      <4> QED
        BY <4>1, <4>2, <4>3
    <3> QED
      BY <2>6, <3>1, <3>2 DEF EndsAt
  <2>8. EndsAt(buffer', routed', Until')
    BY <2>1, <2>7
  <2> QED
    BY <2>2, <2>3, <2>8 DEF BInv
<1>6. CASE receiverDone \/ receiver # NoConn
  <2>1. UNCHANGED <<buffer, bufferedBytes, open>>
    BY <1>6 DEF RouteData, DataBuffered
  <2>2. BufferAccounting'
    BY <1>4, <2>1 DEF BufferAccounting, Bytes, Count
  <2>3. ReadyFacts'
    BY <1>2, <1>3, <1>4, <2>1 DEF ReadyFacts
  <2>4. EndsAt(buffer', routed', Until')
    <3>1. CASE receiverDone
      <4>1. Until' = Until
        BY <1>2, <1>4, <3>1 DEF ReadyFacts, Until
      <4>2. \A i \in 1 .. L : Until - L + i \in 1 .. n
        BY <1>3, <1>4
      <4>3. \A i \in 1 .. L : buffer[i] = routed'[Until - L + i]
        BY <1>3, <1>4, <4>2
      <4> QED
        BY <1>4, <2>1, <4>1, <4>3 DEF EndsAt
    <3>2. CASE receiver # NoConn
      <4>1. Len(buffer') = 0
        BY <2>1, <3>2 DEF Reg, RegistrationSound
      <4>2. Until' \in Nat
        BY <1>3, <2>3 DEF ReadyFacts, Until
      <4> QED
        BY <4>1, <4>2 DEF EndsAt
    <3> QED
      BY <1>6, <3>1, <3>2
  <2> QED
    BY <2>2, <2>3, <2>4 DEF BInv
<1> QED
  BY <1>5, <1>6 DEF TypeOK

\* Every other step of a handler leaves buffer, READY and history alone.
LEMMA HandlerExact ==
    ASSUME TypeOK, Reg, BInv, NEW c \in Conns, HandlerStep(c)
    PROVE  BInv'
<1> DEFINE Same == /\ UNCHANGED <<buffer, bufferedBytes, routed, readyAt, receiverDone>>
                   /\ open => open'
<1>1. CASE c \in Senders /\ RouteHelloSender(c)
  <2>1. Same
    BY <1>1 DEF RouteHelloSender, histVars
  <2> QED
    BY <2>1, BufferUntouched
<1>2. CASE c \in Senders /\ RouteData(c)
  BY <1>2, DataExact
<1>3. CASE c \in Senders /\ RouteDone(c)
  <2>1. RemoveRoom /\ UNCHANGED routed
    BY <1>3 DEF RouteDone
  <2> QED
    BY <2>1, RemoveExact
<1>4. CASE c \in Receivers /\ RouteHelloReceiver(c)
  BY <1>4, FlushExact
<1>5. CASE c \in Receivers /\ RouteReady(c)
  BY <1>5, ReadyExact
<1>6. CASE c \in Receivers /\ RouteDirect(c)
  <2>1. Same
    BY <1>6 DEF RouteDirect, histVars
  <2> QED
    BY <2>1, BufferUntouched
<1>7. CASE LeaveRoom(c)
  <2>1. RemoveRoom \/ UNCHANGED <<open, buffer, bufferedBytes, receiverDone, readyAt>>
    BY <1>7 DEF LeaveRoom, roomVars
  <2>2. UNCHANGED routed
    BY <1>7 DEF LeaveRoom
  <2> QED
    BY <2>1, <2>2, RemoveExact, BufferUntouched
<1>8. CASE \/ FlushDirect(c) \/ RouteBad(c) \/ SendNext(c) \/ ReadClose(c)
           \/ ReadEnd(c) \/ AbortSink(c)
  <2>1. Same
    BY <1>8 DEF FlushDirect, RouteBad, SendNext, ReadClose, ReadEnd, AbortSink, roomVars, histVars
  <2> QED
    BY <2>1, BufferUntouched
<1> QED
  BY <1>1, <1>2, <1>3, <1>4, <1>5, <1>6, <1>7, <1>8 DEF HandlerStep

LEMMA BufferNext == TypeOK /\ Reg /\ BInv /\ [Next]_vars => BInv'
<1> SUFFICES ASSUME TypeOK, Reg, BInv, [Next]_vars PROVE BInv'
  OBVIOUS
<1> DEFINE Same == /\ UNCHANGED <<buffer, bufferedBytes, routed, readyAt, receiverDone>>
                   /\ open => open'
<1>1. CASE ClientStep
  <2>1. UNCHANGED <<roomVars, histVars>>
    BY <1>1 DEF ClientStep, Connect, SendBad, Crash, Emit, Abort, SenderExit, Advertise,
                Acknowledge, SendClose, Drained, Write, Vanish
  <2>2. Same
    BY <2>1 DEF roomVars, histVars
  <2> QED
    BY <2>2, BufferUntouched
<1>2. ASSUME NEW c \in Conns, SinkStep(c) PROVE BInv'
  <2>1. Same
    BY <1>2 DEF SinkStep, Deliver, DeliverFails, SinkEnds, roomVars, histVars
  <2> QED
    BY <2>1, BufferUntouched
<1>3. CASE UNCHANGED vars
  <2>1. Same
    BY <1>3 DEF vars, roomVars, histVars
  <2> QED
    BY <2>1, BufferUntouched
<1> QED
  BY <1>1, <1>2, <1>3, HandlerExact DEF Next

(***************************************************************************)
(* What push_buffer and drain_buffer (lib.rs:97-118) and the routing of    *)
(* data frames (lib.rs:293-302) keep of the buffer, for every number of    *)
(* connections, frame size and buffer bound: the byte count is exact and   *)
(* within the bound or one frame, and the frames are the last ones routed, *)
(* in order and without a gap, up to the first READY.                      *)
(***************************************************************************)
THEOREM BufferStaysExact == Spec => []BufferExact
<1>1. Spec => [](TypeOK /\ HasSends /\ Reg /\ BInv)
  BY BufferInit, BufferNext, RegInvariant, PTL DEF Spec
<1> QED
  BY <1>1, BufferExactBy, PTL
=============================================================================
