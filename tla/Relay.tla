------------------------------- MODULE Relay -------------------------------
(***************************************************************************)
(* One session of the edge relay (crates/orbit-relay/src/lib.rs): the room *)
(* shared by the session's connections, and for every connection its      *)
(* handler task (handle_conn, route, leave_room), its bounded outgoing     *)
(* channel and the sink task that writes that channel to the socket.       *)
(*                                                                         *)
(* The mutex on the rooms makes each critical section one step; every      *)
(* await outside the lock (a blocking send on a channel, the second lock   *)
(* taken for a pending DIRECT, leave_room, the abort of the sink task) is  *)
(* a step of its own, so other connections interleave with it.             *)
(***************************************************************************)
EXTENDS Integers, Sequences, FiniteSets

CONSTANTS
    Senders,            \* connections that register with ROLE_SENDER
    Receivers,          \* connections that register with ROLE_RECEIVER
    Crashers,           \* connections whose client may vanish at any moment
    Faulty,             \* connections that may send an undecodable frame
    Aborters,           \* senders that may end the session with DONE
    NoConn,             \* Option::None for a connection
    NoFrame,            \* Option::None for a frame
    MaxPos,             \* bound: data frames per sender (0 is the Meta)
    MaxDirect,          \* bound: DIRECT advertisements per receiver
    InCap,              \* bound: frames in flight from a client to its handler
    ChanCap,            \* capacity of a connection's outgoing channel (16384)
    MaxBufferedBytes,   \* MAX_BUFFERED_BYTES
    MetaSize,           \* bytes of an encoded Meta
    SymbolSize          \* bytes of an encoded Symbol

ASSUME ConnsAssumption ==
    /\ Senders \cap Receivers = {}
    /\ NoConn \notin Senders \cup Receivers
    /\ Crashers \subseteq Senders \cup Receivers
    /\ Faulty \subseteq Senders \cup Receivers
    /\ Aborters \subseteq Senders

ASSUME BoundsAssumption ==
    /\ MaxPos \in Nat /\ MaxDirect \in Nat
    /\ InCap \in Nat \ {0} /\ ChanCap \in Nat \ {0}
    /\ MaxBufferedBytes \in Nat
    /\ MetaSize \in Nat \ {0} /\ SymbolSize \in Nat \ {0}

Conns == Senders \cup Receivers

(***************************************************************************)
(* Frames.  Data frames are numbered by their sender: position 0 is its    *)
(* Meta, the later ones are symbols.  The payload plays no part in routing.*)
(***************************************************************************)
Frame(type, from, pos) == [type |-> type, from |-> from, pos |-> pos]
DataTypes == {"Meta", "Symbol"}
Frames == [type : {"Hello", "Meta", "Symbol", "Ready", "Direct", "Done", "Close", "Bad"},
           from : Conns, pos : Nat]

ASSUME NoFrameAssumption == NoFrame \notin Frames

VARIABLES
    \* the Room of the session; while ~open the others hold Room::new's values
    open, sender, receiver, buffer, bufferedBytes, pendingDirect, receiverDone,
    client,     \* what the peer of the connection is doing
    sent,       \* data frames (sender) or DIRECTs (receiver) the client wrote
    inq,        \* frames written by the client, not yet read by the handler
    handler,    \* where the connection's handle_conn task is
    joined,     \* session_id.is_some(): some frame was routed
    todo,       \* blocking sends the handler still has to make, in order
    chan,       \* the connection's outgoing channel
    sink,       \* its sink task: running, or gone with the channel's far end
    got,        \* history: frames the sink task delivered to the client
    routed,     \* history: data frames in the order route() saw them
    evicted,    \* history: data frames push_buffer threw away
    mark,       \* history: Len(routed) when a receiver registered
    readyAt     \* history: Len(routed) when the room's first READY was routed, or -1

roomVars == <<open, sender, receiver, buffer, bufferedBytes, pendingDirect, receiverDone>>
connVars == <<client, sent, inq, handler, joined, todo, chan, sink>>
histVars == <<got, routed, evicted, mark, readyAt>>
vars == <<roomVars, connVars, histVars>>

Sends == [to : Conns \cup {NoConn}, frame : Frames]
ClientStates == {"new", "up", "ready", "closing", "gone"}
HandlerStates == {"idle", "reading", "sending", "direct", "leaving", "left", "closed", "aborted"}

TypeOK ==
    /\ open \in BOOLEAN
    /\ sender \in Senders \cup {NoConn}
    /\ receiver \in Receivers \cup {NoConn}
    /\ buffer \in Seq(Frames)
    /\ bufferedBytes \in Nat
    /\ pendingDirect \in Frames \cup {NoFrame}
    /\ receiverDone \in BOOLEAN
    /\ client \in [Conns -> ClientStates]
    /\ sent \in [Conns -> Nat]
    /\ inq \in [Conns -> Seq(Frames)]
    /\ handler \in [Conns -> HandlerStates]
    /\ joined \in [Conns -> BOOLEAN]
    /\ todo \in [Conns -> Seq(Sends)]
    /\ chan \in [Conns -> Seq(Frames)]
    /\ sink \in [Conns -> {"run", "dead"}]
    /\ got \in [Conns -> Seq(Frames)]
    /\ routed \in Seq(Frames)
    /\ evicted \in SUBSET Frames
    /\ mark \in [Receivers -> Nat]
    /\ readyAt \in Int

Init ==
    /\ open = FALSE /\ sender = NoConn /\ receiver = NoConn
    /\ buffer = <<>> /\ bufferedBytes = 0
    /\ pendingDirect = NoFrame /\ receiverDone = FALSE
    /\ client = [c \in Conns |-> "new"]
    /\ sent = [c \in Conns |-> 0]
    /\ inq = [c \in Conns |-> <<>>]
    /\ handler = [c \in Conns |-> "idle"]
    /\ joined = [c \in Conns |-> FALSE]
    /\ todo = [c \in Conns |-> <<>>]
    /\ chan = [c \in Conns |-> <<>>]
    /\ sink = [c \in Conns |-> "run"]
    /\ got = [c \in Conns |-> <<>>]
    /\ routed = <<>> /\ evicted = {}
    /\ mark = [r \in Receivers |-> 0]
    /\ readyAt = -1

-----------------------------------------------------------------------------
(* The clients: SenderSession and ReceiverSession seen from their relay.   *)

\* A client connects and introduces itself; the accept loop spawns its handler.
Connect(c) ==
    /\ client[c] = "new"
    /\ client' = [client EXCEPT ![c] = "up"]
    /\ handler' = [handler EXCEPT ![c] = "reading"]
    /\ inq' = [inq EXCEPT ![c] = Append(@, Frame("Hello", c, 0))]
    /\ UNCHANGED <<roomVars, sent, joined, todo, chan, sink, histVars>>

\* The client writes frame f and moves on to state next.
Write(c, f, next) ==
    /\ Len(inq[c]) < InCap
    /\ inq' = [inq EXCEPT ![c] = Append(@, f)]
    /\ client' = [client EXCEPT ![c] = next]
    /\ UNCHANGED <<roomVars, handler, joined, todo, chan, sink, histVars>>

\* The sender writes its Meta, then symbol after symbol.
Emit(s) ==
    /\ client[s] = "up" /\ sent[s] <= MaxPos
    /\ Write(s, Frame(IF sent[s] = 0 THEN "Meta" ELSE "Symbol", s, sent[s]), "up")
    /\ sent' = [sent EXCEPT ![s] = @ + 1]

\* The receiver's advertisement task, which also runs after READY.
Advertise(r) ==
    /\ client[r] \in {"up", "ready"} /\ sent[r] < MaxDirect
    /\ Write(r, Frame("Direct", r, sent[r]), client[r])
    /\ sent' = [sent EXCEPT ![r] = @ + 1]

Acknowledge(r) ==
    /\ client[r] = "up"
    /\ Write(r, Frame("Ready", r, 0), "ready")
    /\ UNCHANGED sent

SendClose(r) ==
    /\ client[r] = "ready"
    /\ Write(r, Frame("Close", r, 0), "closing")
    /\ UNCHANGED sent

Abort(s) ==
    /\ s \in Aborters /\ client[s] = "up"
    /\ Write(s, Frame("Done", s, 0), "closing")
    /\ UNCHANGED sent

SendBad(c) ==
    /\ c \in Faulty /\ client[c] = "up"
    /\ Write(c, Frame("Bad", c, 0), "closing")
    /\ UNCHANGED sent

\* The socket goes away.  What the handler has not read yet survives in the
\* relay's receive buffer, or is purged by a reset.
Vanish(c) ==
    /\ client' = [client EXCEPT ![c] = "gone"]
    /\ \E kept \in {inq[c], <<>>} : inq' = [inq EXCEPT ![c] = kept]
    /\ UNCHANGED <<roomVars, sent, handler, joined, todo, chan, sink, histVars>>

Crash(c) ==
    /\ c \in Crashers /\ client[c] \notin {"new", "gone"}
    /\ Vanish(c)

\* SenderSession::run returns on READY (or after DONE) and its sockets are dropped.
SenderExit(s) ==
    /\ client[s] \in {"up", "closing"}
    /\ client[s] = "up" => \E i \in DOMAIN got[s] : got[s][i].type = "Ready"
    /\ Vanish(s)

\* The receiver drains its link until the relay has closed the socket.
Drained(r) ==
    /\ client[r] = "closing" /\ handler[r] = "closed"
    /\ Vanish(r)

-----------------------------------------------------------------------------
(* The room. *)

Size(f) == IF f.type = "Meta" THEN MetaSize ELSE SymbolSize

Count(s, type) == Cardinality({i \in DOMAIN s : s[i].type = type})
Bytes(s) == MetaSize * Count(s, "Meta") + SymbolSize * Count(s, "Symbol")

\* Faulty variant of SaturatingSub: an off-by-one subtraction that is not saturating.
SubtractHeader(a, b) == a - b - 1

SaturatingSub(a, b) == IF a >= b THEN a - b ELSE 0

\* How many of the oldest frames push_buffer drops to make room for one of
\* the given size: a frame goes if even without those before it the new one
\* does not fit.
Evict(size) ==
    LET Left(k) == SaturatingSub(bufferedBytes, Bytes(SubSeq(buffer, 1, k))) IN
    Cardinality({k \in 1 .. Len(buffer) : Left(k - 1) + size > MaxBufferedBytes})

\* Faulty variant of PushBuffer: the newest frames are dropped instead of the oldest.
PopBack(f) ==
    LET k == Evict(Size(f)) IN
    /\ bufferedBytes' = SaturatingSub(bufferedBytes, Bytes(SubSeq(buffer, 1, k))) + Size(f)
    /\ buffer' = Append(SubSeq(buffer, 1, Len(buffer) - k), f)
    /\ evicted' = evicted \cup {buffer[i] : i \in 1 .. k}

PushBuffer(f) ==
    LET k == Evict(Size(f)) IN
    /\ bufferedBytes' = SaturatingSub(bufferedBytes, Bytes(SubSeq(buffer, 1, k))) + Size(f)
    /\ buffer' = Append(SubSeq(buffer, k + 1, Len(buffer)), f)
    /\ evicted' = evicted \cup {buffer[i] : i \in 1 .. k}

\* Faulty variant of DrainBuffer: the drained frames stay in the buffer.
DrainKeeps == UNCHANGED <<buffer, bufferedBytes>>

\* drain_buffer: the frames, and the empty buffer it leaves.
DrainBuffer == buffer' = <<>> /\ bufferedBytes' = SaturatingSub(bufferedBytes, Bytes(buffer))

RemoveRoom ==
    /\ open' = FALSE /\ sender' = NoConn /\ receiver' = NoConn
    /\ buffer' = <<>> /\ bufferedBytes' = 0
    /\ pendingDirect' = NoFrame /\ receiverDone' = FALSE
    /\ readyAt' = -1

-----------------------------------------------------------------------------
(* handle_conn and route. *)

\* The handler of c takes the next frame, of one of the given types, off the wire.
Read(c, types) ==
    /\ handler[c] = "reading" /\ inq[c] # <<>> /\ Head(inq[c]).type \in types
    /\ inq' = [inq EXCEPT ![c] = Tail(@)]
    /\ joined' = [joined EXCEPT ![c] = TRUE]

\* The handler of c leaves the lock with the sends ss still to make.
Then(c, ss) ==
    /\ todo' = [todo EXCEPT ![c] = ss]
    /\ handler' = [handler EXCEPT ![c] = IF ss = <<>> THEN "reading" ELSE "sending"]

RouteHelloSender(s) ==
    /\ Read(s, {"Hello"})
    /\ open' = TRUE /\ sender' = s
    /\ pendingDirect' = NoFrame
    /\ IF pendingDirect = NoFrame
         THEN Then(s, <<>>)
         ELSE /\ todo' = [todo EXCEPT ![s] = <<[to |-> NoConn, frame |-> pendingDirect]>>]
              /\ handler' = [handler EXCEPT ![s] = "direct"]
    /\ UNCHANGED <<receiver, buffer, bufferedBytes, receiverDone,
                   client, sent, chan, sink, histVars>>

\* The second lock: the pending DIRECT goes to whoever is the sender by now.
FlushDirect(s) ==
    /\ handler[s] = "direct"
    /\ Then(s, IF sender = NoConn THEN <<>>
               ELSE <<[to |-> sender, frame |-> todo[s][1].frame]>>)
    /\ UNCHANGED <<roomVars, client, sent, inq, joined, chan, sink, histVars>>

\* Faulty variant of FlushSends: the buffer is flushed from the back.
FlushReversed(r) == [i \in DOMAIN buffer |-> [to |-> r, frame |-> buffer[Len(buffer) + 1 - i]]]

FlushSends(r) == [i \in DOMAIN buffer |-> [to |-> r, frame |-> buffer[i]]]

RouteHelloReceiver(r) ==
    /\ Read(r, {"Hello"})
    /\ open' = TRUE /\ receiver' = r
    /\ DrainBuffer
    /\ Then(r, FlushSends(r))
    /\ mark' = [mark EXCEPT ![r] = Len(routed)]
    /\ UNCHANGED <<sender, pendingDirect, receiverDone, client, sent, chan, sink,
                   got, routed, evicted, readyAt>>

\* Meta and Symbol: to the receiver, into the buffer, or nowhere after READY.
DataTarget(f) ==
    IF receiverDone \/ receiver = NoConn THEN <<>> ELSE <<[to |-> receiver, frame |-> f]>>

\* Faulty variant of DataBuffered: receiver_done is not consulted.
BufferAfterReady == receiver = NoConn

DataBuffered == ~receiverDone /\ receiver = NoConn
RouteData(s) ==
    /\ Read(s, DataTypes)
    /\ LET f == Head(inq[s]) IN
       /\ Then(s, DataTarget(f))
       /\ IF DataBuffered
            THEN PushBuffer(f) /\ open' = TRUE
            ELSE UNCHANGED <<buffer, bufferedBytes, evicted, open>>
       /\ routed' = Append(routed, f)
    /\ UNCHANGED <<sender, receiver, pendingDirect, receiverDone, client, sent, chan, sink,
                   got, mark, readyAt>>

\* READY: the room stops forwarding; the frame goes to the sender of the moment.
RouteReady(r) ==
    /\ Read(r, {"Ready"})
    /\ receiverDone' = open
    /\ Then(r, IF sender = NoConn THEN <<>> ELSE <<[to |-> sender, frame |-> Head(inq[r])]>>)
    /\ readyAt' = IF open /\ ~receiverDone THEN Len(routed) ELSE readyAt
    /\ UNCHANGED <<open, sender, receiver, buffer, bufferedBytes, pendingDirect,
                   client, sent, chan, sink, got, routed, evicted, mark>>

RouteDirect(r) ==
    /\ Read(r, {"Direct"})
    /\ LET f == Head(inq[r]) IN
       IF sender = NoConn
         THEN pendingDirect' = f /\ open' = TRUE /\ Then(r, <<>>)
         ELSE Then(r, <<[to |-> sender, frame |-> f]>>) /\ UNCHANGED <<pendingDirect, open>>
    /\ UNCHANGED <<sender, receiver, buffer, bufferedBytes, receiverDone,
                   client, sent, chan, sink, histVars>>

\* DONE discards the room and is not forwarded to anyone.
RouteDone(s) ==
    /\ Read(s, {"Done"})
    /\ RemoveRoom
    /\ Then(s, <<>>)
    /\ UNCHANGED <<client, sent, chan, sink, got, routed, evicted, mark>>

\* A frame that does not parse ends the handler through `?`: the connection
\* stays registered and its sink task keeps running.
RouteBad(c) ==
    /\ handler[c] = "reading" /\ inq[c] # <<>> /\ Head(inq[c]).type = "Bad"
    /\ inq' = [inq EXCEPT ![c] = Tail(@)]
    /\ handler' = [handler EXCEPT ![c] = "aborted"]
    /\ UNCHANGED <<roomVars, client, sent, joined, todo, chan, sink, histVars>>

\* Faulty variant of CanSend: try_send, which drops the frame when the channel is full.
TrySend(c) == TRUE

\* Faulty variant of CanSend: a send to a channel without a reader waits.
WaitEvenIfDead(c) == Len(chan[c]) < ChanCap /\ sink[c] = "run"

\* One blocking send: it waits for a free slot, and fails at once when the
\* channel's reader is gone.
CanSend(c) == sink[c] = "dead" \/ Len(chan[c]) < ChanCap
SendNext(c) ==
    /\ handler[c] = "sending"
    /\ LET m == Head(todo[c]) IN
       /\ CanSend(m.to)
       /\ chan' = IF sink[m.to] = "run" /\ Len(chan[m.to]) < ChanCap
                    THEN [chan EXCEPT ![m.to] = Append(@, m.frame)] ELSE chan
    /\ Then(c, Tail(todo[c]))
    /\ UNCHANGED <<roomVars, client, sent, inq, joined, sink, histVars>>

\* The read loop ends: on Close (answered if the channel has room) or when
\* the socket is gone and everything received has been read.
ReadClose(c) ==
    /\ handler[c] = "reading" /\ inq[c] # <<>> /\ Head(inq[c]).type = "Close"
    /\ inq' = [inq EXCEPT ![c] = Tail(@)]
    /\ handler' = [handler EXCEPT ![c] = "leaving"]
    /\ chan' = IF sink[c] = "run" /\ Len(chan[c]) < ChanCap
                 THEN [chan EXCEPT ![c] = Append(@, Frame("Close", c, 0))] ELSE chan
    /\ UNCHANGED <<roomVars, client, sent, joined, todo, sink, histVars>>

ReadEnd(c) ==
    /\ handler[c] = "reading" /\ inq[c] = <<>> /\ client[c] = "gone"
    /\ handler' = [handler EXCEPT ![c] = "leaving"]
    /\ UNCHANGED <<roomVars, client, sent, inq, joined, todo, chan, sink, histVars>>

\* Faulty variant of Clear: leave_room forgets the registration.
ClearNever(slot, c) == slot

\* Faulty variant of Clear: the conn_id is not compared.
ClearAny(slot, c) == NoConn

\* leave_room, guarded by `if let Some(id) = session_id`: a connection only
\* ever clears its own registration.
Clear(slot, c) == IF slot = c THEN NoConn ELSE slot

\* Faulty variant of RoomAbandoned: a room that has seen READY is kept.
KeptAfterReady(s, r) == s = NoConn /\ r = NoConn /\ buffer = <<>> /\ ~receiverDone

RoomAbandoned(s, r) == s = NoConn /\ r = NoConn /\ buffer = <<>>
LeaveRoom(c) ==
    /\ handler[c] = "leaving"
    /\ handler' = [handler EXCEPT ![c] = "left"]
    /\ IF joined[c] /\ open
         THEN LET s == Clear(sender, c)  r == Clear(receiver, c) IN
              IF RoomAbandoned(s, r)
                THEN RemoveRoom
                ELSE /\ sender' = s /\ receiver' = r
                     /\ UNCHANGED <<open, buffer, bufferedBytes, pendingDirect, receiverDone, readyAt>>
         ELSE UNCHANGED <<roomVars, readyAt>>
    /\ UNCHANGED <<client, sent, inq, joined, todo, chan, sink, got, routed, evicted, mark>>

\* sink_task.abort(): what the channel still holds is never written.
AbortSink(c) ==
    /\ handler[c] = "left"
    /\ handler' = [handler EXCEPT ![c] = "closed"]
    /\ sink' = [sink EXCEPT ![c] = "dead"]
    /\ chan' = [chan EXCEPT ![c] = <<>>]
    /\ UNCHANGED <<roomVars, client, sent, inq, joined, todo, histVars>>

-----------------------------------------------------------------------------
(* The sink task. *)

\* It writes the next frame to a client that is still there.
Deliver(c) ==
    /\ sink[c] = "run" /\ chan[c] # <<>> /\ client[c] # "gone"
    /\ chan' = [chan EXCEPT ![c] = Tail(@)]
    /\ got' = [got EXCEPT ![c] = Append(@, Head(chan[c]))]
    /\ UNCHANGED <<roomVars, client, sent, inq, handler, joined, todo, sink,
                   routed, evicted, mark, readyAt>>

\* The client is gone: the write still succeeds into the socket's buffer, or
\* it fails, and then the task ends and drops the channel's reader.
DeliverFails(c) ==
    /\ sink[c] = "run" /\ chan[c] # <<>> /\ client[c] = "gone"
    /\ \/ chan' = [chan EXCEPT ![c] = Tail(@)] /\ UNCHANGED sink
       \/ chan' = [chan EXCEPT ![c] = <<>>] /\ sink' = [sink EXCEPT ![c] = "dead"]
    /\ UNCHANGED <<roomVars, client, sent, inq, handler, joined, todo, histVars>>

\* Nobody holds the channel's sending half any more (only after RouteBad:
\* otherwise the handler aborts the task first).
SinkEnds(c) ==
    /\ handler[c] = "aborted" /\ sink[c] = "run" /\ chan[c] = <<>>
    /\ c \notin {sender, receiver}
    /\ \A d \in Conns : \A i \in DOMAIN todo[d] : todo[d][i].to # c
    /\ sink' = [sink EXCEPT ![c] = "dead"]
    /\ UNCHANGED <<roomVars, client, sent, inq, handler, joined, todo, chan, histVars>>

-----------------------------------------------------------------------------
ClientStep ==
    \/ \E c \in Conns : Connect(c) \/ SendBad(c) \/ Crash(c)
    \/ \E s \in Senders : Emit(s) \/ Abort(s) \/ SenderExit(s)
    \/ \E r \in Receivers : Advertise(r) \/ Acknowledge(r) \/ SendClose(r) \/ Drained(r)

HandlerStep(c) ==
    \/ c \in Senders /\ (RouteHelloSender(c) \/ FlushDirect(c) \/ RouteData(c) \/ RouteDone(c))
    \/ c \in Receivers /\ (RouteHelloReceiver(c) \/ RouteReady(c) \/ RouteDirect(c))
    \/ RouteBad(c) \/ SendNext(c) \/ ReadClose(c) \/ ReadEnd(c) \/ LeaveRoom(c) \/ AbortSink(c)

SinkStep(c) == Deliver(c) \/ DeliverFails(c) \/ SinkEnds(c)

Next == ClientStep \/ \E c \in Conns : HandlerStep(c) \/ SinkStep(c)

Spec == Init /\ [][Next]_vars

\* tokio runs every ready task: the handlers and the sink tasks of the relay.
\* A receiver that has acknowledged also closes its side, as run() does.
FairSpec ==
    /\ Spec
    /\ \A c \in Conns : WF_vars(HandlerStep(c)) /\ WF_vars(SinkStep(c))
    /\ \A r \in Receivers : WF_vars(SendClose(r)) /\ WF_vars(Drained(r))

-----------------------------------------------------------------------------
(* Safety. *)

DataFrames == {routed[i] : i \in DOMAIN routed}

\* Everywhere the relay holds a copy of f, or has handed one out.
Places(f) ==
    {<<"buffer", NoConn, i>> : i \in {i \in DOMAIN buffer : buffer[i] = f}}
    \cup UNION {{<<"todo", c, i>> : i \in {i \in DOMAIN todo[c] : todo[c][i].frame = f}}
                \cup {<<"chan", c, i>> : i \in {i \in DOMAIN chan[c] : chan[c][i] = f}}
                \cup {<<"got", c, i>> : i \in {i \in DOMAIN got[c] : got[c][i] = f}}
                : c \in Conns}

\* The relay never duplicates a data frame, although a frame changes hands
\* outside the lock and receivers replace each other (lib.rs:262-266, 316-323).
AtMostOnce == \A f \in DataFrames : Cardinality(Places(f)) <= 1

\* Backpressure, not drop (lib.rs:317-322): as long as no receiver has
\* finished or failed and no sender has sent DONE, every frame the relay has
\* read is buffered, queued or delivered, unless the buffer overflowed.
NothingLost ==
    (Aborters = {} /\ \A r \in Receivers : client[r] \in {"new", "up"})
        => \A f \in DataFrames \ evicted : Places(f) # {}

\* The buffer holds the most recent frames, without a gap and in the order
\* they were routed; READY freezes it (lib.rs:97-118, 293-302).
BufferIsSuffix ==
    LET n == IF readyAt >= 0 THEN readyAt ELSE Len(routed) IN
    /\ Len(buffer) <= n
    /\ buffer = SubSeq(routed, n - Len(buffer) + 1, n)

\* buffered_bytes is the size of the buffer, and the cap holds except for a
\* single frame larger than the cap itself (lib.rs:97-108).
BufferAccounting ==
    /\ bufferedBytes = Bytes(buffer)
    /\ bufferedBytes <= MaxBufferedBytes \/ Len(buffer) = 1

\* Both: what is buffered, and what the relay believes it has buffered, are
\* exact through evictions, flushes and READY (lib.rs:97-118).
BufferExact == BufferIsSuffix /\ BufferAccounting

\* "flushed in order" (lib.rs:497): frames buffered before a receiver came
\* reach it in the order they were routed, and so do the later frames of one
\* sender; live frames may overtake the flush, which runs outside the lock.
OrderWithinClass ==
    LET Index(f) == CHOOSE i \in DOMAIN routed : routed[i] = f
        Data(c) == {i \in DOMAIN got[c] : got[c][i].type \in DataTypes}
    IN  \A r \in Receivers : \A i, j \in Data(r) :
          LET a == Index(got[r][i])  b == Index(got[r][j]) IN
          (i < j /\ (\/ a <= mark[r] /\ b <= mark[r]
                     \/ a > mark[r] /\ b > mark[r] /\ got[r][i].from = got[r][j].from))
             => a < b

\* After READY is routed nothing is forwarded or kept (test comments at
\* lib.rs:554-560): the frames routed later are nowhere.
NoForwardAfterReady ==
    readyAt >= 0 => \A i \in (readyAt + 1) .. Len(routed) : Places(routed[i]) = {}

\* A registration never outlives the leave_room of its connection: its handler
\* has still to leave the room, or never will, because a frame that does not
\* parse has ended it ("aborted", lib.rs:195-200; the registration of such a
\* connection does stay behind).  While a receiver is registered nothing waits
\* in the buffer (lib.rs:236-256, 415-438).
RegistrationSound ==
    /\ sender # NoConn => joined[sender] /\ handler[sender] \notin {"idle", "left", "closed"}
    /\ receiver # NoConn => joined[receiver] /\ handler[receiver] \notin {"idle", "left", "closed"}
    /\ receiver # NoConn => buffer = <<>>

Succeeds(c) == c # NoConn /\ ~joined[c] /\ joined'[c]
Leaves(c) == handler[c] = "leaving" /\ handler'[c] = "left"
Discarded == \E s \in Senders : /\ inq[s] # <<>> /\ Head(inq[s]).type = "Done"
                                /\ inq'[s] = Tail(inq[s])

RegistrationStep ==
    /\ (sender # NoConn /\ sender' # sender)
         => Succeeds(sender') \/ Leaves(sender) \/ Discarded
    /\ (receiver # NoConn /\ receiver' # receiver)
         => Succeeds(receiver') \/ Leaves(receiver) \/ Discarded

\* A registration ends only with the leave_room of its own connection, the
\* Hello of a successor, or DONE: a displaced connection that leaves late
\* does not evict its successor (the conn_id checks at lib.rs:418-433).
KeepsRegistration == [][RegistrationStep]_vars

\* The handler of c was ended by a frame that does not parse: c has joined the
\* room and will never leave it.
Severed(c) == joined[c] /\ handler[c] = "aborted"

\* Once no handler runs any more, a room is left for one of two reasons only:
\* frames are still buffered in it (lib.rs:434-436), or the handler of one of its
\* connections was ended by a frame that does not parse and skipped leave_room
\* (lib.rs:195-200).  Such a room stays until a later connection of the session
\* removes it: the relay has no timer for rooms.
RoomReclaimed ==
    (open /\ \A c \in Conns : handler[c] \in {"idle", "closed", "aborted"})
        => buffer # <<>> \/ \E c \in Conns : Severed(c)

(* Liveness. *)

\* READY gets through, even while the sender's own handler is blocked on the
\* receiver's full channel and the receiver's handler is still flushing
\* (lib.rs:356-381): it is read off the wire, and once routed to a sender it
\* reaches that sender, unless the sender has gone.
ReadyReachesSender ==
    \A r \in Receivers :
        LET OnWire == \E i \in DOMAIN inq[r] : inq[r][i].type = "Ready"
            Routed(s) == \E i \in DOMAIN todo[r] : todo[r][i].frame.type = "Ready" /\ todo[r][i].to = s
            Delivered(s) == \E i \in DOMAIN got[s] : got[s][i].type = "Ready"
        IN  /\ OnWire ~> ~OnWire
            /\ \A s \in Senders : Routed(s) ~> (Delivered(s) \/ client[s] = "gone")

\* A handler blocked on a channel always gets on: the channel is drained or
\* its reader goes away (lib.rs:264, 322).
BlockedSendsEnd == \A c \in Conns : (handler[c] = "sending") ~> (handler[c] # "sending")

\* The handler of a client that went away ends and takes its registration along
\* (lib.rs:215-218, 415-433), unless a frame that does not parse had ended it before
\* (lib.rs:195-200): then leave_room is never reached and nothing is promised about
\* the registration.
HandlersEnd ==
    \A c \in Conns :
        (client[c] = "gone") ~> \/ handler[c] = "closed" /\ c \notin {sender, receiver}
                                \/ c \in Faulty /\ handler[c] = "aborted"
=============================================================================
