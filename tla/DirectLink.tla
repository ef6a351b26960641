----------------------------- MODULE DirectLink -----------------------------
(***************************************************************************)
(* One direct connection, TCP or QUIC (crates/orbit-transport/src/         *)
(* direct.rs): the queue and the task of the pipelined writer, the byte    *)
(* stream, and recv_frames with parse_frame and decode (crates/            *)
(* orbit-protocol/src/wire.rs) on the other side.                          *)
(*                                                                         *)
(* The stream carries symbols of one session only, all of one size, so     *)
(* frame f (from 1) is the bytes EndOf(f - 1) .. EndOf(f) - 1, and bytes   *)
(* are represented by their positions.  A frame header read at any other   *)
(* position is made of payload bytes and says anything.                    *)
(*                                                                         *)
(* The two transports differ in how a connection ends.  A TCP socket whose *)
(* writer is done still delivers what was written.  The QUIC task owns the *)
(* connection and the endpoint, and closes the connection when it ends:    *)
(* what the other side has not read by then may be lost.                   *)
(***************************************************************************)
EXTENDS Integers, Sequences

CONSTANTS
    HeaderSize,     \* type byte and length (5)
    PayloadSize,    \* session id, esi (12) and the symbol
    MinPayload,     \* the shortest payload decode accepts (8)
    MaxFrame,       \* MAX_FRAME
    GarbageLengths, \* lengths read from payload bytes
    ChunkSize,      \* bytes one read returns at most (64 KiB)
    SocketCap,      \* bound: bytes in the socket
    LinkDepth,      \* DIRECT_QUEUE_DEPTH
    Transports,     \* the transports of the instance: "tcp", "quic"
    LinkMayBreak    \* whether the connection may be lost

FrameSize == HeaderSize + PayloadSize

\* Where frame n ends in the stream.
EndOf(n) == n * FrameSize

ASSUME LinkAssumption ==
    /\ HeaderSize \in Nat \ {0} /\ PayloadSize \in Nat /\ MinPayload \in Nat /\ MaxFrame \in Nat
    /\ GarbageLengths \subseteq Nat
    /\ ChunkSize \in Nat \ {0} /\ SocketCap \in Nat \ {0} /\ LinkDepth \in Nat \ {0}
    /\ LinkMayBreak \in BOOLEAN /\ Transports \subseteq {"tcp", "quic"}

VARIABLES
    transport,      \* what the connection runs on
    queue,          \* frames in the writer's channel
    taken,          \* frames the writer task has taken from it
    writer,         \* the writer task: "on", "ended"
    alive,          \* the DirectWriter's alive flag
    dropped,        \* the DirectWriter is gone: its channel is closed
    conn,           \* the connection: "up", "broken", "closed" by the sending side
    wpos,           \* bytes written to the stream
    rpos,           \* bytes read from it
    base,           \* position of the first byte of recv_frames' buf, which ends at rpos
    header,         \* the length in the header at base, once it is there
    reader,         \* the reader task: "on", "ended"
    delivered,      \* history: what recv_frames returned, frames or garbage
    overread        \* history: some read went past the end of the frame it completed

linkVars == <<transport, queue, taken, writer, alive, dropped, conn, wpos, rpos, base, header,
              reader, delivered, overread>>

NoHeader == -1
Garbage == 0

LinkTypeOK ==
    /\ transport \in Transports
    /\ queue \in 0 .. LinkDepth
    /\ taken \in Nat
    /\ writer \in {"on", "ended"} /\ reader \in {"on", "ended"}
    /\ alive \in BOOLEAN /\ dropped \in BOOLEAN /\ overread \in BOOLEAN
    /\ conn \in {"up", "broken", "closed"}
    /\ wpos \in Nat /\ rpos \in Nat /\ base \in Nat
    /\ base <= rpos /\ rpos <= wpos /\ wpos <= EndOf(taken)
    /\ header \in Nat \cup {NoHeader}
    /\ delivered \in Seq(Nat)

\* into_pipeline: a fresh connection.
LinkInit ==
    /\ transport \in Transports
    /\ queue = 0 /\ taken = 0 /\ writer = "on" /\ alive = TRUE /\ dropped = FALSE
    /\ conn = "up" /\ wpos = 0
    /\ rpos = 0 /\ base = 0 /\ header = NoHeader /\ reader = "on"
    /\ delivered = <<>> /\ overread = FALSE

-----------------------------------------------------------------------------
(* The sending side. *)

\* Faulty variant of CanQueue: only a dead link refuses.
CanQueueAlways == alive /\ writer = "on"

\* try_send: never blocks; fails on a dead link and on a full or closed queue.
CanQueue == alive /\ writer = "on" /\ queue < LinkDepth
TrySend ==
    /\ CanQueue
    /\ queue' = queue + 1
    /\ UNCHANGED <<transport, taken, writer, alive, dropped, conn, wpos, rpos, base, header,
                   reader, delivered, overread>>

\* run() returns and drops the DirectWriter.
Drop ==
    /\ dropped' = TRUE
    /\ UNCHANGED <<transport, queue, taken, writer, alive, conn, wpos, rpos, base, header, reader,
                   delivered, overread>>

\* The writer task takes the next message once write_all and flush are done.
WriterTakes ==
    /\ writer = "on" /\ queue > 0 /\ wpos = EndOf(taken)
    /\ queue' = queue - 1 /\ taken' = taken + 1
    /\ UNCHANGED <<transport, writer, alive, dropped, conn, wpos, rpos, base, header, reader,
                   delivered, overread>>

\* write_all makes progress by n bytes.
WriterWrites(n) ==
    /\ writer = "on" /\ wpos + n <= EndOf(taken) /\ wpos + n - rpos <= SocketCap
    /\ wpos' = wpos + n
    /\ UNCHANGED <<transport, queue, taken, writer, alive, dropped, conn, rpos, base, header,
                   reader, delivered, overread>>

\* `_keep_alive` goes with the QUIC task, and the connection with it; TCP still
\* delivers what is in the socket.
ConnAfterTask == IF transport = "quic" /\ conn = "up" THEN "closed" ELSE conn

\* Faulty variant of WriterFails: a peer that stopped reading is not noticed.
WriterFailsOnBreak ==
    /\ writer = "on" /\ wpos < EndOf(taken) /\ conn = "broken"
    /\ writer' = "ended" /\ alive' = FALSE /\ queue' = 0 /\ conn' = ConnAfterTask
    /\ UNCHANGED <<transport, taken, dropped, wpos, rpos, base, header, reader, delivered,
                   overread>>

\* A failed write ends the task; what is queued is lost.
WriterFails ==
    /\ writer = "on" /\ wpos < EndOf(taken) /\ (conn = "broken" \/ reader = "ended")
    /\ writer' = "ended" /\ alive' = FALSE /\ queue' = 0 /\ conn' = ConnAfterTask
    /\ UNCHANGED <<transport, taken, dropped, wpos, rpos, base, header, reader, delivered,
                   overread>>

\* The channel is closed and empty: the task ends.
WriterEnds ==
    /\ writer = "on" /\ dropped /\ queue = 0 /\ wpos = EndOf(taken)
    /\ writer' = "ended" /\ conn' = ConnAfterTask
    /\ UNCHANGED <<transport, queue, taken, alive, dropped, wpos, rpos, base, header, reader,
                   delivered, overread>>

\* The process ends after run() has returned and takes the task along, and what
\* it has not written yet.
WriterKilled ==
    /\ writer = "on" /\ dropped
    /\ writer' = "ended" /\ queue' = 0 /\ conn' = IF conn = "up" THEN "closed" ELSE conn
    /\ UNCHANGED <<transport, taken, alive, dropped, wpos, rpos, base, header, reader, delivered,
                   overread>>

-----------------------------------------------------------------------------
(* The receiving side: recv_frames, called again after every frame. *)

\* The buffer starts at the start of a frame.
Aligned == base % FrameSize = 0

\* The length in the header at base, when `have` bytes are buffered.
Lengths(have) ==
    CASE have < HeaderSize -> {NoHeader}
      [] have >= HeaderSize /\ header # NoHeader -> {header}
      [] have >= HeaderSize /\ header = NoHeader /\ Aligned -> {PayloadSize}
      [] OTHER -> GarbageLengths

\* Faulty variant of Incomplete: one byte more is asked for.
IncompleteByOne(have, len) == len = NoHeader \/ have <= HeaderSize + len

\* parse_frame: a length beyond MAX_FRAME, more bytes to come, or a frame.
TooLarge(len) == len > MaxFrame
Incomplete(have, len) == len = NoHeader \/ have < HeaderSize + len

\* Faulty variant of BufferStart: the frame stays in buf.
KeepsFrame(len) == base

\* recv_frames returns: buf is dropped with whatever follows the frame.
BufferStart(len) == rpos'

\* What decode makes of the frame: payload bytes may be any message or none.
Decoded == IF Aligned THEN {base \div FrameSize + 1} ELSE {Garbage}
Decodes(len) == IF Aligned THEN {TRUE} ELSE {len >= MinPayload, FALSE}

\* One read of n bytes, and parse_frame on what is buffered then.
Read(n) ==
    /\ reader = "on" /\ rpos + n <= wpos
    /\ rpos' = rpos + n
    /\ \E len \in Lengths(rpos + n - base) :
         \/ /\ TooLarge(len)
            /\ reader' = "ended" /\ UNCHANGED <<base, header, delivered, overread>>
         \/ /\ ~TooLarge(len) /\ Incomplete(rpos + n - base, len)
            /\ header' = len /\ UNCHANGED <<base, reader, delivered, overread>>
         \/ /\ ~TooLarge(len) /\ ~Incomplete(rpos + n - base, len)
            /\ base' = BufferStart(len) /\ header' = NoHeader
            /\ overread' = (overread \/ rpos + n - base > HeaderSize + len)
            /\ \E ok \in Decodes(len) :
                 IF ok THEN /\ \E m \in Decoded : delivered' = Append(delivered, m)
                            /\ UNCHANGED reader
                       ELSE reader' = "ended" /\ UNCHANGED delivered
    /\ UNCHANGED <<transport, queue, taken, writer, alive, dropped, conn, wpos>>

\* The end of the stream, or an error of the connection.
ReadEnds ==
    /\ reader = "on" /\ (conn # "up" \/ (writer = "ended" /\ rpos = wpos))
    /\ reader' = "ended"
    /\ UNCHANGED <<transport, queue, taken, writer, alive, dropped, conn, wpos, rpos, base, header,
                   delivered, overread>>

Break ==
    /\ LinkMayBreak /\ conn = "up"
    /\ conn' = "broken"
    /\ UNCHANGED <<transport, queue, taken, writer, alive, dropped, wpos, rpos, base, header,
                   reader, delivered, overread>>

-----------------------------------------------------------------------------
WriterStep ==
    WriterTakes \/ (\E n \in 1 .. FrameSize : WriterWrites(n)) \/ WriterFails \/ WriterEnds
ReaderStep == (\E n \in 1 .. ChunkSize : Read(n)) \/ ReadEnds

-----------------------------------------------------------------------------
(* What the link does to the frames. *)

\* As long as no read goes past the end of a frame, recv_frames returns the
\* frames that were written, in order, none missing and nothing else, and the
\* buffer always starts at a frame (direct.rs:46-65, wire.rs:211-224).
FramesExact ==
    ~overread => /\ base = EndOf(Len(delivered))
                 /\ \A k \in DOMAIN delivered : delivered[k] = k

\* No frame is returned twice or after a later one, whatever is lost (direct.rs:46-65).
InOrder ==
    \A j, k \in DOMAIN delivered :
        j < k /\ delivered[j] # Garbage /\ delivered[k] # Garbage => delivered[j] < delivered[k]

\* Both: recv_frames never repeats or reorders frames, and loses or invents none
\* unless a read went past a frame (direct.rs:46-65, wire.rs:211-224).
FramesSound == FramesExact /\ InOrder

\* "Reads complete OrbitMessage frames from any byte stream" (direct.rs:46):
\* what is returned are the frames that were written, all of them.
FramesIntact == \A k \in DOMAIN delivered : delivered[k] = k
=============================================================================
