# Verification of Orbit-Transfer in TLA+

Orbit-Transfer moves a file from a sender to a receiver as a stream of fountain
symbols, over any number of edge relays and, when the receiver can be reached, a
direct link; a browser demo does the same over a WebRTC data channel. This
directory holds TLA+ models of the relay, of the two sessions, of the scheduler and
the direct link, of the fountain decoder and of the browser transfer with its
signalling service, TLC configurations that check them on small
instances, and TLAPS proofs of their central invariants for every instance.
`PROJECT.json` lists components, runs, theorems, findings and hazards, and maps
every definition to the lines it models.

Check a run with `tlc -config MCRelayHandover.cfg MCRelay`, a proof with
`tlapm RelayProofs.tla`.

## 1. Inventory

| Component | State it keeps | Operations | Hard behaviour | What makes it correct |
|---|---|---|---|---|
| Edge relay, rooms (`orbit-relay/src/lib.rs`) | per session: sender, receiver, frame buffer with a byte count, a pending DIRECT, `receiver_done`; per connection: a bounded channel, a sink task | `route` (Hello, Meta, Symbol, READY, DIRECT, DONE), `leave_room`, `push_buffer`, `drain_buffer` | channels are cloned under the lock and used after it; the flush runs outside the lock; connections replace each other; blocking sends between connections | no frame duplicated or lost by a handover, exact buffer accounting, registrations that end with their own connection's `leave_room`, READY gets through, handlers end |
| Edge relay, rate limiter (same file) | tokens, `last` | `throttle_bytes` | sleeps that end late, idle time, messages larger than the burst cap | bounded rate, bounded burst |
| Sender session (`orbit-transport/src/session.rs`) | per relay a queue, an alive flag and a watcher; events channel; direct link; ESI; scheduler | `connect`, `dispatch`, `dispatch_or_wait`, `run`, watcher and writer tasks | relays die while symbols are queued; several watchers see one advertisement; a bounded events channel nobody reads yet | stops exactly when the receiver has the payload; one direct link; no watcher blocks |
| Receiver session (same file) | decoder, symbols kept before the Meta, ended streams | `connect`, `handle_symbol`, `run` with READY, Close and drain; advertisement and accept tasks | symbols overtake the Meta; a relay dies during the shutdown; a reset purges READY | decodes when enough symbols arrive; returns what it decoded; the sender learns of it |
| Direct link (`direct.rs`) | writer queue, alive flag, the buffer of one `recv_frames` call | `try_send`, writer task, `recv_frames`, QUIC and TCP set-up | reads that cut the stream anywhere; a reader out of step; a full queue against a dead link | the frames written are the frames returned; the emission loop is never held up |
| Scheduler (`scheduler.rs`) | `next_relay` | `new`, `pick` | `f32` arithmetic on the sequence number; a symbol that is scheduled twice | every path gets its share |
| Fountain code (`orbit-fountain/src`) | resolved inputs, active equations, reverse index, ripple queue | `encode_symbol`, `build_precoded`, `add_symbol`, `reconstruct` | ripples through equations that are indexed under inputs still queued | decoded data is the encoded data, independent of order and duplicates; the ripple ends |
| Wire protocol (`orbit-protocol/src/wire.rs`) | none | `encode`, `parse` | length fields | parse inverts encode |
| Crypto (`orbit-crypto/src/lib.rs`) | key | `seal_symbol`, `open_symbol` | nonce reuse | library code |
| Browser transfer (`orbit-wasm/webrtc/webrtc.js`) | the host's loop, `bufferedAmount` and its threshold, the guest's decoder and `pending` | `hostShare`, `guestShare`, `sendChunked`, `#handle`, `#feed`, `#handleControl` | an event loop that is not entered between resolved awaits; an event that fires once per crossing; unreliable channels | bounded buffer, no lost wake-up, DONE means decoded, the share ends |
| Signalling (`serve.mjs`, `api/rooms.js`) | rooms with an offer and an answer | POST, GET, PUT, DELETE, sweep | a room looked up before the body is awaited; two guests on one link | the host and one guest meet |
| Command line, WASM bindings | files, a counter | I/O | | outside the models |

The sessions and the relay interact only through ordered byte streams (WebSocket
over TCP). Inside a process tasks interact through bounded `mpsc` channels,
atomic flags and, in the relay, one mutex over all rooms. The browsers meet through
the signalling service and then use one data channel.

## 2. Modules

| Module | Models | Notes |
|---|---|---|
| `Relay` | one session of `orbit-relay/src/lib.rs` with all its connections | the detailed relay |
| `RateLimiter` | `RateLimiter::throttle_bytes` driven by a sink task | |
| `Paths` | N relays as their clients see them, and the direct link | the relay of `Relay`, reduced |
| `Sender` | `SenderSession` with its tasks, the scheduler, the direct writer | extends `Paths` |
| `Receiver` | `ReceiverSession` with its tasks | extends `Paths` |
| `Transfer` | the composition with faults and fairness | extends `Sender`, `Receiver` |
| `TransferAbs` | what a transfer promises its users | implemented by `Transfer` |
| `Decoder` | encoder, precode and peeling decoder | |
| `Scheduler` | `MultiPathScheduler`: ratio, `pick`, round robin, in floating point | pure operators |
| `DirectLink` | one direct connection: writer task, byte stream, `recv_frames` | |
| `DirectPath` | the emission loop over scheduler and direct link | extends `Scheduler`, `DirectLink` |
| `Signaling` | the room and the two sides' way through it | |
| `WebRtc` | host and guest sessions over the data channel | extends `Signaling` |
| `MC...` | instances for TLC | the `.cfg` files give the constants |
| `RelayProofs`, `RelayFlowProofs`, `RateLimiterProofs`, `TransferProofs`, `DecoderProofs`, `SchedulerProofs`, `DirectPathProofs`, `WebRtcProofs` | theorems and proofs | `RelayFlowProofs` extends `RelayProofs`, `DirectPathProofs` extends `SchedulerProofs` |

**Relay.** The mutex makes every critical section of `route` and `leave_room` one
action; what the code does after releasing it is in later actions. `Then(c, ss)`
records the blocking sends `ss` a handler still has to make (`todo`); `SendNext`
makes one of them when the target channel has a free slot, or fails at once when its
reader is gone. `handler[c]` is the position of the `handle_conn` task: `reading`,
`sending`, `direct` (between the two locks of a sender's Hello), `leaving` (the read
loop has ended), `left` (after `leave_room`), `closed` (after `sink_task.abort()`),
`aborted` (ended by `?` on a frame that does not parse, which skips `leave_room`).
A closed socket may lose what the relay has not read (`Vanish`). Frames carry a
position instead of a payload. The variables `got`, `routed`, `evicted`, `mark` and
`readyAt` are history for the properties.

**RateLimiter.** Time is counted in units of one byte at the configured rate, so
credits and sleeps are integers and float rounding is abstracted.

**Sender, Receiver, Paths.** Symbols have no identity: each has an ESI of its own, so
the decoder is a counter that completes after `Need` of them (`Decoder` has the
detail). Queues are counters where all their entries are symbols. `odd` is the parity
of the ESI, which is all `pick` uses for the 1:1 ratio `run` configures, as long as
`seq as f32` is exact. A write to a relay that has died may fail or be swallowed by
the socket. When the receiver's process exits, any of its sockets may be reset, which
purges what the relay has not read; that is the behaviour its drain phase exists to
avoid.

**Decoder.** XOR treats bit positions separately, so one bit stands for a symbol and
`Init` takes every assignment of bits. The seeded generators are constants (`Hdpc`,
`Repair`), constrained only as the code guarantees. `add_symbol` is split at each
iteration of its loops, and the order in which the slots of one input are visited is
left open.

**Scheduler.** `pick` compares `fract(seq * ratio)` with `ratio` in `f32`. Every float
is an integer, or an integer over a power of two, rounded to `Precision` significant
bits (24 in the code), to nearest and ties to even. With a small `Precision` the point
where `seq as f32` stops being exact is within reach of TLC.

**DirectLink.** Bytes are represented by their positions in the stream, so a frame is a
range of positions, and `recv_frames`' buffer is the range `base .. rpos - 1`. A header
read at the start of a frame says its length; a header read anywhere else consists of
payload bytes and says any of `GarbageLengths`. On return the buffer is dropped with
what was read beyond the frame. TCP and QUIC (`transport`) differ in how the connection
ends. The QUIC writer task owns the connection and the endpoint, so its end closes the
connection (`ConnAfterTask`), and what the other side has not read may be lost; TCP still
delivers what is in the socket. `WriterKilled` is the end of the process after `run()`
has returned, which takes the task along on either transport.
`Transfer` keeps the effect of this module on a session: a link that loses symbols
(`LinkLoses`) and breaks (`LinkBreaks`). Messages
made up from payload bytes are not in `Transfer`, so its `Completes` is about a link that
loses and breaks, not about one that is out of step. Such a message is never a READY on
its way to the sender, which does not read from the link, and a payload it corrupts
fails its checksum before READY is sent, so `NoFalseAck` does not depend on it.

**DirectPath.** `dispatch_or_wait` is reduced to "the relay asked first takes the symbol,
or another one does because those before it refuse, or the same symbol is scheduled
again" (`Dispatched`, `Waited`); `Sender` has its detail, its failure included. A symbol
of the direct link takes one step (`EmitDirect`) or two: `try_send` refuses it
(`DirectRefuses`), and `is_alive` is asked afterwards (`FallBack`), when the writer task
may have ended in between. The fallback starts at relay 0, as in the code. `picks`,
`carried`, `fallbacks` and `refusals` are history. That `run()` ends is `Return`, which
drops the writer.

**Signaling, WebRtc.** A session description is whoever made it. PUT is two actions,
because the handler looks the room up, awaits the body, and then writes into the object
it found. The host's loop awaits promises that are already resolved as long as
`sendChunked` finds room; other events of the page (DONE, the drain event, a closed
channel) are therefore enabled only when `hpc # "send"`. The drain event is due when
`bufferedAmount` crosses the threshold, as the WebRTC standard has it.

**Faulty variants.** A definition whose comment begins "Faulty variant of" is not part
of any specification. Each one changes one mapped definition the way a plausible bug
would; with it in the place of the original, TLC finds the property named in
`PROJECT.json` ("mutants") violated. They document what each property is able to catch.

## 3. Runs

Relay:

| Run | What it shows |
|---|---|
| `relay_handover` | A sender and two interchangeable receivers (a symmetry set) that replace each other, a buffer of four bytes for frames of one and two: no frame is ever in two places (`AtMostOnce`); as long as no receiver fails, every frame read and not evicted is buffered, queued or delivered (`NothingLost`); flushed frames keep their order, and so do live ones (`OrderWithinClass`; the two classes may overtake each other, because the flush runs outside the lock); the buffer is the most recent run of routed frames and its byte count exact (`BufferExact`); nothing is forwarded or kept after READY; registrations stay sound and end only for the three legal reasons. |
| `relay_progress` | With channels of one slot, DIRECT advertisements, and clients that crash, send DONE or send a frame that does not parse, READY gets through and no handler is blocked for ever. The handler of a vanished client ends and unregisters (`HandlersEnd`), and a room whose handlers have all ended exists only if frames are left in it (`RoomReclaimed`), both with one exception that the code makes: the handler that a frame which does not parse has ended never reaches `leave_room`, so that its registration and its room stay. |

Rate limiter:

| Run | What it shows |
|---|---|
| `limiter` | The bytes passed never exceed twice the elapsed time, and no more than the cap leaves in an instant without a sleep. |
| `limiter_rate` | **Violation.** The comment at lib.rs:55-59 promises convergence to `rate`. `last` is set before the sleep, so the time slept is credited again after it: every second message is free. |

Transfer:

| Run | What it shows |
|---|---|
| `transfer_relay_faults` | Two relays, the second of which may die at any time after the connection: no false acknowledgement, refinement of `TransferAbs`; the receiver decodes as long as the first relay lives (`SurvivesRelayLoss`); without a loss both sides end with success (`Completes`), even with queues of one slot. |
| `transfer_link_faults` | One relay and a direct link that may both fail at any time, a receiver that may come late, a drain that may time out, a sender whose stall timeout may fire, matching and wrong secrets: repeated advertisements set up one direct link (`OneDirectLink`) and never fill the events channel (`WatchersNeverBlock`; `TransferProofs` has both for any number of relays); while the relay lives and keeps the Meta, a breaking or lossy direct link does not prevent success. |
| `transfer_first_relay_dies` | **Violation.** The Meta is sent once, on the first relay (session.rs:146-157). If that relay dies first, the receiver never decodes (README.md:123-125). |
| `transfer_lost_payload` | **Violation.** READY is sent with `?` to every relay, dead ones included (session.rs:633-635): a complete payload is thrown away. |

Decoder:

| Run | What it shows |
|---|---|
| `decoder` | K = 2 with the S and H the code computes and one repair symbol of degree three: for every payload, every subset and order of symbols and every visiting order, resolved data is correct, equations stay true, the reverse index is complete, exactly the peelable inputs are resolved between calls (`OrderIndependent`), and the ripple ends. |

Direct path:

| Run | What it shows |
|---|---|
| `direct_path` | The link byte by byte, reads of any size, a link that may break, a queue of one slot: frames are never repeated or reordered, and lost or made up only after a read went past a frame (`FramesSound`); accepted frames arrive unless that happens or the connection breaks or is closed (`LinkDelivers`); whatever becomes of the reader, the writer's queue empties or the link is known to be dead (`QueueDrains`); the relays carry the same load but for one turn, for dispatches that met a relay without room and, the first relay only, for the symbols the direct link did not take (`RelaysBalanced`); every second of the first `2^Precision` symbols is the direct link's, no symbol loses its place by being refused or scheduled twice, the split for other bandwidths is the requested one wherever the float products are exact, and a link is given up only when it is dead (`SplitKept`). |
| `direct_framing` | **Violation.** The comment at direct.rs:46 says "Reads complete OrbitMessage frames from any byte stream". A read that returns the end of one frame and the beginning of the next loses the latter, and the reader is out of step from then on. |

Browser transfer:

| Run | What it shows |
|---|---|
| `webrtc_share` | Two guests on one link, rooms that vanish, polls that time out, tabs that close, reliable and unreliable channels: the host is told DONE only about a decoded payload (`DoneSound`), the channel's buffer stays within the mark although the frame is sent after an await (`BufferBounded`), the wake-up of a waiting host is never missed while the channel is open (`NoLostWakeup`), and undisturbed the guest whose answer was fetched gets the payload and the host ends, with DONE or at its cap (`ShareCompletes`). |

Consequences of the models that have no run of their own:

- The early return in the READY loop also skips Close and drain on the healthy relays;
  the receiver then exits with unread data, the reset may purge the READY just sent, and
  the sender emits for ever, which the comment at session.rs:636-640 wants to avoid.
- A relay buffer that overflows before the receiver comes evicts the Meta first, after
  which the receiver never decodes; `Completes` names this case (`MetaLost`).
- `dispatch_or_wait` fails with "all relays unreachable" when no relay is left, although
  the direct link may be up (session.rs:225; compare 52-54 and 266-268).
- A symbol made up from payload bytes by a reader that is out of step does not open, and
  `handle_symbol`'s `?` ends the receiver, although the relays would have delivered the
  payload (session.rs:514-517, 593).
- A frame that does not parse ends the relay's handler before `leave_room`
  (lib.rs:195-200): the registration and the sink task stay behind, and the room stays
  at least until a later connection of that role displaces it or DONE clears it.
- Every symbol the direct link does not take, half of them if there is no link, is
  offered to relay 0 first (session.rs:296, 303, 310), so that relay carries most of the
  load; README.md:112-113 has the scheduler round-robin symbols "across all live links".
  `RelaysBalanced` has the load it does keep.
- From 2^24 symbols on, no symbol is scheduled on the direct link any more, although the
  scheduler "keeps the requested relay/direct ratio" (scheduler.rs:4-6). This is proved
  for every precision: `StarvedBeyondPrecision`.
- A QUIC link whose writer is done is closed at once, with whatever the receiver has not
  read (direct.rs:205-214). By then `run()` has returned.
- A host that waits in `sendChunked` is not woken when the channel closes, nor for a
  frame larger than half the mark once the buffer is below the threshold; the comment at
  webrtc.js:307-308 has the cap guard against a stuck channel, which it cannot while the
  host waits.
- The host sees DONE only when `sendChunked` really waits. With a buffer that never fills
  it runs to its cap after the guest has finished, against the same comment;
  `ShareCompletes` accepts that end.

**Bounds.** Capacities of one slot make every queue full and empty within a few steps,
which is where blocking, eviction and fallback happen; larger ones add no new guard.
Two connections of a role are needed for a displacement, two relays for the round
robin, the merge of streams and the loss of one path. Two or three data frames let a
frame be flushed while another is live and a third evicts. `Need = 2` separates "some
symbols" from "all". The cap of the limiter lies between its message sizes, so that
both `Pass` and `Sleep` happen for small and large messages; `MaxTime` covers several
cycles. On the direct link a header of one byte and a payload of two stand for 5 and 12
or more: a read can end inside a header, inside a payload, at a frame's end or beyond
it, and the garbage lengths include one that is too short to decode, one that fits, one
that has to be waited for and one beyond `MaxFrame`. `Precision = 3` puts the end of the
exact floats at 8, which is `MaxEsi`: the even split is checked up to its last symbol,
and what follows is proved. In the browser model a mark of 4 holds two
symbols of 2 units (at most half a mark) or one of 3 (more than half), and
`HardCap = 4` is twice `Need`, so that a loss can be made up for and the cap can be hit.
Deadlock checking is off because a session ends.

**Fairness.** tokio polls every woken task, so each task's actions are weakly fair:
handlers and sink tasks of the relay, watchers, writers, the emission loop, the
receiver's loop, the advertisement task, and the relays that are alive. In the
receiver each relay stream is weakly fair on its own, because the readers share one
FIFO channel, and so is the direct source, because `select!` polls its branches in
random order. Nothing is assumed about faults, about clients that write (except that a
receiver that has sent READY goes on to close, as `run` does), or about timeouts.
On the direct path the writer and the reader task are weakly fair and the emission loop
is not: it may stop at any time. In the browser model the two event loops, the
signalling requests and the transmission of the channel are weakly fair; leaving tabs,
lost frames, vanishing rooms and expiring polls are not.

## 4. Theorems

All hold for every value of the constants that satisfies the named `ASSUME`s of the
component's module, which TLC also evaluates on every run.

- `RateLimiterProofs`: `LedgerHolds`, `RateBound`, `BurstBound`. The rate bound is not
  inductive; the ledger (`passed + msg + tokens <= last + waited`, and the sleeps fit
  in the elapsed time) is, and doubles the rate exactly because an instant may appear
  in both terms.
- `TransferProofs`: `TypeCorrect`, `ReadySound`, `AckSound`, `Refinement`, `OneLink`,
  `ChannelNeverFull`. For the first four the
  invariant is the type invariant, that `connect` has reached the relay it dials
  (`Dialling`), and `ReadyMeansDecoded`: READY in a return path, in a watcher's stream
  or among the events, or a receiver in its shutdown, means a decoded payload. A
  decoded payload stays decoded, so the claim survives losses, resets and crashes.
  The refinement maps each step to `Decode`, to one side's return or to a stutter.
  `OneLink` and `ChannelNeverFull` rest on a second invariant (`AInv`): at most one
  watcher dials, and a dial, an announced link and an installed one exclude each other
  and imply the `direct_up` flag (`OneSetup`); the events channel holds at most one
  READY per ended watcher plus one announcement (`EventsBound`); and a relay that was
  not reached yet has no watcher (`NotDialled`), so that `connect` never revives an
  ended one. There are at most `n` ended watchers, hence at most `n + 1` events in a
  channel of `n + 2`.
- `DirectPathProofs`: `PathTypeCorrect`, `FramesAreSound`, `RelaysTakeTurns`,
  `SplitIsKept`, for all frame sizes, chunk sizes and garbage. `FramesSound` is
  inductive with two facts: a
  header noted at the start of a frame is that frame's (`HeaderTrue`), and every frame
  that was returned ends before the buffer (`Behind`). The loads need that a relay has
  been named once more than another exactly if the round robin has passed it (`Turns`),
  and that a relay's load differs from its turns by refusals and, for the first, by what
  fell back on it (`Loads`). The split needs that the symbols of the direct link, queued
  or fallen back, are those the scheduler did not give to a relay (`Shares`), which in
  turn needs that a refused symbol is still one of them when it falls back (`Refused`).
- `SchedulerProofs` has the arithmetic for `SplitIsKept`, and `StarvedBeyondPrecision`.
  Rounding is monotone (`FloatMonotone`), off by at most a half (`FloatType`) and exact for numbers of few
  bits and any exponent (`FloatScaled`), so a ratio is at most one (`RatioType`). After
  `n` exact products the relays' count runs ahead of `n * mant / 2^exp` by what the next
  slot says (`Share`), by less than one symbol. With equal bandwidths a relay gets the
  symbols whose float is even (`EvenGoesToRelay`): half of them up to `2^Precision` and
  all of them from there on (`BigIsEven`). Powers of two are counted as sets of subsets
  (`PowNext`), and induction over the naturals is derived from the finiteness of their
  initial segments (`Induction`), for sets instead of operators.
- `RelayProofs`: `TypeCorrect`, `Registrations`, `RegistrationsKept`, `RoomsReclaimed`,
  `BufferStaysExact`. The types need that a handler which left the lock has sends
  (`HasSends`); the registrations need that a room outside the map is empty
  (`ClosedIsEmpty`); the action property needs that a Hello is the first frame of its
  connection (`HelloFirst`), so that the successor is a connection that has just joined.
  The end of a room needs that an empty room in the map is served by a connection that
  will still leave it, or has a connection that never will (`Attended`).
  The buffer needs, on top of the registrations, that
  `readyAt` is set exactly while the room has seen READY (`ReadyFacts`), and that the
  buffer is the run of routed frames that ends there or at the last one (`EndsAt`): a
  frame after READY is dropped, and one routed to a registered receiver finds the
  buffer empty. For the byte count, the size of a sequence splits at any cut
  (`BytesSplit`), so what `push_buffer` pops and what it keeps add up to what it had; the
  frames that must go form a prefix (`PrefixGrows`), hence it stops as soon as the new
  frame fits (`EvictEnough`) and its saturating subtraction never saturates.
- `RelayFlowProofs`: `NeverTwice`, `Backpressure`, `ReadyIsFinal`, `ClassesInOrder`,
  about the data frames of a session. One invariant (`Flow`) serves the first three. No
  frame is routed twice: what is still on a sender's wire was written after everything
  of it that was routed (`Fresh`). Buffer, pending sends, channels and deliveries hold
  each routed frame at most once, and have no frame in common (`Conserved`): a handler
  that leaves the lock with the buffer in hand has emptied it. While no receiver has
  finished or failed and no sender may send DONE, every receiver's connection stays up
  (`ReceiversUp`) and a frame that was routed was evicted or is still held (`Lossless`);
  what was routed after READY is nowhere (`Barred`). The order needs one more invariant
  (`Ordered`). A receiver's `mark` is where its registration split the routed frames:
  those up to it are its flush, the later ones are handed over by their senders'
  handlers. Deliveries, channel and pending sends are in order in this sequence for each
  class, and the pending sends of one class are all with one handler (`Sent`).
- `DecoderProofs`: `TypeCorrect`, `SoundDecoding`, `EquationsSound`, `IndexSound`,
  `OrderDoesNotMatter`.
  The invariant joins the three properties with the fact that the input being rippled
  is resolved (`CurKnown`). Removing a set of inputs from an equation changes its
  parity by the parity of that set (`ParitySplit`, `ParityRemove`), and the precode
  makes every constraint sum to zero (`ConstraintsHold`). `TypeOK` includes that the
  ripple queue holds resolved inputs only, which is why the `unwrap` at decoder.rs:166
  cannot fail. That the arrival order does not matter has an invariant of its own
  (`Closure`): every fact received is used up or kept in a live slot, less resolved inputs
  (`Covered`), every slot keeps a fact (`Derived`), no equation in one unresolved input
  waits (`NoLoneInput`), and nothing is resolved that a peeling-closed set can do without
  (`Minimal`). When the queue is empty the resolved set is closed, and being minimal it
  is the least one. It needs that no HDPC row is empty (`HdpcAssumption`), as
  `precode.rs:69` guarantees.
- `WebRtcProofs`: `ShareTypeCorrect`, `DoneMeansDecoded`, `BufferWithinMark`,
  `WakeupNotLost`. The Meta is sent first and once (`MetaOnce`), so that it is handled
  at most once and never resets a guest that is complete (`CompleteSound`); DONE on the
  wire means a complete guest (`DoneAfterComplete`); the frames sent account for those
  on the wire and those fed (`Counted`); and a host that waits has asked for the event
  at the low mark and found the buffer above it (`WaitsForMark`). The wake-up needs
  symbols of at most half the mark and a Meta that fits under it, and is stated for an
  open channel: a closed one drains nothing any more.

`ReadyMeansDecoded` has no run of its own: `ReadySound` proves it.

Every invariant and every action property that a run checks is proved, and so is the
safety of the refinement. Only model-checked are the liveness properties
(`ReadyReachesSender`, `BlockedSendsEnd`, `HandlersEnd`, `Completes`, `SurvivesRelayLoss`,
`RippleEnds`, `LinkDelivers`, `QueueDrains`, `ShareCompletes`): fairness and `ENABLED` are
outside the prover's reach.

## 5. Not modelled

- The layout of the messages (`wire.rs`), AEAD and checksum: pure data transformations;
  a symbol opens or does not, a frame parses or does not. Frame boundaries are in
  `DirectLink`. `reconstruct` with its checksum runs before READY is sent, so that a
  payload that fails it is never acknowledged.
- The set-up of the direct link (listener, TLS, certificates) beyond success and failure;
  the failure of the receiver's listener after it was bound, and the receiver's loop over
  an ended relay channel while it waits for a direct connection.
- The bounded channel between the receiver's reader tasks and its loop: in `DirectLink`
  the reader may take any time, and its end with the session is a broken link.
- Statistics, tracing, WebSocket pings, and the command line.
- The WASM bindings: a wrapper over `Decoder` whose one state is a counter (`received`
  counts every symbol fed, while `ts/src/index.ts` documents "distinct" ones).
- Of the browser demo, the copy-and-paste flow, ICE and the page; of the signalling
  servers, static files and the limit on bodies.
- The probability that a set of random symbols decodes: a matter of statistics.

## 6. Plan

Modelled and proved so far: the above. What is left:

1. `Relay` shown to implement a per-session pipe, which is what `Paths` assumes.
2. A receiver that reconnects during a transfer; a handover during which receivers crash.
