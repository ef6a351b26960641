------------------------------- MODULE WebRtc -------------------------------
(***************************************************************************)
(* The browser-to-browser transfer (crates/orbit-wasm/webrtc/webrtc.js):   *)
(* a HostSession that streams Meta and symbols over one data channel, with *)
(* sendChunked's backpressure, and the GuestSessions that opened its link, *)
(* of which the one whose answer the host fetched gets the channel.        *)
(*                                                                         *)
(* The host runs in one thread.  An await on a promise that is already     *)
(* resolved does not let other events in, so while sendChunked finds room  *)
(* the loop goes on: neither a DONE nor a change of bufferedAmount is seen *)
(* before it has to wait or has ended.                                     *)
(***************************************************************************)
EXTENDS Signaling, Sequences

CONSTANTS
    HWM,            \* sendChunked's high-water mark, in some unit
    SymbolSizes,    \* sizes of a symbol frame, in the same units
    MetaUnits,      \* the size of the Meta frame
    Need,           \* symbols that decode the payload
    HardCap,        \* hardCap
    Modes,          \* kinds of channel: reliable and ordered (TRUE), or neither
    MaxLoss,        \* bound: frames the channel or the simulated loss drops
    MayLeave        \* whether guests may close their tab

ASSUME WebRtcAssumption ==
    /\ HWM \in Nat \ {0} /\ SymbolSizes \subseteq Nat \ {0} /\ MetaUnits \in Nat \ {0}
    /\ Need \in Nat \ {0} /\ HardCap \in Nat /\ MaxLoss \in Nat
    /\ Modes \subseteq BOOLEAN /\ MayLeave \in BOOLEAN

VARIABLES
    reliable,       \* the host's opts.reliable
    units,          \* the size of a symbol frame
    chan,           \* the data channel: "none", "open", "closed"
    esi,            \* frames sent: the Meta and esi - 1 symbols
    buffered,       \* channel.bufferedAmount
    threshold,      \* channel.bufferedAmountLowThreshold
    low,            \* a bufferedamountlow event is to be dispatched
    wire,           \* frames on their way to the guest
    doneWire,       \* DONE frames on their way to the host
    done,           \* the host's `done`
    meta,           \* the guest's decoder is there
    pending,        \* the guest's `pending`: symbols before the Meta
    fed,            \* symbols in the decoder
    complete,       \* the guest's `complete`
    lost            \* frames dropped so far

sessionVars == <<reliable, units, chan, esi, buffered, threshold, low, wire, doneWire, done,
                 meta, pending, fed, complete, lost>>
options == <<reliable, units>>
vars == <<signalVars, sessionVars>>

HostStates == {"create", "put", "putting", "poll", "opening", "send", "waiting", "done", "capped",
               "failed"}

TypeOK ==
    /\ room \in {"none", "open", "gone"} /\ offer \in BOOLEAN
    /\ answer \in Guests \cup {NoGuest} /\ peer \in Guests \cup {NoGuest}
    /\ hpc \in HostStates
    /\ gpc \in [Guests -> {"poll", "put", "putting", "joined", "failed", "left"}]
    /\ reliable \in Modes /\ units \in SymbolSizes
    /\ chan \in {"none", "open", "closed"}
    /\ esi \in 0 .. (HardCap + 1)
    /\ buffered \in Nat /\ threshold \in 0 .. HWM /\ low \in BOOLEAN
    /\ wire \in Seq({"meta", "symbol"}) /\ doneWire \in 0 .. 1
    /\ done \in BOOLEAN /\ meta \in BOOLEAN /\ complete \in BOOLEAN
    /\ pending \in 0 .. HardCap /\ fed \in 0 .. HardCap /\ lost \in 0 .. MaxLoss

Init ==
    /\ SignalInit
    /\ reliable \in Modes /\ units \in SymbolSizes
    /\ chan = "none" /\ esi = 0
    /\ buffered = 0 /\ threshold = 0 /\ low = FALSE
    /\ wire = <<>> /\ doneWire = 0 /\ done = FALSE
    /\ meta = FALSE /\ pending = 0 /\ fed = 0 /\ complete = FALSE /\ lost = 0

-----------------------------------------------------------------------------
(* The host. *)

\* acceptAnswer, waitOpen: the channel opens if the guest is still there;
\* otherwise 20 s pass.
HostOpens ==
    /\ hpc = "opening"
    /\ \/ /\ gpc[peer] = "joined"
          /\ chan' = "open" /\ hpc' = "send"
       \/ /\ gpc[peer] = "left" \/ PollMayTimeOut
          /\ hpc' = "failed" /\ UNCHANGED chan
    /\ UNCHANGED <<options, room, offer, answer, gpc, peer, esi, buffered, threshold, low, wire,
                   doneWire, done, meta, pending, fed, complete, lost>>

\* The frame that is next, and its size.
FrameAt(n) == IF n = 0 THEN "meta" ELSE "symbol"
Units(n) == IF n = 0 THEN MetaUnits ELSE units

\* channel.send: the frame is queued; on a closed channel it throws.
ChannelSend ==
    IF chan = "open"
      THEN /\ wire' = Append(wire, FrameAt(esi))
           /\ buffered' = buffered + Units(esi)
           /\ esi' = esi + 1 /\ hpc' = "send"
      ELSE hpc' = "failed" /\ UNCHANGED <<wire, buffered, esi>>

\* Faulty variant of LoopOver: the cap is one symbol too far.
LoopOverLate == esi > 0 /\ (done \/ esi = HardCap + 2)

\* The loop of #sendPayload is over: DONE has arrived, or the cap is hit.
LoopOver == esi > 0 /\ (done \/ esi = HardCap + 1)
HostStops ==
    /\ hpc = "send" /\ LoopOver
    /\ hpc' = IF done THEN "done" ELSE "capped"
    /\ UNCHANGED <<room, offer, answer, gpc, peer, sessionVars>>

\* sendChunked: there is room for the frame.
Fits(n) == buffered + Units(n) <= HWM
HostSends ==
    /\ hpc = "send" /\ ~LoopOver /\ Fits(esi)
    /\ ChannelSend
    /\ UNCHANGED <<options, room, offer, answer, gpc, peer, chan, threshold, low, doneWire, done,
                   meta, pending, fed, complete, lost>>

\* Faulty variant of LowMark: the event is asked for at the mark itself.
MarkItself == HWM

\* sendChunked: there is none, and the event is awaited.
LowMark == HWM \div 2
HostWaits ==
    /\ hpc = "send" /\ ~LoopOver /\ ~Fits(esi)
    /\ hpc' = "waiting" /\ threshold' = LowMark
    /\ UNCHANGED <<options, room, offer, answer, gpc, peer, chan, esi, buffered, low, wire,
                   doneWire, done, meta, pending, fed, complete, lost>>

\* Faulty variant of Resumes: the room is not checked again.
ResumesAnyway == TRUE

\* onDrain: the frame is sent if it fits now; otherwise the next event is awaited.
Resumes == Fits(esi)
HostDrained ==
    /\ low /\ hpc # "send"
    /\ low' = FALSE
    /\ IF hpc = "waiting" /\ Resumes
         THEN ChannelSend
         ELSE UNCHANGED <<hpc, wire, buffered, esi>>
    /\ UNCHANGED <<options, room, offer, answer, gpc, peer, chan, threshold, doneWire, done, meta,
                   pending, fed, complete, lost>>

\* #handleControl
HostControl ==
    /\ doneWire > 0 /\ hpc # "send"
    /\ doneWire' = 0 /\ done' = TRUE
    /\ UNCHANGED <<options, signalVars, chan, esi, buffered, threshold, low, wire, meta, pending,
                   fed, complete, lost>>

-----------------------------------------------------------------------------
(* The data channel. *)

\* The transport has taken a unit; the event is due when bufferedAmount falls
\* to the threshold, and only then.
Drain ==
    /\ chan = "open" /\ hpc # "send" /\ buffered > 0
    /\ buffered' = buffered - 1
    /\ low' = (low \/ (buffered > threshold /\ buffered - 1 <= threshold))
    /\ UNCHANGED <<options, signalVars, chan, esi, threshold, wire, doneWire, done, meta, pending,
                   fed, complete, lost>>

\* An unreliable channel drops a frame, the Meta or a DONE as well.
WithoutFrame(k) == SubSeq(wire, 1, k - 1) \o SubSeq(wire, k + 1, Len(wire))
Lose ==
    /\ ~reliable /\ chan = "open" /\ lost < MaxLoss
    /\ lost' = lost + 1
    /\ \/ (\E k \in DOMAIN wire : wire' = WithoutFrame(k)) /\ UNCHANGED doneWire
       \/ doneWire > 0 /\ doneWire' = 0 /\ UNCHANGED wire
    /\ UNCHANGED <<options, signalVars, chan, esi, buffered, threshold, low, done, meta, pending,
                   fed, complete>>

\* A guest closes its tab; the host learns of it when its loop lets events in.
Leave(g) ==
    /\ MayLeave /\ gpc[g] \notin {"failed", "left"} /\ LinkKnown
    /\ gpc' = [gpc EXCEPT ![g] = "left"]
    /\ UNCHANGED <<room, offer, answer, hpc, peer, sessionVars>>

Close ==
    /\ chan = "open" /\ hpc # "send" /\ gpc[peer] = "left"
    /\ chan' = "closed"
    /\ UNCHANGED <<options, signalVars, esi, buffered, threshold, low, wire, doneWire, done, meta,
                   pending, fed, complete, lost>>

-----------------------------------------------------------------------------
(* The guest that has the channel. *)

\* The frames the channel may hand over next: in order, or any.
Arriving == IF reliable THEN {1} \cap DOMAIN wire ELSE DOMAIN wire

\* Faulty variant of Feed: DONE is announced one symbol early.
FeedOneShort(n) ==
    /\ fed' = n
    /\ complete' = (complete \/ n = Need)
    /\ doneWire' = IF ~complete /\ n + 1 >= Need THEN 1 ELSE doneWire

\* #feed with a decoder: the symbol that completes it is followed by DONE, once.
Feed(n) ==
    /\ fed' = n
    /\ complete' = (complete \/ n >= Need)
    /\ doneWire' = IF ~complete /\ n >= Need THEN 1 ELSE doneWire

\* Faulty variant of GuestMeta: what came before the Meta is forgotten.
MetaForgets(k) ==
    /\ wire[k] = "meta"
    /\ meta' = TRUE /\ pending' = 0
    /\ Feed(0)
    /\ UNCHANGED lost

\* #handle: the Meta makes the decoder and flushes what came before it.
GuestMeta(k) ==
    /\ wire[k] = "meta"
    /\ meta' = TRUE /\ pending' = 0
    /\ Feed(pending)
    /\ UNCHANGED lost

GuestSymbol(k) ==
    /\ wire[k] = "symbol"
    /\ \/ /\ meta
          /\ Feed(fed + 1)
          /\ UNCHANGED <<pending, lost>>
       \/ /\ ~meta
          /\ pending' = pending + 1
          /\ UNCHANGED <<fed, complete, doneWire, lost>>
       \/ /\ lost < MaxLoss          \* the simulated loss
          /\ lost' = lost + 1
          /\ UNCHANGED <<fed, complete, doneWire, pending>>
    /\ UNCHANGED meta

GuestHandles ==
    /\ chan = "open" /\ gpc[peer] = "joined"
    /\ \E k \in Arriving :
         /\ wire' = WithoutFrame(k)
         /\ GuestMeta(k) \/ GuestSymbol(k)
    /\ UNCHANGED <<options, signalVars, chan, esi, buffered, threshold, low, done>>

-----------------------------------------------------------------------------
Host == HostOpens \/ HostStops \/ HostSends \/ HostWaits \/ HostDrained \/ HostControl
Signal == HostSignals /\ UNCHANGED sessionVars
Join(g) == GuestSignals(g) /\ UNCHANGED sessionVars
Fault ==
    \/ SignalFaults /\ UNCHANGED sessionVars
    \/ Lose \/ Close
    \/ \E g \in Guests : Leave(g)

Next == Host \/ Signal \/ Drain \/ GuestHandles \/ Fault \/ \E g \in Guests : Join(g)

Spec == Init /\ [][Next]_vars

\* The two event loops run, the service answers, the channel transmits.
\* Nothing is assumed of the faults.
FairSpec ==
    /\ Spec
    /\ WF_vars(Host) /\ WF_vars(Signal) /\ WF_vars(Drain) /\ WF_vars(GuestHandles)
    /\ \A g \in Guests : WF_vars(Join(g))

-----------------------------------------------------------------------------
(* Properties. *)

\* The host stops for DONE only if its guest has the payload; the cap may be
\* hit although it has (webrtc.js:295-301, 344-346).
DoneSound == done \/ doneWire > 0 => complete /\ meta /\ fed >= Need

\* sendChunked keeps the channel's buffer within the mark, whatever the size of
\* the frames, although it sends after an await (webrtc.js:361-376).
BufferBounded == buffered <= HWM

\* The event a waiting host needs is never missed while the channel is open: it
\* is due, or the buffer has still to fall through the threshold
\* (webrtc.js:365-372).  That takes symbols of at most half the mark and a Meta
\* of at most the mark.  A closed channel transmits nothing more: a host that
\* waits when it closes is never woken.
NoLostWakeup ==
    /\ hpc = "waiting" /\ chan = "open"
    /\ units <= HWM \div 2 /\ MetaUnits <= HWM
    => low \/ buffered > threshold

\* Nobody gives up, leaves or loses the room, the Meta is not lost, and frames fit.
MetaLost == esi > 0 /\ ~meta /\ \A k \in DOMAIN wire : wire[k] # "meta"
Undisturbed ==
    /\ room # "gone" /\ hpc # "failed" /\ ~MetaLost
    /\ \A g \in Guests : gpc[g] \notin {"failed", "left"}
    /\ units <= HWM \div 2 /\ MetaUnits <= HWM

\* The guest whose answer was fetched gets the payload, however many guests
\* opened the link, and the host comes to its end (webrtc.js:187-231, 303-348).
ShareCompletes ==
    []Undisturbed => <>(complete /\ hpc \in {"done", "capped"})
=============================================================================
