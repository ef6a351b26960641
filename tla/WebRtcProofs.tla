---------------------------- MODULE WebRtcProofs ----------------------------
(***************************************************************************)
(* The browser transfer, for every number of guests, every frame size,     *)
(* mark and cap, and whatever the channel loses or reorders: DONE means a  *)
(* decoded payload, the channel's buffer stays within the mark, and a host *)
(* that waits does not miss its wake-up while the channel is open.         *)
(***************************************************************************)
EXTENDS WebRtc, SequenceTheorems, TLAPS

-----------------------------------------------------------------------------
(* The frames on their way. *)

Frames == {"meta", "symbol"}
HasMeta(w) == \E k \in DOMAIN w : w[k] = "meta"
OneMeta(w) == \A j, k \in DOMAIN w : w[j] = "meta" /\ w[k] = "meta" => j = k

\* Taking frame k out of w.
Without(w, k) == SubSeq(w, 1, k - 1) \o SubSeq(w, k + 1, Len(w))

LEMMA WithoutFacts ==
    ASSUME NEW w \in Seq(Frames), NEW k \in DOMAIN w
    PROVE  /\ Without(w, k) \in Seq(Frames)
           /\ Len(w) \in Nat /\ Len(w) > 0
           /\ Len(Without(w, k)) = Len(w) - 1
           /\ \A j \in DOMAIN Without(w, k) :
                 Without(w, k)[j] = IF j < k THEN w[j] ELSE w[j + 1]
<1>1. Len(w) \in Nat /\ k \in 1 .. Len(w)
  OBVIOUS
<1>2. /\ SubSeq(w, 1, k - 1) \in Seq(Frames) /\ Len(SubSeq(w, 1, k - 1)) = k - 1
      /\ \A j \in 1 .. (k - 1) : SubSeq(w, 1, k - 1)[j] = w[j]
  BY <1>1
<1>3. /\ SubSeq(w, k + 1, Len(w)) \in Seq(Frames) /\ Len(SubSeq(w, k + 1, Len(w))) = Len(w) - k
      /\ \A j \in 1 .. (Len(w) - k) : SubSeq(w, k + 1, Len(w))[j] = w[k + j]
  BY <1>1
<1> DEFINE a == SubSeq(w, 1, k - 1)
           b == SubSeq(w, k + 1, Len(w))
<1>4. /\ a \in Seq(Frames) /\ Len(a) = k - 1 /\ \A j \in 1 .. (k - 1) : a[j] = w[j]
      /\ b \in Seq(Frames) /\ Len(b) = Len(w) - k
      /\ \A j \in 1 .. (Len(w) - k) : b[j] = w[k + j]
  BY <1>2, <1>3
<1>5. Without(w, k) = a \o b
  BY DEF Without
<1> HIDE DEF a, b
<1>6. a \o b \in Seq(Frames) /\ Len(a \o b) = Len(w) - 1
  BY <1>1, <1>4
<1>7. ASSUME NEW j \in 1 .. (Len(w) - 1)
      PROVE  (a \o b)[j] = IF j < k THEN w[j] ELSE w[j + 1]
  <2>1. CASE j < k
    <3>1. j \in 1 .. (k - 1) /\ (a \o b)[j] = a[j]
      BY <1>1, <1>4, <2>1
    <3> QED
      BY <1>4, <2>1, <3>1
  <2>2. CASE ~(j < k)
    <3>1. j - (k - 1) \in 1 .. (Len(w) - k) /\ k + (j - (k - 1)) = j + 1
      BY <1>1, <2>2
    <3>2. (a \o b)[j] = b[j - (k - 1)]
      <4>1. j \in 1 .. (Len(a) + Len(b)) /\ ~(j <= Len(a))
        BY <1>1, <1>4, <2>2
      <4>2. (a \o b)[j] = b[j - Len(a)]
        BY <1>4, <4>1, ConcatProperties, Zenon
      <4> QED
        BY <1>4, <4>2
    <3>3. PICK i \in 1 .. (Len(w) - k) : i = j - (k - 1) /\ k + i = j + 1
      BY <3>1
    <3>4. b[i] = w[k + i]
      BY <1>4
    <3> QED
      BY <2>2, <3>2, <3>3, <3>4
  <2> QED
    BY <2>1, <2>2
<1>8. DOMAIN (a \o b) = 1 .. (Len(w) - 1)
  BY <1>6
<1>9. \A j \in DOMAIN (a \o b) : (a \o b)[j] = IF j < k THEN w[j] ELSE w[j + 1]
  BY <1>7, <1>8
<1>10. Len(w) > 0
  BY <1>1
<1> QED
  BY <1>1, <1>5, <1>6, <1>9, <1>10, Zenon

\* The Meta stays where a symbol is taken out, and is gone when it is taken.
LEMMA WithoutMeta ==
    ASSUME NEW w \in Seq(Frames), NEW k \in DOMAIN w, OneMeta(w)
    PROVE  /\ OneMeta(Without(w, k))
           /\ HasMeta(Without(w, k)) <=> (HasMeta(w) /\ w[k] = "symbol")
<1> DEFINE v == Without(w, k)
<1>1. /\ v \in Seq(Frames) /\ Len(w) \in Nat /\ k \in 1 .. Len(w) /\ Len(v) = Len(w) - 1
      /\ \A j \in DOMAIN v : v[j] = IF j < k THEN w[j] ELSE w[j + 1]
      /\ w[k] \in Frames /\ DOMAIN v = 1 .. Len(v) /\ DOMAIN w = 1 .. Len(w)
  BY WithoutFacts
<1> HIDE DEF v
<1> DEFINE at(j) == IF j < k THEN j ELSE j + 1
<1>2. \A j \in DOMAIN v : at(j) \in DOMAIN w /\ v[j] = w[at(j)] /\ at(j) # k
  BY <1>1
<1>3. \A i, j \in DOMAIN v : at(i) = at(j) => i = j
  BY <1>1
<1>4. \A j \in DOMAIN w : j # k => \E i \in DOMAIN v : v[i] = w[j]
  <2> SUFFICES ASSUME NEW j \in DOMAIN w, j # k PROVE \E i \in DOMAIN v : v[i] = w[j]
    OBVIOUS
  <2>1. CASE j < k
    <3>1. j \in DOMAIN v /\ v[j] = w[j]
      BY <1>1, <2>1
    <3> QED
      BY <3>1
  <2>2. CASE j > k
    <3>1. j - 1 \in DOMAIN v /\ v[j - 1] = w[j]
      BY <1>1, <2>2
    <3> QED
      BY <3>1
  <2> QED
    BY <1>1, <2>1, <2>2
<1> HIDE DEF at
<1>5. OneMeta(v)
  BY <1>2, <1>3, Zenon DEF OneMeta
<1>6. HasMeta(v) => HasMeta(w) /\ w[k] = "symbol"
  BY <1>1, <1>2, Zenon DEF HasMeta, OneMeta, Frames
<1>7. HasMeta(w) /\ w[k] = "symbol" => HasMeta(v)
  <2> SUFFICES ASSUME NEW j \in DOMAIN w, w[j] = "meta", w[k] = "symbol" PROVE HasMeta(v)
    BY DEF HasMeta
  <2>1. j # k
    OBVIOUS
  <2> QED
    BY <1>4, <2>1 DEF HasMeta
<1> QED
  BY <1>5, <1>6, <1>7 DEF v

-----------------------------------------------------------------------------
(* The invariant. *)

SignalType ==
    /\ room \in {"none", "open", "gone"} /\ offer \in BOOLEAN
    /\ answer \in Guests \cup {NoGuest} /\ peer \in Guests \cup {NoGuest}
    /\ hpc \in HostStates
    /\ gpc \in [Guests -> {"poll", "put", "putting", "joined", "failed", "left"}]

HostType ==
    /\ reliable \in Modes /\ units \in SymbolSizes
    /\ chan \in {"none", "open", "closed"}
    /\ esi \in 0 .. (HardCap + 1)
    /\ buffered \in Nat /\ threshold \in 0 .. HWM /\ low \in BOOLEAN

GuestType ==
    /\ wire \in Seq(Frames) /\ doneWire \in 0 .. 1
    /\ done \in BOOLEAN /\ meta \in BOOLEAN /\ complete \in BOOLEAN
    /\ pending \in 0 .. HardCap /\ fed \in 0 .. HardCap /\ lost \in 0 .. MaxLoss

\* The Meta is sent first and once, and the decoder is made from it.
MetaOnce ==
    /\ OneMeta(wire)
    /\ HasMeta(wire) => ~meta
    /\ esi = 0 => ~meta
    /\ ~meta => fed = 0

\* Of the frames sent, one is the Meta and the others are symbols.
Counted == Len(wire) + fed + pending + (IF HasMeta(wire) \/ esi = 0 THEN 0 ELSE 1) <= esi

\* A host that waits has more to send, and has asked for the event at the low mark.
WaitsForMark ==
    /\ hpc = "waiting" => esi <= HardCap /\ threshold = LowMark
    /\ esi = 0 => buffered = 0

\* What the guest has completed stays complete.
CompleteSound == complete => meta /\ fed >= Need
DoneAfterComplete == done \/ doneWire > 0 => complete

GuestInv == MetaOnce /\ Counted /\ CompleteSound /\ DoneAfterComplete
HostInv == WaitsForMark /\ BufferBounded /\ NoLostWakeup
IInv == SignalType /\ HostType /\ GuestType /\ GuestInv /\ HostInv

LEMMA InvEnough == IInv => TypeOK /\ DoneSound
BY DEF IInv, SignalType, HostType, GuestType, TypeOK, GuestInv, CompleteSound,
       DoneAfterComplete, DoneSound, Frames

LEMMA InitInv == Init => IInv
<1> SUFFICES ASSUME Init PROVE IInv
  OBVIOUS
<1> USE WebRtcAssumption DEF Init, SignalInit
<1>1. SignalType
  BY DEF SignalType, HostStates
<1>2. wire = <<>> /\ wire \in Seq(Frames) /\ Len(wire) = 0 /\ DOMAIN wire = {}
  OBVIOUS
<1>3. HostType /\ GuestType
  <2>1. 0 \in 0 .. HWM /\ 0 \in 0 .. (HardCap + 1) /\ 0 \in 0 .. HardCap /\ 0 \in 0 .. MaxLoss
        /\ 0 \in 0 .. 1 /\ 0 \in Nat
    OBVIOUS
  <2>2. HostType
    BY <2>1 DEF HostType
  <2>3. GuestType
    BY <1>2, <2>1 DEF GuestType
  <2> QED
    BY <2>2, <2>3
<1>4. GuestInv
  <2>1. MetaOnce /\ ~HasMeta(wire)
    BY <1>2, Zenon DEF MetaOnce, OneMeta, HasMeta
  <2>2. Counted
    BY <1>2, <2>1 DEF Counted
  <2>3. CompleteSound /\ DoneAfterComplete
    BY DEF CompleteSound, DoneAfterComplete
  <2> QED
    BY <2>1, <2>2, <2>3 DEF GuestInv
<1>5. HostInv
  BY DEF HostInv, WaitsForMark, BufferBounded, NoLostWakeup
<1> QED
  BY <1>1, <1>3, <1>4, <1>5 DEF IInv

-----------------------------------------------------------------------------
(* The steps. *)

\* Steps that leave the session alone and do not make the host wait.
LEMMA SessionUntouched ==
    ASSUME IInv, SignalType', UNCHANGED sessionVars, hpc' = "waiting" => hpc = "waiting"
    PROVE  IInv'
<1>1. HostType' /\ GuestType'
  BY DEF IInv, HostType, GuestType, sessionVars
<1>2. GuestInv'
  BY DEF IInv, GuestInv, MetaOnce, Counted, CompleteSound, DoneAfterComplete, HasMeta, OneMeta,
         sessionVars
<1>3. HostInv'
  BY DEF IInv, HostInv, WaitsForMark, BufferBounded, NoLostWakeup, sessionVars
<1> QED
  BY <1>1, <1>2, <1>3 DEF IInv

\* The way through the room.
LEMMA SignalsKeep ==
    ASSUME IInv, UNCHANGED sessionVars,
           HostSignals \/ SignalFaults \/ \E g \in Guests : GuestSignals(g)
    PROVE  IInv'
<1> USE DEF IInv, SignalType
<1>1. CASE HostSignals \/ RoomGoes \/ HostTimesOut
  <2>1. SignalType'
    BY <1>1 DEF HostSignals, HostCreates, HostPuts, HostPutDone, HostPolls, RoomGoes,
                HostTimesOut, CreateRoom, PutFields, AnswerServed, HostStates
  <2>2. hpc' = "waiting" => hpc = "waiting"
    BY <1>1 DEF HostSignals, HostCreates, HostPuts, HostPutDone, HostPolls, RoomGoes,
                HostTimesOut
  <2> QED
    BY <2>1, <2>2, SessionUntouched
<1>2. ASSUME NEW g \in Guests, GuestSignals(g) \/ GuestTimesOut(g) PROVE IInv'
  <2>1. SignalType' /\ hpc' = hpc
    BY <1>2 DEF GuestSignals, GuestPolls, GuestPuts, GuestPutDone, GuestTimesOut, PutFields
  <2> QED
    BY <2>1, SessionUntouched
<1> QED
  BY <1>1, <1>2 DEF SignalFaults

LEMMA LeaveKeeps ==
    ASSUME IInv, NEW g \in Guests, Leave(g)
    PROVE  IInv'
<1>1. SignalType' /\ hpc' = hpc /\ UNCHANGED sessionVars
  BY DEF IInv, SignalType, Leave
<1> QED
  BY <1>1, SessionUntouched

LEMMA StopKeeps ==
    ASSUME IInv, HostStops
    PROVE  IInv'
<1>1. SignalType' /\ hpc' # "waiting" /\ UNCHANGED sessionVars
  BY DEF IInv, SignalType, HostStops, HostStates
<1> QED
  BY <1>1, SessionUntouched

\* Steps that leave the guest's side and the wire alone.
LEMMA GuestUntouched ==
    ASSUME IInv, UNCHANGED <<wire, doneWire, done, meta, pending, fed, complete, lost, esi>>
    PROVE  GuestType' /\ GuestInv'
<1>1. GuestType'
  BY DEF IInv, GuestType
<1>2. GuestInv'
  BY DEF IInv, GuestInv, MetaOnce, Counted, CompleteSound, DoneAfterComplete, HasMeta, OneMeta
<1> QED
  BY <1>1, <1>2

LEMMA OpenKeeps ==
    ASSUME IInv, HostOpens
    PROVE  IInv'
<1>1. SignalType' /\ HostType'
  BY DEF IInv, SignalType, HostType, HostOpens, HostStates, options
<1>2. GuestType' /\ GuestInv'
  BY GuestUntouched DEF HostOpens
<1>3. HostInv'
  BY DEF IInv, HostInv, WaitsForMark, BufferBounded, NoLostWakeup, HostOpens, options
<1> QED
  BY <1>1, <1>2, <1>3 DEF IInv

\* The host begins to wait: what it could not send does not fit below the mark,
\* so more than the low mark is buffered and the event is still to come.
LEMMA WaitKeeps ==
    ASSUME IInv, HostWaits
    PROVE  IInv'
<1>1. /\ HWM \in Nat /\ HWM \div 2 \in 0 .. HWM /\ 2 * (HWM \div 2) <= HWM
      /\ MetaUnits \in Nat /\ HardCap \in Nat /\ units \in Nat /\ buffered \in Nat
      /\ esi \in 0 .. (HardCap + 1)
  BY WebRtcAssumption DEF IInv, HostType
<1>2. SignalType' /\ HostType'
  BY <1>1 DEF IInv, SignalType, HostType, HostWaits, HostStates, LowMark, options
<1>3. GuestType' /\ GuestInv'
  BY GuestUntouched DEF HostWaits
<1>4. WaitsForMark' /\ BufferBounded'
  BY <1>1 DEF IInv, HostInv, WaitsForMark, BufferBounded, HostWaits, LoopOver, LowMark
<1>5. ASSUME units <= HWM \div 2, MetaUnits <= HWM PROVE buffered > HWM \div 2
  <2>1. buffered + Units(esi) > HWM /\ (esi = 0 => buffered = 0)
    BY <1>1 DEF HostWaits, Fits, Units, IInv, HostInv, WaitsForMark
  <2>2. esi # 0
    BY <1>1, <1>5, <2>1 DEF Units
  <2> QED
    BY <1>1, <1>5, <2>1, <2>2 DEF Units
<1>6. NoLostWakeup'
  BY <1>5 DEF HostWaits, NoLostWakeup, LowMark, options
<1> QED
  BY <1>2, <1>3, <1>4, <1>6 DEF IInv, HostInv

\* channel.send, when the frame fits and the loop is not over.
LEMMA SendKeeps ==
    ASSUME IInv, ChannelSend, Fits(esi), esi <= HardCap, low' \in BOOLEAN,
           UNCHANGED <<options, room, offer, answer, gpc, peer, chan, threshold, doneWire, done,
                       meta, pending, fed, complete, lost>>
    PROVE  IInv'
<1>1. /\ HWM \in Nat /\ MetaUnits \in Nat \ {0} /\ HardCap \in Nat /\ units \in Nat \ {0}
      /\ buffered \in Nat /\ esi \in 0 .. (HardCap + 1) /\ wire \in Seq(Frames)
      /\ pending \in Nat /\ fed \in Nat /\ Len(wire) \in Nat
  BY WebRtcAssumption DEF IInv, HostType, GuestType
<1>2. SignalType' /\ hpc' # "waiting"
  BY DEF IInv, SignalType, ChannelSend, HostStates
<1>3. Units(esi) \in Nat \ {0}
  BY <1>1 DEF Units
<1>4. CASE chan = "open"
  <2>1. esi' = esi + 1 /\ buffered' = buffered + Units(esi) /\ wire' = Append(wire, FrameAt(esi))
    BY <1>4 DEF ChannelSend
  <2>2. FrameAt(esi) \in Frames /\ (FrameAt(esi) = "meta" <=> esi = 0)
    BY DEF FrameAt, Frames
  <2>3. /\ wire' \in Seq(Frames) /\ Len(wire') = Len(wire) + 1
        /\ DOMAIN wire = 1 .. Len(wire) /\ DOMAIN wire' = 1 .. (Len(wire) + 1)
        /\ wire'[Len(wire) + 1] = FrameAt(esi)
        /\ \A k \in DOMAIN wire : wire'[k] = wire[k]
    BY <1>1, <2>1, <2>2
  <2>4. HostType' /\ GuestType'
    BY <1>1, <1>3, <2>1, <2>3 DEF IInv, HostType, GuestType, options
  <2>5. HostInv'
    BY <1>1, <1>2, <1>3, <2>1 DEF HostInv, WaitsForMark, BufferBounded, NoLostWakeup, Fits
  <2>6. Counted
    BY DEF IInv, GuestInv
  <2>7. esi = 0 => Len(wire) = 0 /\ ~HasMeta(wire)
    BY <1>1, <2>3, <2>6 DEF Counted, HasMeta
  <2>8. \A k \in DOMAIN wire' : k = Len(wire) + 1 \/ k \in DOMAIN wire
    BY <1>1, <2>3
  <2>9. HasMeta(wire') <=> (HasMeta(wire) \/ esi = 0)
    <3>1. \A k \in DOMAIN wire : k \in DOMAIN wire'
      BY <1>1, <2>3
    <3>2. Len(wire) + 1 \in DOMAIN wire'
      BY <1>1, <2>3
    <3> QED
      BY <2>2, <2>3, <2>8, <3>1, <3>2, Zenon DEF HasMeta
  <2>10. OneMeta(wire')
    <3>1. OneMeta(wire) /\ (esi = 0 => ~HasMeta(wire))
      BY <2>7 DEF IInv, GuestInv, MetaOnce
    <3> QED
      BY <2>2, <2>3, <2>8, <3>1, Zenon DEF OneMeta, HasMeta
  <2>11. MetaOnce'
    <3>1. HasMeta(wire') => ~meta
      BY <2>9 DEF IInv, GuestInv, MetaOnce
    <3>2. esi' # 0
      BY <1>1, <2>1
    <3> QED
      BY <2>10, <3>1, <3>2 DEF IInv, GuestInv, MetaOnce
  <2>12. Counted'
    BY <1>1, <2>1, <2>3, <2>6, <2>9 DEF Counted
  <2>13. CompleteSound' /\ DoneAfterComplete'
    BY DEF IInv, GuestInv, CompleteSound, DoneAfterComplete
  <2> QED
    BY <1>2, <2>4, <2>5, <2>11, <2>12, <2>13 DEF IInv, GuestInv
<1>5. CASE chan # "open"
  <2>1. UNCHANGED <<wire, buffered, esi>>
    BY <1>5 DEF ChannelSend
  <2>2. GuestType' /\ GuestInv'
    BY <2>1, GuestUntouched
  <2>3. HostType' /\ HostInv'
    BY <1>2, <2>1 DEF IInv, HostType, HostInv, WaitsForMark, BufferBounded, NoLostWakeup, options
  <2> QED
    BY <1>2, <2>2, <2>3 DEF IInv
<1> QED
  BY <1>4, <1>5

\* sendChunked with room, and onDrain.
LEMMA SendsKeep ==
    ASSUME IInv, HostSends \/ HostDrained
    PROVE  IInv'
<1>1. esi \in 0 .. (HardCap + 1) /\ HardCap \in Nat /\ low \in BOOLEAN
  BY WebRtcAssumption DEF IInv, HostType
<1>2. CASE HostSends
  <2>1. esi <= HardCap
    BY <1>1, <1>2 DEF HostSends, LoopOver
  <2> QED
    BY <1>1, <1>2, <2>1, SendKeeps DEF HostSends
<1>3. CASE HostDrained /\ hpc = "waiting" /\ Resumes
  <2>1. esi <= HardCap
    BY <1>3 DEF IInv, HostInv, WaitsForMark
  <2> QED
    BY <1>3, <2>1, SendKeeps DEF HostDrained, Resumes
<1>4. CASE HostDrained /\ ~(hpc = "waiting" /\ Resumes)
  <2>1. SignalType' /\ HostType'
    BY <1>4 DEF IInv, SignalType, HostType, HostDrained, options
  <2>2. GuestType' /\ GuestInv'
    BY <1>4, GuestUntouched DEF HostDrained
  <2>3. WaitsForMark' /\ BufferBounded'
    BY <1>4 DEF IInv, HostInv, WaitsForMark, BufferBounded, HostDrained, LowMark
  <2>4. ASSUME hpc = "waiting", units <= HWM \div 2, MetaUnits <= HWM
        PROVE  buffered > threshold
    <3>1. /\ HWM \in Nat /\ HWM \div 2 \in 0 .. HWM /\ 2 * (HWM \div 2) <= HWM
          /\ MetaUnits \in Nat /\ units \in Nat /\ buffered \in Nat
      BY WebRtcAssumption DEF IInv, HostType
    <3>2. /\ buffered + Units(esi) > HWM /\ threshold = HWM \div 2
          /\ (esi = 0 => buffered = 0)
      BY <1>4, <2>4, <3>1 DEF Resumes, Fits, Units, IInv, HostInv, WaitsForMark, LowMark
    <3>3. esi # 0
      BY <2>4, <3>1, <3>2 DEF Units
    <3> QED
      BY <2>4, <3>1, <3>2, <3>3 DEF Units
  <2>5. NoLostWakeup'
    BY <1>4, <2>4 DEF HostDrained, NoLostWakeup, options
  <2> QED
    BY <2>1, <2>2, <2>3, <2>5 DEF IInv, HostInv
<1> QED
  BY <1>2, <1>3, <1>4

\* The transport takes a unit: the event is raised when the threshold is crossed.
LEMMA DrainKeeps ==
    ASSUME IInv, Drain
    PROVE  IInv'
<1>1. /\ buffered \in Nat /\ buffered > 0 /\ threshold \in Nat /\ HWM \in Nat
      /\ buffered' = buffered - 1
      /\ low' = (low \/ (buffered > threshold /\ buffered - 1 <= threshold))
  BY WebRtcAssumption DEF IInv, HostType, Drain
<1>2. SignalType'
  BY DEF IInv, SignalType, Drain, signalVars
<1>3. HostType'
  BY <1>1 DEF IInv, HostType, Drain, options
<1>4. GuestType' /\ GuestInv'
  BY GuestUntouched DEF Drain
<1>5. hpc' = hpc /\ UNCHANGED <<esi, threshold, units>> /\ chan = "open"
  BY DEF Drain, signalVars, options
<1>6. WaitsForMark'
  <2>1. esi = 0 => buffered = 0
    BY DEF IInv, HostInv, WaitsForMark
  <2> QED
    BY <1>1, <1>5, <2>1 DEF IInv, HostInv, WaitsForMark, LowMark
<1>7. BufferBounded'
  BY <1>1 DEF IInv, HostInv, BufferBounded
<1>8. NoLostWakeup'
  <2>1. buffered - 1 > threshold \/ buffered - 1 <= threshold
    BY <1>1
  <2>2. (hpc = "waiting" /\ units <= HWM \div 2 /\ MetaUnits <= HWM) => low \/ buffered > threshold
    BY <1>5 DEF IInv, HostInv, NoLostWakeup
  <2> QED
    BY <1>1, <1>5, <2>1, <2>2, Zenon DEF NoLostWakeup
<1> QED
  BY <1>2, <1>3, <1>4, <1>6, <1>7, <1>8 DEF IInv, HostInv

\* The host's side is left alone.
LEMMA HostUntouched ==
    ASSUME IInv, UNCHANGED <<options, signalVars, esi, buffered, threshold, low>>,
           chan' \in {chan, "closed"}
    PROVE  SignalType' /\ HostType' /\ HostInv'
<1>1. SignalType' /\ hpc' = hpc
  BY DEF IInv, SignalType, signalVars
<1>2. HostType'
  BY DEF IInv, HostType, options
<1>3. HostInv'
  BY <1>1 DEF IInv, HostInv, WaitsForMark, BufferBounded, NoLostWakeup, options
<1> QED
  BY <1>1, <1>2, <1>3

LEMMA CloseKeeps ==
    ASSUME IInv, Close
    PROVE  IInv'
<1>1. SignalType' /\ HostType' /\ HostInv'
  BY HostUntouched DEF Close
<1>2. GuestType' /\ GuestInv'
  BY GuestUntouched DEF Close
<1> QED
  BY <1>1, <1>2 DEF IInv

\* DONE reaches the host.
LEMMA ControlKeeps ==
    ASSUME IInv, HostControl
    PROVE  IInv'
<1>1. SignalType' /\ HostType' /\ HostInv'
  BY HostUntouched DEF HostControl, IInv, HostType
<1>2. GuestType'
  BY DEF IInv, GuestType, HostControl
<1>3. MetaOnce' /\ Counted'
  BY DEF IInv, GuestInv, MetaOnce, Counted, OneMeta, HasMeta, HostControl
<1>4. complete
  BY DEF IInv, GuestInv, DoneAfterComplete, HostControl
<1>5. CompleteSound' /\ DoneAfterComplete'
  BY <1>4 DEF IInv, GuestInv, CompleteSound, DoneAfterComplete, HostControl
<1> QED
  BY <1>1, <1>2, <1>3, <1>5 DEF IInv, GuestInv

\* What taking frame k off the wire does to the count.
LEMMA TakeFrame ==
    ASSUME IInv, NEW k \in DOMAIN wire, wire' = WithoutFrame(k), esi' = esi
    PROVE  /\ wire' \in Seq(Frames) /\ OneMeta(wire')
           /\ HasMeta(wire') <=> (HasMeta(wire) /\ wire[k] = "symbol")
           /\ wire[k] = "meta" => HasMeta(wire)
           /\ Len(wire) \in Nat /\ Len(wire') \in Nat /\ Len(wire') = Len(wire) - 1
           /\ HasMeta(wire') => Len(wire') > 0
           /\ esi \in 0 .. (HardCap + 1) /\ HardCap \in Nat /\ esi # 0
           /\ fed \in Nat /\ pending \in Nat /\ wire[k] \in Frames
<1>1. /\ wire \in Seq(Frames) /\ OneMeta(wire) /\ wire' = Without(wire, k)
      /\ esi \in 0 .. (HardCap + 1) /\ HardCap \in Nat /\ fed \in Nat /\ pending \in Nat
  BY WebRtcAssumption DEF IInv, HostType, GuestType, GuestInv, MetaOnce, WithoutFrame, Without
<1>2. /\ wire' \in Seq(Frames) /\ Len(wire) \in Nat /\ Len(wire) > 0
      /\ Len(wire') = Len(wire) - 1
  BY <1>1, WithoutFacts
<1>3. OneMeta(wire') /\ (HasMeta(wire') <=> (HasMeta(wire) /\ wire[k] = "symbol"))
  BY <1>1, WithoutMeta
<1>4. HasMeta(wire') => Len(wire') > 0
  BY <1>2 DEF HasMeta
<1>5. esi # 0
  BY <1>1, <1>2 DEF IInv, GuestInv, Counted
<1>6. wire[k] \in Frames /\ (wire[k] = "meta" => HasMeta(wire))
  BY <1>1 DEF HasMeta
<1> QED
  BY <1>1, <1>2, <1>3, <1>4, <1>5, <1>6

LEMMA LoseKeeps ==
    ASSUME IInv, Lose
    PROVE  IInv'
<1>1. SignalType' /\ HostType' /\ HostInv'
  <2>1. chan' \in {"none", "open", "closed"}
    BY DEF IInv, HostType, Lose
  <2> QED
    BY <2>1, HostUntouched DEF Lose
<1>2. lost' \in 0 .. MaxLoss
  BY WebRtcAssumption DEF IInv, GuestType, Lose
<1>3. UNCHANGED <<meta, complete, done, pending, fed, esi>>
  BY DEF Lose
<1>4. CASE doneWire > 0 /\ doneWire' = 0 /\ UNCHANGED wire
  <2>1. GuestType'
    BY <1>2, <1>3, <1>4 DEF IInv, GuestType
  <2>2. MetaOnce' /\ Counted' /\ CompleteSound' /\ DoneAfterComplete'
    BY <1>3, <1>4 DEF IInv, GuestInv, MetaOnce, Counted, OneMeta, HasMeta, CompleteSound,
                      DoneAfterComplete
  <2> QED
    BY <1>1, <2>1, <2>2 DEF IInv, GuestInv
<1>5. ASSUME NEW k \in DOMAIN wire, wire' = WithoutFrame(k), UNCHANGED doneWire PROVE IInv'
  <2>1. GuestType'
    BY <1>2, <1>3, <1>5, TakeFrame DEF IInv, GuestType
  <2>2. MetaOnce'
    BY <1>3, <1>5, TakeFrame DEF IInv, GuestInv, MetaOnce
  <2>3. Counted'
    BY <1>3, <1>5, TakeFrame DEF IInv, GuestInv, Counted, Frames
  <2>4. CompleteSound' /\ DoneAfterComplete'
    BY <1>3, <1>5 DEF IInv, GuestInv, CompleteSound, DoneAfterComplete
  <2> QED
    BY <1>1, <2>1, <2>2, <2>3, <2>4 DEF IInv, GuestInv
<1> QED
  BY <1>4, <1>5 DEF Lose

\* #feed keeps the promises of DONE, as long as the decoder does not shrink.
LEMMA FeedKeeps ==
    ASSUME IInv, NEW n \in Nat, Feed(n), complete => n >= Need, meta', done' = done
    PROVE  /\ doneWire' \in 0 .. 1 /\ complete' \in BOOLEAN /\ fed' = n
           /\ CompleteSound' /\ DoneAfterComplete'
<1>1. Need \in Nat /\ doneWire \in 0 .. 1 /\ complete \in BOOLEAN
  BY WebRtcAssumption DEF IInv, GuestType
<1>2. doneWire' \in 0 .. 1 /\ complete' \in BOOLEAN /\ fed' = n
  BY <1>1 DEF Feed
<1>3. CompleteSound'
  BY <1>1 DEF Feed, CompleteSound
<1>4. DoneAfterComplete'
  BY <1>1 DEF Feed, IInv, GuestInv, DoneAfterComplete
<1> QED
  BY <1>2, <1>3, <1>4

\* #handle: the Meta, or a symbol before or after it, or one that is dropped.
LEMMA HandleKeeps ==
    ASSUME IInv, GuestHandles
    PROVE  IInv'
<1>1. SignalType' /\ HostType' /\ HostInv'
  <2>1. chan' \in {"none", "open", "closed"}
    BY DEF IInv, HostType, GuestHandles
  <2> QED
    BY <2>1, HostUntouched DEF GuestHandles
<1>2. PICK k \in Arriving : wire' = WithoutFrame(k) /\ (GuestMeta(k) \/ GuestSymbol(k))
  BY DEF GuestHandles
<1>3. k \in DOMAIN wire
  BY DEF Arriving
<1>4. UNCHANGED <<esi, done>>
  BY DEF GuestHandles
<1> DEFINE TF ==
           /\ wire' \in Seq(Frames) /\ OneMeta(wire')
           /\ HasMeta(wire') <=> (HasMeta(wire) /\ wire[k] = "symbol")
           /\ wire[k] = "meta" => HasMeta(wire)
           /\ Len(wire) \in Nat /\ Len(wire') \in Nat /\ Len(wire') = Len(wire) - 1
           /\ HasMeta(wire') => Len(wire') > 0
           /\ esi \in 0 .. (HardCap + 1) /\ HardCap \in Nat /\ esi # 0
           /\ fed \in Nat /\ pending \in Nat /\ wire[k] \in Frames
<1>5. TF
  BY <1>2, <1>3, <1>4, TakeFrame
<1>6. /\ Len(wire) + fed + pending + (IF HasMeta(wire) THEN 0 ELSE 1) <= esi
      /\ meta \in BOOLEAN /\ done \in BOOLEAN /\ lost \in 0 .. MaxLoss /\ MaxLoss \in Nat
      /\ CompleteSound /\ MetaOnce
  BY <1>5, WebRtcAssumption DEF IInv, GuestInv, Counted, GuestType
<1>7. CASE GuestMeta(k)
  <2>1. /\ wire[k] = "meta" /\ meta' = TRUE /\ pending' = 0 /\ Feed(pending) /\ lost' = lost
    BY <1>7 DEF GuestMeta
  <2>2. HasMeta(wire) /\ ~HasMeta(wire') /\ ~meta /\ fed = 0 /\ ~complete
    BY <1>5, <1>6, <2>1 DEF MetaOnce, CompleteSound
  <2>3. /\ doneWire' \in 0 .. 1 /\ complete' \in BOOLEAN /\ fed' = pending
        /\ CompleteSound' /\ DoneAfterComplete'
    BY <1>4, <1>5, <2>1, <2>2, FeedKeeps
  <2>4. Len(wire') + fed' + pending' + 1 <= esi
    BY <1>5, <1>6, <2>1, <2>2, <2>3
  <2>5. Counted'
    BY <1>4, <2>2, <2>4, <1>5 DEF Counted
  <2>6. GuestType'
    <3>1. pending' \in 0 .. HardCap /\ fed' \in 0 .. HardCap
      BY <1>5, <2>1, <2>3, <2>4
    <3> QED
      BY <1>4, <1>5, <1>6, <2>1, <2>3, <3>1 DEF GuestType
  <2>7. MetaOnce'
    BY <1>4, <1>5, <2>1, <2>2 DEF MetaOnce
  <2> QED
    BY <1>1, <2>3, <2>5, <2>6, <2>7 DEF IInv, GuestInv
<1>8. CASE wire[k] = "symbol" /\ meta /\ Feed(fed + 1) /\ UNCHANGED <<pending, lost, meta>>
  <2>1. HasMeta(wire') <=> HasMeta(wire)
    BY <1>5, <1>8
  <2>2. ~HasMeta(wire) /\ ~HasMeta(wire')
    BY <1>6, <1>8, <2>1 DEF MetaOnce
  <2>3. /\ doneWire' \in 0 .. 1 /\ complete' \in BOOLEAN /\ fed' = fed + 1
        /\ CompleteSound' /\ DoneAfterComplete'
    <3>1. complete => fed + 1 >= Need
      BY <1>5, <1>6, WebRtcAssumption DEF CompleteSound
    <3>2. fed + 1 \in Nat /\ meta' /\ done' = done
      BY <1>4, <1>5, <1>8
    <3> QED
      BY <1>8, <3>1, <3>2, FeedKeeps
  <2>4. Len(wire') + fed' + pending' + 1 <= esi
    BY <1>5, <1>6, <1>8, <2>2, <2>3
  <2>5. Counted'
    BY <1>4, <1>5, <2>2, <2>4 DEF Counted
  <2>6. GuestType'
    <3>1. pending' \in 0 .. HardCap /\ fed' \in 0 .. HardCap
      BY <1>5, <1>8, <2>3, <2>4
    <3> QED
      BY <1>4, <1>5, <1>6, <1>8, <2>3, <3>1 DEF GuestType
  <2>7. MetaOnce'
    BY <1>4, <1>5, <1>6, <1>8, <2>2 DEF MetaOnce
  <2> QED
    BY <1>1, <2>3, <2>5, <2>6, <2>7 DEF IInv, GuestInv
<1>9. CASE /\ wire[k] = "symbol" /\ UNCHANGED <<fed, complete, doneWire, meta>>
           /\ \/ ~meta /\ pending' = pending + 1 /\ lost' = lost
              \/ lost < MaxLoss /\ lost' = lost + 1 /\ pending' = pending
  <2>1. HasMeta(wire') <=> HasMeta(wire)
    BY <1>5, <1>9
  <2>2. /\ Len(wire') + fed' + pending' + (IF HasMeta(wire') THEN 0 ELSE 1) <= esi
        /\ pending' \in Nat /\ fed' \in Nat /\ lost' \in 0 .. MaxLoss
    BY <1>5, <1>6, <1>9, <2>1
  <2>3. Counted'
    BY <1>4, <1>5, <2>2 DEF Counted
  <2>4. GuestType'
    <3>1. pending' \in 0 .. HardCap /\ fed' \in 0 .. HardCap
      BY <1>5, <2>2
    <3>2. doneWire \in 0 .. 1 /\ complete \in BOOLEAN
      BY DEF IInv, GuestType
    <3> QED
      BY <1>4, <1>5, <1>6, <1>9, <2>2, <3>1, <3>2 DEF GuestType
  <2>5. MetaOnce'
    BY <1>4, <1>5, <1>6, <1>9, <2>1 DEF MetaOnce
  <2>6. CompleteSound' /\ DoneAfterComplete'
    BY <1>4, <1>9 DEF IInv, GuestInv, CompleteSound, DoneAfterComplete
  <2> QED
    BY <1>1, <2>3, <2>4, <2>5, <2>6 DEF IInv, GuestInv
<1> HIDE DEF TF
<1> QED
  BY <1>2, <1>7, <1>8, <1>9, Zenon DEF GuestSymbol

LEMMA NextInv == IInv /\ [Next]_vars => IInv'
<1> SUFFICES ASSUME IInv, [Next]_vars PROVE IInv'
  OBVIOUS
<1>1. CASE Host
  BY <1>1, OpenKeeps, StopKeeps, SendsKeep, WaitKeeps, ControlKeeps DEF Host
<1>2. CASE Signal \/ (SignalFaults /\ UNCHANGED sessionVars) \/ \E g \in Guests : Join(g)
  BY <1>2, SignalsKeep, Zenon DEF Signal, Join
<1>3. CASE Drain \/ GuestHandles \/ Lose \/ Close \/ \E g \in Guests : Leave(g)
  BY <1>3, DrainKeeps, HandleKeeps, LoseKeeps, CloseKeeps, LeaveKeeps
<1>4. CASE UNCHANGED vars
  <2>1. UNCHANGED sessionVars /\ SignalType' /\ hpc' = hpc
    BY <1>4 DEF vars, signalVars, IInv, SignalType
  <2> QED
    BY <2>1, SessionUntouched
<1> QED
  BY <1>1, <1>2, <1>3, <1>4, Zenon DEF Next, Fault

LEMMA Invariant == Spec => []IInv
BY InitInv, NextInv, PTL DEF Spec

-----------------------------------------------------------------------------
(* The theorems. *)

\* Every reachable state is well typed: the loop of #sendPayload stops at the
\* cap, and the guest never holds more symbols than were sent (webrtc.js:326).
THEOREM ShareTypeCorrect == Spec => []TypeOK
<1>1. IInv => TypeOK
  BY InvEnough
<1> QED
  BY <1>1, Invariant, PTL

\* A DONE, on its way or received, means that the guest has decoded the
\* payload, whatever was lost or came out of order (webrtc.js:295-301, 474-493).
THEOREM DoneMeansDecoded == Spec => []DoneSound
<1>1. IInv => DoneSound
  BY InvEnough
<1> QED
  BY <1>1, Invariant, PTL

\* sendChunked never lets the channel's buffer grow past the mark (webrtc.js:361-378).
THEOREM BufferWithinMark == Spec => []BufferBounded
<1>1. IInv => BufferBounded
  BY DEF IInv, HostInv
<1> QED
  BY <1>1, Invariant, PTL

\* While the channel is open, with symbols of at most half the mark and a Meta of
\* at most the mark, a waiting host has its event due, or the buffer has still to
\* fall through the threshold (webrtc.js:363-376).
THEOREM WakeupNotLost == Spec => []NoLostWakeup
<1>1. IInv => NoLostWakeup
  BY DEF IInv, HostInv
<1> QED
  BY <1>1, Invariant, PTL
=============================================================================
